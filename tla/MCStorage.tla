------------------------------ MODULE MCStorage -------------------------------
\* One user file and one staging name over two contents, one task.
EXTENDS Storage, TLC

MCStageName == 1 :> 11
=============================================================================
