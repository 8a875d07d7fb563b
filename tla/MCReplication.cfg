CONSTANTS
  Nodes = {n1, n2}
  Dialers = {n1, n2}
  Hashes = {1, 2}
  MaxVersion = 2
SPECIFICATION FairSpec
INVARIANTS
  TypeOK
  SameWinner
PROPERTIES
  
  ImplementsRegister
