SPECIFICATION Spec
CONSTANTS
  UserNames = {1}
  StageName <- MCStageName
  Hashes = {1, 2}
  Tasks = {t1}
  TaskHashes = {1}
  MaxVersion = 2
INVARIANTS
  TypeOK
  StoredIsReadable
  OrphansQueued
PROPERTIES
  IndexAdvances
