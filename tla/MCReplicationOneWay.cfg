CONSTANTS
  Nodes = {n1, n2}
  Dialers = {n1}
  Hashes = {1, 2}
  MaxVersion = 2
SPECIFICATION FairSpec
PROPERTIES
  Converges
