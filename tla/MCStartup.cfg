\* Every small configuration, well formed or not.
CONSTANTS
  Malformed = malformed
  Configs <- MCConfigs
  Width = 2
SPECIFICATION StartupSpec
INVARIANTS
  RejectsTheRightOnes
  BuiltAsWritten
PROPERTIES
  StartupEnds
\* Startup ends; what follows is the World's.
CHECK_DEADLOCK FALSE
