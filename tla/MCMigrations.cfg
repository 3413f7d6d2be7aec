SPECIFICATION UpgradeSpec
CONSTANTS
  Rows <- FourRows
  Releases <- ThreeReleases
  MaxCrashes = 3
INVARIANTS  OnlySupersededLost 
CHECK_DEADLOCK FALSE
