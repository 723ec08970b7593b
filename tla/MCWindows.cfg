SPECIFICATION Spec
CONSTANTS
  Width = 640
  Height = 480
  Points <- MCPoints
  Apps = {"imgview", "wavplay"}
  MaxClicks = 3
INVARIANTS WindowsSafe CycleReachesAll
