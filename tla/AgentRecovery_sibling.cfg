CONSTANTS
  chat = chat  rank = rank  video = video  None = None  Foreign = Foreign

  Instances = {chat, rank}
  Workers = {rank}
  Video = {}
  Pids = {p1, p2}
  Ports = {a1, a2}
  TotalMemory = 10
  Headrooms <- MCHeadrooms
  Amounts <- MCAmounts
  ReuseDelay = 1
  Size <- MCSize
  Floor <- MCFloor
  Headroom <- MCHeadroom
  Observations = {3}
  MaxBirths = 2
  MaxCrashes = 1
  StopAllOverlapsLaunch = FALSE
SPECIFICATION Spec
SYMMETRY HostSymmetry
PROPERTIES StopTouchesNoSibling
