CONSTANTS
  b1 = b1
  b2 = b2
  rustkube = rustkube
  fastetcd = fastetcd
  kubelet = kubelet
  proxy = proxy
  pause = pause
  Torn = Torn
  Builds = {b1, b2}
  Agents = {rustkube}
  BinariesOf <- TwoBinaries
  Images = {fastetcd}
  Kept = {pause}
  Released <- AgentReleased
  MaxVersion <- OneRelease
  MaxMishaps = 0
SPECIFICATION Spec
CHECK_DEADLOCK FALSE
INVARIANT LocalDiskFound
