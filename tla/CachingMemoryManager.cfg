CONSTANTS
  kMinBlockSize = 2
  kSmallSize = 4
  kSmallBuffer = 8
  kLargeBuffer = 16
  kMinLargeAlloc = 10
  kRoundLarge = 8
  Requests = {0, 1, 3, 6, 10}
  NativeBases = {8, 16, 24}
  DeviceEnd = 32
  RecyclingSizeLimits = {12, 100}
  SplitSizeLimits = {100}
  UserPtrs = {40}
  SizeMod = 1024
  MaxLive = 3
SPECIFICATION Spec
INVARIANTS BlocksDisjoint  BytesAccounted OutOfMemoryIsReal
PROPERTIES ImplementsDeviceMemory
