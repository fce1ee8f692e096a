CONSTANTS
  disk_handle = disk_handle
  net_handle = net_handle
  application = application
  driver = driver
  other_driver = other_driver
  boot_order = boot_order
  console = console
  timeout = timeout
  this = this
  that = that
  Handles <- MCHandles
  Images <- MCImages
  Drivers <- MCDrivers
  no_controller = no_controller
  Names <- MCNames
  Written <- MCWritten
  MaxLength = 2
  Times = {noon}
  nullptr = nullptr
  start = start
  done = done
  FileNames = {loader}
  FileHandles <- MCFileHandles
  Bytes = {x}
  VolumeSize = 2
  absent = absent
  closed = closed
  MaxNodes = 2
  Extras = {0, 3}
  Shadowed = {"BMC"}
SPECIFICATION Spec
SYMMETRY MCSymmetry
INVARIANTS
  ServicesTypeOK
  ExclusiveAlone
  OpensAsHeld
  SweepLeavesNone
  WritesKept
  EnumerationExact
  ClosedSurvives
  ReadsInNode
CHECK_DEADLOCK FALSE
