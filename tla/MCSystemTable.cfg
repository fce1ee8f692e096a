CONSTANTS
  status_error_flag = 128
  acpi = acpi
  smbios = smbios
  mps = mps
  here = here
  there = there
  nullptr = nullptr
  Guids <- MCGuids
  Addresses <- MCAddresses
  MaxTables = 2
SPECIFICATION FairSpec
INVARIANTS
  TypeOK
  FindExact
  GuardedFindExact
  ReadsInBounds
  GetResolves
  SpanWhole
PROPERTIES
  CallsReturn
  RegistrySpec
CHECK_DEADLOCK TRUE
