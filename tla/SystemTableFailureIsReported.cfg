CONSTANTS
  status_error_flag = 128
  acpi = acpi
  smbios = smbios
  mps = mps
  here = here
  there = there
  nullptr = nullptr
  Guids <- MCGuids
  Addresses <- MCAddresses
  MaxTables = 3
SPECIFICATION Spec
INVARIANT FailureIsReported
