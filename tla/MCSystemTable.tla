--------------------------- MODULE MCSystemTable ---------------------------
(* A small instance of SystemTable: three GUIDs, two places for the array. *)
EXTENDS SystemTable

CONSTANTS acpi, smbios, mps, here, there

MCGuids == {acpi, smbios, mps}
MCAddresses == {here, there}

=============================================================================
