---------------------------- MODULE MCServices -----------------------------
(***************************************************************************)
(* Small instances of four parts that share no state and no call: the      *)
(* protocol and image services, the runtime services, files and device     *)
(* paths.  Each behaviour is one of the part drawn at its beginning; their *)
(* product would show nothing more.                                        *)
(***************************************************************************)
EXTENDS Protocols, RuntimeServices, FileProtocol, DevicePath, TLC

CONSTANTS disk_handle, net_handle, application, driver, other_driver,
          boot_order, console, timeout, this, that

VARIABLE subject

MCHandles == {disk_handle, net_handle}
MCImages == {application, driver, other_driver}
MCDrivers == {driver, other_driver}
MCNames == {boot_order, console, timeout}
MCFileHandles == {this, that}

\* A deletion, a variable of the boot services that a reset loses, one the
\* operating system can read and write, and an addition to it.
MCWritten ==
  LET os == {"NonVolatile", "BootServiceAccess", "RuntimeAccess"} IN
  {{}, {"BootServiceAccess"}, os, os \cup {"AppendWrite"}}

MCSymmetry ==
  Permutations(MCDrivers) \cup Permutations(MCNames)

vars == <<subject, protocol_vars, runtime_vars, file_vars, path_vars>>

Init ==
  /\ subject \in {"protocols", "runtime", "files", "paths"}
  /\ ProtocolsInit
  /\ RuntimeInit
  /\ FileInit
  /\ IF subject = "paths" THEN PathInit ELSE path = <<End>> /\ at = 0

ProtocolServices ==
  /\ subject = "protocols" /\ ProtocolsNext
  /\ UNCHANGED <<subject, runtime_vars, file_vars, path_vars>>

Runtime ==
  /\ subject = "runtime" /\ RuntimeNext
  /\ UNCHANGED <<subject, protocol_vars, file_vars, path_vars>>

Files ==
  /\ subject = "files" /\ FileNext
  /\ UNCHANGED <<subject, protocol_vars, runtime_vars, path_vars>>

Paths ==
  /\ subject = "paths" /\ PathNext
  /\ UNCHANGED <<subject, protocol_vars, runtime_vars, file_vars>>

Next == ProtocolServices \/ Runtime \/ Files \/ Paths

Spec == Init /\ [][Next]_vars

\* All variables of the four parts have their types; an image that has ended is not on
\* the stack, a variable that is deleted not in the enumeration.
ServicesTypeOK == ProtocolsTypeOK /\ RuntimeTypeOK /\ FileTypeOK

=============================================================================
