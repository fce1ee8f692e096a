------------------------------- MODULE Status -------------------------------
(***************************************************************************)
(* The status words of core.hpp: how the enumerators of `enum class        *)
(* Status` are computed, and the two tests the library offers on a word.   *)
(*                                                                         *)
(* A word has the 64 bits of uintn_t.  Only its top bit is ever looked at, *)
(* so the model keeps that bit's weight as a parameter: 2^63 in the code,  *)
(* any number above the largest error number here.                         *)
(***************************************************************************)
EXTENDS Integers

CONSTANT status_error_flag  \* the weight of the top bit of uintn_t

ASSUME ErrorFlagAssumption ==
  /\ status_error_flag \in Nat
  /\ status_error_flag > 35

\* Every value a word can hold.
Word == 0 .. (2 * status_error_flag - 1)

Success == 0

\* word & status_error_flag
ErrorBit(word) == IF word >= status_error_flag THEN status_error_flag ELSE 0

status_error_code_(code) == ErrorBit(code)

status_warning_code_(code) == code

\* The numbers the enumerators are built from, in the order of the enum.
WarningNumber ==
  [WarnUnknownGlyph   |-> 1, WarnDeleteFailure |-> 2, WarnWriteFailure |-> 3,
   WarnBufferTooSmall |-> 4, WarnStaleData     |-> 5, WarnFileSystem   |-> 6,
   WarnResetRequired  |-> 7]

ErrorNumber ==
  [LoadError         |-> 1,  InvalidParameter    |-> 2,  Unsupported       |-> 3,
   BadBufferSize     |-> 4,  BufferTooSmall      |-> 5,  NotReady          |-> 6,
   DeviceError       |-> 7,  WriteProtected      |-> 8,  OutOfResources    |-> 9,
   VolumeCorrupted   |-> 10, VolumeFull          |-> 11, NoMedia           |-> 12,
   MediaChanged      |-> 13, NotFound            |-> 14, AccessDenied      |-> 15,
   NoResponse        |-> 16, NoMapping           |-> 17, Timeout           |-> 18,
   NotStarted        |-> 19, AlreadyStarted      |-> 20, Aborted           |-> 21,
   ICMPError         |-> 22, TFTPError           |-> 23, ProtocolError     |-> 24,
   IncompatibleVersion |-> 25, SecurityViolation |-> 26, CrcError          |-> 27,
   EndOfMedia        |-> 28, EndOfFile           |-> 31, InvalidLanguage   |-> 32,
   CompromisedData   |-> 33, IPAddressConflict   |-> 34, HTTPError         |-> 35]

\* The word of the error enumerator with this name, Status::<name> in C++.
ErrorStatus(name) == status_error_code_(ErrorNumber[name])

\* The word of the warning enumerator with this name.
WarningStatus(name) == status_warning_code_(WarningNumber[name])

\* The word the firmware returns for the same error: number and top bit.
FirmwareError(name) == status_error_flag + ErrorNumber[name]

\* operator!(status)
Not(status) == status # Success

status_is_error(status) == ErrorBit(status) > 0

=============================================================================
