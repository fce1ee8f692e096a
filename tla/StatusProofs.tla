---------------------------- MODULE StatusProofs ----------------------------
(***************************************************************************)
(* Proofs about the status words, for every width of a word.               *)
(***************************************************************************)
EXTENDS Status, TLAPS

\* The numbers of the error enumerators fit below the error flag.
LEMMA ErrorNumbers == \A name \in DOMAIN ErrorNumber : ErrorNumber[name] \in 1 .. 35
  BY DEF ErrorNumber

\* `code & status_error_flag` leaves nothing of any of the numbers, so every
\* error enumerator of `enum class Status` equals Status::Success (core.hpp).
THEOREM ErrorsEqualSuccess ==
  \A name \in DOMAIN ErrorNumber : ErrorStatus(name) = Success
<1> SUFFICES ASSUME NEW name \in DOMAIN ErrorNumber
             PROVE  ErrorStatus(name) = Success
  OBVIOUS
<1>1. ErrorNumber[name] \in Int /\ ~(ErrorNumber[name] >= status_error_flag)
  BY ErrorNumbers, ErrorFlagAssumption
<1> QED BY <1>1 DEF ErrorStatus, status_error_code_, ErrorBit, Success

\* status_is_error and operator! answer wrongly on the library's own errors
\* and rightly on every error word the firmware returns (core.hpp).
THEOREM ErrorTests ==
  \A name \in DOMAIN ErrorNumber :
    /\ ~status_is_error(ErrorStatus(name)) /\ ~Not(ErrorStatus(name))
    /\ status_is_error(FirmwareError(name)) /\ Not(FirmwareError(name))
<1> SUFFICES ASSUME NEW name \in DOMAIN ErrorNumber
             PROVE  /\ ~status_is_error(ErrorStatus(name)) /\ ~Not(ErrorStatus(name))
                    /\ status_is_error(FirmwareError(name)) /\ Not(FirmwareError(name))
  OBVIOUS
<1>1. ErrorStatus(name) = 0
  BY ErrorsEqualSuccess DEF Success
<1>2. FirmwareError(name) >= status_error_flag
  BY ErrorNumbers, ErrorFlagAssumption DEF FirmwareError
<1>3. status_error_flag > 0
  BY ErrorFlagAssumption
<1>4. ~status_is_error(0) /\ ~Not(0)
  BY ErrorFlagAssumption DEF status_is_error, ErrorBit, Not, Success
<1>5. FirmwareError(name) \in Int
  BY ErrorNumbers, ErrorFlagAssumption DEF FirmwareError
<1>6. status_is_error(FirmwareError(name)) /\ Not(FirmwareError(name))
  BY <1>2, <1>3, <1>5, ErrorFlagAssumption DEF status_is_error, ErrorBit, Not, Success
<1> QED BY <1>1, <1>4, <1>6

\* A comparison with an enumerator, as in `status == Status::NotReady`, never
\* recognizes an error word of the firmware (core.hpp).
THEOREM EnumeratorsMatchNothing ==
  \A name, other \in DOMAIN ErrorNumber : ErrorStatus(name) # FirmwareError(other)
<1> SUFFICES ASSUME NEW name \in DOMAIN ErrorNumber, NEW other \in DOMAIN ErrorNumber
             PROVE  ErrorStatus(name) # FirmwareError(other)
  OBVIOUS
<1>1. ErrorStatus(name) = Success
  BY ErrorsEqualSuccess
<1>2. Not(FirmwareError(other))
  BY ErrorTests
<1> QED BY <1>1, <1>2 DEF Not

\* Every word this program handles has its place among the 64 bits.
LEMMA Words ==
  /\ Success \in Word
  /\ \A name \in DOMAIN ErrorNumber : FirmwareError(name) \in Word
<1>1. Success \in Word
  BY ErrorFlagAssumption DEF Success, Word
<1>2. ASSUME NEW name \in DOMAIN ErrorNumber PROVE FirmwareError(name) \in Word
  BY ErrorNumbers, ErrorFlagAssumption DEF FirmwareError, Word
<1> QED BY <1>1, <1>2

=============================================================================
