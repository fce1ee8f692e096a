----------------------------- MODULE SizedRead -----------------------------
(***************************************************************************)
(* What a read by a size promises, as get_memory_map has it: a reader      *)
(* provides a buffer, a changing source is copied into it whole or not at  *)
(* all.  The copy is therefore one the source had at the moment of the     *)
(* read, and nothing is ever written beyond the buffer.                    *)
(***************************************************************************)
EXTENDS Naturals

CONSTANTS Contents,   \* what the source can hold
          Size(_),    \* the room each takes
          none        \* no copy

VARIABLES source, capacity, copy

Init ==
  /\ source \in Contents
  /\ capacity = 0
  /\ copy = none

Change ==
  /\ source' \in Contents
  /\ UNCHANGED <<capacity, copy>>

\* A new buffer; providing it may itself change the source.
Provide ==
  /\ capacity' \in Nat
  /\ copy' = none
  /\ source' \in Contents

Read ==
  /\ Size(source) <= capacity
  /\ copy' = source
  /\ UNCHANGED <<source, capacity>>

Next == Change \/ Provide \/ Read

Spec == Init /\ [][Next]_<<source, capacity, copy>>

=============================================================================
