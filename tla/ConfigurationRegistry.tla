----------------------- MODULE ConfigurationRegistry -----------------------
(***************************************************************************)
(* What find_configuration_table promises its caller (system_table.hpp),   *)
(* without tables, spans or indices: the firmware keeps a set of GUIDs     *)
(* that have a configuration table, and a client asks whether a GUID is in *)
(* it.  The answer is exact if no table came or went since the question    *)
(* was asked, and arbitrary otherwise.                                     *)
(***************************************************************************)
CONSTANTS Guids,  \* the GUIDs tables are filed under
          NoGuid  \* no question has been asked

VARIABLES installed,  \* the GUIDs that have a table
          asked,      \* the GUID of the last question
          busy,       \* the question is being answered
          changed,    \* a table came or went since it was asked
          answer      \* "none", "found" or "missing"

vars == <<installed, asked, busy, changed, answer>>

TypeOK ==
  /\ installed \subseteq Guids
  /\ asked \in Guids \cup {NoGuid}
  /\ busy \in BOOLEAN
  /\ changed \in BOOLEAN
  /\ answer \in {"none", "found", "missing"}

Init ==
  /\ installed \subseteq Guids
  /\ asked = NoGuid
  /\ busy = FALSE
  /\ changed = FALSE
  /\ answer = "none"

Install(g) ==
  /\ installed' = installed \cup {g}
  /\ changed' = (asked # NoGuid)
  /\ UNCHANGED <<asked, busy, answer>>

Remove(g) ==
  /\ installed' = installed \ {g}
  /\ changed' = (asked # NoGuid)
  /\ UNCHANGED <<asked, busy, answer>>

Ask(g) ==
  /\ ~busy
  /\ asked' = g
  /\ busy' = TRUE
  /\ changed' = FALSE
  /\ answer' = "none"
  /\ UNCHANGED installed

Answer ==
  /\ busy
  /\ busy' = FALSE
  /\ answer' \in {"found", "missing"}
  /\ ~changed => (answer' = "found" <=> asked \in installed)
  /\ UNCHANGED <<installed, asked, changed>>

\* The client turns to another method; the last answer is no longer kept.
Forget ==
  /\ ~busy
  /\ asked' = NoGuid
  /\ changed' = FALSE
  /\ answer' = "none"
  /\ UNCHANGED <<installed, busy>>

Next ==
  \/ \E g \in Guids : Install(g) \/ Remove(g) \/ Ask(g)
  \/ Answer
  \/ Forget

Spec == Init /\ [][Next]_vars

=============================================================================
