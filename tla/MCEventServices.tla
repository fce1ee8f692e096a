-------------------------- MODULE MCEventServices --------------------------
(* A small instance of EventServices: two events of every useful type.     *)
EXTENDS EventServices, TLC

CONSTANTS first, second

MCEvents == {first, second}

\* Every set of flags, the one create_event refuses included.
MCEventTypes == SUBSET Flags

\* A timer with a notification is what starvation needs; the others wait.
MCLiveTypes == {{"NotifyWait"}, {"Timer", "NotifySignal"}}

MCSymmetry == Permutations(MCEvents)

=============================================================================
