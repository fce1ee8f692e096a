---------------------------- MODULE TokenLedger ----------------------------
(***************************************************************************)
(* What asynchronous protocols promise about the completion tokens they    *)
(* are given: while a token is held nobody writes to it, it is given back  *)
(* once with its result, and it comes back as aborted only to a client     *)
(* that has asked for that.                                                *)
(***************************************************************************)
CONSTANTS Tokens, Words

VARIABLES
  held,    \* the tokens the driver holds
  result,  \* the status in each token
  asked    \* the tokens the client has asked to have back

Init ==
  /\ held = {}
  /\ result \in [Tokens -> Words]
  /\ asked = {}

\* The client prepares a token and hands it over, which may be to ask for
\* those that are held.
Submit(t) ==
  /\ t \notin held
  /\ held' = held \cup {t}
  /\ \E word \in Words : result' = [result EXCEPT ![t] = word]
  /\ asked \ {t} \subseteq asked' /\ asked' \subseteq (asked \cup held) \ {t}

\* Some tokens end, the client having asked for that or not.
End(S) ==
  /\ S \subseteq held
  /\ held' = held \ S
  /\ asked \subseteq asked' /\ asked' \subseteq asked \cup held
  /\ \A t \in S : result'[t] \in Words /\ (result'[t] = "Aborted" => t \in asked')
  /\ \A t \in Tokens \ S : result'[t] = result[t]
  /\ DOMAIN result' = Tokens

Next ==
  \/ \E t \in Tokens : Submit(t)
  \/ \E S \in SUBSET Tokens : End(S)

Spec == Init /\ [][Next]_<<held, result, asked>>

=============================================================================
