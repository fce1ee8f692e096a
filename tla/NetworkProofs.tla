--------------------------- MODULE NetworkProofs ---------------------------
(***************************************************************************)
(* Proofs about Network, for any tokens, groups, routes, buffers and queue *)
(* size.  A step of a protocol with tokens is one of four kinds, and each  *)
(* kind keeps the invariant and is a step of the ledger; the same is shown *)
(* of each protocol's steps once, in a lemma of its own.                   *)
(***************************************************************************)
EXTENDS Network, FiniteSetTheorems, TLAPS

TokenTypes ==
  /\ held \in [Tokens -> Purposes \cup {"none"}]
  /\ wanted \in [Tokens -> Purposes \cup {"none"}]
  /\ status \in [Tokens -> Words]

\* A token the driver holds is one the client waits for, and so is a signal.
Awaited == \A t \in Tokens : held[t] # "none" \/ t \in signaled => wanted[t] # "none"

\* The client knows the firmware's word, which is not that of the library.
KnowsWord == NotReadyStatus = FirmwareError("NotReady")

TokensInv == TokenTypes /\ (KnowsWord => Awaited /\ EndSeen)

Members == groups = joined /\ routes = routed

\* The four kinds of steps.
EndStep ==
  \E S \in SUBSET Pending, word \in [Tokens -> Words \ {"NotReady"}] :
    /\ End(S, word)
    /\ asked \subseteq asked' /\ asked' \subseteq asked \cup Pending
    /\ \A t \in S : word[t] = "Aborted" => t \in asked'

TakeStep ==
  \E t \in Tokens, service \in Purposes, purpose \in Purposes :
    /\ held[t] = "none" /\ wanted[t] = "none"
    /\ held' = [held EXCEPT ![t] = service]
    /\ wanted' = [wanted EXCEPT ![t] = purpose]
    /\ signaled' = signaled
    /\ asked \ {t} \subseteq asked' /\ asked' \subseteq (asked \cup Pending) \ {t}
    /\ \/ t \in events /\ UNCHANGED <<status, filled>>
       \/ /\ \E word \in {"Success", "NotReady"} : status' = [status EXCEPT ![t] = word]
          /\ filled' = filled \ {t}

CollectStep == \E t \in Tokens : Collect(t)

TokenStep == EndStep \/ TakeStep \/ CollectStep \/ UNCHANGED tokens

-----------------------------------------------------------------------------
(* Each kind of step keeps the invariant and is a step of the ledger.      *)

\* A client that knows the word tells an end by the status.
LEMMA WordsToldApart ==
  ASSUME KnowsWord, NEW word \in Words
  PROVE  StatusWord(word) \in {Success, NotReadyStatus} <=> word \in {"Success", "NotReady"}
BY ErrorFlagAssumption DEF KnowsWord, Words, StatusWord, Success, FirmwareError, ErrorNumber

LedgerStep == [Ledger!Next]_<<Pending, status, asked>>

LEMMA EndKeeps == ASSUME TokensInv, UNCHANGED events, EndStep PROVE TokensInv' /\ LedgerStep
<1>1. PICK S \in SUBSET Pending, word \in [Tokens -> Words \ {"NotReady"}] :
        /\ End(S, word)
        /\ asked \subseteq asked' /\ asked' \subseteq asked \cup Pending
        /\ \A t \in S : word[t] = "Aborted" => t \in asked'
  BY DEF EndStep
<1>2. /\ held' = [t \in Tokens |-> IF t \in S THEN "none" ELSE held[t]]
      /\ status' = [t \in Tokens |-> IF t \in S THEN word[t] ELSE status[t]]
      /\ filled' = filled \cup {t \in S \ events : word[t] = "Success"}
      /\ signaled' = signaled \cup (S \cap events)
      /\ wanted' = wanted
  BY <1>1 DEF End
<1>3. S \subseteq Tokens /\ \A t \in S : held[t] # "none"
  BY DEF Pending
<1>4. TokenTypes'
  BY <1>2, <1>3 DEF TokensInv, TokenTypes
<1>5. KnowsWord => Awaited'
  BY <1>2, <1>3 DEF TokensInv, Awaited
<1>6. ASSUME KnowsWord, NEW t \in Tokens, wanted'[t] # "none"
      PROVE  Noticed(t)' <=> t \notin Pending'
  <2>1. CASE t \in S
    <3>1. t \notin Pending'
      BY <1>2, <2>1 DEF Pending
    <3>2. word[t] \in Words /\ word[t] # "NotReady" /\ status'[t] = word[t]
      BY <1>2, <1>3, <2>1
    <3>3. Noticed(t)'
      BY <1>2, <1>3, <1>6, <2>1, <3>2, WordsToldApart DEF Noticed
    <3> QED BY <3>1, <3>3
  <2>2. CASE t \notin S
    <3>1. (t \in Pending') <=> (t \in Pending)
      BY <1>2, <2>2 DEF Pending
    <3>2. Noticed(t)' <=> Noticed(t)
      BY <1>2, <2>2 DEF Noticed
    <3> QED BY <1>2, <1>6, <3>1, <3>2 DEF TokensInv, EndSeen
  <2> QED BY <2>1, <2>2
<1>7. KnowsWord => EndSeen'
  BY <1>6 DEF EndSeen
<1>8. Pending' = Pending \ S
  BY <1>2, <1>3 DEF Pending
<1>9. Ledger!End(S)
  BY <1>1, <1>2, <1>3, <1>8 DEF Ledger!End
<1> QED BY <1>3, <1>4, <1>5, <1>7, <1>9 DEF TokensInv, LedgerStep, Ledger!Next

LEMMA TakeKeeps == ASSUME TokensInv, UNCHANGED events, TakeStep PROVE TokensInv' /\ LedgerStep
<1>1. PICK t \in Tokens, service \in Purposes, purpose \in Purposes :
        /\ held[t] = "none" /\ wanted[t] = "none"
        /\ held' = [held EXCEPT ![t] = service]
        /\ wanted' = [wanted EXCEPT ![t] = purpose]
        /\ signaled' = signaled
        /\ asked \ {t} \subseteq asked' /\ asked' \subseteq (asked \cup Pending) \ {t}
        /\ \/ t \in events /\ UNCHANGED <<status, filled>>
           \/ /\ \E word \in {"Success", "NotReady"} : status' = [status EXCEPT ![t] = word]
              /\ filled' = filled \ {t}
  BY DEF TakeStep
<1>2. service # "none" /\ purpose # "none"
  BY DEF Purposes
<1>3. PICK word \in Words :
        /\ status' = [status EXCEPT ![t] = word]
        /\ t \in events \/ (word \in {"Success", "NotReady"} /\ t \notin filled')
        /\ filled \ {t} \subseteq filled' /\ filled' \subseteq filled
  <2>1. CASE t \in events /\ UNCHANGED <<status, filled>>
    <3>1. status[t] \in Words /\ status' = [status EXCEPT ![t] = status[t]]
      BY <2>1 DEF TokensInv, TokenTypes
    <3> QED BY <2>1, <3>1
  <2>2. CASE /\ \E word \in {"Success", "NotReady"} : status' = [status EXCEPT ![t] = word]
             /\ filled' = filled \ {t}
    BY <2>2 DEF Words
  <2> QED BY <1>1, <2>1, <2>2
<1>4. TokenTypes'
  BY <1>1, <1>3 DEF TokensInv, TokenTypes
<1>5. KnowsWord => Awaited'
  BY <1>1, <1>2 DEF TokensInv, TokenTypes, Awaited
<1>6. KnowsWord => t \notin signaled
  BY <1>1 DEF TokensInv, Awaited
<1>7. ASSUME KnowsWord, NEW u \in Tokens, wanted'[u] # "none"
      PROVE  Noticed(u)' <=> u \notin Pending'
  <2>1. CASE u = t
    <3>1. t \in Pending'
      BY <1>1, <1>2 DEF Pending, TokensInv, TokenTypes
    <3>2. status'[t] = word
      BY <1>3 DEF TokensInv, TokenTypes
    <3>3. ~Noticed(t)'
      BY <1>1, <1>3, <1>6, <1>7, <3>2, WordsToldApart DEF Noticed
    <3> QED BY <2>1, <3>1, <3>3
  <2>2. CASE u # t
    <3>1. (u \in Pending') <=> (u \in Pending)
      BY <1>1, <2>2 DEF Pending, TokensInv, TokenTypes
    <3>2. Noticed(u)' <=> Noticed(u)
      BY <1>1, <1>3, <2>2 DEF Noticed, TokensInv, TokenTypes
    <3>3. wanted[u] # "none"
      BY <1>1, <1>7, <2>2 DEF TokensInv, TokenTypes
    <3> QED BY <1>7, <3>1, <3>2, <3>3 DEF TokensInv, EndSeen
  <2> QED BY <2>1, <2>2
<1>8. KnowsWord => EndSeen'
  BY <1>7 DEF EndSeen
<1>9. Pending' = Pending \cup {t}
  BY <1>1, <1>2 DEF Pending, TokensInv, TokenTypes
<1>10. Ledger!Submit(t)
  BY <1>1, <1>3, <1>9 DEF Ledger!Submit, Pending
<1> QED BY <1>4, <1>5, <1>8, <1>10 DEF TokensInv, LedgerStep, Ledger!Next

LEMMA CollectKeeps ==
  ASSUME TokensInv, UNCHANGED events, CollectStep PROVE TokensInv' /\ LedgerStep
<1>1. PICK t \in Tokens : Collect(t)
  BY DEF CollectStep
<1>2. /\ wanted[t] # "none" /\ Noticed(t)
      /\ wanted' = [wanted EXCEPT ![t] = "none"]
      /\ signaled' = signaled \ {t}
      /\ UNCHANGED <<held, status, filled, asked>>
  BY <1>1 DEF Collect
<1>3. KnowsWord => held[t] = "none"
  BY <1>2 DEF TokensInv, EndSeen, Pending
<1>4. TokenTypes' /\ (KnowsWord => Awaited')
  BY <1>2, <1>3 DEF TokensInv, TokenTypes, Awaited
<1>5. \A u \in Tokens \ {t} : Noticed(u)' <=> Noticed(u)
  BY <1>2 DEF Noticed
<1>6. KnowsWord => EndSeen'
  BY <1>2, <1>5 DEF TokensInv, TokenTypes, EndSeen, Pending
<1> QED BY <1>2, <1>4, <1>6 DEF TokensInv, LedgerStep, Pending

\* Whatever kind of step it is.
LEMMA StepKeeps == ASSUME TokensInv, UNCHANGED events, TokenStep PROVE TokensInv' /\ LedgerStep
<1>1. CASE UNCHANGED tokens
  BY <1>1 DEF tokens, TokensInv, TokenTypes, Awaited, EndSeen, Noticed, Pending, LedgerStep
<1> QED BY <1>1, EndKeeps, TakeKeeps, CollectKeeps DEF TokenStep

-----------------------------------------------------------------------------
(* What the protocols' actions are made of, as those kinds of steps.       *)

\* The client of each protocol looks at a token in the same way.
LEMMA SameCollect ==
  \A t \in Tokens : /\ Ip4!Collect(t) <=> Collect(t)
                    /\ Mnp!Collect(t) <=> Collect(t)
                    /\ Tcp4!Collect(t) <=> Collect(t)
                    /\ Dns4!Collect(t) <=> Collect(t)
<1>1. /\ Ip4!ErrorNumber = ErrorNumber /\ Mnp!ErrorNumber = ErrorNumber
      /\ Tcp4!ErrorNumber = ErrorNumber /\ Dns4!ErrorNumber = ErrorNumber
  BY DEF Ip4!ErrorNumber, Mnp!ErrorNumber, Tcp4!ErrorNumber, Dns4!ErrorNumber, ErrorNumber
<1>2. \A name : /\ Ip4!StatusWord(name) = StatusWord(name)
                /\ Mnp!StatusWord(name) = StatusWord(name)
                /\ Tcp4!StatusWord(name) = StatusWord(name)
                /\ Dns4!StatusWord(name) = StatusWord(name)
  BY <1>1 DEF Ip4!StatusWord, Mnp!StatusWord, Tcp4!StatusWord, Dns4!StatusWord, StatusWord,
              Ip4!FirmwareError, Mnp!FirmwareError, Tcp4!FirmwareError, Dns4!FirmwareError,
              FirmwareError, Ip4!Success, Mnp!Success, Tcp4!Success, Dns4!Success, Success
<1>3. \A t : /\ Ip4!Noticed(t) <=> Noticed(t)
             /\ Mnp!Noticed(t) <=> Noticed(t)
             /\ Tcp4!Noticed(t) <=> Noticed(t)
             /\ Dns4!Noticed(t) <=> Noticed(t)
  BY <1>2 DEF Ip4!Noticed, Mnp!Noticed, Tcp4!Noticed, Dns4!Noticed, Noticed,
              Ip4!Success, Mnp!Success, Tcp4!Success, Dns4!Success, Success
<1> QED BY <1>3 DEF Ip4!Collect, Mnp!Collect, Tcp4!Collect, Dns4!Collect, Collect,
                    Ip4!ledgers, Mnp!ledgers, Tcp4!ledgers, Dns4!ledgers, ledgers

LEMMA EndsIsEnd ==
  ASSUME NEW S \in SUBSET Pending, NEW word \in Words \ {"NotReady", "Aborted"},
         End(S, All(word)), UNCHANGED asked
  PROVE  EndStep
<1>1. All(word) \in [Tokens -> Words \ {"NotReady"}] /\ \A t \in S : All(word)[t] = word
  BY DEF All, Pending
<1> QED BY <1>1 DEF EndStep

LEMMA AbortIsEnd == ASSUME NEW S \in SUBSET Pending, Abort(S) PROVE EndStep
<1>1. All("Aborted") \in [Tokens -> Words \ {"NotReady"}]
  BY DEF All, Words
<1>2. End(S, All("Aborted")) /\ asked' = asked \cup S
  BY DEF Abort
<1> QED BY <1>1, <1>2 DEF EndStep

LEMMA SubmitIsTake ==
  ASSUME NEW t \in Tokens, NEW purpose \in Purposes, NEW service \in Purposes,
         Submit(t, purpose, service)
  PROVE  TakeStep
BY DEF Submit, Take, TakeStep

LEMMA CancelIsEnd == ASSUME NEW token, Cancel(token) PROVE EndStep
BY AbortIsEnd DEF Cancel

LEMMA UnconfigureIsEnd == ASSUME Unconfigure PROVE EndStep /\ Members'
BY AbortIsEnd DEF Unconfigure, Members

-----------------------------------------------------------------------------
(* IPv4.                                                                   *)

LEMMA Ipv4InPlace ==
  Ip4!Ipv4Service("transmit_") = "Transmit" /\ Ip4!Ipv4Service("receive_") = "Receive"
<1>1. \A i \in DOMAIN Ip4!Ipv4Fields :
        /\ Ip4!Ipv4Fields[i] = "transmit_" <=> i = 5
        /\ Ip4!Ipv4Fields[i] = "receive_" <=> i = 6
  BY DEF Ip4!Ipv4Fields
<1>2. 5 \in DOMAIN Ip4!Ipv4Fields /\ 6 \in DOMAIN Ip4!Ipv4Fields
  BY DEF Ip4!Ipv4Fields
<1>3. /\ (CHOOSE i \in DOMAIN Ip4!Ipv4Fields : Ip4!Ipv4Fields[i] = "transmit_") = 5
      /\ (CHOOSE i \in DOMAIN Ip4!Ipv4Fields : Ip4!Ipv4Fields[i] = "receive_") = 6
  BY <1>1, <1>2
<1>4. Ip4!Ipv4Services[5] = "Transmit" /\ Ip4!Ipv4Services[6] = "Receive"
  BY DEF Ip4!Ipv4Services
<1> QED BY <1>3, <1>4 DEF Ip4!Ipv4Service, Ip4!Behind

\* The driver ends one token.
LEMMA Ipv4EndsStep ==
  ASSUME NEW t \in Tokens, Ip4!Ipv4Ends(t)
  PROVE  EndStep /\ UNCHANGED <<ledgers, events>>
<1>1. PICK word \in {"Success", "Timeout"} : Ip4!End({t}, Ip4!All(word))
  BY DEF Ip4!Ipv4Ends
<1>2. {t} \in SUBSET Pending /\ word \in Words \ {"NotReady", "Aborted"}
  BY DEF Ip4!Ipv4Ends, Pending, Words
<1>3. End({t}, All(word)) /\ UNCHANGED <<asked, ledgers, events>>
  BY <1>1 DEF Ip4!Ipv4Ends, Ip4!End, Ip4!All, End, All, Ip4!ledgers, ledgers
<1> QED BY <1>2, <1>3, EndsIsEnd

LEMMA Ipv4Step ==
  ASSUME Members, Ip4!Ipv4Next PROVE TokenStep /\ UNCHANGED events /\ Members'
<1> USE DEF TokenStep
<1>1. CASE Ip4!configure
  BY <1>1 DEF Ip4!configure, Ip4!ledgers, Ip4!tokens, tokens, Members
<1>2. CASE Ip4!reset
  <2>1. Unconfigure /\ UNCHANGED events
    BY <1>2 DEF Ip4!reset, Ip4!Unconfigure, Unconfigure, Ip4!Abort, Abort, Ip4!End, End,
                Ip4!All, All, Ip4!Pending, Pending
  <2> QED BY <2>1, UnconfigureIsEnd
<1>3. CASE Ip4!leave_all_groups \/ \E group \in Groups : Ip4!join_group(group) \/ Ip4!leave_group(group)
  <2>1. UNCHANGED <<tokens, events>>
    BY <1>3 DEF Ip4!leave_all_groups, Ip4!join_group, Ip4!leave_group, Ip4!groups_,
                Ip4!tokens, tokens
  <2>2. Members'
    BY <1>3, TokensAssumption
       DEF Ip4!leave_all_groups, Ip4!join_group, Ip4!leave_group, Ip4!groups_, Ip4!Joins,
           Ip4!GroupsService, Members
  <2> QED BY <2>1, <2>2
<1>4. CASE \E route \in Routes : Ip4!add_route(route) \/ Ip4!delete_route(route)
  BY <1>4 DEF Ip4!add_route, Ip4!delete_route, Ip4!routes_, Ip4!RoutesService, Ip4!tokens,
              tokens, Members
<1>5. ASSUME NEW t \in Tokens, Ip4!transmit(t) \/ Ip4!recieve(t)
      PROVE  TokenStep /\ UNCHANGED events /\ Members'
  <2>1. UNCHANGED <<ledgers, events>>
    BY <1>5 DEF Ip4!transmit, Ip4!recieve, Ip4!ledgers, ledgers
  <2>2. Submit(t, "Transmit", "Transmit") \/ Submit(t, "Receive", "Receive")
    BY <1>5, Ipv4InPlace DEF Ip4!transmit, Ip4!recieve, Ip4!Submit, Submit, Ip4!Take, Take
  <2> QED BY <2>1, <2>2, SubmitIsTake DEF Purposes, Members, ledgers
<1>6. ASSUME NEW t \in Tokens, Ip4!Collect(t)
      PROVE  TokenStep /\ UNCHANGED events /\ Members'
  <2>1. Collect(t)
    BY <1>6, SameCollect
  <2> QED BY <2>1 DEF CollectStep, Collect, Members, ledgers
<1>7. ASSUME NEW t \in Tokens, Ip4!Ipv4Ends(t)
      PROVE  TokenStep /\ UNCHANGED events /\ Members'
  BY <1>7, Ipv4EndsStep DEF Members, ledgers
<1>8. ASSUME NEW token, Ip4!cancel(token)
      PROVE  TokenStep /\ UNCHANGED events /\ Members'
  <2>1. Cancel(token) /\ UNCHANGED <<ledgers, events>>
    BY <1>8 DEF Ip4!cancel, Ip4!Cancel, Cancel, Ip4!Abort, Abort, Ip4!End, End, Ip4!All, All,
                Ip4!Pending, Pending, Ip4!ledgers, ledgers
  <2> QED BY <2>1, CancelIsEnd DEF Members, ledgers
<1> QED BY <1>1, <1>2, <1>3, <1>4, <1>5, <1>6, <1>7, <1>8 DEF Ip4!Ipv4Next, Ip4!poll

-----------------------------------------------------------------------------
(* Managed network.                                                        *)

LEMMA MnpInPlace ==
  Mnp!MnpService("transmit_") = "Transmit" /\ Mnp!MnpService("receive_") = "Receive"
<1>1. \A i \in DOMAIN Mnp!MnpFields :
        /\ Mnp!MnpFields[i] = "transmit_" <=> i = 5
        /\ Mnp!MnpFields[i] = "receive_" <=> i = 6
  BY DEF Mnp!MnpFields
<1>2. 5 \in DOMAIN Mnp!MnpFields /\ 6 \in DOMAIN Mnp!MnpFields
  BY DEF Mnp!MnpFields
<1>3. /\ (CHOOSE i \in DOMAIN Mnp!MnpFields : Mnp!MnpFields[i] = "transmit_") = 5
      /\ (CHOOSE i \in DOMAIN Mnp!MnpFields : Mnp!MnpFields[i] = "receive_") = 6
  BY <1>1, <1>2
<1>4. Mnp!MnpServices[5] = "Transmit" /\ Mnp!MnpServices[6] = "Receive"
  BY DEF Mnp!MnpServices
<1> QED BY <1>3, <1>4 DEF Mnp!MnpService, Mnp!Behind

\* The driver ends one token, from its timer or when it is polled.
LEMMA MnpProgressStep ==
  ASSUME NEW t \in Tokens, Mnp!MnpProgress(t)
  PROVE  EndStep /\ UNCHANGED <<ledgers, events>>
<1>1. PICK word \in {"Success", "Timeout"} : Mnp!End({t}, Mnp!All(word))
  BY DEF Mnp!MnpProgress
<1>2. {t} \in SUBSET Pending /\ word \in Words \ {"NotReady", "Aborted"}
  BY DEF Mnp!MnpProgress, Pending, Words
<1>3. End({t}, All(word)) /\ UNCHANGED <<asked, ledgers, events>>
  BY <1>1 DEF Mnp!MnpProgress, Mnp!End, Mnp!All, End, All, Mnp!ledgers, ledgers
<1> QED BY <1>2, <1>3, EndsIsEnd

LEMMA MnpStep ==
  ASSUME Members, Mnp!MnpNext PROVE TokenStep /\ UNCHANGED events /\ Members'
<1> USE DEF TokenStep
<1>1. ASSUME NEW config_data, Mnp!configure(config_data)
      PROVE  TokenStep /\ UNCHANGED events /\ Members'
  <2>1. CASE config_data = nullptr
    <3>1. Unconfigure /\ UNCHANGED events
      BY <1>1, <2>1 DEF Mnp!configure, Mnp!Unconfigure, Unconfigure, Mnp!Abort, Abort, Mnp!End,
                        End, Mnp!All, All, Mnp!Pending, Pending
    <3> QED BY <3>1, UnconfigureIsEnd
  <2>2. CASE config_data # nullptr
    BY <1>1, <2>2 DEF Mnp!configure, Mnp!ledgers, Mnp!tokens, tokens, Members
  <2> QED BY <2>1, <2>2
<1>2. CASE Mnp!leave_all_groups \/ \E group \in Groups : Mnp!join_group(group) \/ Mnp!leave_group(group)
  <2>1. UNCHANGED <<tokens, events>>
    BY <1>2 DEF Mnp!leave_all_groups, Mnp!join_group, Mnp!leave_group, Mnp!groups_,
                Mnp!tokens, tokens
  <2>2. Members'
    BY <1>2, TokensAssumption
       DEF Mnp!leave_all_groups, Mnp!join_group, Mnp!leave_group, Mnp!groups_, Mnp!Joins,
           Mnp!GroupsService, Members
  <2> QED BY <2>1, <2>2
<1>3. ASSUME NEW t \in Tokens, Mnp!transmit(t) \/ Mnp!receive(t)
      PROVE  TokenStep /\ UNCHANGED events /\ Members'
  <2>1. UNCHANGED <<ledgers, events>>
    BY <1>3 DEF Mnp!transmit, Mnp!receive, Mnp!ledgers, ledgers
  <2>2. Submit(t, "Transmit", "Transmit") \/ Submit(t, "Receive", "Receive")
    BY <1>3, MnpInPlace DEF Mnp!transmit, Mnp!receive, Mnp!Submit, Submit, Mnp!Take, Take
  <2> QED BY <2>1, <2>2, SubmitIsTake DEF Purposes, Members, ledgers
<1>4. ASSUME NEW t \in Tokens, Mnp!Collect(t)
      PROVE  TokenStep /\ UNCHANGED events /\ Members'
  <2>1. Collect(t)
    BY <1>4, SameCollect
  <2> QED BY <2>1 DEF CollectStep, Collect, Members, ledgers
<1>5. ASSUME NEW t \in Tokens, Mnp!MnpEnds(t) \/ Mnp!poll(t)
      PROVE  TokenStep /\ UNCHANGED events /\ Members'
  <2>1. Mnp!MnpProgress(t)
    BY <1>5 DEF Mnp!MnpEnds, Mnp!poll
  <2> QED BY <2>1, MnpProgressStep DEF Members, ledgers
<1>6. ASSUME NEW token, Mnp!cancel(token)
      PROVE  TokenStep /\ UNCHANGED events /\ Members'
  <2>1. Cancel(token) /\ UNCHANGED <<ledgers, events>>
    BY <1>6 DEF Mnp!cancel, Mnp!Cancel, Cancel, Mnp!Abort, Abort, Mnp!End, End, Mnp!All, All,
                Mnp!Pending, Pending, Mnp!ledgers, ledgers
  <2> QED BY <2>1, CancelIsEnd DEF Members, ledgers
<1> QED BY <1>1, <1>2, <1>3, <1>4, <1>5, <1>6 DEF Mnp!MnpNext

-----------------------------------------------------------------------------
(* DNS.                                                                    *)

LEMMA DnsInPlace ==
  /\ Dns4!DnsService("hostname_to_ip_") = "HostNameToIp"
  /\ Dns4!DnsService("ip_to_hostname_") = "IpToHostName"
  /\ Dns4!DnsService("general_lookup_") = "GeneralLookUp"
<1>1. \A i \in DOMAIN Dns4!DnsFields :
        /\ Dns4!DnsFields[i] = "hostname_to_ip_" <=> i = 3
        /\ Dns4!DnsFields[i] = "ip_to_hostname_" <=> i = 4
        /\ Dns4!DnsFields[i] = "general_lookup_" <=> i = 5
  BY DEF Dns4!DnsFields
<1>2. {3, 4, 5} \subseteq DOMAIN Dns4!DnsFields
  BY DEF Dns4!DnsFields
<1>3. /\ (CHOOSE i \in DOMAIN Dns4!DnsFields : Dns4!DnsFields[i] = "hostname_to_ip_") = 3
      /\ (CHOOSE i \in DOMAIN Dns4!DnsFields : Dns4!DnsFields[i] = "ip_to_hostname_") = 4
      /\ (CHOOSE i \in DOMAIN Dns4!DnsFields : Dns4!DnsFields[i] = "general_lookup_") = 5
  BY <1>1, <1>2
<1>4. /\ Dns4!DnsServices[3] = "HostNameToIp" /\ Dns4!DnsServices[4] = "IpToHostName"
      /\ Dns4!DnsServices[5] = "GeneralLookUp"
  BY DEF Dns4!DnsServices
<1> QED BY <1>3, <1>4 DEF Dns4!DnsService, Dns4!Behind

\* An answer or the last timeout ends one token.
LEMMA DnsEndsStep ==
  ASSUME NEW t \in Tokens, Dns4!DnsEnds(t)
  PROVE  EndStep /\ UNCHANGED <<ledgers, events>>
<1>1. PICK word \in {"Success", "Timeout"} : Dns4!End({t}, Dns4!All(word))
  BY DEF Dns4!DnsEnds
<1>2. {t} \in SUBSET Pending /\ word \in Words \ {"NotReady", "Aborted"}
  BY DEF Dns4!DnsEnds, Pending, Words
<1>3. End({t}, All(word)) /\ UNCHANGED <<asked, ledgers, events>>
  BY <1>1 DEF Dns4!DnsEnds, Dns4!End, Dns4!All, End, All, Dns4!ledgers, ledgers
<1> QED BY <1>2, <1>3, EndsIsEnd

\* A lookup takes a token that is constructed anew.
LEMMA LookupStep ==
  ASSUME NEW t \in Tokens, NEW purpose \in Purposes, NEW field,
         Dns4!DnsService(field) \in Purposes, Dns4!lookup(t, purpose, field)
  PROVE  TakeStep /\ UNCHANGED <<ledgers, events>>
<1>1. /\ held[t] = "none" /\ wanted[t] = "none"
      /\ held' = [held EXCEPT ![t] = Dns4!DnsService(field)]
      /\ wanted' = [wanted EXCEPT ![t] = purpose]
      /\ asked' = asked \ {t}
      /\ UNCHANGED <<signaled, ledgers, events>>
  BY DEF Dns4!lookup, Dns4!Take, Dns4!ledgers, ledgers
<1>2. /\ \E word \in {"Success", "NotReady"} : status' = [status EXCEPT ![t] = word]
      /\ filled' = filled \ {t}
  BY DEF Dns4!lookup, Dns4!Dns4CompletionToken
<1> QED BY <1>1, <1>2 DEF TakeStep

LEMMA DnsStep ==
  ASSUME Members, Dns4!DnsNext PROVE TokenStep /\ UNCHANGED events /\ Members'
<1> USE DEF TokenStep
<1>1. CASE Dns4!configure
  BY <1>1 DEF Dns4!configure, Dns4!ledgers, Dns4!tokens, tokens, Members
<1>2. CASE Dns4!reset
  <2>1. Unconfigure /\ UNCHANGED events
    BY <1>2 DEF Dns4!reset, Dns4!Unconfigure, Unconfigure, Dns4!Abort, Abort, Dns4!End, End,
                Dns4!All, All, Dns4!Pending, Pending
  <2> QED BY <2>1, UnconfigureIsEnd
<1>3. ASSUME NEW t \in Tokens,
             Dns4!hostname_to_ip(t) \/ Dns4!ip_to_hostname(t) \/ Dns4!general_lookup(t)
      PROVE  TokenStep /\ UNCHANGED events /\ Members'
  <2>1. {"HostNameToIp", "IpToHostName", "GeneralLookUp"} \subseteq Purposes
    BY DEF Purposes
  <2> QED BY <1>3, <2>1, DnsInPlace, LookupStep
          DEF Dns4!hostname_to_ip, Dns4!ip_to_hostname, Dns4!general_lookup, Members, ledgers
<1>4. ASSUME NEW t \in Tokens, Dns4!Collect(t)
      PROVE  TokenStep /\ UNCHANGED events /\ Members'
  <2>1. Collect(t)
    BY <1>4, SameCollect
  <2> QED BY <2>1 DEF CollectStep, Collect, Members, ledgers
<1>5. ASSUME NEW t \in Tokens, Dns4!DnsEnds(t) \/ Dns4!poll(t)
      PROVE  TokenStep /\ UNCHANGED events /\ Members'
  BY <1>5, DnsEndsStep DEF Dns4!poll, Members, ledgers
<1>6. ASSUME NEW token, Dns4!cancel(token)
      PROVE  TokenStep /\ UNCHANGED events /\ Members'
  <2>1. Cancel(token) /\ UNCHANGED <<ledgers, events>>
    BY <1>6 DEF Dns4!cancel, Dns4!Cancel, Cancel, Dns4!Abort, Abort, Dns4!End, End, Dns4!All,
                All, Dns4!Pending, Pending, Dns4!ledgers, ledgers
  <2> QED BY <2>1, CancelIsEnd DEF Members, ledgers
<1> QED BY <1>1, <1>2, <1>3, <1>4, <1>5, <1>6 DEF Dns4!DnsNext

-----------------------------------------------------------------------------
(* TCP.  What the driver ends as aborted at the end of a connection was    *)
(* asked for when the client closed it.                                    *)

AskedAtClose ==
  (\E u \in Tokens : held[u] = "Close")
    => \A t \in Tokens : held[t] \notin {"none", "Close"} => t \in asked

LEMMA TcpInPlace ==
  /\ Tcp4!TcpService("connect_") = "Connect" /\ Tcp4!TcpService("accept_") = "Accept"
  /\ Tcp4!TcpService("transmit_") = "Transmit" /\ Tcp4!TcpService("receive_") = "Receive"
  /\ Tcp4!TcpService("close_") = "Close"
<1>1. \A i \in DOMAIN Tcp4!TcpFields :
        /\ Tcp4!TcpFields[i] = "connect_" <=> i = 4
        /\ Tcp4!TcpFields[i] = "accept_" <=> i = 5
        /\ Tcp4!TcpFields[i] = "transmit_" <=> i = 6
        /\ Tcp4!TcpFields[i] = "receive_" <=> i = 7
        /\ Tcp4!TcpFields[i] = "close_" <=> i = 8
  BY DEF Tcp4!TcpFields
<1>2. 4 .. 8 \subseteq DOMAIN Tcp4!TcpFields
  BY DEF Tcp4!TcpFields
<1>3. /\ (CHOOSE i \in DOMAIN Tcp4!TcpFields : Tcp4!TcpFields[i] = "connect_") = 4
      /\ (CHOOSE i \in DOMAIN Tcp4!TcpFields : Tcp4!TcpFields[i] = "accept_") = 5
      /\ (CHOOSE i \in DOMAIN Tcp4!TcpFields : Tcp4!TcpFields[i] = "transmit_") = 6
      /\ (CHOOSE i \in DOMAIN Tcp4!TcpFields : Tcp4!TcpFields[i] = "receive_") = 7
      /\ (CHOOSE i \in DOMAIN Tcp4!TcpFields : Tcp4!TcpFields[i] = "close_") = 8
  BY <1>1, <1>2
<1>4. /\ Tcp4!TcpServices[4] = "Connect" /\ Tcp4!TcpServices[5] = "Accept"
      /\ Tcp4!TcpServices[6] = "Transmit" /\ Tcp4!TcpServices[7] = "Receive"
      /\ Tcp4!TcpServices[8] = "Close"
  BY DEF Tcp4!TcpServices
<1> QED BY <1>3, <1>4 DEF Tcp4!TcpService, Tcp4!Behind

\* Ending tokens leaves what is held for closing asked for.
LEMMA AskedAtEnd ==
  ASSUME AskedAtClose, NEW S, NEW word, End(S, word), asked \subseteq asked'
  PROVE  AskedAtClose'
BY DEF AskedAtClose, End

\* Tokens that end with one word that is no abort.
LEMMA TcpEndStep ==
  ASSUME AskedAtClose, NEW S \in SUBSET Pending, NEW word \in Words \ {"NotReady", "Aborted"},
         Tcp4!End(S, Tcp4!All(word)), Tcp4!TcpKeeps
  PROVE  EndStep /\ UNCHANGED <<ledgers, events>> /\ AskedAtClose'
<1>1. End(S, All(word)) /\ UNCHANGED <<asked, ledgers, events>>
  BY DEF Tcp4!TcpKeeps, Tcp4!End, Tcp4!All, End, All, Tcp4!ledgers, ledgers
<1> QED BY <1>1, EndsIsEnd, AskedAtEnd

\* The steps of the driver that only move the connection.
LEMMA TcpMoveStep ==
  ASSUME AskedAtClose, Tcp4!TcpKeeps, UNCHANGED Tcp4!tokens
  PROVE  UNCHANGED <<tokens, ledgers, events>> /\ AskedAtClose'
BY DEF AskedAtClose, Tcp4!TcpKeeps, Tcp4!tokens, tokens, Tcp4!ledgers, ledgers

LEMMA EndedStep ==
  ASSUME AskedAtClose, Tcp4!Ended
  PROVE  EndStep /\ UNCHANGED <<ledgers, events>> /\ AskedAtClose'
<1> DEFINE word == [t \in Tokens |-> IF held[t] = "Close" THEN "Success" ELSE "Aborted"]
<1>1. /\ End(Pending, word)
      /\ UNCHANGED <<asked, ledgers, events>>
      /\ \E u \in Tokens : held[u] = "Close"
  BY DEF Tcp4!Ended, Tcp4!HeldFor, Tcp4!TcpKeeps, Tcp4!End, End, Tcp4!Pending, Pending,
         Tcp4!ledgers, ledgers
<1>2. word \in [Tokens -> Words \ {"NotReady"}]
  BY DEF Words
<1>3. \A t \in Pending : word[t] = "Aborted" => t \in asked'
  BY <1>1 DEF Pending, AskedAtClose
<1>4. AskedAtClose'
  BY <1>1, AskedAtEnd
<1> HIDE DEF word
<1> QED BY <1>1, <1>2, <1>3, <1>4 DEF EndStep

LEMMA TcpDriverStep ==
  ASSUME AskedAtClose, Tcp4!TcpDriver
  PROVE  TokenStep /\ UNCHANGED <<ledgers, events>> /\ AskedAtClose'
<1> USE DEF TokenStep
<1>1. {"Success", "ConnectionFin", "ConnectionReset", "Timeout"} \subseteq Words \ {"NotReady", "Aborted"}
  BY DEF Words
<1>2. /\ Tcp4!HeldFor({"Connect"}) \in SUBSET Pending
      /\ Tcp4!HeldFor({"Receive"}) \in SUBSET Pending
      /\ Tcp4!Pending = Pending
  BY DEF Tcp4!HeldFor, Tcp4!Pending, Pending
<1>3. CASE Tcp4!Handshake
  <2>1. CASE UNCHANGED Tcp4!tokens
    BY <1>3, <2>1, TcpMoveStep DEF Tcp4!Handshake
  <2>2. CASE Tcp4!End(Tcp4!HeldFor({"Connect"}), Tcp4!All("Success"))
    BY <1>1, <1>2, <1>3, <2>2, TcpEndStep DEF Tcp4!Handshake
  <2> QED BY <1>3, <2>1, <2>2 DEF Tcp4!Handshake
<1>4. CASE Tcp4!PeerCloses
  BY <1>1, <1>2, <1>4, TcpEndStep DEF Tcp4!PeerCloses
<1>5. CASE Tcp4!Acknowledged
  BY <1>5, TcpMoveStep DEF Tcp4!Acknowledged
<1>6. CASE Tcp4!Ended
  BY <1>6, EndedStep
<1>7. ASSUME NEW word \in {"ConnectionReset", "Timeout"}, Tcp4!Breaks(word)
      PROVE  TokenStep /\ UNCHANGED <<ledgers, events>> /\ AskedAtClose'
  BY <1>1, <1>2, <1>7, TcpEndStep DEF Tcp4!Breaks
<1>8. ASSUME NEW t \in Tokens, Tcp4!Accepted(t) \/ Tcp4!Transferred(t)
      PROVE  TokenStep /\ UNCHANGED <<ledgers, events>> /\ AskedAtClose'
  <2>1. Tcp4!TcpKeeps /\ Tcp4!End({t}, Tcp4!All("Success"))
    BY <1>8 DEF Tcp4!Accepted, Tcp4!Transferred
  <2>2. {t} \in SUBSET Pending
    BY <1>8 DEF Tcp4!Accepted, Tcp4!Transferred, Pending
  <2> QED BY <1>1, <2>1, <2>2, TcpEndStep
<1> QED BY <1>3, <1>4, <1>5, <1>6, <1>7, <1>8 DEF Tcp4!TcpDriver, Tcp4!Closes

\* The driver takes no token while it holds one of close.
LEMMA TcpSubmitStep ==
  ASSUME TokenTypes, NEW t \in Tokens,
         Tcp4!connect(t) \/ Tcp4!accept(t) \/ Tcp4!transmit(t) \/ Tcp4!receive(t)
  PROVE  TakeStep /\ UNCHANGED <<ledgers, events>> /\ AskedAtClose'
<1>1. PICK purpose \in Purposes, service \in {"Connect", "Accept", "Transmit", "Receive"} :
        /\ Tcp4!Submit(t, purpose, service)
        /\ Tcp4!Accepts(service)
        /\ UNCHANGED <<ledgers, events>>
  BY TcpInPlace
     DEF Tcp4!connect, Tcp4!accept, Tcp4!transmit, Tcp4!receive, Tcp4!submit, Purposes,
         Tcp4!ledgers, ledgers
<1>2. service \in Purposes
  BY DEF Purposes
<1>3. \A u \in Tokens : held[u] # "Close"
  BY <1>1 DEF Tcp4!Accepts, Tcp4!HeldFor
<1>4. Submit(t, purpose, service)
  BY <1>1 DEF Tcp4!Submit, Submit, Tcp4!Take, Take
<1>5. AskedAtClose'
  BY <1>3, <1>4 DEF Submit, Take, TokenTypes, AskedAtClose
<1> QED BY <1>1, <1>2, <1>4, <1>5, SubmitIsTake

LEMMA TcpCloseStep ==
  ASSUME TokenTypes, NEW t \in Tokens, NEW abort_on_close_ \in BOOLEAN,
         Tcp4!close(t, abort_on_close_)
  PROVE  TakeStep /\ UNCHANGED <<ledgers, events>> /\ AskedAtClose'
<1>1. /\ t \in events /\ held[t] = "none" /\ wanted[t] = "none"
      /\ held' = [held EXCEPT ![t] = "Close"]
      /\ wanted' = [wanted EXCEPT ![t] = "Close"]
      /\ asked' = (asked \cup Pending) \ {t}
      /\ UNCHANGED <<ledgers, events, status, filled, signaled>>
  BY TcpInPlace DEF Tcp4!close, Tcp4!Take, Tcp4!Pending, Pending, Tcp4!ledgers, ledgers
<1>2. AskedAtClose'
  BY <1>1 DEF AskedAtClose, TokenTypes, Pending
<1> QED BY <1>1, <1>2 DEF TakeStep, Purposes

LEMMA TcpCancelStep ==
  ASSUME AskedAtClose, NEW token, Tcp4!cancel(token)
  PROVE  EndStep /\ UNCHANGED <<ledgers, events>> /\ AskedAtClose'
<1>1. PICK S \in SUBSET Pending : Abort(S) /\ UNCHANGED <<ledgers, events>>
  BY DEF Tcp4!cancel, Tcp4!Abort, Abort, Tcp4!End, End, Tcp4!All, All, Tcp4!Pending, Pending,
         Tcp4!ledgers, ledgers
<1>2. End(S, All("Aborted")) /\ asked \subseteq asked'
  BY <1>1 DEF Abort
<1> QED BY <1>1, <1>2, AbortIsEnd, AskedAtEnd

LEMMA TcpStep ==
  ASSUME Members, TokenTypes, AskedAtClose, Tcp4!TcpNext
  PROVE  TokenStep /\ UNCHANGED events /\ Members' /\ AskedAtClose'
<1> USE DEF TokenStep
<1>1. ASSUME NEW active_flag, Tcp4!configure(active_flag)
      PROVE  TokenStep /\ UNCHANGED events /\ Members' /\ AskedAtClose'
  BY <1>1 DEF Tcp4!configure, Tcp4!ledgers, Tcp4!tokens, tokens, Members, AskedAtClose
<1>2. CASE Tcp4!reset
  <2>1. Unconfigure /\ UNCHANGED events
    BY <1>2 DEF Tcp4!reset, Tcp4!Unconfigure, Unconfigure, Tcp4!Abort, Abort, Tcp4!End, End,
                Tcp4!All, All, Tcp4!Pending, Pending
  <2>2. AskedAtClose'
    BY <2>1, AskedAtEnd DEF Unconfigure, Abort
  <2> QED BY <2>1, <2>2, UnconfigureIsEnd
<1>3. CASE Tcp4!TcpDriver
  BY <1>3, TcpDriverStep DEF Members, ledgers
<1>4. ASSUME NEW route, Tcp4!add_route(route) \/ Tcp4!delete_route(route)
      PROVE  TokenStep /\ UNCHANGED events /\ Members' /\ AskedAtClose'
  BY <1>4 DEF Tcp4!add_route, Tcp4!delete_route, Tcp4!routes_, Tcp4!RoutesService, Tcp4!tokens,
              tokens, Members, AskedAtClose
<1>5. ASSUME NEW t \in Tokens,
             \/ Tcp4!connect(t) \/ Tcp4!accept(t) \/ Tcp4!transmit(t) \/ Tcp4!receive(t)
             \/ \E abort_on_close_ \in BOOLEAN : Tcp4!close(t, abort_on_close_)
      PROVE  TokenStep /\ UNCHANGED events /\ Members' /\ AskedAtClose'
  BY <1>5, TcpSubmitStep, TcpCloseStep DEF Members, ledgers
<1>6. ASSUME NEW t \in Tokens, Tcp4!Collect(t), UNCHANGED connection
      PROVE  TokenStep /\ UNCHANGED events /\ Members' /\ AskedAtClose'
  <2>1. Collect(t)
    BY <1>6, SameCollect
  <2> QED BY <1>6, <2>1 DEF CollectStep, Collect, Members, ledgers, AskedAtClose
<1>7. ASSUME NEW token, Tcp4!cancel(token)
      PROVE  TokenStep /\ UNCHANGED events /\ Members' /\ AskedAtClose'
  BY <1>7, TcpCancelStep DEF Members, ledgers
<1> QED BY <1>1, <1>2, <1>3, <1>4, <1>5, <1>6, <1>7 DEF Tcp4!TcpNext, Tcp4!poll

-----------------------------------------------------------------------------
(* DHCP.  The driver has the callback whenever the configuration is that   *)
(* of the client, so that the client has heard of every loss.              *)

DhcpInv ==
  /\ set_up => callback
  /\ told => callback /\ dhcp_state \in Dhcp4!Leased

\* The member is read where it stands if the object is a Dhcp4ConfigData.
LEMMA CallbackRead == Handed = "Dhcp4ConfigData" => Dhcp4!Reads("dhcp4_callback_")
<1> SUFFICES ASSUME Handed = "Dhcp4ConfigData" PROVE Dhcp4!Reads("dhcp4_callback_")
  OBVIOUS
<1>1. Dhcp4!Object = Dhcp4!Dhcp4ConfigData
  BY DEF Dhcp4!Object
<1>2. /\ 6 \in DOMAIN Dhcp4!Expected
      /\ Dhcp4!Expected[6] = "dhcp4_callback_" /\ Dhcp4!Dhcp4ConfigData[6] = "dhcp4_callback_"
  BY DEF Dhcp4!Expected, Dhcp4!Dhcp4ConfigData
<1> QED BY <1>1, <1>2 DEF Dhcp4!Reads

LEMMA DhcpStep ==
  ASSUME Handed = "Dhcp4ConfigData", DhcpInv, Dhcp4!DhcpNext PROVE DhcpInv'
<1> USE DEF DhcpInv
<1>1. ASSUME NEW earlier, Dhcp4!configure(earlier) PROVE DhcpInv'
  <2>1. callback' = TRUE /\ told' = told
    BY <1>1, CallbackRead DEF Dhcp4!configure
  <2>2. told => dhcp_state' = dhcp_state
    BY <1>1 DEF Dhcp4!configure, Dhcp4!Leased
  <2> QED BY <2>1, <2>2
<1>2. ASSUME NEW rebind_request, Dhcp4!renew_rebind(rebind_request) PROVE DhcpInv'
  BY <1>2 DEF Dhcp4!renew_rebind, Dhcp4!Leased
<1>3. CASE Dhcp4!reset
  BY <1>3 DEF Dhcp4!reset
<1>4. CASE Dhcp4!start
  BY <1>4 DEF Dhcp4!start, Dhcp4!Leased
<1>5. CASE Dhcp4!release \/ Dhcp4!stop
  BY <1>5 DEF Dhcp4!release, Dhcp4!stop
<1>6. CASE Dhcp4!transmit_recieve \/ Dhcp4!Collects \/ Dhcp4!ExchangeEnds
  BY <1>6 DEF Dhcp4!transmit_recieve, Dhcp4!Collects, Dhcp4!ExchangeEnds
<1>7. CASE Dhcp4!get_mode_data
  BY <1>7 DEF Dhcp4!get_mode_data
<1>8. CASE Dhcp4!Offer \/ Dhcp4!Resend
  BY <1>8 DEF Dhcp4!Offer, Dhcp4!Resend, Dhcp4!Keeps, Dhcp4!Leased
<1>9. CASE Dhcp4!Ack \/ Dhcp4!EnterRenewing \/ Dhcp4!EnterRebinding
  BY <1>9 DEF Dhcp4!Ack, Dhcp4!EnterRenewing, Dhcp4!EnterRebinding, Dhcp4!Keeps, Dhcp4!Leased
<1>10. CASE Dhcp4!Lose
  BY <1>10 DEF Dhcp4!Lose, Dhcp4!Calls, Dhcp4!Keeps
<1> QED
  BY <1>1, <1>2, <1>3, <1>4, <1>5, <1>6, <1>7, <1>8, <1>9, <1>10
  DEF Dhcp4!DhcpNext, Dhcp4!DhcpDriver, Dhcp4!Progress, Dhcp4!Nak, Dhcp4!Fail, Dhcp4!Expires

-----------------------------------------------------------------------------
(* The simple network interface.  No buffer is both queued and sent.       *)

SnpInv ==
  /\ sending \cap recycled = {}
  /\ lent = sending \cup recycled
  /\ known = state
  /\ filters = enabled /\ mcast = listed

LEMMA SnpInPlace ==
  /\ Snp!SnpService("start_") = "Start" /\ Snp!SnpService("stop_") = "Stop"
  /\ Snp!SnpService("initialize_") = "Initialize" /\ Snp!SnpService("reset_") = "Reset"
  /\ Snp!SnpService("shutdown_") = "Shutdown"
<1>1. \A i \in DOMAIN Snp!SnpFields :
        /\ Snp!SnpFields[i] = "start_" <=> i = 2
        /\ Snp!SnpFields[i] = "stop_" <=> i = 3
        /\ Snp!SnpFields[i] = "initialize_" <=> i = 4
        /\ Snp!SnpFields[i] = "reset_" <=> i = 5
        /\ Snp!SnpFields[i] = "shutdown_" <=> i = 6
  BY DEF Snp!SnpFields
<1>2. 2 .. 6 \subseteq DOMAIN Snp!SnpFields
  BY DEF Snp!SnpFields
<1>3. /\ (CHOOSE i \in DOMAIN Snp!SnpFields : Snp!SnpFields[i] = "start_") = 2
      /\ (CHOOSE i \in DOMAIN Snp!SnpFields : Snp!SnpFields[i] = "stop_") = 3
      /\ (CHOOSE i \in DOMAIN Snp!SnpFields : Snp!SnpFields[i] = "initialize_") = 4
      /\ (CHOOSE i \in DOMAIN Snp!SnpFields : Snp!SnpFields[i] = "reset_") = 5
      /\ (CHOOSE i \in DOMAIN Snp!SnpFields : Snp!SnpFields[i] = "shutdown_") = 6
  BY <1>1, <1>2
<1>4. /\ Snp!SnpServices[2] = "Start" /\ Snp!SnpServices[3] = "Stop"
      /\ Snp!SnpServices[4] = "Initialize" /\ Snp!SnpServices[5] = "Reset"
      /\ Snp!SnpServices[6] = "Shutdown"
  BY DEF Snp!SnpServices
<1> QED BY <1>3, <1>4 DEF Snp!SnpService

\* A service between two states empties the queues; reset alone keeps the filters.
LEMMA MovesStep ==
  ASSUME SnpInv, Snp!start \/ Snp!stop \/ Snp!initialize \/ Snp!reset \/ Snp!shutdown
  PROVE  SnpInv'
<1>1. sending' = {} /\ recycled' = {} /\ lent' = {}
  BY DEF Snp!start, Snp!stop, Snp!initialize, Snp!reset, Snp!shutdown, Snp!moves, Snp!Moves
<1>2. known' = state'
  BY SnpInPlace
     DEF Snp!start, Snp!stop, Snp!initialize, Snp!reset, Snp!shutdown, Snp!moves, Snp!Moves, Snp!To
<1>3. CASE Snp!reset
  BY <1>1, <1>2, <1>3, SnpInPlace DEF Snp!reset, Snp!moves, Snp!Moves, SnpInv
<1>4. CASE Snp!start \/ Snp!stop \/ Snp!initialize \/ Snp!shutdown
  <2>1. filters' = {} /\ mcast' = {} /\ enabled' = {} /\ listed' = {}
    BY <1>4, SnpInPlace
       DEF Snp!start, Snp!stop, Snp!initialize, Snp!shutdown, Snp!moves, Snp!Moves, Snp!forgets
  <2> QED BY <1>1, <1>2, <2>1 DEF SnpInv
<1> QED BY <1>3, <1>4

LEMMA SnpStep == ASSUME SnpInv, Snp!SnpNext PROVE SnpInv'
<1> USE DEF SnpInv
<1>1. CASE Snp!Arrives
  BY <1>1 DEF Snp!Arrives
<1>2. ASSUME NEW enable, NEW disable, NEW reset_mcast_filter, NEW mcast_filter,
             Snp!receive_filters(enable, disable, reset_mcast_filter, mcast_filter)
      PROVE  SnpInv'
  BY <1>2 DEF Snp!receive_filters, Snp!ReceiveFilters, Snp!Knows
<1>3. ASSUME NEW tx_buf, Snp!get_status(tx_buf) PROVE SnpInv'
  BY <1>3 DEF Snp!get_status
<1>4. ASSUME NEW buffer, Snp!transmit(buffer) \/ Snp!Sent(buffer) PROVE SnpInv'
  BY <1>4 DEF Snp!transmit, Snp!Sent
<1>5. ASSUME NEW buffer_size, Snp!receive(buffer_size) PROVE SnpInv'
  BY <1>5 DEF Snp!receive
<1> QED BY <1>1, <1>2, <1>3, <1>4, <1>5, MovesStep DEF Snp!SnpNext

-----------------------------------------------------------------------------
(* All protocols together.                                                 *)

IInv == TokensInv /\ Members /\ (protocol = "Tcp4" => AskedAtClose) /\ SnpInv

LEMMA InitIInv == Init => IInv /\ Ledger!Init
<1> SUFFICES ASSUME Init PROVE IInv /\ Ledger!Init
  OBVIOUS
<1>1. TokensInv
  BY DEF Init, TokensInit, TokensInv, TokenTypes, Awaited, EndSeen, Words
<1>2. Members /\ AskedAtClose /\ SnpInv
  BY DEF Init, TokensInit, Members, AskedAtClose, Snp!SnpInit, SnpInv
<1>3. Ledger!Init
  BY <1>1 DEF Init, TokensInit, Pending, TokensInv, TokenTypes, Ledger!Init
<1> QED BY <1>1, <1>2, <1>3 DEF IInv

\* The steps that leave the network interface alone.
LEMMA TokensStep ==
  ASSUME IInv, TokenStep, UNCHANGED <<events, protocol, snp_vars>>, Members',
         protocol = "Tcp4" => AskedAtClose'
  PROVE  IInv' /\ LedgerStep
<1>1. TokensInv' /\ LedgerStep
  BY StepKeeps DEF IInv
<1>2. SnpInv'
  BY DEF IInv, SnpInv, snp_vars
<1> QED BY <1>1, <1>2 DEF IInv

LEMMA Step == IInv /\ [Next]_vars => IInv' /\ LedgerStep
<1> SUFFICES ASSUME IInv, [Next]_vars PROVE IInv' /\ LedgerStep
  OBVIOUS
<1>1. CASE Ipv4
  <2>1. TokenStep /\ UNCHANGED events /\ Members'
    BY <1>1, Ipv4Step DEF IInv, Ipv4
  <2> QED BY <1>1, <2>1, TokensStep DEF Ipv4, own_vars
<1>2. CASE ManagedNetwork
  <2>1. TokenStep /\ UNCHANGED events /\ Members'
    BY <1>2, MnpStep DEF IInv, ManagedNetwork
  <2> QED BY <1>2, <2>1, TokensStep DEF ManagedNetwork
<1>3. CASE Tcp
  <2>1. TokenStep /\ UNCHANGED events /\ Members' /\ AskedAtClose'
    BY <1>3, TcpStep DEF IInv, TokensInv, Tcp
  <2> QED BY <1>3, <2>1, TokensStep DEF Tcp
<1>4. CASE Dns
  <2>1. TokenStep /\ UNCHANGED events /\ Members'
    BY <1>4, DnsStep DEF IInv, Dns
  <2> QED BY <1>4, <2>1, TokensStep DEF Dns, own_vars
<1>5. CASE Dhcp \/ UNCHANGED vars
  <2>1. UNCHANGED <<protocol, token_vars, connection, snp_vars>>
    BY <1>5 DEF Dhcp, vars, own_vars
  <2>2. UNCHANGED <<tokens, events, groups, routes, joined, routed>>
    BY <2>1 DEF token_vars, ledgers
  <2>3. protocol = "Tcp4" => AskedAtClose'
    BY <2>1, <2>2 DEF IInv, AskedAtClose, tokens
  <2> QED BY <2>1, <2>2, <2>3, TokensStep DEF IInv, TokenStep, Members
<1>6. CASE SimpleNetwork
  <2>1. SnpInv'
    BY <1>6, SnpStep DEF IInv, SimpleNetwork
  <2>2. UNCHANGED <<protocol, tokens, events, ledgers, connection>>
    BY <1>6 DEF SimpleNetwork, token_vars, own_vars
  <2>3. TokensInv' /\ LedgerStep
    BY <2>2, StepKeeps DEF IInv, TokenStep
  <2>4. Members' /\ (protocol' = "Tcp4" => AskedAtClose')
    BY <2>2 DEF IInv, Members, AskedAtClose, ledgers, tokens
  <2> QED BY <2>1, <2>3, <2>4 DEF IInv
<1> QED BY <1>1, <1>2, <1>3, <1>4, <1>5, <1>6 DEF Next

\* Every step of every protocol keeps the invariant.
THEOREM Invariance == Spec => []IInv
BY InitIInv, Step, PTL DEF Spec

\* A client that knows the firmware's word for "not ready" can tell of every token it waits
\* for whether it has ended, for every protocol and however many tokens there are.
THEOREM EndIsSeen == ASSUME KnowsWord PROVE Spec => []EndSeen
<1>1. IInv => EndSeen
  BY DEF IInv, TokensInv
<1> QED BY <1>1, Invariance, PTL

\* A client that takes Status::NotReady for it, the word of success in this library, sees
\* the end of a lookup the driver has only begun: of one whose token the driver has
\* marked as not ready, whatever the state before.
THEOREM EnumeratorEndsLookups ==
  ASSUME NotReadyStatus = ErrorStatus("NotReady"), TokenTypes, NEW t \in Tokens,
         NEW purpose \in Purposes, NEW field \in {"hostname_to_ip_", "ip_to_hostname_", "general_lookup_"},
         t \notin events, Dns4!lookup(t, purpose, field), status'[t] = "NotReady"
  PROVE  wanted'[t] # "none" /\ t \in Pending' /\ Noticed(t)'
<1>1. StatusWord("NotReady") \notin {Success, NotReadyStatus}
  BY ErrorFlagAssumption DEF StatusWord, Success, FirmwareError, ErrorNumber, ErrorStatus,
     status_error_code_, ErrorBit
<1>2. wanted'[t] = purpose /\ held'[t] = Dns4!DnsService(field) /\ events' = events
  BY DEF Dns4!lookup, Dns4!Take, TokenTypes
<1>3. purpose # "none" /\ Dns4!DnsService(field) # "none"
  BY DnsInPlace DEF Purposes
<1> QED BY <1>1, <1>2, <1>3 DEF Noticed, Pending

\* The driver is in the groups and has the routes the client asked for, and the
\* interface has its filters, also after a reset.
THEOREM MembershipKept == Spec => []MembershipAsAsked
<1>1. IInv => MembershipAsAsked
  BY DEF IInv, Members, SnpInv, MembershipAsAsked
<1> QED BY <1>1, Invariance, PTL

\* A transmit buffer has one owner, and the client knows the state of the interface.
THEOREM BufferHasOneOwner == Spec => []OneOwner
<1>1. IInv => OneOwner
  BY DEF IInv, SnpInv, OneOwner
<1> QED BY <1>1, Invariance, PTL

\* The four protocols keep the promise of the ledger: a token is taken once, left
\* alone, given back once, and as aborted only to a client that asked for it.
THEOREM ImplementsLedger == Spec => LedgerSpec
<1>1. IInv /\ [Next]_vars => [Ledger!Next]_<<Pending, status, asked>>
  BY Step DEF LedgerStep
<1> QED BY <1>1, InitIInv, Invariance, PTL DEF Spec, LedgerSpec, Ledger!Spec

\* A client that puts its callback into a Dhcp4ConfigData, where the driver
\* reads it, never goes on with an address it has lost.
THEOREM LeaseLasts == Handed = "Dhcp4ConfigData" => (Spec => []LeaseAsTold)
<1> SUFFICES ASSUME Handed = "Dhcp4ConfigData" PROVE Spec => []LeaseAsTold
  OBVIOUS
<1>1. Init => DhcpInv
  BY DEF Init, Dhcp4!DhcpInit, DhcpInv
<1>2. DhcpInv /\ [Next]_vars => DhcpInv'
  <2> SUFFICES ASSUME DhcpInv, [Next]_vars PROVE DhcpInv'
    OBVIOUS
  <2>1. CASE Dhcp
    BY <2>1, DhcpStep DEF Dhcp
  <2>2. CASE UNCHANGED dhcp_vars
    BY <2>2 DEF dhcp_vars, DhcpInv
  <2> QED BY <2>1, <2>2 DEF Next, Ipv4, ManagedNetwork, Tcp, Dns, SimpleNetwork, vars
<1>3. DhcpInv => LeaseAsTold
  BY DEF DhcpInv, LeaseAsTold, Dhcp4!LeaseAsTold
<1> QED BY <1>1, <1>2, <1>3, PTL DEF Spec

-----------------------------------------------------------------------------
(* The types.                                                              *)

SetTypes ==
  filled \subseteq Tokens /\ signaled \subseteq events /\ events \subseteq Tokens /\ asked \subseteq Tokens

LedgerTypes == configured \in BOOLEAN /\ groups \subseteq Groups /\ routes \subseteq Routes

LEMMA SetTypesStep == ASSUME SetTypes, UNCHANGED events, TokenStep PROVE SetTypes'
<1>1. CASE EndStep
  BY <1>1 DEF EndStep, End, Pending, SetTypes
<1>2. CASE TakeStep
  BY <1>2 DEF TakeStep, Pending, SetTypes
<1>3. CASE CollectStep \/ UNCHANGED tokens
  BY <1>3 DEF CollectStep, Collect, tokens, SetTypes
<1> QED BY <1>1, <1>2, <1>3 DEF TokenStep

LEMMA Ipv4Types == ASSUME LedgerTypes, Ip4!Ipv4Next PROVE LedgerTypes'
<1> USE DEF LedgerTypes
<1>1. CASE Ip4!configure \/ Ip4!reset
  BY <1>1 DEF Ip4!configure, Ip4!reset, Ip4!Unconfigure, Ip4!ledgers
<1>2. CASE Ip4!leave_all_groups \/ \E group \in Groups : Ip4!join_group(group) \/ Ip4!leave_group(group)
  BY <1>2 DEF Ip4!leave_all_groups, Ip4!join_group, Ip4!leave_group, Ip4!groups_, Ip4!GroupsService
<1>3. CASE \E route \in Routes : Ip4!add_route(route) \/ Ip4!delete_route(route)
  BY <1>3 DEF Ip4!add_route, Ip4!delete_route, Ip4!routes_, Ip4!RoutesService
<1>4. CASE \/ \E t \in Tokens : Ip4!transmit(t) \/ Ip4!recieve(t) \/ Ip4!Collect(t) \/ Ip4!Ipv4Ends(t)
           \/ \E token \in Tokens \cup {nullptr} : Ip4!cancel(token)
  BY <1>4 DEF Ip4!transmit, Ip4!recieve, Ip4!Collect, Ip4!Ipv4Ends, Ip4!cancel, Ip4!ledgers
<1> QED BY <1>1, <1>2, <1>3, <1>4 DEF Ip4!Ipv4Next, Ip4!poll

LEMMA MnpTypes == ASSUME LedgerTypes, Mnp!MnpNext PROVE LedgerTypes'
<1> USE DEF LedgerTypes
<1>1. ASSUME NEW config_data, Mnp!configure(config_data) PROVE LedgerTypes'
  BY <1>1 DEF Mnp!configure, Mnp!Unconfigure, Mnp!ledgers
<1>2. CASE Mnp!leave_all_groups \/ \E group \in Groups : Mnp!join_group(group) \/ Mnp!leave_group(group)
  BY <1>2 DEF Mnp!leave_all_groups, Mnp!join_group, Mnp!leave_group, Mnp!groups_, Mnp!GroupsService
<1>3. ASSUME NEW t, \/ Mnp!transmit(t) \/ Mnp!receive(t) \/ Mnp!MnpEnds(t) \/ Mnp!poll(t)
                    \/ Mnp!Collect(t) \/ Mnp!cancel(t)
      PROVE  LedgerTypes'
  BY <1>3 DEF Mnp!transmit, Mnp!receive, Mnp!MnpEnds, Mnp!poll, Mnp!MnpProgress, Mnp!Collect,
              Mnp!cancel, Mnp!ledgers
<1> QED BY <1>1, <1>2, <1>3 DEF Mnp!MnpNext

LEMMA DnsTypes == ASSUME LedgerTypes, Dns4!DnsNext PROVE LedgerTypes'
BY DEF LedgerTypes, Dns4!DnsNext, Dns4!configure, Dns4!reset, Dns4!Unconfigure,
       Dns4!hostname_to_ip, Dns4!ip_to_hostname, Dns4!general_lookup, Dns4!lookup,
       Dns4!DnsEnds, Dns4!poll, Dns4!Collect, Dns4!cancel, Dns4!ledgers

LEMMA TcpTypes ==
  ASSUME LedgerTypes, Tcp4!TcpTypeOK, Tcp4!TcpNext PROVE LedgerTypes' /\ Tcp4!TcpTypeOK'
<1> USE DEF LedgerTypes, Tcp4!TcpTypeOK
<1>1. ASSUME NEW active_flag \in BOOLEAN, Tcp4!configure(active_flag)
      PROVE  LedgerTypes' /\ Tcp4!TcpTypeOK'
  BY <1>1 DEF Tcp4!configure, Tcp4!ledgers, Tcp4!Tcp4ConnectionState
<1>2. CASE Tcp4!reset
  BY <1>2 DEF Tcp4!reset, Tcp4!Unconfigure, Tcp4!Tcp4ConnectionState
<1>3. CASE Tcp4!TcpDriver
  <2>1. UNCHANGED <<configured, groups, routes, active_flag_>>
    BY <1>3 DEF Tcp4!TcpDriver, Tcp4!Handshake, Tcp4!PeerCloses, Tcp4!Closes, Tcp4!Acknowledged,
                Tcp4!Ended, Tcp4!Breaks, Tcp4!Accepted, Tcp4!Transferred, Tcp4!TcpKeeps, Tcp4!ledgers
  <2>2. connection' \in Tcp4!Tcp4ConnectionState
    BY <1>3 DEF Tcp4!TcpDriver, Tcp4!Handshake, Tcp4!PeerCloses, Tcp4!Closes, Tcp4!Acknowledged,
                Tcp4!Ended, Tcp4!Breaks, Tcp4!Accepted, Tcp4!Transferred, Tcp4!Goes,
                Tcp4!Tcp4ConnectionState
  <2> QED BY <2>1, <2>2
<1>4. ASSUME NEW route \in Routes, Tcp4!add_route(route) \/ Tcp4!delete_route(route)
      PROVE  LedgerTypes' /\ Tcp4!TcpTypeOK'
  BY <1>4 DEF Tcp4!add_route, Tcp4!delete_route, Tcp4!routes_, Tcp4!RoutesService
<1>5. ASSUME NEW t, \/ Tcp4!connect(t) \/ Tcp4!accept(t) \/ Tcp4!transmit(t) \/ Tcp4!receive(t)
                    \/ \E abort_on_close_ \in BOOLEAN : Tcp4!close(t, abort_on_close_)
      PROVE  LedgerTypes' /\ Tcp4!TcpTypeOK'
  <2>1. UNCHANGED <<configured, groups, routes, active_flag_>>
    BY <1>5 DEF Tcp4!connect, Tcp4!accept, Tcp4!transmit, Tcp4!receive, Tcp4!submit, Tcp4!close,
                Tcp4!ledgers
  <2>2. PICK service \in {"Connect", "Accept", "Transmit", "Receive", "Close", "Abort"} :
          Tcp4!Accepts(service)
    BY <1>5, TcpInPlace DEF Tcp4!connect, Tcp4!accept, Tcp4!transmit, Tcp4!receive, Tcp4!submit, Tcp4!close
  <2>3. connection' \in Tcp4!Tcp4ConnectionState
    BY <2>2 DEF Tcp4!Accepts, Tcp4!Goes, Tcp4!Tcp4ConnectionState
  <2> QED BY <2>1, <2>3
<1>6. ASSUME NEW t, (Tcp4!Collect(t) /\ UNCHANGED <<connection, active_flag_>>) \/ Tcp4!cancel(t)
      PROVE  LedgerTypes' /\ Tcp4!TcpTypeOK'
  BY <1>6 DEF Tcp4!Collect, Tcp4!cancel, Tcp4!ledgers, Tcp4!Tcp4ConnectionState
<1> QED BY <1>1, <1>2, <1>3, <1>4, <1>5, <1>6 DEF Tcp4!TcpNext, Tcp4!poll

LEMMA DhcpTypes == ASSUME Dhcp4!DhcpTypeOK, Dhcp4!DhcpNext PROVE Dhcp4!DhcpTypeOK'
<1> USE NetworkAssumption DEF Dhcp4!DhcpTypeOK
<1>1. ASSUME NEW earlier, Dhcp4!configure(earlier) PROVE Dhcp4!DhcpTypeOK'
  <2>1. callback' \in BOOLEAN
    <3>1. callback' = Dhcp4!Reads("dhcp4_callback_")
      BY <1>1 DEF Dhcp4!configure
    <3> QED BY <3>1 DEF Dhcp4!Reads
  <2>2. dhcp_state' \in Dhcp4!Dhcp4State
    BY <1>1 DEF Dhcp4!configure, Dhcp4!Dhcp4State
  <2> QED BY <1>1, <2>1, <2>2 DEF Dhcp4!configure
<1>2. ASSUME NEW rebind_request, Dhcp4!renew_rebind(rebind_request) PROVE Dhcp4!DhcpTypeOK'
  BY <1>2 DEF Dhcp4!renew_rebind, Dhcp4!Dhcp4State
<1>3. CASE Dhcp4!reset
  BY <1>3 DEF Dhcp4!reset
<1>4. CASE Dhcp4!start \/ Dhcp4!release \/ Dhcp4!stop
  <2>1. tries' \in 0 .. MaxTries
    BY <1>4 DEF Dhcp4!start, Dhcp4!release, Dhcp4!stop
  <2>2. dhcp_state' \in Dhcp4!Dhcp4State
    BY <1>4 DEF Dhcp4!start, Dhcp4!release, Dhcp4!stop, Dhcp4!Dhcp4State
  <2>3. completion' \in {"none", "pending", "signaled"} /\ told' \in BOOLEAN
    BY <1>4 DEF Dhcp4!start, Dhcp4!release, Dhcp4!stop
  <2>4. UNCHANGED <<callback, exchange, set_up>>
    BY <1>4 DEF Dhcp4!start, Dhcp4!release, Dhcp4!stop
  <2> QED BY <2>1, <2>2, <2>3, <2>4
<1>5. CASE Dhcp4!transmit_recieve \/ Dhcp4!Collects \/ Dhcp4!ExchangeEnds
  BY <1>5 DEF Dhcp4!transmit_recieve, Dhcp4!Collects, Dhcp4!ExchangeEnds
<1>6. CASE Dhcp4!get_mode_data
  <2>1. told' \in BOOLEAN
    BY <1>6 DEF Dhcp4!get_mode_data
  <2> QED BY <1>6, <2>1 DEF Dhcp4!get_mode_data
<1>7. CASE Dhcp4!Offer \/ Dhcp4!Resend
  BY <1>7 DEF Dhcp4!Offer, Dhcp4!Resend, Dhcp4!Keeps, Dhcp4!Dhcp4State
<1>8. CASE Dhcp4!Ack \/ Dhcp4!EnterRenewing \/ Dhcp4!EnterRebinding
  BY <1>8 DEF Dhcp4!Ack, Dhcp4!EnterRenewing, Dhcp4!EnterRebinding, Dhcp4!Keeps,
              Dhcp4!Completes, Dhcp4!Dhcp4State
<1>9. CASE Dhcp4!Lose
  <2>1. told' \in BOOLEAN
    BY <1>9 DEF Dhcp4!Lose, Dhcp4!Calls
  <2> QED BY <1>9, <2>1 DEF Dhcp4!Lose, Dhcp4!Completes, Dhcp4!Keeps, Dhcp4!Dhcp4State
<1> QED
  BY <1>1, <1>2, <1>3, <1>4, <1>5, <1>6, <1>7, <1>8, <1>9
  DEF Dhcp4!DhcpNext, Dhcp4!DhcpDriver, Dhcp4!Progress, Dhcp4!Nak, Dhcp4!Fail, Dhcp4!Expires

\* The transmit queue is finite, and never longer than the interface allows.
SnpTypes == Snp!SnpTypeOK /\ IsFiniteSet(sending)

\* The interface counts its queue with the operator of FiniteSets.
LEMMA SameCardinality == \A S : Snp!Cardinality(S) = Cardinality(S)
BY DEF Snp!Cardinality, Cardinality

LEMMA SnpTypesStep == ASSUME SnpTypes, SnpInv, Snp!SnpNext PROVE SnpTypes'
<1> USE NetworkAssumption, SameCardinality DEF SnpTypes, Snp!SnpTypeOK
<1>1. CASE Snp!start \/ Snp!stop \/ Snp!initialize \/ Snp!reset \/ Snp!shutdown
  <2>1. sending' = {} /\ recycled' = {} /\ lent' = {} /\ arrived' = FALSE
    BY <1>1 DEF Snp!start, Snp!stop, Snp!initialize, Snp!reset, Snp!shutdown, Snp!moves, Snp!Moves
  <2>2. state' \in Snp!SimpleNetworkState /\ known' \in Snp!SimpleNetworkState
    BY <1>1, SnpInPlace
       DEF Snp!start, Snp!stop, Snp!initialize, Snp!reset, Snp!shutdown, Snp!moves, Snp!Moves,
           Snp!To, Snp!SimpleNetworkState
  <2>3. /\ filters' \subseteq Snp!RecieveFilterSettings /\ enabled' \subseteq Snp!RecieveFilterSettings
        /\ mcast' \subseteq MCasts /\ listed' \subseteq MCasts
    BY <1>1 DEF Snp!start, Snp!stop, Snp!initialize, Snp!reset, Snp!shutdown, Snp!moves,
                Snp!Moves, Snp!forgets
  <2>4. IsFiniteSet({}) /\ Cardinality({}) = 0
    BY FS_EmptySet
  <2>5. IsFiniteSet(sending') /\ Snp!Cardinality(sending') <= QueueSize
    BY <2>1, <2>4
  <2>6. sending' \subseteq Buffers /\ recycled' \subseteq Buffers \ sending' /\ lent' \subseteq Buffers
    BY <2>1
  <2>7. arrived' \in BOOLEAN
    BY <2>1
  <2> QED BY <2>2, <2>3, <2>5, <2>6, <2>7
<1>2. CASE Snp!Arrives
  BY <1>2 DEF Snp!Arrives
<1>3. ASSUME NEW enable \in SUBSET Snp!RecieveFilterSettings, NEW disable,
             NEW reset_mcast_filter, NEW mcast_filter \in SUBSET MCasts,
             Snp!receive_filters(enable, disable, reset_mcast_filter, mcast_filter)
      PROVE  SnpTypes'
  BY <1>3 DEF Snp!receive_filters, Snp!ReceiveFilters, Snp!Knows
<1>4. ASSUME NEW tx_buf, Snp!get_status(tx_buf) PROVE SnpTypes'
  BY <1>4 DEF Snp!get_status
<1>5. ASSUME NEW buffer \in Buffers, Snp!transmit(buffer) PROVE SnpTypes'
  <2>1. sending' = sending \cup {buffer} /\ buffer \notin recycled /\ recycled' = recycled
    BY <1>5 DEF Snp!transmit, SnpInv
  <2>2. /\ IsFiniteSet(sending \cup {buffer})
        /\ Cardinality(sending \cup {buffer}) <= Cardinality(sending) + 1
        /\ Cardinality(sending) \in Nat /\ Cardinality(sending \cup {buffer}) \in Nat
    <3>1. IsFiniteSet(sending)
      OBVIOUS
    <3>2. /\ IsFiniteSet(sending \cup {buffer})
          /\ Cardinality(sending \cup {buffer}) =
               IF buffer \in sending THEN Cardinality(sending) ELSE Cardinality(sending) + 1
      BY <3>1, FS_AddElement
    <3>3. Cardinality(sending) \in Nat
      BY <3>1, FS_CardinalityType
    <3> QED BY <3>2, <3>3
  <2>3. Cardinality(sending') <= QueueSize
    BY <1>5, <2>1, <2>2 DEF Snp!transmit
  <2> QED BY <1>5, <2>1, <2>2, <2>3 DEF Snp!transmit
<1>6. ASSUME NEW buffer \in Buffers, Snp!Sent(buffer) PROVE SnpTypes'
  <2>1. sending' = sending \ {buffer} /\ recycled' = recycled \cup {buffer}
    BY <1>6 DEF Snp!Sent
  <2>2. /\ IsFiniteSet(sending \ {buffer})
        /\ Cardinality(sending \ {buffer}) <= Cardinality(sending)
        /\ Cardinality(sending) \in Nat /\ Cardinality(sending \ {buffer}) \in Nat
    BY FS_Subset, FS_CardinalityType
  <2>3. Cardinality(sending') <= QueueSize
    BY <2>1, <2>2
  <2> QED BY <1>6, <2>1, <2>2, <2>3 DEF Snp!Sent
<1>7. ASSUME NEW buffer_size, Snp!receive(buffer_size) PROVE SnpTypes'
  <2>1. arrived' \in BOOLEAN
    <3>1. arrived' = (FrameSize > buffer_size)
      BY <1>7 DEF Snp!receive
    <3> QED BY <3>1
  <2> QED BY <1>7, <2>1 DEF Snp!receive
<1> QED BY <1>1, <1>2, <1>3, <1>4, <1>5, <1>6, <1>7 DEF Snp!SnpNext

Types == SetTypes /\ LedgerTypes /\ Tcp4!TcpTypeOK /\ Dhcp4!DhcpTypeOK /\ SnpTypes

LEMMA InitTypes == Init => Types
<1> SUFFICES ASSUME Init PROVE Types
  OBVIOUS
<1>1. SetTypes /\ LedgerTypes
  BY DEF Init, TokensInit, SetTypes, LedgerTypes
<1>2. Tcp4!TcpTypeOK
  BY DEF Init, Tcp4!TcpTypeOK, Tcp4!Tcp4ConnectionState
<1>3. Dhcp4!DhcpTypeOK
  <2>1. Dhcp4!DhcpInit
    BY DEF Init
  <2>2. tries \in 0 .. MaxTries
    BY <2>1, NetworkAssumption DEF Dhcp4!DhcpInit
  <2>3. callback \in BOOLEAN /\ set_up \in BOOLEAN /\ told \in BOOLEAN
    BY <2>1 DEF Dhcp4!DhcpInit
  <2>4. dhcp_state \in Dhcp4!Dhcp4State
    BY <2>1 DEF Dhcp4!DhcpInit, Dhcp4!Dhcp4State
  <2>5. completion \in {"none", "pending", "signaled"} /\ exchange \in {"none", "pending", "signaled"}
    BY <2>1 DEF Dhcp4!DhcpInit
  <2> QED BY <2>2, <2>3, <2>4, <2>5 DEF Dhcp4!DhcpTypeOK
<1>4. IsFiniteSet({}) /\ Cardinality({}) = 0
  BY FS_EmptySet
<1>5. SnpTypes
  <2>1. Snp!SnpInit
    BY DEF Init
  <2>2. IsFiniteSet(sending) /\ Snp!Cardinality(sending) <= QueueSize
    BY <1>4, <2>1, NetworkAssumption, SameCardinality DEF Snp!SnpInit
  <2>3. state \in Snp!SimpleNetworkState /\ known \in Snp!SimpleNetworkState /\ arrived \in BOOLEAN
    BY <2>1 DEF Snp!SnpInit, Snp!SimpleNetworkState
  <2>4. sending = {} /\ recycled = {} /\ lent = {} /\ filters = {} /\ enabled = {} /\ mcast = {} /\ listed = {}
    BY <2>1 DEF Snp!SnpInit
  <2> QED BY <2>2, <2>3, <2>4 DEF SnpTypes, Snp!SnpTypeOK
<1> QED BY <1>1, <1>2, <1>3, <1>5 DEF Types

LEMMA TypesStep == IInv /\ Types /\ [Next]_vars => Types'
<1> SUFFICES ASSUME IInv, Types, [Next]_vars PROVE Types'
  OBVIOUS
<1> USE DEF Types, IInv
<1>1. ASSUME TokenStep /\ UNCHANGED events, LedgerTypes', UNCHANGED <<dhcp_vars, snp_vars>>,
             Tcp4!TcpTypeOK'
      PROVE  Types'
  <2>1. SetTypes'
    BY <1>1, SetTypesStep
  <2>2. Dhcp4!DhcpTypeOK' /\ SnpTypes'
    BY <1>1 DEF dhcp_vars, snp_vars, Dhcp4!DhcpTypeOK, SnpTypes, Snp!SnpTypeOK
  <2> QED BY <1>1, <2>1, <2>2
<1>2. CASE Ipv4
  <2>1. LedgerTypes' /\ TokenStep /\ UNCHANGED events
    BY <1>2, Ipv4Types, Ipv4Step DEF Ipv4
  <2> QED BY <1>1, <1>2, <2>1 DEF Ipv4, own_vars, Tcp4!TcpTypeOK
<1>3. CASE ManagedNetwork
  <2>1. LedgerTypes' /\ TokenStep /\ UNCHANGED events
    BY <1>3, MnpTypes, MnpStep DEF ManagedNetwork
  <2> QED BY <1>1, <1>3, <2>1 DEF ManagedNetwork, Tcp4!TcpTypeOK
<1>4. CASE Tcp
  <2>1. LedgerTypes' /\ Tcp4!TcpTypeOK' /\ TokenStep /\ UNCHANGED events
    BY <1>4, TcpTypes, TcpStep DEF Tcp, TokensInv
  <2> QED BY <1>1, <1>4, <2>1 DEF Tcp
<1>5. CASE Dns
  <2>1. LedgerTypes' /\ TokenStep /\ UNCHANGED events
    BY <1>5, DnsTypes, DnsStep DEF Dns
  <2> QED BY <1>1, <1>5, <2>1 DEF Dns, own_vars, Tcp4!TcpTypeOK
<1>6. ASSUME UNCHANGED <<token_vars, own_vars>>
      PROVE  SetTypes' /\ LedgerTypes' /\ Tcp4!TcpTypeOK'
  BY <1>6 DEF token_vars, tokens, ledgers, own_vars, SetTypes, LedgerTypes, Tcp4!TcpTypeOK
<1>7. CASE Dhcp
  <2>1. Dhcp4!DhcpTypeOK'
    BY <1>7, DhcpTypes DEF Dhcp
  <2>2. SnpTypes'
    BY <1>7 DEF Dhcp, snp_vars, SnpTypes, Snp!SnpTypeOK
  <2> QED BY <1>6, <1>7, <2>1, <2>2 DEF Dhcp
<1>8. CASE SimpleNetwork
  <2>1. SnpTypes'
    BY <1>8, SnpTypesStep DEF SimpleNetwork
  <2>2. Dhcp4!DhcpTypeOK'
    BY <1>8 DEF SimpleNetwork, dhcp_vars, Dhcp4!DhcpTypeOK
  <2> QED BY <1>6, <1>8, <2>1, <2>2 DEF SimpleNetwork
<1>9. CASE UNCHANGED vars
  <2>1. SnpTypes' /\ Dhcp4!DhcpTypeOK'
    BY <1>9 DEF vars, dhcp_vars, snp_vars, SnpTypes, Snp!SnpTypeOK, Dhcp4!DhcpTypeOK
  <2> QED BY <1>6, <1>9, <2>1 DEF vars
<1> QED BY <1>2, <1>3, <1>4, <1>5, <1>7, <1>8, <1>9 DEF Next

\* All variables have their types, and the transmit queue its limit.
THEOREM TypeCorrect == Spec => []NetworkTypeOK
<1>1. IInv /\ Types => NetworkTypeOK
  BY DEF IInv, TokensInv, TokenTypes, Members, Types, SetTypes, LedgerTypes, SnpTypes,
         NetworkTypeOK, TokensTypeOK
<1> QED BY <1>1, InitTypes, TypesStep, Invariance, PTL DEF Spec

-----------------------------------------------------------------------------
(* Every token ends.  First what is held when: a token is held for what the *)
(* client waits for, by a protocol with tokens, and that of a connection   *)
(* only while the connection is on its way to end it.                      *)

HalfClosed == {"FinWait1", "FinWait2", "Closing", "TimeWait", "LastAck"}

\* The client has closed: the handshake is under way, or was done without.
GoingDown ==
  connection \in HalfClosed \/ (connection = "Closed" /\ \E t \in Tokens : held[t] = "Close")

TcpStage(t) ==
  \/ held[t] \in {"none", "Accept", "Receive"}
  \/ held[t] = "Connect" /\ connection \in {"SynSent", "SynReceived"}
  \/ held[t] = "Transmit" /\ (connection \in {"Established", "CloseWait"} \/ GoingDown)
  \/ held[t] = "Close" /\ GoingDown

TcpHeld ==
  /\ \A t \in Tokens : TcpStage(t)
  /\ \A t, u \in Tokens : held[t] = "Connect" /\ held[u] = "Connect" => t = u
  /\ GoingDown => \E t \in Tokens : held[t] = "Close"

HeldAsTaken ==
  \A t \in Tokens : held[t] # "none" => wanted[t] = held[t] /\ configured

HeldInv ==
  /\ KnowsWord
  /\ HeldAsTaken
  /\ protocol \notin WithTokens => Pending = {}
  /\ protocol = "Tcp4" => TcpHeld

\* What a step of any of the protocols does to the tokens that are held.
GiveBack(S) ==
  /\ held' = [t \in Tokens |-> IF t \in S THEN "none" ELSE held[t]]
  /\ UNCHANGED wanted

EndsSome == (\E S \in SUBSET Tokens : GiveBack(S)) /\ configured' = configured
Takes(t, purpose) ==
  /\ configured /\ configured' = configured
  /\ held[t] = "none"
  /\ held' = [held EXCEPT ![t] = purpose]
  /\ wanted' = [wanted EXCEPT ![t] = purpose]
Collects(t) ==
  /\ held[t] = "none"
  /\ wanted' = [wanted EXCEPT ![t] = "none"]
  /\ UNCHANGED <<held, configured>>

HeldStep ==
  \/ EndsSome
  \/ GiveBack(Pending)
  \/ \E t \in Tokens, purpose \in Purposes : Takes(t, purpose)
  \/ \E t \in Tokens : Collects(t)
  \/ UNCHANGED <<held, wanted>> /\ (configured => configured')

LEMMA HeldStepKeeps == ASSUME TokenTypes, HeldAsTaken, HeldStep PROVE HeldAsTaken'
<1> USE DEF TokenTypes, HeldAsTaken
<1>1. CASE EndsSome
  BY <1>1 DEF EndsSome, GiveBack
<1>2. CASE GiveBack(Pending)
  BY <1>2 DEF GiveBack, Pending
<1>3. ASSUME NEW t \in Tokens, NEW purpose \in Purposes, Takes(t, purpose) PROVE HeldAsTaken'
  BY <1>3 DEF Takes
<1>4. ASSUME NEW t \in Tokens, Collects(t) PROVE HeldAsTaken'
  BY <1>4 DEF Collects
<1>5. CASE UNCHANGED <<held, wanted>> /\ (configured => configured')
  BY <1>5
<1> QED BY <1>1, <1>2, <1>3, <1>4, <1>5 DEF HeldStep

\* The actions of the protocols are such steps.
LEMMA UnconfigureHeld == ASSUME Unconfigure PROVE HeldStep
BY DEF Unconfigure, Abort, End, GiveBack, HeldStep

LEMMA CancelHeld == ASSUME NEW token, Cancel(token), configured' = configured PROVE HeldStep
<1>1. \E S \in SUBSET Tokens : GiveBack(S)
  BY DEF Cancel, Abort, End, GiveBack, Pending
<1> QED BY <1>1 DEF EndsSome, HeldStep

LEMMA EndHeld ==
  ASSUME NEW S \in SUBSET Tokens, NEW word, End(S, word), configured' = configured PROVE HeldStep
BY DEF End, GiveBack, EndsSome, HeldStep

LEMMA CollectHeld == ASSUME KnowsWord, TokensInv, NEW t \in Tokens, Collect(t) PROVE HeldStep
<1>1. held[t] = "none"
  BY DEF Collect, TokensInv, EndSeen, Pending
<1> QED BY <1>1 DEF Collect, Collects, HeldStep

LEMMA SubmitHeld ==
  ASSUME NEW t \in Tokens, NEW purpose \in Purposes, Submit(t, purpose, purpose),
         configured' = configured
  PROVE  HeldStep
BY DEF Submit, Take, Takes, HeldStep

LEMMA Ipv4Held == ASSUME KnowsWord, TokensInv, Ip4!Ipv4Next PROVE HeldStep
<1>1. CASE Ip4!configure
  BY <1>1 DEF Ip4!configure, Ip4!tokens, HeldStep
<1>2. CASE Ip4!reset
  <2>1. Unconfigure
    BY <1>2 DEF Ip4!reset, Ip4!Unconfigure, Unconfigure, Ip4!Abort, Abort, Ip4!End, End,
                Ip4!All, All, Ip4!Pending, Pending
  <2> QED BY <2>1, UnconfigureHeld
<1>3. CASE \/ Ip4!leave_all_groups
           \/ \E group \in Groups : Ip4!join_group(group) \/ Ip4!leave_group(group)
           \/ \E route \in Routes : Ip4!add_route(route) \/ Ip4!delete_route(route)
  BY <1>3 DEF Ip4!leave_all_groups, Ip4!join_group, Ip4!leave_group, Ip4!groups_, Ip4!add_route,
              Ip4!delete_route, Ip4!routes_, Ip4!tokens, HeldStep
<1>4. ASSUME NEW t \in Tokens, Ip4!transmit(t) PROVE HeldStep
  BY <1>4, SubmitHeld, Ipv4InPlace
     DEF Ip4!transmit, Ip4!Submit, Submit, Ip4!Take, Take, Purposes
<1>5. ASSUME NEW t \in Tokens, Ip4!recieve(t) PROVE HeldStep
  BY <1>5, SubmitHeld, Ipv4InPlace
     DEF Ip4!recieve, Ip4!Submit, Submit, Ip4!Take, Take, Purposes
<1>6. ASSUME NEW t \in Tokens, Ip4!Collect(t) PROVE HeldStep
  BY <1>6, SameCollect, CollectHeld
<1>7. ASSUME NEW t \in Tokens, Ip4!Ipv4Ends(t) PROVE HeldStep
  <2>1. \E word : End({t}, word)
    BY <1>7 DEF Ip4!Ipv4Ends, Ip4!End, End
  <2> QED BY <1>7, <2>1, EndHeld DEF Ip4!Ipv4Ends
<1>8. ASSUME NEW token, Ip4!cancel(token) PROVE HeldStep
  BY <1>8, CancelHeld DEF Ip4!cancel, Ip4!Cancel, Cancel, Ip4!Abort, Abort, Ip4!End, End,
                          Ip4!All, All, Ip4!Pending, Pending
<1> QED BY <1>1, <1>2, <1>3, <1>4, <1>5, <1>6, <1>7, <1>8 DEF Ip4!Ipv4Next, Ip4!poll

LEMMA MnpHeld == ASSUME KnowsWord, TokensInv, Mnp!MnpNext PROVE HeldStep
<1>1. ASSUME NEW config_data, Mnp!configure(config_data) PROVE HeldStep
  <2>1. CASE config_data = nullptr
    <3>1. Unconfigure
      BY <1>1, <2>1 DEF Mnp!configure, Mnp!Unconfigure, Unconfigure, Mnp!Abort, Abort, Mnp!End,
                        End, Mnp!All, All, Mnp!Pending, Pending
    <3> QED BY <3>1, UnconfigureHeld
  <2>2. CASE config_data # nullptr
    BY <1>1, <2>2 DEF Mnp!configure, Mnp!tokens, HeldStep
  <2> QED BY <2>1, <2>2
<1>2. CASE Mnp!leave_all_groups \/ \E group \in Groups : Mnp!join_group(group) \/ Mnp!leave_group(group)
  BY <1>2 DEF Mnp!leave_all_groups, Mnp!join_group, Mnp!leave_group, Mnp!groups_, Mnp!tokens, HeldStep
<1>3. ASSUME NEW t \in Tokens, Mnp!transmit(t) PROVE HeldStep
  BY <1>3, SubmitHeld, MnpInPlace
     DEF Mnp!transmit, Mnp!Submit, Submit, Mnp!Take, Take, Purposes
<1>4. ASSUME NEW t \in Tokens, Mnp!receive(t) PROVE HeldStep
  BY <1>4, SubmitHeld, MnpInPlace
     DEF Mnp!receive, Mnp!Submit, Submit, Mnp!Take, Take, Purposes
<1>5. ASSUME NEW t \in Tokens, Mnp!Collect(t) PROVE HeldStep
  BY <1>5, SameCollect, CollectHeld
<1>6. ASSUME NEW t \in Tokens, Mnp!MnpProgress(t) PROVE HeldStep
  <2>1. \E word : End({t}, word)
    BY <1>6 DEF Mnp!MnpProgress, Mnp!End, End
  <2> QED BY <1>6, <2>1, EndHeld DEF Mnp!MnpProgress
<1>7. ASSUME NEW token, Mnp!cancel(token) PROVE HeldStep
  BY <1>7, CancelHeld DEF Mnp!cancel, Mnp!Cancel, Cancel, Mnp!Abort, Abort, Mnp!End, End,
                          Mnp!All, All, Mnp!Pending, Pending
<1> QED BY <1>1, <1>2, <1>3, <1>4, <1>5, <1>6, <1>7 DEF Mnp!MnpNext, Mnp!poll, Mnp!MnpEnds

LEMMA DnsHeld == ASSUME KnowsWord, TokensInv, Dns4!DnsNext PROVE HeldStep
<1>1. CASE Dns4!configure
  BY <1>1 DEF Dns4!configure, Dns4!tokens, HeldStep
<1>2. CASE Dns4!reset
  <2>1. Unconfigure
    BY <1>2 DEF Dns4!reset, Dns4!Unconfigure, Unconfigure, Dns4!Abort, Abort, Dns4!End, End,
                Dns4!All, All, Dns4!Pending, Pending
  <2> QED BY <2>1, UnconfigureHeld
<1>3. ASSUME NEW t \in Tokens,
             Dns4!hostname_to_ip(t) \/ Dns4!ip_to_hostname(t) \/ Dns4!general_lookup(t)
      PROVE  HeldStep
  <2>1. \E purpose \in Purposes : Takes(t, purpose)
    BY <1>3, DnsInPlace DEF Dns4!hostname_to_ip, Dns4!ip_to_hostname, Dns4!general_lookup,
                            Dns4!lookup, Dns4!Take, Takes, Purposes
  <2> QED BY <2>1 DEF HeldStep
<1>4. ASSUME NEW t \in Tokens, Dns4!Collect(t) PROVE HeldStep
  BY <1>4, SameCollect, CollectHeld
<1>5. ASSUME NEW t \in Tokens, Dns4!DnsEnds(t) PROVE HeldStep
  <2>1. \E word : End({t}, word)
    BY <1>5 DEF Dns4!DnsEnds, Dns4!End, End
  <2> QED BY <1>5, <2>1, EndHeld DEF Dns4!DnsEnds
<1>6. ASSUME NEW token, Dns4!cancel(token) PROVE HeldStep
  BY <1>6, CancelHeld DEF Dns4!cancel, Dns4!Cancel, Cancel, Dns4!Abort, Abort, Dns4!End, End,
                          Dns4!All, All, Dns4!Pending, Pending
<1> QED BY <1>1, <1>2, <1>3, <1>4, <1>5, <1>6 DEF Dns4!DnsNext, Dns4!poll

\* The steps of a connection and of the tokens held for it.
TcpEndsSome ==
  \E S \in SUBSET Tokens :
    /\ GiveBack(S)
    /\ \A t \in S : held[t] # "Close"
    /\ connection' = IF \E t \in S : held[t] = "Connect" THEN "Closed" ELSE connection
TcpEndsAll == GiveBack(Pending) /\ connection' = "Closed"
TcpAnswers ==
  /\ connection = "SynSent" /\ connection' = "SynReceived"
  /\ UNCHANGED <<held, wanted>>
TcpConnects ==
  /\ connection \in {"SynSent", "SynReceived"} /\ connection' = "Established"
  /\ GiveBack({t \in Tokens : held[t] = "Connect"})
TcpCloses ==
  /\ \/ connection = "Established" /\ connection' = "CloseWait"
     \/ connection = "FinWait1" /\ connection' \in {"FinWait2", "Closing", "TimeWait"}
     \/ connection \in {"FinWait2", "Closing"} /\ connection' = "TimeWait"
  /\ \E S \in SUBSET Tokens : GiveBack(S) /\ \A t \in S : held[t] = "Receive"
TcpTakes(t, purpose) ==
  /\ Takes(t, purpose)
  /\ \A u \in Tokens : held[u] # "Close"
  /\ \/ purpose = "Connect" /\ connection = "Closed" /\ connection' = "SynSent"
     \/ purpose \in {"Accept", "Receive"} /\ connection' = connection
     \/ purpose = "Transmit" /\ connection \in {"Established", "CloseWait"} /\ connection' = connection
     \/ /\ purpose = "Close" /\ connection \in {"Established", "CloseWait"}
        /\ connection' \in {"FinWait1", "LastAck", "Closed"}
TcpConfigures == Pending = {} /\ UNCHANGED held /\ connection' \in {"Closed", "Listen"}

TcpKind ==
  \/ TcpEndsSome \/ TcpEndsAll \/ TcpAnswers \/ TcpConnects \/ TcpCloses \/ TcpConfigures
  \/ \E t \in Tokens, purpose \in Purposes : TcpTakes(t, purpose)
  \/ UNCHANGED <<held, connection>>

\* The actions of TCP4 are such steps.
LEMMA TcpDriverKind ==
  ASSUME TokenTypes, Tcp4!TcpDriver
  PROVE  (TcpEndsSome \/ TcpEndsAll \/ TcpAnswers \/ TcpConnects \/ TcpCloses) /\ UNCHANGED configured
<1>0. UNCHANGED configured
  BY DEF Tcp4!TcpDriver, Tcp4!Handshake, Tcp4!PeerCloses, Tcp4!Closes, Tcp4!Acknowledged, Tcp4!Ended,
         Tcp4!Breaks, Tcp4!Accepted, Tcp4!Transferred, Tcp4!TcpKeeps
<1>1. CASE Tcp4!Handshake
  <2>1. CASE connection = "SynSent" /\ connection' = "SynReceived" /\ UNCHANGED Tcp4!tokens
    <3>1. TcpAnswers
      BY <2>1 DEF Tcp4!tokens, TcpAnswers
    <3> QED BY <1>0, <3>1
  <2>2. CASE /\ connection \in {"SynSent", "SynReceived"} /\ connection' = "Established"
             /\ Tcp4!End(Tcp4!HeldFor({"Connect"}), Tcp4!All("Success"))
    <3>1. GiveBack({t \in Tokens : held[t] = "Connect"})
      BY <2>2 DEF Tcp4!End, Tcp4!HeldFor, GiveBack
    <3>2. TcpConnects
      BY <2>2, <3>1 DEF TcpConnects
    <3> QED BY <1>0, <3>2
  <2> QED BY <1>0, <1>1, <2>1, <2>2 DEF Tcp4!Handshake, Tcp4!Goes
<1>2. CASE Tcp4!PeerCloses
  <2>1. GiveBack({t \in Tokens : held[t] = "Receive"})
    BY <1>2 DEF Tcp4!PeerCloses, Tcp4!End, Tcp4!HeldFor, GiveBack
  <2>2. \/ connection = "Established" /\ connection' = "CloseWait"
        \/ connection = "FinWait1" /\ connection' \in {"FinWait2", "Closing", "TimeWait"}
        \/ connection \in {"FinWait2", "Closing"} /\ connection' = "TimeWait"
    BY <1>2 DEF Tcp4!PeerCloses, Tcp4!Goes
  <2>3. {t \in Tokens : held[t] = "Receive"} \in SUBSET Tokens
    OBVIOUS
  <2> QED BY <1>0, <2>1, <2>2, <2>3 DEF TcpCloses
<1>3. CASE Tcp4!Acknowledged
  <2>1. GiveBack({})
    BY <1>3 DEF Tcp4!Acknowledged, Tcp4!tokens, GiveBack, TokenTypes
  <2>2. \/ connection = "FinWait1" /\ connection' = "FinWait2"
        \/ connection = "Closing" /\ connection' = "TimeWait"
    BY <1>3 DEF Tcp4!Acknowledged, Tcp4!Goes
  <2> QED BY <1>0, <2>1, <2>2 DEF TcpCloses
<1>4. CASE Tcp4!Ended \/ \E word \in {"ConnectionReset", "Timeout"} : Tcp4!Breaks(word)
  <2>1. connection' = "Closed"
    BY <1>4 DEF Tcp4!Ended, Tcp4!Breaks, Tcp4!Goes
  <2>2. GiveBack(Pending)
    BY <1>4 DEF Tcp4!Ended, Tcp4!Breaks, Tcp4!End, Tcp4!Pending, Pending, GiveBack
  <2> QED BY <1>0, <2>1, <2>2 DEF TcpEndsAll
<1>5. ASSUME NEW t \in Tokens, Tcp4!Accepted(t) \/ Tcp4!Transferred(t) PROVE TcpEndsSome
  <2>1. GiveBack({t}) /\ held[t] \notin {"Close", "Connect"} /\ connection' = connection
    BY <1>5 DEF Tcp4!Accepted, Tcp4!Transferred, Tcp4!End, GiveBack
  <2> QED BY <2>1 DEF TcpEndsSome
<1> QED BY <1>0, <1>1, <1>2, <1>3, <1>4, <1>5 DEF Tcp4!TcpDriver, Tcp4!Closes

LEMMA TcpSubmitKind ==
  ASSUME NEW t \in Tokens,
         \/ Tcp4!connect(t) \/ Tcp4!accept(t) \/ Tcp4!transmit(t) \/ Tcp4!receive(t)
         \/ \E abort_on_close_ \in BOOLEAN : Tcp4!close(t, abort_on_close_)
  PROVE  \E purpose \in Purposes : TcpTakes(t, purpose)
<1>1. CASE Tcp4!connect(t)
  BY <1>1, TcpInPlace DEF Tcp4!connect, Tcp4!submit, Tcp4!Submit, Tcp4!Take, Tcp4!Accepts,
                          Tcp4!HeldFor, Tcp4!Goes, TcpTakes, Takes, Purposes
<1>2. CASE Tcp4!accept(t)
  BY <1>2, TcpInPlace DEF Tcp4!accept, Tcp4!submit, Tcp4!Submit, Tcp4!Take, Tcp4!Accepts,
                          Tcp4!HeldFor, Tcp4!Goes, TcpTakes, Takes, Purposes
<1>3. CASE Tcp4!transmit(t)
  BY <1>3, TcpInPlace DEF Tcp4!transmit, Tcp4!submit, Tcp4!Submit, Tcp4!Take, Tcp4!Accepts,
                          Tcp4!HeldFor, Tcp4!Goes, TcpTakes, Takes, Purposes
<1>4. CASE Tcp4!receive(t)
  BY <1>4, TcpInPlace DEF Tcp4!receive, Tcp4!submit, Tcp4!Submit, Tcp4!Take, Tcp4!Accepts,
                          Tcp4!HeldFor, Tcp4!Goes, TcpTakes, Takes, Purposes
<1>5. CASE \E abort_on_close_ \in BOOLEAN : Tcp4!close(t, abort_on_close_)
  BY <1>5, TcpInPlace DEF Tcp4!close, Tcp4!Take, Tcp4!Accepts, Tcp4!HeldFor, Tcp4!Goes, TcpTakes, Takes, Purposes
<1> QED BY <1>1, <1>2, <1>3, <1>4, <1>5

LEMMA TcpKinds ==
  ASSUME KnowsWord, TokensInv, HeldAsTaken, Tcp4!TcpNext
  PROVE  HeldStep /\ TcpKind
<1> USE DEF TcpKind
<1>1. ASSUME NEW active_flag, Tcp4!configure(active_flag) PROVE HeldStep /\ TcpKind
  <2>1. Pending = {}
    BY <1>1 DEF Tcp4!configure, HeldAsTaken, Pending
  <2> QED BY <1>1, <2>1 DEF Tcp4!configure, Tcp4!tokens, HeldStep, TcpConfigures
<1>2. CASE Tcp4!reset
  <2>1. Unconfigure /\ connection' = "Closed"
    BY <1>2 DEF Tcp4!reset, Tcp4!Unconfigure, Unconfigure, Tcp4!Abort, Abort, Tcp4!End, End,
                Tcp4!All, All, Tcp4!Pending, Pending
  <2>2. TcpEndsAll
    BY <2>1 DEF Unconfigure, Abort, End, TcpEndsAll, GiveBack
  <2> QED BY <2>1, <2>2, UnconfigureHeld
<1>3. CASE Tcp4!TcpDriver
  <2>1. TcpEndsSome \/ TcpEndsAll \/ TcpAnswers \/ TcpConnects \/ TcpCloses
    BY <1>3, TcpDriverKind DEF TokensInv
  <2>2. (\E S \in SUBSET Tokens : GiveBack(S)) \/ UNCHANGED <<held, wanted>>
    BY <2>1 DEF TcpEndsSome, TcpEndsAll, TcpAnswers, TcpConnects, TcpCloses, Pending
  <2>3. UNCHANGED configured
    BY <1>3, TcpDriverKind DEF TokensInv
  <2> QED BY <2>1, <2>2, <2>3 DEF HeldStep, EndsSome
<1>4. CASE \E route \in Routes : Tcp4!add_route(route) \/ Tcp4!delete_route(route)
  <2>1. UNCHANGED <<held, wanted, configured, connection>>
    BY <1>4 DEF Tcp4!add_route, Tcp4!delete_route, Tcp4!routes_, Tcp4!tokens
  <2> QED BY <2>1 DEF HeldStep
<1>5. ASSUME NEW t \in Tokens,
             \/ Tcp4!connect(t) \/ Tcp4!accept(t) \/ Tcp4!transmit(t) \/ Tcp4!receive(t)
             \/ \E abort_on_close_ \in BOOLEAN : Tcp4!close(t, abort_on_close_)
      PROVE  HeldStep /\ TcpKind
  BY <1>5, TcpSubmitKind DEF TcpTakes, HeldStep
<1>6. ASSUME NEW t \in Tokens, Tcp4!Collect(t), UNCHANGED connection PROVE HeldStep /\ TcpKind
  BY <1>6, SameCollect, CollectHeld DEF Collect
<1>7. ASSUME NEW token, Tcp4!cancel(token) PROVE HeldStep /\ TcpKind
  <2>1. PICK S \in SUBSET Tokens :
          /\ GiveBack(S) /\ \A t \in S : held[t] # "Close"
          /\ connection' = IF \E t \in S : held[t] = "Connect" THEN "Closed" ELSE connection
    BY <1>7 DEF Tcp4!cancel, Tcp4!Abort, Tcp4!End, Tcp4!Pending, GiveBack
  <2>2. UNCHANGED configured
    BY <1>7 DEF Tcp4!cancel
  <2> QED BY <2>1, <2>2 DEF TcpEndsSome, EndsSome, HeldStep
<1> QED BY <1>1, <1>2, <1>3, <1>4, <1>5, <1>6, <1>7 DEF Tcp4!TcpNext, Tcp4!poll

LEMMA TcpHeldKeeps == ASSUME TokenTypes, TcpHeld, TcpKind PROVE TcpHeld'
<1> USE DEF TcpHeld, TcpStage, TokenTypes, HalfClosed, GoingDown
<1>1. CASE TcpEndsSome
  <2>1. PICK S \in SUBSET Tokens :
          /\ GiveBack(S)
          /\ \A t \in S : held[t] # "Close"
          /\ connection' = IF \E t \in S : held[t] = "Connect" THEN "Closed" ELSE connection
    BY <1>1 DEF TcpEndsSome
  <2>2. CASE \E t \in S : held[t] = "Connect"
    BY <2>1, <2>2 DEF GiveBack
  <2>3. CASE ~\E t \in S : held[t] = "Connect"
    BY <2>1, <2>3 DEF GiveBack
  <2> QED BY <2>2, <2>3
<1>2. CASE TcpEndsAll
  BY <1>2 DEF TcpEndsAll, GiveBack, Pending
<1>3. CASE TcpAnswers
  BY <1>3 DEF TcpAnswers
<1>4. CASE TcpConnects
  BY <1>4 DEF TcpConnects, GiveBack
<1>5. CASE TcpCloses
  <2>1. PICK S \in SUBSET Tokens : GiveBack(S) /\ \A t \in S : held[t] = "Receive"
    BY <1>5 DEF TcpCloses
  <2>2. \A t \in Tokens : held'[t] = IF t \in S THEN "none" ELSE held[t]
    BY <2>1 DEF GiveBack
  <2>3. \A t \in Tokens : held[t] # "Receive" => held'[t] = held[t]
    BY <2>1, <2>2
  <2>4. \A t \in Tokens : held'[t] \in {"none", held[t]}
    BY <2>2
  <2> QED BY <1>5, <2>3, <2>4 DEF TcpCloses
<1>6. CASE TcpConfigures
  BY <1>6 DEF TcpConfigures, Pending
<1>7. ASSUME NEW t \in Tokens, NEW purpose \in Purposes, TcpTakes(t, purpose) PROVE TcpHeld'
  <2>1. held[t] = "none" /\ held' = [held EXCEPT ![t] = purpose]
    BY <1>7 DEF TcpTakes, Takes
  <2>2. CASE purpose = "Connect"
    BY <1>7, <2>1, <2>2 DEF TcpTakes
  <2>3. CASE purpose = "Close"
    BY <1>7, <2>1, <2>3 DEF TcpTakes
  <2>4. CASE purpose \in {"Accept", "Receive", "Transmit"}
    BY <1>7, <2>1, <2>4 DEF TcpTakes
  <2> QED BY <1>7, <2>2, <2>3, <2>4 DEF TcpTakes
<1>8. CASE UNCHANGED <<held, connection>>
  BY <1>8
<1> QED BY <1>1, <1>2, <1>3, <1>4, <1>5, <1>6, <1>7, <1>8 DEF TcpKind

LEMMA NextKinds ==
  ASSUME IInv, HeldInv, [Next]_vars
  PROVE  /\ UNCHANGED protocol
         /\ HeldStep
         /\ protocol = "Tcp4" => TcpKind
         /\ protocol \notin WithTokens => UNCHANGED held
<1> USE DEF IInv, HeldInv
<1>1. CASE Ipv4
  BY <1>1, Ipv4Held DEF Ipv4, WithTokens
<1>2. CASE ManagedNetwork
  BY <1>2, MnpHeld DEF ManagedNetwork, WithTokens
<1>3. CASE Tcp
  BY <1>3, TcpKinds DEF Tcp, WithTokens
<1>4. CASE Dns
  BY <1>4, DnsHeld DEF Dns, WithTokens
<1>5. CASE Dhcp \/ SimpleNetwork \/ UNCHANGED vars
  <2>1. UNCHANGED <<protocol, held, wanted, configured, connection>>
    BY <1>5 DEF Dhcp, SimpleNetwork, vars, token_vars, tokens, own_vars
  <2> QED BY <2>1 DEF HeldStep, TcpKind
<1> QED BY <1>1, <1>2, <1>3, <1>4, <1>5 DEF Next

\* What is held is as it is said to be, in every reachable state.
LEMMA HeldInvariance == ASSUME KnowsWord PROVE Spec => []HeldInv
<1>1. Init => HeldInv
  BY DEF Init, TokensInit, HeldInv, HeldAsTaken, Pending, TcpHeld, TcpStage, HalfClosed, GoingDown
<1>2. IInv /\ HeldInv /\ [Next]_vars => HeldInv'
  <2> SUFFICES ASSUME IInv, HeldInv, [Next]_vars PROVE HeldInv'
    OBVIOUS
  <2>1. TokenTypes /\ HeldAsTaken
    BY DEF IInv, TokensInv, HeldInv
  <2>2. HeldAsTaken'
    BY <2>1, NextKinds, HeldStepKeeps
  <2>3. protocol' \notin WithTokens => Pending' = {}
    BY NextKinds DEF HeldInv, Pending
  <2>4. protocol' = "Tcp4" => TcpHeld'
    BY <2>1, NextKinds, TcpHeldKeeps DEF HeldInv
  <2> QED BY <2>2, <2>3, <2>4 DEF HeldInv
<1> QED BY <1>1, <1>2, Invariance, PTL DEF Spec

-----------------------------------------------------------------------------
(* The fairness of FairSpec, written out: weak fairness of Finishes, with  *)
(* its guard in the place of ENABLED, which the prover does not reason     *)
(* about.  The guard is its only condition: the other conjuncts say what   *)
(* each variable becomes, and a token or the connection changes.           *)

CanFinish(t) ==
  /\ held[t] \in Ending
  /\ \/ protocol \in {"Ip4", "Dns4"}
     \/ protocol = "Mnp" /\ (~disable_background_polling_ \/ configured)
     \/ /\ protocol = "Tcp4"
        /\ \/ /\ held[t] = "Transmit"
              /\ connection \in {"Established", "CloseWait", "FinWait1", "Closing", "LastAck"}
           \/ held[t] = "Connect" /\ connection \in {"SynSent", "SynReceived"}
           \/ held[t] = "Close" /\ connection \in HalfClosed \cup {"Closed"}

FinishIsFair(t) == []CanFinish(t) => <><<Finishes(t)>>_vars
AllFinishesFair == \A t \in Tokens : FinishIsFair(t)
FairFinishes == []AllFinishesFair

LiveInv == IInv /\ HeldInv

\* A token that is no longer held has ended, and its end can be seen.
LEMMA GoneIsNoticed ==
  ASSUME LiveInv, LiveInv', [Next]_vars, NEW t \in Tokens, held[t] # "none", held'[t] # held[t]
  PROVE  Noticed(t)'
<1>0. /\ TokenTypes /\ HeldAsTaken /\ HeldStep /\ EndSeen'
      /\ wanted[t] # "none"
  BY NextKinds DEF LiveInv, IInv, TokensInv, HeldInv, HeldAsTaken
<1>1. held'[t] = "none" /\ wanted'[t] = wanted[t]
  <2>1. CASE EndsSome \/ GiveBack(Pending)
    BY <1>0, <2>1 DEF EndsSome, GiveBack, Pending
  <2>2. ASSUME NEW u \in Tokens, NEW purpose \in Purposes, Takes(u, purpose) PROVE FALSE
    BY <1>0, <2>2 DEF Takes, TokenTypes
  <2>3. ASSUME NEW u \in Tokens, Collects(u) PROVE FALSE
    BY <2>3 DEF Collects
  <2> QED BY <1>0, <2>1, <2>2, <2>3 DEF HeldStep
<1> QED BY <1>0, <1>1 DEF EndSeen, Pending

-----------------------------------------------------------------------------
(* Without a connection a token ends by itself.                            *)

Sent(t) == protocol \in {"Ip4", "Mnp", "Dns4"} /\ held[t] \in Ending

LEMMA SentEnds ==
  ASSUME NEW t \in Tokens
  PROVE  []LiveInv /\ [][Next]_vars /\ FairFinishes => (Sent(t) => <>Noticed(t))
<1>0. "none" \notin Ending
  BY DEF Ending, Purposes
<1>1. LiveInv /\ LiveInv' /\ [Next]_vars /\ Sent(t) => Sent(t)' \/ Noticed(t)'
  BY <1>0, NextKinds, GoneIsNoticed DEF LiveInv, Sent
<1>2. LiveInv /\ Sent(t) => CanFinish(t)
  BY <1>0 DEF LiveInv, HeldInv, HeldAsTaken, Sent, CanFinish
<1>3. LiveInv /\ LiveInv' /\ [Next]_vars /\ Sent(t) /\ <<Finishes(t)>>_vars => Noticed(t)'
  <2> SUFFICES ASSUME LiveInv, LiveInv', [Next]_vars, Sent(t), Finishes(t) PROVE Noticed(t)'
    OBVIOUS
  <2>1. protocol = "Ip4" => held'[t] = "none"
    BY DEF Finishes, FinishesWith, Ip4!Ipv4Ends, Ip4!End
  <2>2. protocol = "Dns4" => held'[t] = "none"
    BY DEF Finishes, FinishesWith, Dns4!DnsEnds, Dns4!End
  <2>3. protocol = "Mnp" => held'[t] = "none"
    BY DEF Finishes, FinishesWith, Mnp!MnpEnds, Mnp!poll, Mnp!MnpProgress, Mnp!End
  <2> QED BY <1>0, <2>1, <2>2, <2>3, GoneIsNoticed DEF Sent
<1>4. AllFinishesFair => FinishIsFair(t)
  BY DEF AllFinishesFair
<1> QED BY <1>1, <1>2, <1>3, <1>4, PTL DEF FairFinishes, FinishIsFair

-----------------------------------------------------------------------------
\* The way of a connection while a token is held.
GoesOn(t) ==
  \/ connection' = connection
  \/ connection = "SynSent" /\ connection' = "SynReceived"
  \/ connection \in {"Closed", "SynSent", "SynReceived"} /\ held[t] # "Connect" /\ ~GoingDown
  \/ connection \in {"Established", "CloseWait"} /\ (connection' = "CloseWait" \/ GoingDown')
  \/ connection = "FinWait1" /\ connection' \in {"FinWait2", "Closing", "TimeWait"}
  \/ connection \in {"FinWait2", "Closing"} /\ connection' = "TimeWait"

LEMMA WhileHeld ==
  ASSUME TokenTypes, TcpHeld, TcpKind, NEW t \in Tokens, held[t] # "none", held'[t] = held[t]
  PROVE  GoesOn(t)
<1> USE DEF TcpHeld, TcpStage, TokenTypes, GoesOn, GoingDown, HalfClosed
<1>1. CASE TcpEndsSome
  <2>1. PICK S \in SUBSET Tokens :
          /\ GiveBack(S)
          /\ connection' = IF \E u \in S : held[u] = "Connect" THEN "Closed" ELSE connection
    BY <1>1 DEF TcpEndsSome
  <2>2. ASSUME NEW u \in S, held[u] = "Connect" PROVE GoesOn(t)
    <3>1. t \notin S
      BY <2>1 DEF GiveBack
    <3>2. held[t] # "Connect" /\ connection \in {"SynSent", "SynReceived"}
      BY <2>2, <3>1
    <3> QED BY <3>2
  <2> QED BY <2>1, <2>2
<1>2. CASE TcpEndsAll
  BY <1>2 DEF TcpEndsAll, GiveBack, Pending
<1>3. CASE TcpAnswers
  BY <1>3 DEF TcpAnswers
<1>4. CASE TcpConnects
  BY <1>4 DEF TcpConnects, GiveBack
<1>5. CASE TcpCloses
  BY <1>5 DEF TcpCloses
<1>6. CASE TcpConfigures
  BY <1>6 DEF TcpConfigures, Pending
<1>7. ASSUME NEW u \in Tokens, NEW purpose \in Purposes, TcpTakes(u, purpose) PROVE GoesOn(t)
  <2>1. held[u] = "none" /\ held' = [held EXCEPT ![u] = purpose]
    BY <1>7 DEF TcpTakes, Takes
  <2>2. CASE purpose = "Close"
    <3>1. held'[u] = "Close"
      BY <2>1, <2>2
    <3> QED BY <1>7, <2>2, <3>1 DEF TcpTakes
  <2>3. CASE purpose = "Connect"
    BY <1>7, <2>3 DEF TcpTakes
  <2>4. CASE purpose \notin {"Close", "Connect"}
    BY <1>7, <2>4 DEF TcpTakes
  <2> QED BY <2>2, <2>3, <2>4
<1>8. CASE UNCHANGED <<held, connection>>
  BY <1>8
<1> QED BY <1>1, <1>2, <1>3, <1>4, <1>5, <1>6, <1>7, <1>8 DEF TcpKind

\* A step while a token of a connection is held: it is seen to end, or the connection goes on.
LEMMA TcpGoesOn ==
  ASSUME LiveInv, LiveInv', [Next]_vars, protocol = "Tcp4", NEW t \in Tokens, held[t] # "none"
  PROVE  \/ Noticed(t)'
         \/ protocol' = "Tcp4" /\ held'[t] = held[t] /\ GoesOn(t)
BY NextKinds, GoneIsNoticed, WhileHeld DEF LiveInv, IInv, TokensInv, HeldInv

-----------------------------------------------------------------------------
(* A connect ends when the handshake is over, which may take two steps.    *)

Connects(t, where) == protocol = "Tcp4" /\ held[t] = "Connect" /\ connection \in where

LEMMA ConnectEnds ==
  ASSUME NEW t \in Tokens
  PROVE  []LiveInv /\ [][Next]_vars /\ FairFinishes
         => (Connects(t, {"SynSent", "SynReceived"}) => <>Noticed(t))
<1> DEFINE Sent1 == Connects(t, {"SynSent"})
           Sent2 == Connects(t, {"SynReceived"})
<1>1. LiveInv /\ LiveInv' /\ [Next]_vars /\ Sent1 => Sent1' \/ Sent2' \/ Noticed(t)'
  BY TcpGoesOn DEF Connects, GoesOn
<1>2. LiveInv /\ LiveInv' /\ [Next]_vars /\ Sent2 => Sent2' \/ Noticed(t)'
  BY TcpGoesOn DEF Connects, GoesOn
<1>3. Sent1 \/ Sent2 => CanFinish(t)
  BY DEF Connects, CanFinish, Ending, Purposes
<1>4. Connects(t, {"SynSent", "SynReceived"}) => Sent1 \/ Sent2
  BY DEF Connects
<1>5. ASSUME LiveInv, LiveInv', [Next]_vars, Sent1 \/ Sent2, Finishes(t)
      PROVE  (Sent1 /\ Sent2') \/ Noticed(t)'
  <2>1. Tcp4!Handshake
    BY <1>5 DEF Finishes, FinishesWith, Connects
  <2>2. CASE connection = "SynSent" /\ connection' = "SynReceived" /\ UNCHANGED held
    BY <1>5, <2>2, TcpGoesOn DEF Connects
  <2>3. CASE Tcp4!End(Tcp4!HeldFor({"Connect"}), Tcp4!All("Success"))
    <3>1. held'[t] = "none"
      BY <1>5, <2>3 DEF Tcp4!End, Tcp4!HeldFor, Connects
    <3> QED BY <1>5, <3>1, GoneIsNoticed DEF Connects
  <2> QED BY <2>1, <2>2, <2>3 DEF Tcp4!Handshake, Tcp4!Goes, Tcp4!tokens
<1>6. LiveInv /\ LiveInv' /\ [Next]_vars /\ Sent1 /\ <<Finishes(t)>>_vars => Sent2' \/ Noticed(t)'
  BY <1>5
<1>7. LiveInv /\ LiveInv' /\ [Next]_vars /\ Sent2 /\ <<Finishes(t)>>_vars => Noticed(t)'
  BY <1>5 DEF Connects
<1>8. AllFinishesFair => FinishIsFair(t)
  BY DEF AllFinishesFair
<1> HIDE DEF Sent1, Sent2
<1> QED BY <1>1, <1>2, <1>3, <1>4, <1>6, <1>7, <1>8, PTL DEF FairFinishes, FinishIsFair

-----------------------------------------------------------------------------
(* A close takes up to three steps, and ends all that is held beside it.   *)

Closing(t, u, where) ==
  protocol = "Tcp4" /\ held[t] # "none" /\ held[u] = "Close" /\ connection \in where

\* A token of close ends with all the others.
LEMMA CloseEndsAll ==
  ASSUME LiveInv, LiveInv', [Next]_vars, NEW t \in Tokens, NEW u \in Tokens, Closing(t, u, HalfClosed \cup {"Closed"})
  PROVE  \/ Noticed(t)'
         \/ protocol' = "Tcp4" /\ held'[t] = held[t] /\ held'[u] = "Close" /\ GoesOn(t)
<1> SUFFICES ASSUME held'[u] # "Close" PROVE held'[t] = "none"
  BY TcpGoesOn, GoneIsNoticed DEF Closing
<1>1. TokenTypes /\ TcpKind
  BY NextKinds DEF LiveInv, IInv, TokensInv, Closing
<1>2. CASE TcpEndsSome
  BY <1>2 DEF TcpEndsSome, GiveBack, Closing
<1>3. CASE TcpEndsAll
  BY <1>3 DEF TcpEndsAll, GiveBack, Pending
<1>4. CASE TcpAnswers \/ TcpConnects \/ TcpCloses
  BY <1>4 DEF TcpAnswers, TcpConnects, TcpCloses, GiveBack, Closing
<1>5. CASE TcpConfigures \/ UNCHANGED <<held, connection>>
  BY <1>5 DEF TcpConfigures, Closing
<1>6. ASSUME NEW v \in Tokens, NEW purpose \in Purposes, TcpTakes(v, purpose) PROVE FALSE
  BY <1>1, <1>6 DEF TcpTakes, Takes, TokenTypes, Closing
<1> QED BY <1>1, <1>2, <1>3, <1>4, <1>5, <1>6 DEF TcpKind

LEMMA ClosingEnds ==
  ASSUME NEW t \in Tokens, NEW u \in Tokens
  PROVE  []LiveInv /\ [][Next]_vars /\ FairFinishes => (Closing(t, u, HalfClosed \cup {"Closed"}) => <>Noticed(t))
<1> DEFINE First  == Closing(t, u, {"FinWait1"})
           Second == Closing(t, u, {"FinWait2", "Closing"})
           Last   == Closing(t, u, {"TimeWait", "LastAck", "Closed"})
<1>0. Closing(t, u, HalfClosed \cup {"Closed"}) <=> First \/ Second \/ Last
  BY DEF Closing, HalfClosed
<1>1. LiveInv /\ LiveInv' /\ [Next]_vars /\ First => First' \/ Second' \/ Last' \/ Noticed(t)'
  BY <1>0, CloseEndsAll DEF Closing, GoesOn, GoingDown, HalfClosed
<1>2. LiveInv /\ LiveInv' /\ [Next]_vars /\ Second => Second' \/ Last' \/ Noticed(t)'
  BY <1>0, CloseEndsAll DEF Closing, GoesOn, GoingDown, HalfClosed
<1>3. LiveInv /\ LiveInv' /\ [Next]_vars /\ Last => Last' \/ Noticed(t)'
  BY <1>0, CloseEndsAll DEF Closing, GoesOn, GoingDown, HalfClosed
<1>4. First \/ Second \/ Last => CanFinish(u)
  BY DEF Closing, CanFinish, Ending, Purposes, HalfClosed
<1>5. ASSUME LiveInv, LiveInv', [Next]_vars, First \/ Second \/ Last, Finishes(u)
      PROVE  (First /\ Second') \/ (Second /\ Last') \/ Noticed(t)'
  <2>1. Tcp4!Acknowledged \/ Tcp4!Ended
    BY <1>5 DEF Finishes, FinishesWith, Closing, Tcp4!Closes
  <2>2. CASE Tcp4!Acknowledged
    <3>1. \/ connection = "FinWait1" /\ connection' = "FinWait2"
          \/ connection = "Closing" /\ connection' = "TimeWait"
      BY <2>2 DEF Tcp4!Acknowledged, Tcp4!Goes
    <3>2. held' = held
      BY <2>2 DEF Tcp4!Acknowledged, Tcp4!tokens
    <3>3. protocol' = "Tcp4"
      BY <1>5 DEF Finishes, Closing
    <3> QED BY <1>5, <3>1, <3>2, <3>3 DEF Closing
  <2>3. CASE Tcp4!Ended
    <3>1. held'[t] = "none"
      BY <1>5, <2>3 DEF Tcp4!Ended, Tcp4!End, Tcp4!Pending, Closing
    <3> QED BY <1>5, <3>1, GoneIsNoticed DEF Closing
  <2> QED BY <2>1, <2>2, <2>3
<1>6. LiveInv /\ LiveInv' /\ [Next]_vars /\ First /\ <<Finishes(u)>>_vars => Second' \/ Noticed(t)'
  BY <1>5 DEF Closing
<1>7. LiveInv /\ LiveInv' /\ [Next]_vars /\ Second /\ <<Finishes(u)>>_vars => Last' \/ Noticed(t)'
  BY <1>5 DEF Closing
<1>8. LiveInv /\ LiveInv' /\ [Next]_vars /\ Last /\ <<Finishes(u)>>_vars => Noticed(t)'
  BY <1>5 DEF Closing
<1>9. AllFinishesFair => FinishIsFair(u)
  BY DEF AllFinishesFair
<1> HIDE DEF First, Second, Last
<1> QED BY <1>0, <1>1, <1>2, <1>3, <1>4, <1>6, <1>7, <1>8, <1>9, PTL DEF FairFinishes, FinishIsFair

HalfOpen(t) == protocol = "Tcp4" /\ held[t] # "none" /\ GoingDown

\* Whatever is held when the client has closed ends with the token of close.
LEMMA HalfOpenEnds ==
  ASSUME NEW t \in Tokens
  PROVE  []LiveInv /\ [][Next]_vars /\ FairFinishes => (HalfOpen(t) => <>Noticed(t))
<1> SUFFICES ASSUME []LiveInv /\ [][Next]_vars /\ FairFinishes, HalfOpen(t) PROVE <>Noticed(t)
  OBVIOUS
<1>0. LiveInv
  BY PTL
<1>1. \E u \in Tokens : Closing(t, u, HalfClosed \cup {"Closed"})
  BY <1>0 DEF LiveInv, HeldInv, TcpHeld, HalfOpen, Closing, GoingDown
<1>2. \A u \in Tokens : Closing(t, u, HalfClosed \cup {"Closed"}) => <>Noticed(t)
  BY ClosingEnds
<1> QED BY <1>1, <1>2

-----------------------------------------------------------------------------
(* Data is sent, or the client closes first and the close ends it.         *)

Transmits(t) ==
  protocol = "Tcp4" /\ held[t] = "Transmit" /\ connection \in {"Established", "CloseWait"}

LEMMA TransmitEnds ==
  ASSUME NEW t \in Tokens
  PROVE  []LiveInv /\ [][Next]_vars /\ FairFinishes => (Transmits(t) => <>Noticed(t))
<1>1. LiveInv /\ LiveInv' /\ [Next]_vars /\ Transmits(t) => Transmits(t)' \/ HalfOpen(t)' \/ Noticed(t)'
  BY TcpGoesOn DEF Transmits, HalfOpen, GoesOn
<1>2. Transmits(t) => CanFinish(t)
  BY DEF Transmits, CanFinish, Ending, Purposes
<1>3. LiveInv /\ LiveInv' /\ [Next]_vars /\ Transmits(t) /\ <<Finishes(t)>>_vars => Noticed(t)'
  <2> SUFFICES ASSUME LiveInv, LiveInv', [Next]_vars, Transmits(t), Finishes(t) PROVE Noticed(t)'
    OBVIOUS
  <2>1. Tcp4!Transferred(t)
    BY DEF Finishes, FinishesWith, Transmits
  <2>2. held'[t] = "none"
    BY <2>1 DEF Tcp4!Transferred, Tcp4!End
  <2> QED BY <2>2, GoneIsNoticed DEF Transmits
<1>4. AllFinishesFair => FinishIsFair(t)
  BY DEF AllFinishesFair
<1> QED BY <1>1, <1>2, <1>3, <1>4, HalfOpenEnds, PTL DEF FairFinishes, FinishIsFair

LEMMA TokenEnds ==
  ASSUME NEW t \in Tokens
  PROVE  []LiveInv /\ [][Next]_vars /\ FairFinishes => (wanted[t] \in Ending => <>Noticed(t))
<1>1. LiveInv /\ wanted[t] \in Ending
      => \/ Noticed(t) \/ Sent(t) \/ Connects(t, {"SynSent", "SynReceived"})
         \/ Transmits(t) \/ HalfOpen(t)
  <2> SUFFICES ASSUME LiveInv, wanted[t] \in Ending, ~Noticed(t)
               PROVE  \/ Sent(t) \/ Connects(t, {"SynSent", "SynReceived"})
                      \/ Transmits(t) \/ HalfOpen(t)
    OBVIOUS
  <2>1. wanted[t] \in Ending \ {"none"}
    BY DEF Ending, Purposes
  <2>2. held[t] # "none"
    BY <2>1 DEF LiveInv, HeldInv, IInv, TokensInv, EndSeen, Pending
  <2>3. held[t] = wanted[t] /\ protocol \in WithTokens
    BY <2>2 DEF LiveInv, HeldInv, HeldAsTaken, Pending
  <2>4. CASE protocol = "Tcp4"
    <3>1. TcpStage(t)
      BY <2>4 DEF LiveInv, HeldInv, TcpHeld
    <3>2. held[t] \notin {"Accept", "Receive"}
      BY <2>1, <2>3 DEF Ending
    <3> QED BY <2>2, <2>4, <3>1, <3>2 DEF TcpStage, Connects, Transmits, HalfOpen
  <2> QED BY <2>3, <2>4 DEF WithTokens, Sent
<1> QED BY <1>1, SentEnds, ConnectEnds, TransmitEnds, HalfOpenEnds, PTL

\* What a client has sent, looked up, connected or closed ends and can be seen to have ended,
\* with or without an answer, in all four protocols and whatever else goes on: data that
\* is not sent when the client closes ends with the close.  The client is one that
\* knows the firmware's word for "not ready".
THEOREM TokensNoticed == ASSUME KnowsWord PROVE Spec /\ FairFinishes => EveryTokenEnds
<1> SUFFICES ASSUME NEW t \in Tokens
             PROVE  Spec /\ FairFinishes => (wanted[t] \in Ending ~> Noticed(t))
  BY DEF EveryTokenEnds
<1> QED BY TokenEnds, Invariance, HeldInvariance, PTL DEF Spec, FairFinishes, LiveInv

=============================================================================
