------------------------- MODULE ArpProtocolProofs -------------------------
(***************************************************************************)
(* Proofs about ArpProtocol, for every set of addresses, events and MAC    *)
(* addresses, whether the client compares results with the word of the     *)
(* firmware or with the library's enumerator.  One result needs the first, *)
(* NotReadyStatus = FirmwareError("NotReady"), and is false of the other:  *)
(* that the driver writes nothing behind the client's back.                *)
(***************************************************************************)
EXTENDS ArpProtocol, StatusProofs

\* The words the driver returns are words, and those of a failure are
\* neither success nor "not ready".
LEMMA DriverWords ==
  /\ Success \in Word
  /\ \A name \in {"NotStarted", "AccessDenied", "NotFound", "InvalidParameter"} :
       /\ FirmwareError(name) \in Word
       /\ FirmwareError(name) # FirmwareError("NotReady")
       /\ FirmwareError(name) # Success
  /\ FirmwareError("NotReady") \in Word /\ FirmwareError("NotReady") # Success
  /\ ErrorStatus("NotReady") = Success
<1>1. {"NotStarted", "AccessDenied", "NotFound", "InvalidParameter", "NotReady"} \subseteq DOMAIN ErrorNumber
  BY DEF ErrorNumber
<1>2. \A name \in DOMAIN ErrorNumber : FirmwareError(name) # Success
  BY ErrorTests DEF Not
<1>3. /\ ErrorNumber["NotStarted"] # ErrorNumber["NotReady"]
      /\ ErrorNumber["AccessDenied"] # ErrorNumber["NotReady"]
      /\ ErrorNumber["NotFound"] # ErrorNumber["NotReady"]
      /\ ErrorNumber["InvalidParameter"] # ErrorNumber["NotReady"]
  BY DEF ErrorNumber
<1>4. \A name \in {"NotStarted", "AccessDenied", "NotFound", "InvalidParameter"} :
        FirmwareError(name) # FirmwareError("NotReady")
  BY <1>1, <1>3, ErrorNumbers, ErrorFlagAssumption DEF FirmwareError
<1>5. ErrorStatus("NotReady") = Success
  BY <1>1, ErrorsEqualSuccess
<1> QED BY <1>1, <1>2, <1>4, <1>5, Words

-----------------------------------------------------------------------------
(* The inductive invariant.                                                *)

\* The requests, which most methods leave alone.  The tails that a comparison
\* meets are part of it: those of the targets stay clear.
RequestsOK ==
  /\ requests \subseteq Request
  /\ signaled \in [Events -> BOOLEAN]
  /\ target \in [Events -> MacAddress]
  /\ asked \in [Events -> SwAddresses \cup {nullptr}]
  /\ WaitIsBacked
  /\ \A e \in Events : target[e].tail = zero_tail

\* Everything else.
RestOK ==
  /\ configured \in BOOLEAN
  /\ cache \in [SwAddresses -> [kind : Kinds, hw : Macs]]
  /\ expected \in MacAddress
  /\ assigned \in BOOLEAN
  /\ call \in Call
  /\ status \in Word
  /\ assigned => expected.tail = zero_tail

IInv == RequestsOK /\ RestOK

LEMMA InitIInv == Init => IInv
<1> SUFFICES ASSUME Init PROVE IInv
  OBVIOUS
<1> USE MacsAssumption, ArpAssumption DEF Init
<1>1. RequestsOK
  BY DEF RequestsOK, WaitIsBacked, NewMacAddress, MacAddress
<1>2. expected \in MacAddress /\ (assigned => expected.tail = zero_tail)
  BY DEF AssignMac, MacAddressOf, MacAddress
<1>3. RestOK
  BY <1>2, DriverWords DEF RestOK, Absent, Kinds, NoCall, Call
<1> QED BY <1>1, <1>3 DEF IInv

-----------------------------------------------------------------------------
(* What the driver does to the requests.                                   *)

\* Ending requests signals their events and no others.
LEMMA EndStep ==
  ASSUME RequestsOK, NEW ended \in SUBSET requests, NEW mac \in Macs,
         End(ended, mac), asked' = asked
  PROVE  RequestsOK'
<1> USE DEF RequestsOK
<1>1. requests' \subseteq Request /\ signaled' \in [Events -> BOOLEAN]
  BY DEF End
<1>2. target' \in [Events -> MacAddress] /\ \A e \in Events : target'[e].tail = zero_tail
  BY DEF End, MacAddress, WriteMac
<1>3. ASSUME NEW e \in Events, asked'[e] # nullptr
      PROVE  signaled'[e] \/ RequestOf(e)' \in requests'
  <2>1. RequestOf(e)' = RequestOf(e) /\ RequestOf(e).event = e
    BY DEF RequestOf
  <2>2. signaled[e] \/ RequestOf(e) \in requests
    BY <1>3 DEF WaitIsBacked
  <2> QED BY <2>1, <2>2 DEF End
<1> QED BY <1>1, <1>2, <1>3 DEF WaitIsBacked

LEMMA NothingStep ==
  ASSUME RequestsOK, NothingEnds, asked' = asked
  PROVE  RequestsOK'
BY DEF RequestsOK, NothingEnds, memory, WaitIsBacked, RequestOf

\* A failure leaves everything but the returned word as it was.
LEMMA FailStep ==
  ASSUME RequestsOK, asked' = asked,
         NEW name \in {"NotStarted", "AccessDenied", "NotFound", "InvalidParameter"}, Fails(name)
  PROVE  RequestsOK' /\ status' \in Word /\ UNCHANGED driver
BY NothingStep, DriverWords DEF Fails, Returns

-----------------------------------------------------------------------------
(* The steps of the driver.                                                *)

LEMMA DriverStep == ASSUME IInv, Driver PROVE IInv'
<1> USE MacsAssumption DEF IInv
<1>1. ASSUME NEW sw \in SwAddresses, Decay(sw) PROVE IInv'
  <2>1. RequestsOK'
    BY <1>1, NothingStep DEF Decay, client
  <2>2. cache' \in [SwAddresses -> [kind : Kinds, hw : Macs]]
    BY <1>1 DEF Decay, RestOK, Absent, Kinds
  <2>3. call' \in Call
    BY <1>1 DEF Decay, NoCall, Call
  <2> QED BY <1>1, <2>1, <2>2, <2>3 DEF Decay, RestOK, client
<1>2. ASSUME NEW sw \in SwAddresses, GiveUp(sw) PROVE IInv'
  <2>1. RequestsOK'
    BY <1>2, EndStep DEF GiveUp, RequestsFor, client
  <2>2. call' \in Call
    BY <1>2 DEF GiveUp, NoCall, Call
  <2> QED BY <1>2, <2>1, <2>2 DEF GiveUp, RestOK, driver, client
<1>3. ASSUME NEW sw \in SwAddresses, NEW mac \in Macs, Reply(sw, mac) PROVE IInv'
  <2>1. RequestsOK'
    BY <1>3, EndStep DEF Reply, RequestsFor, client
  <2>2. cache' \in [SwAddresses -> [kind : Kinds, hw : Macs]]
    BY <1>3 DEF Reply, RestOK, Kinds
  <2>3. call' \in Call
    BY <1>3 DEF Reply, NoCall, Call
  <2> QED BY <1>3, <2>1, <2>2, <2>3 DEF Reply, RestOK, client
<1> QED BY <1>1, <1>2, <1>3 DEF Driver

-----------------------------------------------------------------------------
(* The methods.                                                            *)

\* A method that leaves the client's variables alone preserves the invariant if
\* the pointer it calls keeps the requests, the cache and the words in order.
LEMMA MethodStep ==
  ASSUME IInv, NEW method, NEW sw, NEW event, Called(method, sw, event),
         [method |-> method, sw |-> sw, event |-> event] \in Call,
         UNCHANGED client, RequestsOK', status' \in Word,
         configured' \in BOOLEAN, cache' \in [SwAddresses -> [kind : Kinds, hw : Macs]]
  PROVE  IInv'
BY DEF IInv, Called, RestOK, client

LEMMA ConfigureStep == ASSUME IInv, configure \/ reset PROVE IInv'
<1> USE MacsAssumption, ArpAssumption, DriverWords DEF IInv
<1>0. asked' = asked /\ UNCHANGED client
  BY DEF configure, reset, client
<1>1. CASE reset
  <2>1. RequestsOK'
    BY <1>0, <1>1, EndStep DEF reset, configure_
  <2>2. /\ status' \in Word /\ configured' \in BOOLEAN
        /\ cache' \in [SwAddresses -> [kind : Kinds, hw : Macs]]
    <3>1. Absent \in [kind : Kinds, hw : Macs]
      BY DEF Absent, Kinds
    <3>2. status' = Success /\ configured' = FALSE /\ cache' = [sw \in SwAddresses |-> Absent]
      BY <1>1 DEF reset, configure_, Returns
    <3> QED BY <3>1, <3>2
  <2>3. [method |-> "reset", sw |-> nullptr, event |-> nullptr] \in Call
    BY DEF Call
  <2> QED BY <1>0, <1>1, <2>1, <2>2, <2>3, MethodStep DEF reset
<1>2. CASE configure
  <2>1. CASE configured
    <3>1. Fails("AccessDenied")
      BY <1>2, <2>1 DEF configure, configure_
    <3>2. RequestsOK' /\ status' \in Word /\ UNCHANGED driver
      BY <1>0, <3>1, FailStep
    <3>3. [method |-> "configure", sw |-> nullptr, event |-> nullptr] \in Call
      BY DEF Call
    <3> QED BY <1>0, <1>2, <3>2, <3>3, MethodStep DEF configure, RestOK, driver
  <2>2. CASE ~configured
    <3>1. /\ NothingEnds /\ status' = Success
          /\ configured' = TRUE /\ cache' = cache
      BY <1>2, <2>2 DEF configure, configure_, Returns
    <3>2. RequestsOK'
      BY <1>0, <3>1, NothingStep
    <3>3. [method |-> "configure", sw |-> nullptr, event |-> nullptr] \in Call
      BY DEF Call
    <3> QED BY <1>0, <1>2, <3>1, <3>2, <3>3, MethodStep DEF configure, RestOK
  <2> QED BY <2>1, <2>2
<1> QED BY <1>1, <1>2

LEMMA AddStep ==
  ASSUME IInv, NEW deny_flag \in BOOLEAN, NEW sw \in SwAddresses, NEW hw \in Macs,
         NEW overwrite \in BOOLEAN, add(deny_flag, sw, hw, overwrite)
  PROVE  IInv'
<1> USE MacsAssumption, DriverWords DEF IInv, add
<1>0. asked' = asked /\ UNCHANGED client
  BY DEF client
<1>1. [method |-> "add", sw |-> sw, event |-> nullptr] \in Call
  BY DEF Call
<1>2. ASSUME NEW name \in {"NotStarted", "AccessDenied"}, Fails(name) PROVE IInv'
  <2>1. RequestsOK' /\ status' \in Word /\ UNCHANGED driver
    BY <1>0, <1>2, FailStep
  <2> QED BY <1>0, <1>1, <2>1, MethodStep DEF RestOK, driver
<1>3. CASE configured /\ ~(cache[sw].kind # "absent" /\ ~overwrite)
  <2>1. RequestsOK'
    <3>1. CASE deny_flag
      BY <1>0, <1>3, <3>1, EndStep DEF add_
    <3>2. CASE ~deny_flag
      BY <1>0, <1>3, <3>2, EndStep DEF add_, RequestsFor
    <3> QED BY <3>1, <3>2
  <2>2. cache' \in [SwAddresses -> [kind : Kinds, hw : Macs]]
    <3>1. [kind |-> "deny", hw |-> zero_mac] \in [kind : Kinds, hw : Macs]
          /\ [kind |-> "static", hw |-> hw] \in [kind : Kinds, hw : Macs]
      BY DEF Kinds
    <3> DEFINE entry == IF deny_flag THEN [kind |-> "deny", hw |-> zero_mac]
                                     ELSE [kind |-> "static", hw |-> hw]
    <3>2. entry \in [kind : Kinds, hw : Macs]
      BY <3>1
    <3>3. cache' = [cache EXCEPT ![sw] = entry]
      BY <1>3 DEF add_
    <3> HIDE DEF entry
    <3> QED BY <3>2, <3>3 DEF RestOK
  <2>3. status' \in Word /\ configured' \in BOOLEAN
    BY <1>3 DEF add_, Returns, RestOK
  <2> QED BY <1>0, <1>1, <2>1, <2>2, <2>3, MethodStep
<1> QED BY <1>2, <1>3 DEF add_

\* delete_entry, flush and find touch no request.
LEMMA EntriesStep ==
  ASSUME IInv,
         \/ flush
         \/ \E by_sw_address \in BOOLEAN : \E address : delete_entry(by_sw_address, address)
         \/ \E by_sw_address \in BOOLEAN : \E address : find(by_sw_address, address)
  PROVE  IInv'
<1> USE MacsAssumption, DriverWords DEF IInv
<1> DEFINE Forgets == \E gone : Forget(gone)
           Found == Returns(Success) /\ NothingEnds /\ UNCHANGED driver
<1>1. /\ UNCHANGED client /\ asked' = asked
      /\ \E method \in {"flush", "delete_entry", "find"} : Called(method, nullptr, nullptr)
      /\ Fails("NotStarted") \/ Fails("NotFound") \/ Forgets \/ Found
  BY DEF flush, delete_entry, find, flush_, delete_, find_, client
<1>2. PICK method \in {"flush", "delete_entry", "find"} : Called(method, nullptr, nullptr)
  BY <1>1
<1>3. [method |-> method, sw |-> nullptr, event |-> nullptr] \in Call
  BY DEF Call
<1>4. RequestsOK' /\ status' \in Word /\ configured' \in BOOLEAN
      /\ cache' \in [SwAddresses -> [kind : Kinds, hw : Macs]]
  <2>1. CASE Fails("NotStarted") \/ Fails("NotFound")
    <3>1. RequestsOK' /\ status' \in Word /\ UNCHANGED driver
      BY <1>1, <2>1, FailStep
    <3> QED BY <3>1 DEF RestOK, driver
  <2>2. CASE Forgets
    <3>1. PICK gone : Forget(gone)
      BY <2>2
    <3>2. RequestsOK'
      BY <1>1, <3>1, NothingStep DEF Forget
    <3>3. cache' \in [SwAddresses -> [kind : Kinds, hw : Macs]]
      BY <3>1 DEF Forget, RestOK, Absent, Kinds
    <3>4. status' \in Word /\ configured' \in BOOLEAN
      BY <3>1 DEF Forget, Returns, RestOK
    <3> QED BY <3>2, <3>3, <3>4
  <2>3. CASE Found
    <3>1. RequestsOK'
      BY <1>1, <2>3, NothingStep
    <3> QED BY <2>3, <3>1 DEF Returns, RestOK, driver
  <2> QED BY <1>1, <2>1, <2>2, <2>3
<1> QED BY <1>1, <1>2, <1>3, <1>4, MethodStep

\* A request starts the wait of its client if the client takes it for resolved or under
\* way; with the library's enumerator it does not see that it is under way.
LEMMA RequestStep ==
  ASSUME IInv, NEW sw \in SwAddresses, NEW event \in Events, request(sw, event)
  PROVE  IInv'
<1> USE MacsAssumption, ArpAssumption DEF IInv
<1>0. /\ asked[event] = nullptr /\ asked \in [Events -> SwAddresses \cup {nullptr}]
      /\ event # nullptr /\ sw # nullptr
      /\ RestOK /\ UNCHANGED <<expected, assigned>>
  BY DEF request, RequestsOK
<1>2. call' \in Call
  BY DEF request, Called, Call
<1>3. ASSUME NEW name \in {"NotStarted", "AccessDenied"}, Fails(name) PROVE IInv'
  <2>1. status' \notin {Success, NotReadyStatus}
    BY <1>3, DriverWords DEF Fails, Returns
  <2>2. asked' = asked
    BY <1>0, <2>1 DEF request
  <2>3. RequestsOK' /\ status' \in Word /\ UNCHANGED driver
    BY <1>3, <2>2, FailStep
  <2> QED BY <1>0, <1>2, <2>3 DEF RestOK, driver
<1> DEFINE asks == asked' = [asked EXCEPT ![event] = sw]
<1>4. CASE configured /\ cache[sw].kind \notin {"deny", "absent"}
  <2>1. /\ target' = [target EXCEPT ![event] = WriteMac(@, cache[sw].hw)]
        /\ signaled' = [e \in Events |-> signaled[e] \/ e = event]
        /\ status' = Success /\ UNCHANGED <<driver, requests>>
    BY <1>4 DEF request, request_, Returns
  <2>2. asks
    BY <2>1 DEF request
  <2>3. cache[sw].hw \in Macs
    BY <1>0 DEF RestOK
  <2>4. target' \in [Events -> MacAddress] /\ \A e \in Events : target'[e].tail = zero_tail
    BY <2>1, <2>3 DEF RequestsOK, WriteMac, MacAddress
  <2>5. WaitIsBacked'
    BY <1>0, <2>1, <2>2 DEF RequestsOK, WaitIsBacked, RequestOf
  <2>6. RequestsOK'
    BY <1>0, <2>1, <2>2, <2>4, <2>5 DEF RequestsOK
  <2> QED BY <1>0, <1>2, <2>1, <2>6, DriverWords DEF RestOK, driver
<1>5. CASE configured /\ cache[sw].kind = "absent"
  <2>1. /\ requests' = requests \cup {[sw |-> sw, event |-> event, target |-> event]}
        /\ status' = FirmwareError("NotReady") /\ UNCHANGED <<driver, memory>>
    BY <1>0, <1>5 DEF request, request_, Returns
  <2>2. IF NotReadyStatus = FirmwareError("NotReady") THEN asks ELSE asked' = asked
    BY <1>0, <2>1, DriverWords DEF request
  <2>3. asked' \in [Events -> SwAddresses \cup {nullptr}] /\ requests' \subseteq Request
    BY <1>0, <2>1, <2>2 DEF RequestsOK, Request
  <2>4. WaitIsBacked'
    <3>1. CASE asked' = asked
      BY <2>1, <3>1 DEF RequestsOK, WaitIsBacked, RequestOf, memory
    <3>2. CASE asks
      BY <1>0, <2>1, <3>2 DEF RequestsOK, WaitIsBacked, RequestOf, memory
    <3> QED BY <2>2, <3>1, <3>2
  <2>5. RequestsOK'
    BY <2>1, <2>3, <2>4 DEF RequestsOK, memory
  <2> QED BY <1>0, <1>2, <2>1, <2>5, DriverWords DEF RestOK, driver
<1> QED BY <1>3, <1>4, <1>5 DEF request, request_

\* A cancel ends what it names, or fails.
LEMMA CancelStep ==
  ASSUME IInv, NEW sw \in SwAddresses \cup {nullptr}, NEW event \in Events \cup {nullptr},
         cancel(sw, event)
  PROVE  IInv'
<1> USE MacsAssumption, DriverWords DEF IInv, cancel
<1>0. asked' = asked /\ UNCHANGED client
  BY DEF client
<1>1. [method |-> "cancel", sw |-> sw, event |-> event] \in Call
  BY DEF Call
<1>2. ASSUME NEW name \in {"NotStarted", "InvalidParameter", "NotFound"}, Fails(name) PROVE IInv'
  <2>1. RequestsOK' /\ status' \in Word /\ UNCHANGED driver
    BY <1>0, <1>2, FailStep
  <2> QED BY <1>0, <1>1, <2>1, MethodStep DEF RestOK, driver
<1> DEFINE ended == {r \in requests : \/ sw = nullptr
                                      \/ r.sw = sw /\ r.event = event}
<1>3. CASE End(ended, zero_mac) /\ Returns(Success) /\ UNCHANGED driver
  <2>1. RequestsOK'
    BY <1>0, <1>3, EndStep
  <2> QED BY <1>0, <1>1, <1>3, <2>1, MethodStep DEF RestOK, Returns, driver
<1> QED BY <1>2, <1>3 DEF cancel_

\* check_event takes a signal and ends the wait, or changes nothing.
LEMMA CheckStep ==
  ASSUME IInv, NEW event \in Events, check_event(event)
  PROVE  IInv'
<1> USE DEF IInv, check_event
<1>0. call' \in Call
  BY DEF Called, Call
<1>1. /\ status' \in Word /\ UNCHANGED <<driver, requests, target, expected, assigned>>
  BY DriverWords DEF Returns
<1>2. signaled' \in [Events -> BOOLEAN] /\ asked' \in [Events -> SwAddresses \cup {nullptr}]
  BY DEF RequestsOK
<1>3. WaitIsBacked'
  BY <1>1, <1>2 DEF RequestsOK, WaitIsBacked, RequestOf
<1> QED BY <1>0, <1>1, <1>2, <1>3 DEF RequestsOK, RestOK, driver

-----------------------------------------------------------------------------
(* The invariant and what follows from it.                                 *)

LEMMA StepIInv == IInv /\ [Next]_vars => IInv'
<1> SUFFICES ASSUME IInv, [Next]_vars PROVE IInv'
  OBVIOUS
<1>1. CASE Driver
  BY <1>1, DriverStep
<1>2. CASE Client
  <2>1. CASE configure \/ reset
    BY <2>1, ConfigureStep
  <2>2. CASE \/ flush
             \/ \E sw \in SwAddresses \cup {nullptr} : delete_entry(TRUE, sw) \/ find(TRUE, sw)
             \/ \E hw \in Macs : delete_entry(FALSE, hw) \/ find(FALSE, hw)
    BY <2>2, EntriesStep
  <2> QED BY <1>2, <2>1, <2>2, AddStep, RequestStep, CancelStep, CheckStep DEF Client
<1>3. CASE UNCHANGED vars
  BY <1>3 DEF vars, driver, memory, client, IInv, RequestsOK, RestOK, WaitIsBacked, RequestOf
<1> QED BY <1>1, <1>2, <1>3 DEF Next

\* IInv holds in every reachable state.
THEOREM Invariance == Spec => []IInv
  BY InitIInv, StepIInv, PTL DEF Spec

\* All variables have their types in every reachable state.
THEOREM TypeCorrect == Spec => []TypeOK
<1>1. IInv => TypeOK
  BY DEF IInv, RequestsOK, RestOK, TypeOK
<1> QED BY <1>1, Invariance, PTL

\* No wake-up is lost: request(), cancel(), reset() and check_event() leave no
\* client waiting for an event that nothing will signal.
THEOREM NoWakeUpLost == Spec => []WaitIsBacked
<1>1. IInv => WaitIsBacked
  BY DEF IInv, RequestsOK
<1> QED BY <1>1, Invariance, PTL

\* operator== of MacAddress compares the six bytes if both sides were cleared.
THEOREM ResultsComparable == Spec => []ResultComparable
<1>1. IInv => ResultComparable
  <2> SUFFICES ASSUME IInv, assigned, NEW e \in Events
               PROVE  EqualMacAddress(target[e], expected) <=> target[e].mac = expected.mac
    BY DEF ResultComparable
  <2>1. target[e] \in MacAddress /\ expected \in MacAddress /\ target[e].tail = expected.tail
    BY DEF IInv, RequestsOK, RestOK
  <2> QED BY <2>1 DEF EqualMacAddress, MacAddress
<1> QED BY <1>1, Invariance, PTL

-----------------------------------------------------------------------------
(* What the driver writes.  Here the client has to know the word for "not  *)
(* ready": it takes a request under way for failed if it does not.         *)

\* Ending requests leaves none of theirs behind, and signals for them only.
LEMMA EndStray ==
  ASSUME RequestsOK, NoStrayWrite, NEW ended \in SUBSET requests, NEW mac, End(ended, mac),
         asked' = asked
  PROVE  NoStrayWrite'
<1>1. \A r \in requests' : asked'[r.event] # nullptr /\ r = RequestOf(r.event)'
  BY DEF End, NoStrayWrite, RequestOf
<1>2. ASSUME NEW e \in Events, signaled'[e]
      PROVE  asked'[e] # nullptr /\ RequestOf(e)' \notin requests'
  <2>1. RequestOf(e)' = RequestOf(e) /\ RequestOf(e).event = e
    BY DEF RequestOf
  <2>2. \A r \in ended : r.event = e => r = RequestOf(e) /\ asked[e] # nullptr
    BY DEF NoStrayWrite
  <2>3. signaled[e] \/ RequestOf(e) \in ended
    BY <1>2, <2>2 DEF End
  <2>4. asked[e] # nullptr /\ RequestOf(e) \notin requests'
    BY <2>1, <2>2, <2>3 DEF End, NoStrayWrite
  <2> QED BY <2>1, <2>4
<1> QED BY <1>1, <1>2 DEF NoStrayWrite

LEMMA NothingStray ==
  ASSUME NoStrayWrite, UNCHANGED <<requests, signaled, asked>>
  PROVE  NoStrayWrite'
BY DEF NoStrayWrite, RequestOf

LEMMA RequestStray ==
  ASSUME IInv, NoStrayWrite, NotReadyStatus = FirmwareError("NotReady"),
         NEW sw \in SwAddresses, NEW event \in Events, request(sw, event)
  PROVE  NoStrayWrite'
<1> USE ArpAssumption
<1>1. /\ asked[event] = nullptr /\ asked \in [Events -> SwAddresses \cup {nullptr}]
      /\ event # nullptr /\ sw # nullptr
      /\ \A r \in requests : r.event \in Events
  BY DEF request, IInv, RequestsOK, Request
<1>2. ~signaled[event] /\ \A r \in requests : r.event # event
  BY <1>1 DEF NoStrayWrite
<1>3. ASSUME NEW name \in {"NotStarted", "AccessDenied"}, Fails(name) PROVE NoStrayWrite'
  <2>1. status' \notin {Success, NotReadyStatus}
    BY <1>3, DriverWords DEF Fails, Returns
  <2>2. asked' = asked
    BY <1>1, <2>1 DEF request
  <2> QED BY <1>3, <2>2, NothingStray DEF Fails, NothingEnds, memory
<1>4. CASE configured /\ cache[sw].kind \notin {"deny", "absent"}
  <2>1. /\ signaled' = [e \in Events |-> signaled[e] \/ e = event]
        /\ status' = Success /\ requests' = requests
    BY <1>4 DEF request, request_, Returns
  <2>2. asked' = [asked EXCEPT ![event] = sw]
    BY <2>1 DEF request
  <2> QED BY <1>1, <1>2, <2>1, <2>2 DEF NoStrayWrite, RequestOf
<1>5. CASE configured /\ cache[sw].kind = "absent"
  <2>1. /\ requests' = requests \cup {[sw |-> sw, event |-> event, target |-> event]}
        /\ status' = NotReadyStatus /\ signaled' = signaled
    BY <1>1, <1>5 DEF request, request_, Returns, memory
  <2>2. asked' = [asked EXCEPT ![event] = sw]
    BY <2>1 DEF request
  <2>3. \A r \in requests' : asked'[r.event] # nullptr /\ r = RequestOf(r.event)'
    BY <1>1, <1>2, <2>1, <2>2 DEF NoStrayWrite, RequestOf
  <2>4. \A e \in Events : signaled'[e] => asked'[e] # nullptr /\ RequestOf(e)' \notin requests'
    BY <1>1, <1>2, <2>1, <2>2 DEF NoStrayWrite, RequestOf
  <2> QED BY <2>3, <2>4 DEF NoStrayWrite
<1> QED BY <1>3, <1>4, <1>5 DEF request, request_

LEMMA CheckStray ==
  ASSUME IInv, NoStrayWrite, NEW event \in Events, check_event(event)
  PROVE  NoStrayWrite'
<1>1. \A r \in requests : r.event \in Events
  BY DEF IInv, RequestsOK, Request
<1>2. \A r \in requests : r.event = event => ~signaled[event]
  BY <1>1 DEF NoStrayWrite
<1>3. /\ signaled \in [Events -> BOOLEAN] /\ asked \in [Events -> SwAddresses \cup {nullptr}]
      /\ requests' = requests
  BY DEF IInv, RequestsOK, check_event
<1>4. \A r \in requests' : asked'[r.event] # nullptr /\ r = RequestOf(r.event)'
  BY <1>1, <1>2, <1>3 DEF check_event, NoStrayWrite, RequestOf
<1>5. \A e \in Events : signaled'[e] => asked'[e] # nullptr /\ RequestOf(e)' \notin requests'
  BY <1>3 DEF check_event, NoStrayWrite, RequestOf
<1> QED BY <1>4, <1>5 DEF NoStrayWrite

LEMMA StepStray ==
  ASSUME NotReadyStatus = FirmwareError("NotReady")
  PROVE  IInv /\ NoStrayWrite /\ [Next]_vars => NoStrayWrite'
<1> SUFFICES ASSUME IInv, NoStrayWrite, [Next]_vars PROVE NoStrayWrite'
  OBVIOUS
<1>0. RequestsOK /\ \A sw : RequestsFor(sw) \in SUBSET requests
  BY DEF IInv, RequestsFor
<1>1. CASE Driver
  BY <1>0, <1>1, EndStray, NothingStray
     DEF Driver, Decay, GiveUp, Reply, NothingEnds, memory, client
<1>2. CASE configure \/ reset
  BY <1>0, <1>2, EndStray, NothingStray
     DEF configure, reset, configure_, Fails, NothingEnds, memory, client
<1>3. ASSUME NEW deny_flag, NEW sw, NEW hw, NEW overwrite, add(deny_flag, sw, hw, overwrite)
      PROVE  NoStrayWrite'
  <2>1. CASE NothingEnds
    BY <1>3, <2>1, NothingStray DEF add, NothingEnds, memory, client
  <2>2. CASE End(IF deny_flag THEN {} ELSE RequestsFor(sw), hw)
    <3>1. (IF deny_flag THEN {} ELSE RequestsFor(sw)) \in SUBSET requests
      BY <1>0
    <3> QED BY <1>0, <1>3, <2>2, <3>1, EndStray DEF add, client
  <2> QED BY <1>3, <2>1, <2>2 DEF add, add_, Fails
<1>4. CASE \/ flush
           \/ \E sw \in SwAddresses \cup {nullptr} : delete_entry(TRUE, sw) \/ find(TRUE, sw)
           \/ \E hw \in Macs : delete_entry(FALSE, hw) \/ find(FALSE, hw)
  BY <1>4, NothingStray DEF flush, flush_, delete_entry, delete_, find, find_, Forget, Fails,
     NothingEnds, memory, client
<1>5. ASSUME NEW sw, NEW event, cancel(sw, event) PROVE NoStrayWrite'
  BY <1>0, <1>5, EndStray, NothingStray
     DEF cancel, cancel_, Fails, NothingEnds, memory, client
<1>6. CASE UNCHANGED vars
  BY <1>6, NothingStray DEF vars, memory, client
<1> QED BY <1>1, <1>2, <1>3, <1>4, <1>5, <1>6, RequestStray, CheckStray DEF Next, Client

\* The driver never writes to a target the client has given up, and
\* signals an event once for each request.
THEOREM NoTargetWrittenBehind ==
  ASSUME NotReadyStatus = FirmwareError("NotReady")
  PROVE  Spec => []NoStrayWrite
<1>1. Init => NoStrayWrite
  BY DEF Init, NoStrayWrite
<1> QED BY <1>1, StepStray, Invariance, PTL DEF Spec

\* The hypothesis is needed: a client that compares with the library's enumerator takes
\* each request that is under way for failed, and the driver will write its target.
THEOREM EnumeratorLosesRequests ==
  ASSUME NotReadyStatus = ErrorStatus("NotReady"),
         NEW sw \in SwAddresses, NEW event \in Events,
         IInv, request(sw, event), configured, cache[sw].kind = "absent"
  PROVE  ~NoStrayWrite'
<1>1. event # nullptr /\ asked[event] = nullptr /\ asked \in [Events -> SwAddresses \cup {nullptr}]
  BY ArpAssumption DEF request, IInv, RequestsOK
<1>2. [sw |-> sw, event |-> event, target |-> event] \in requests'
      /\ status' = FirmwareError("NotReady")
  BY <1>1 DEF request, request_, Returns
<1>3. asked'[event] = nullptr
  BY <1>1, <1>2, DriverWords DEF request
<1> QED BY <1>2, <1>3 DEF NoStrayWrite

-----------------------------------------------------------------------------
(* What a call may end, and what it must: properties of each step.         *)

\* What OthersSpared and StoppedAtOnce say of one step.
Spares ==
  call'.method # "none" =>
    \A r \in requests : r \notin requests' => EndedBy(call'.method, call'.sw, call'.event, r)

Stops ==
  call'.method = "reset" \/ (call'.method = "cancel" /\ configured) =>
    \A r \in requests : EndedBy(call'.method, call'.sw, call'.event, r) =>
      r \notin requests' /\ signaled'[r.event]

\* The record of a call has what was called.
LEMMA CalledRecord ==
  ASSUME NEW method, NEW sw, NEW event, Called(method, sw, event)
  PROVE  call'.method = method /\ call'.sw = sw /\ call'.event = event
BY DEF Called

\* A method that leaves the requests there are under way and stops none.
LEMMA KeepsRequests ==
  ASSUME requests \subseteq requests', call'.method \notin {"reset", "cancel"}
  PROVE  Spares /\ Stops
BY DEF Spares, Stops

\* A step of the driver is no call.
LEMMA DriverSpares == Driver => Spares /\ Stops
<1>1. Driver => call' = NoCall
  BY DEF Driver, Decay, GiveUp, Reply
<1> QED BY <1>1 DEF NoCall, Spares, Stops

LEMMA ResetStops == RequestsOK /\ reset => Spares /\ Stops
<1> SUFFICES ASSUME RequestsOK, reset PROVE Spares /\ Stops
  OBVIOUS
<1>1. End(requests, zero_mac) /\ call'.method = "reset"
  BY CalledRecord DEF reset, configure_
<1>2. \A r \in requests : r.event \in Events
  BY DEF RequestsOK, Request
<1> QED BY <1>1, <1>2 DEF Spares, Stops, EndedBy, End

LEMMA AddSpares ==
  ASSUME NEW deny_flag, NEW sw, NEW hw, NEW overwrite, add(deny_flag, sw, hw, overwrite)
  PROVE  Spares /\ Stops
<1>1. call'.method = "add" /\ call'.sw = sw
  BY CalledRecord DEF add
<1>2. \A r \in requests : r \notin requests' => r.sw = sw
  BY DEF add, add_, Fails, NothingEnds, End, RequestsFor
<1> QED BY <1>1, <1>2 DEF Spares, Stops, EndedBy

LEMMA CancelStops ==
  ASSUME RequestsOK, NEW sw \in SwAddresses \cup {nullptr}, NEW event \in Events \cup {nullptr},
         cancel(sw, event)
  PROVE  Spares /\ Stops
<1> DEFINE ended == {r \in requests : sw = nullptr \/ (r.sw = sw /\ r.event = event)}
<1>0. call'.method = "cancel" /\ call'.sw = sw /\ call'.event = event
  BY CalledRecord DEF cancel
<1>1. \A r \in requests : r.event \in Events /\ r.sw \in SwAddresses /\ r.event # nullptr /\ r.sw # nullptr
  BY ArpAssumption DEF RequestsOK, Request
<1>2. CASE ~configured \/ ((sw = nullptr) # (event = nullptr)) \/ (sw # nullptr /\ ended = {})
  <2>1. requests' = requests
    BY <1>2 DEF cancel, cancel_, Fails, NothingEnds
  <2>2. configured => \A r \in requests : ~EndedBy("cancel", sw, event, r)
    BY <1>1, <1>2 DEF EndedBy
  <2> QED BY <1>0, <2>1, <2>2 DEF Spares, Stops
<1>3. CASE configured /\ ((sw = nullptr) <=> (event = nullptr)) /\ ~(sw # nullptr /\ ended = {})
  <2>1. End(ended, zero_mac)
    BY <1>3 DEF cancel, cancel_
  <2>2. \A r \in requests : r \in ended <=> EndedBy("cancel", sw, event, r)
    BY <1>1, <1>3 DEF EndedBy
  <2>3. \A r \in requests : (r \notin requests' <=> r \in ended) /\ (r \in ended => signaled'[r.event])
    BY <1>1, <2>1 DEF End
  <2> QED BY <1>0, <2>2, <2>3 DEF Spares, Stops
<1> QED BY <1>2, <1>3

LEMMA CallsSpareAndStop == RequestsOK /\ Next => Spares /\ Stops
<1> SUFFICES ASSUME RequestsOK, Next PROVE Spares /\ Stops
  OBVIOUS
<1>1. CASE configure
  <2>1. requests' = requests
    BY <1>1, ArpAssumption DEF configure, configure_, Fails, NothingEnds
  <2>2. call'.method = "configure"
    BY <1>1, CalledRecord DEF configure
  <2> QED BY <2>1, <2>2, KeepsRequests
<1>2. CASE \/ flush
           \/ \E sw \in SwAddresses \cup {nullptr} : delete_entry(TRUE, sw) \/ find(TRUE, sw)
           \/ \E hw \in Macs : delete_entry(FALSE, hw) \/ find(FALSE, hw)
  <2>1. requests' = requests
    BY <1>2 DEF flush, flush_, delete_entry, delete_, find, find_, Forget, Fails, NothingEnds
  <2>2. call'.method \in {"flush", "delete_entry", "find"}
    BY <1>2, CalledRecord DEF flush, delete_entry, find
  <2> QED BY <2>1, <2>2, KeepsRequests
<1>3. ASSUME NEW sw \in SwAddresses, NEW event \in Events, request(sw, event)
      PROVE  Spares /\ Stops
  <2>1. requests \subseteq requests'
    BY <1>3 DEF request, request_, Fails, NothingEnds
  <2>2. call'.method = "request"
    BY <1>3, CalledRecord DEF request
  <2> QED BY <2>1, <2>2, KeepsRequests
<1>4. ASSUME NEW event \in Events, check_event(event) PROVE Spares /\ Stops
  <2>1. requests' = requests
    BY <1>4 DEF check_event
  <2>2. call'.method = "check_event"
    BY <1>4, CalledRecord DEF check_event
  <2> QED BY <2>1, <2>2, KeepsRequests
<1> QED BY <1>1, <1>2, <1>3, <1>4, DriverSpares, ResetStops, AddSpares, CancelStops DEF Next, Client

\* reset, add and cancel end the requests they name and no others, and no other method
\* ends any: a cancel of one request leaves those of other events alone.
THEOREM CallsEndWhatTheyName == Spec => OthersSpared
<1>1. IInv /\ [Next]_vars => [Spares]_vars
  BY CallsSpareAndStop DEF IInv
<1> QED BY <1>1, Invariance, PTL DEF Spec, OthersSpared, Spares

\* When reset, or cancel on a configured interface, returns, every request it names has
\* been ended and its event signaled: the client may free the target.
THEOREM CallsEndAtOnce == Spec => StoppedAtOnce
<1>1. IInv /\ [Next]_vars => [Stops]_vars
  BY CallsSpareAndStop DEF IInv
<1> QED BY <1>1, Invariance, PTL DEF Spec, StoppedAtOnce, Stops

-----------------------------------------------------------------------------
(* Every wait ends.  The fairness of FairSpec is written out: weak fairness *)
(* of GiveUp, with the guard of GiveUp in the place of ENABLED, which the  *)
(* prover does not reason about.  The guard is its only condition: the     *)
(* other conjuncts say what each variable becomes, and a request goes.     *)

CanGiveUp(sw) == RequestsFor(sw) # {}
GiveUpIsFair(sw) == []CanGiveUp(sw) => <><<GiveUp(sw)>>_vars
AllGiveUpsFair == \A sw \in SwAddresses : GiveUpIsFair(sw)
FairGiveUps == []AllGiveUpsFair

WaitsFor(e, sw) == asked[e] = sw /\ ~signaled[e]
WaitOver(e) == signaled[e] \/ asked[e] = nullptr

\* A client goes on waiting, for the address it asked for, until its event is
\* signaled: check_event alone takes the wait back, and only of a signaled event.
LEMMA WaitStays ==
  ASSUME IInv, NEW e \in Events, asked[e] # nullptr, ~signaled[e], [Next]_vars
  PROVE  asked'[e] = asked[e] \/ signaled'[e]
<1>0. asked \in [Events -> SwAddresses \cup {nullptr}] /\ signaled \in [Events -> BOOLEAN]
  BY DEF IInv, RequestsOK
<1>1. CASE Driver
  BY <1>1 DEF Driver, Decay, GiveUp, Reply, client
<1>2. CASE configure \/ reset \/ flush
  BY <1>2 DEF configure, reset, flush, client
<1>3. CASE \E sw \in SwAddresses, hw \in Macs, deny_flag, overwrite \in BOOLEAN :
             add(deny_flag, sw, hw, overwrite)
  BY <1>3 DEF add, client
<1>4. CASE \/ \E sw \in SwAddresses \cup {nullptr} : delete_entry(TRUE, sw) \/ find(TRUE, sw)
           \/ \E hw \in Macs : delete_entry(FALSE, hw) \/ find(FALSE, hw)
  BY <1>4 DEF delete_entry, find, client
<1>5. CASE \E sw \in SwAddresses \cup {nullptr}, event \in Events \cup {nullptr} : cancel(sw, event)
  BY <1>5 DEF cancel, client
<1>6. ASSUME NEW sw \in SwAddresses, NEW event \in Events, request(sw, event)
      PROVE  asked'[e] = asked[e]
  BY <1>0, <1>6 DEF request
<1>7. ASSUME NEW event \in Events, check_event(event)
      PROVE  asked'[e] = asked[e]
  BY <1>0, <1>7 DEF check_event
<1>8. CASE UNCHANGED vars
  BY <1>8 DEF vars, client
<1> QED BY <1>1, <1>2, <1>3, <1>4, <1>5, <1>6, <1>7, <1>8 DEF Next, Client

\* What is waited for is under way, so that the driver can give it up ...
LEMMA WaitUnderWay ==
  ASSUME NEW e \in Events, NEW sw \in SwAddresses, IInv, WaitsFor(e, sw)
  PROVE  RequestOf(e) \in RequestsFor(sw)
BY ArpAssumption DEF IInv, RequestsOK, WaitIsBacked, RequestOf, WaitsFor, RequestsFor

\* ... and the wait is over when it does.
LEMMA GiveUpEnds ==
  ASSUME NEW e \in Events, NEW sw \in SwAddresses
  PROVE  IInv /\ WaitsFor(e, sw) /\ <<GiveUp(sw)>>_vars => WaitOver(e)'
<1> SUFFICES ASSUME IInv, WaitsFor(e, sw), GiveUp(sw) PROVE signaled'[e]
  BY DEF WaitOver
<1>1. RequestOf(e) \in RequestsFor(sw)
  BY WaitUnderWay
<1>2. RequestOf(e).event = e
  BY DEF RequestOf
<1>3. signaled' = [d \in Events |-> signaled[d] \/ \E r \in RequestsFor(sw) : r.event = d]
  BY DEF GiveUp, End
<1> QED BY <1>1, <1>2, <1>3

LEMMA WaitForEnds ==
  ASSUME NEW e \in Events, NEW sw \in SwAddresses
  PROVE  []IInv /\ [][Next]_vars /\ FairGiveUps => (WaitsFor(e, sw) => <>WaitOver(e))
<1>1. IInv /\ WaitsFor(e, sw) /\ [Next]_vars => WaitsFor(e, sw)' \/ WaitOver(e)'
  BY WaitStays, ArpAssumption DEF WaitsFor, WaitOver
<1>2. IInv /\ WaitsFor(e, sw) => CanGiveUp(sw)
  BY WaitUnderWay DEF CanGiveUp
<1>3. AllGiveUpsFair => GiveUpIsFair(sw)
  BY DEF AllGiveUpsFair
<1> QED BY <1>1, <1>2, <1>3, GiveUpEnds, PTL DEF FairGiveUps, GiveUpIsFair

LEMMA WaitEnds ==
  ASSUME NEW e \in Events
  PROVE  []IInv /\ [][Next]_vars /\ FairGiveUps => (asked[e] # nullptr => <>WaitOver(e))
<1> SUFFICES ASSUME []IInv /\ [][Next]_vars /\ FairGiveUps, asked[e] # nullptr PROVE <>WaitOver(e)
  OBVIOUS
<1>0. IInv
  BY PTL
<1>1. WaitOver(e) \/ \E sw \in SwAddresses : WaitsFor(e, sw)
  BY <1>0 DEF IInv, RequestsOK, WaitOver, WaitsFor
<1>2. WaitOver(e) => <>WaitOver(e)
  BY PTL
<1>3. \A sw \in SwAddresses : WaitsFor(e, sw) => <>WaitOver(e)
  BY WaitForEnds
<1> QED BY <1>1, <1>2, <1>3

\* A client that waits for a request sees its event signaled in the end, whatever is cached,
\* cancelled, denied or reset meanwhile, if the driver gives up requests that go unanswered.
THEOREM EveryRequestEnds == Spec /\ FairGiveUps => RequestsEnd
<1> SUFFICES ASSUME NEW e \in Events
             PROVE  Spec /\ FairGiveUps => (asked[e] # nullptr ~> WaitOver(e))
  BY DEF RequestsEnd, WaitOver
<1> QED BY WaitEnds, Invariance, PTL DEF Spec, FairGiveUps

=============================================================================
