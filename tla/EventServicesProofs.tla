------------------------ MODULE EventServicesProofs ------------------------
(***************************************************************************)
(* Proofs about EventServices, for every set of events and every number of *)
(* task priority levels.                                                   *)
(***************************************************************************)
EXTENDS EventServices, TLAPS

(* The inductive invariant.                                                *)

\* The firmware's events are the client's; what is queued is open, and so is what
\* the application waits for.  A signaled event with a NotifySignal function is
\* queued: this is why a second signal need not be.
EventsOK ==
  /\ open \subseteq Events
  /\ owned = open
  /\ type \in [Events -> SUBSET Flags]
  /\ notify_tpl \in [Events -> TPL]
  /\ signaled \subseteq open
  /\ queued \subseteq open
  /\ earlier \subseteq queued \X queued
  /\ waiting \subseteq open
  /\ \A e \in signaled : Notifies(e) => e \in queued
  /\ owed \subseteq queued

TimersOK ==
  /\ alarm \in [Events -> TimerDelay]
  /\ armed = alarm
  /\ \A e \in Events : alarm[e] # "Cancel" => e \in open

StackOK ==
  /\ frames \subseteq TPL
  /\ Application \in frames
  /\ level \in [TPL -> TPL]
  /\ checking \in [TPL -> Events \cup {nullptr}]
  /\ Nested

IInv == EventsOK /\ TimersOK /\ StackOK

LEMMA InitIInv == Init => IInv
<1> SUFFICES ASSUME Init PROVE IInv
  OBVIOUS
<1>1. Application \in TPL
  BY EventsAssumption DEF TPL, Application
<1>2. EventsOK
  BY <1>1 DEF Init, EventsOK
<1>3. TimersOK
  BY DEF Init, TimersOK, TimerDelay
<1>4. StackOK
  BY <1>1, EventsAssumption DEF Init, StackOK, Nested, TPL, Application
<1> QED BY <1>2, <1>3, <1>4 DEF IInv

-----------------------------------------------------------------------------
(* The queue.                                                              *)

LEMMA EnqueueQueue ==
  ASSUME NEW e \in open, queued \subseteq open, earlier \subseteq queued \X queued, Enqueue(e)
  PROVE  /\ queued' \subseteq open
         /\ queued \subseteq queued'
         /\ e \in queued'
         /\ earlier' \subseteq queued' \X queued'
<1>1. queued' = queued \cup {e}
  BY DEF Enqueue
<1>2. \A p \in earlier' : p \in queued' \X queued'
  BY <1>1 DEF Enqueue
<1> QED BY <1>1, <1>2

LEMMA DequeueQueue ==
  ASSUME NEW e, earlier \subseteq queued \X queued, Dequeue(e)
  PROVE  queued' = queued \ {e} /\ earlier' \subseteq queued' \X queued'
<1>1. queued' = queued \ {e}
  BY DEF Dequeue
<1>2. ASSUME NEW p \in earlier' PROVE p \in queued' \X queued'
  <2>1. p \in earlier /\ e # p[1] /\ e # p[2]
    BY DEF Dequeue
  <2>2. p = <<p[1], p[2]>> /\ p[1] \in queued /\ p[2] \in queued
    BY <2>1
  <2> QED BY <1>1, <2>1, <2>2
<1> QED BY <1>1, <1>2

\* Signaling an event keeps the part of the invariant about events.
LEMMA SignalEvents ==
  ASSUME EventsOK, NEW e \in open, Signal(e), UNCHANGED <<open, owned, type, notify_tpl, waiting>>,
         owed' \subseteq owed \cup ({e} \cap {f \in Events : Notifies(f)})
  PROVE  EventsOK'
<1>1. signaled' = signaled \cup {e}
  BY DEF Signal
<1>2. CASE Notifies(e) /\ e \notin signaled
  <2>1. Enqueue(e)
    BY <1>2 DEF Signal
  <2>2. /\ queued' \subseteq open
        /\ queued \subseteq queued'
        /\ e \in queued'
        /\ earlier' \subseteq queued' \X queued'
    BY <2>1, EnqueueQueue DEF EventsOK
  <2> QED BY <1>1, <2>2 DEF EventsOK, Notifies
<1>3. CASE ~(Notifies(e) /\ e \notin signaled)
  <2>1. UNCHANGED <<queued, earlier>>
    BY <1>3 DEF Signal, NoQueueing
  <2>2. Notifies(e) => e \in queued
    BY <1>3 DEF EventsOK
  <2> QED BY <1>1, <2>1, <2>2 DEF EventsOK, Notifies
<1> QED BY <1>2, <1>3

\* Queueing the function of an event keeps it, if the signals stay as they are.
LEMMA EnqueueEvents ==
  ASSUME EventsOK, NEW e \in open, Enqueue(e),
         UNCHANGED <<open, owned, type, notify_tpl, waiting, signaled, owed>>
  PROVE  EventsOK'
BY EnqueueQueue DEF EventsOK, Notifies

\* So does clearing signals, or ending a wait.
LEMMA ClearEvents ==
  ASSUME EventsOK, signaled' \subseteq signaled, waiting' \subseteq open,
         UNCHANGED <<open, owned, type, notify_tpl, queued, earlier, owed>>
  PROVE  EventsOK'
BY DEF EventsOK, Notifies

-----------------------------------------------------------------------------
(* The steps of the firmware.                                              *)

LEMMA DispatchStep == ASSUME IInv, NEW e \in Events, Dispatch(e) PROVE IInv'
<1>1. PICK l \in frames : Runs(l) /\ notify_tpl[e] > level[l]
  BY DEF Dispatch
<1>2. EventsOK'
  <2>1. queued' = queued \ {e} /\ earlier' \subseteq queued' \X queued'
    BY DequeueQueue DEF IInv, EventsOK, Dispatch
  <2>2. \A f \in signaled' : Notifies(f) => f \in queued \ {e}
    BY DEF IInv, EventsOK, Dispatch
  <2> QED BY <2>1, <2>2 DEF IInv, EventsOK, Dispatch, Notifies
<1>3. TimersOK'
  BY DEF IInv, TimersOK, Dispatch
<1>4. StackOK'
  <2> DEFINE n == notify_tpl[e]
  <2>1. n \in TPL /\ l \in TPL /\ level[l] \in TPL
    BY DEF IInv, EventsOK, StackOK
  <2>2. frames' = frames \cup {n} /\ level' = [level EXCEPT ![n] = n]
    BY DEF Dispatch
  <2>0. TPL \subseteq Int
    BY EventsAssumption DEF TPL, Application
  <2>3. \A k \in frames : k \in Int /\ k < n /\ level[k] < n
    <3> SUFFICES ASSUME NEW k \in frames PROVE k \in Int /\ k < n /\ level[k] < n
      OBVIOUS
    <3>1. k <= l /\ k \in TPL /\ level[k] \in TPL
      BY <1>1 DEF Runs, IInv, StackOK
    <3>2. k <= level[k] /\ l <= level[l] /\ (k < l => level[k] < l)
      BY <1>1 DEF IInv, StackOK, Nested
    <3>3. n > level[l]
      BY <1>1
    <3>4. k \in Int /\ l \in Int /\ n \in Int /\ level[k] \in Int /\ level[l] \in Int
      BY <2>0, <2>1, <3>1
    <3> HIDE DEF n
    <3>5. k < n
      BY <3>1, <3>2, <3>3, <3>4
    <3>6. CASE k = l
      BY <3>3, <3>4, <3>5, <3>6
    <3>7. CASE k # l
      BY <3>1, <3>2, <3>3, <3>4, <3>5, <3>7
    <3> QED BY <3>4, <3>5, <3>6, <3>7
  <2>4. level' \in [TPL -> TPL] /\ frames' \subseteq TPL /\ level'[n] = n
    BY <2>1, <2>2 DEF IInv, StackOK
  <2>5. \A k \in frames : level'[k] = level[k]
    <3> TAKE k \in frames
    <3>1. k # n
      <4> HIDE DEF n
      <4> QED BY <2>3
    <3> QED BY <2>2, <3>1 DEF IInv, StackOK
  <2>6. Nested'
    <3> SUFFICES ASSUME NEW k \in frames', NEW m \in frames'
                 PROVE  k <= level'[k] /\ (k < m => level'[k] < m)
      BY DEF Nested
    <3>1. CASE k = n
      <4>1. n \in Int /\ level'[k] = n /\ (m = n \/ m \in frames)
        BY <2>0, <2>1, <2>2, <2>4, <3>1
      <4> HIDE DEF n
      <4>2. m = n \/ (m \in Int /\ m < n)
        BY <2>3, <4>1
      <4> QED BY <3>1, <4>1, <4>2
    <3>2. CASE k # n
      BY <2>2, <2>3, <2>5, <3>2 DEF IInv, StackOK, Nested
    <3> QED BY <3>1, <3>2
  <2> QED BY <2>2, <2>4, <2>6 DEF IInv, StackOK, Dispatch
<1> QED BY <1>2, <1>3, <1>4 DEF IInv

LEMMA ExpireStep == ASSUME IInv, NEW e \in Events, Expire(e) PROVE IInv'
<1>1. e \in open
  BY DEF IInv, TimersOK, Expire
<1>2. EventsOK'
  BY <1>1, SignalEvents DEF IInv, Expire, stack
<1>3. TimersOK'
  BY <1>1 DEF IInv, TimersOK, Expire, TimerDelay
<1>4. StackOK'
  BY DEF IInv, StackOK, Nested, Expire, stack
<1> QED BY <1>2, <1>3, <1>4 DEF IInv

LEMMA TestStep ==
  ASSUME IInv,
         \/ \E l \in TPL : CheckAgain(l)
         \/ \E e \in Events : Waken(e) \/ WaitNotify(e)
  PROVE  IInv'
<1>1. ASSUME NEW l \in TPL, CheckAgain(l) PROVE IInv'
  <2>1. EventsOK'
    BY <1>1, ClearEvents DEF IInv, EventsOK, CheckAgain, client
  <2> QED BY <1>1, <2>1 DEF IInv, TimersOK, StackOK, Nested, CheckAgain, client
<1>2. ASSUME NEW e \in Events, Waken(e) PROVE IInv'
  <2>1. EventsOK'
    BY <1>2, ClearEvents DEF IInv, EventsOK, Waken, client
  <2> QED BY <1>2, <2>1 DEF IInv, TimersOK, StackOK, Nested, Waken, client
<1>3. ASSUME NEW e \in Events, WaitNotify(e) PROVE IInv'
  <2>1. e \in open
    BY <1>3 DEF IInv, EventsOK, WaitNotify
  <2>2. EventsOK'
    BY <1>3, <2>1, EnqueueEvents DEF IInv, WaitNotify, stack, client
  <2> QED BY <1>3, <2>2 DEF IInv, TimersOK, StackOK, Nested, WaitNotify, stack, client
<1> QED BY <1>1, <1>2, <1>3

-----------------------------------------------------------------------------
(* The methods.                                                            *)

LEMMA CreateStep ==
  ASSUME IInv, NEW l \in TPL, NEW flags \in EventTypes, NEW tpl \in TPL, NEW e \in Events,
         create_event(l, flags, tpl, e)
  PROVE  IInv'
<1>1. UNCHANGED <<stack, owed, armed>> /\ e \notin open
  BY DEF create_event, IInv, EventsOK
<1>2. StackOK'
  BY <1>1 DEF IInv, StackOK, Nested, stack
<1>3. CASE Refused
  <2>1. UNCHANGED <<open, owned, type, notify_tpl, signaled, alarm, queued, earlier, waiting, owed, armed>>
    BY <1>1, <1>3 DEF Refused, firmware, stack, create_event
  <2> QED BY <1>2, <2>1 DEF IInv, EventsOK, TimersOK, Notifies
<1>4. CASE ~Refused
  <2>1. /\ open' = open \cup {e} /\ owned' = open'
        /\ type' = [type EXCEPT ![e] = flags]
        /\ notify_tpl' = [notify_tpl EXCEPT ![e] = IF Notify \cap flags = {} THEN Application ELSE tpl]
        /\ UNCHANGED <<signaled, alarm, queued, earlier, waiting, owed, armed>>
    BY <1>1, <1>4 DEF create_event, create_event_, stack, IInv, EventsOK
  <2>2. type' \in [Events -> SUBSET Flags] /\ notify_tpl' \in [Events -> TPL]
    BY <2>1, EventsAssumption DEF IInv, EventsOK, TPL, Application
  <2>3. \A f \in signaled : type'[f] = type[f]
    BY <1>1, <2>1 DEF IInv, EventsOK
  <2>4. EventsOK'
    BY <2>1, <2>2, <2>3 DEF IInv, EventsOK, Notifies
  <2> QED BY <1>2, <2>1, <2>4 DEF IInv, TimersOK
<1> QED BY <1>3, <1>4

LEMMA CloseStep ==
  ASSUME IInv, NEW l \in TPL, NEW e \in Events, close_event(l, e) PROVE IInv'
<1>1. close_event_(e) /\ e \notin waiting /\ UNCHANGED stack
  BY DEF close_event, InUse
<1>2. queued' = queued \ {e} /\ earlier' \subseteq queued' \X queued'
  BY <1>1, DequeueQueue DEF IInv, EventsOK, close_event_
<1>3. type' \in [Events -> SUBSET Flags] /\ notify_tpl' \in [Events -> TPL]
  BY <1>1, EventsAssumption DEF IInv, EventsOK, TPL, Application, close_event_
<1>4. \A f \in signaled' : f # e /\ type'[f] = type[f]
  BY <1>1 DEF IInv, EventsOK, close_event_
<1>5. EventsOK'
  BY <1>1, <1>2, <1>3, <1>4 DEF IInv, EventsOK, Notifies, close_event, close_event_, stack
<1>6. TimersOK'
  BY <1>1 DEF IInv, TimersOK, TimerDelay, close_event, close_event_
<1>7. StackOK'
  BY <1>1 DEF IInv, StackOK, Nested, stack
<1> QED BY <1>5, <1>6, <1>7 DEF IInv

LEMMA SignalStep ==
  ASSUME IInv, NEW l \in TPL, NEW e \in Events, signal_event(l, e) PROVE IInv'
<1>1. e \in open
  BY DEF IInv, EventsOK, signal_event
<1>2. EventsOK'
  BY <1>1, SignalEvents DEF IInv, signal_event, signal_event_, stack
<1> QED BY <1>2 DEF IInv, TimersOK, StackOK, Nested, signal_event, signal_event_, stack

LEMMA CheckStep ==
  ASSUME IInv, NEW l \in TPL, NEW e \in Events, check_event(l, e) PROVE IInv'
<1>1. e \in open
  BY DEF IInv, EventsOK, check_event
<1>2. CASE ~Notifies(e) /\ e \notin signaled /\ Waits(e)
  <2>1. EventsOK'
    BY <1>1, <1>2, EnqueueEvents DEF IInv, check_event, check_event_, client
  <2>2. StackOK'
    BY <1>2 DEF IInv, StackOK, Nested, check_event, check_event_
  <2> QED BY <1>2, <2>1, <2>2 DEF IInv, TimersOK, check_event, check_event_, client
<1>3. CASE ~(~Notifies(e) /\ e \notin signaled /\ Waits(e))
  <2>1. /\ signaled' \subseteq signaled
        /\ UNCHANGED <<open, type, notify_tpl, alarm, queued, earlier, stack, client>>
    BY <1>3 DEF check_event, check_event_
  <2>2. EventsOK'
    BY <2>1, ClearEvents DEF IInv, EventsOK, stack, client
  <2> QED BY <2>1, <2>2 DEF IInv, TimersOK, StackOK, Nested, stack, client
<1> QED BY <1>2, <1>3

LEMMA WaitStep ==
  ASSUME IInv, NEW l \in TPL, NEW events \in SUBSET Events, wait_for_events(l, events)
  PROVE  IInv'
<1>1. /\ waiting' \subseteq open
      /\ UNCHANGED <<firmware, frames, level, checking, client>>
  BY DEF IInv, EventsOK, wait_for_events, wait_for_event_
<1>2. EventsOK'
  BY <1>1, ClearEvents DEF IInv, firmware, client
<1> QED BY <1>1, <1>2 DEF IInv, TimersOK, StackOK, Nested, firmware, client

LEMMA TimerStep ==
  ASSUME IInv, NEW l \in TPL, NEW e \in Events, NEW delay \in TimerDelay, set_timer(l, e, delay)
  PROVE  IInv'
<1>1. /\ e \in open
      /\ UNCHANGED <<open, type, notify_tpl, signaled, queued, earlier, stack, owned, owed>>
  BY DEF IInv, EventsOK, set_timer, set_timer_, Refused, firmware
<1>2. EventsOK' /\ StackOK'
  BY <1>1 DEF IInv, EventsOK, StackOK, Nested, Notifies, stack
<1>3. TimersOK'
  <2>1. CASE "Timer" \in type[e]
    BY <1>1, <2>1 DEF IInv, TimersOK, set_timer, set_timer_
  <2>2. CASE "Timer" \notin type[e]
    BY <1>1, <2>2 DEF IInv, TimersOK, set_timer, set_timer_, Refused, firmware
  <2> QED BY <2>1, <2>2
<1> QED BY <1>2, <1>3 DEF IInv

LEMMA LevelStep ==
  ASSUME IInv, NEW l \in TPL,
         (\E new_tpl \in TPL : raise_tpl(l, new_tpl)) \/ restore_tpl(l)
  PROVE  IInv'
<1>1. PICK n \in TPL : /\ l <= n
                       /\ level' = [level EXCEPT ![l] = n]
                       /\ Runs(l)
                       /\ UNCHANGED <<firmware, frames, checking, waiting, client>>
  BY EventsAssumption
     DEF raise_tpl, raise_tpl_, restore_tpl, restore_tpl_, Calls, Settled, TPL, Application
<1>2. EventsOK' /\ TimersOK'
  BY <1>1 DEF IInv, EventsOK, TimersOK, Notifies, firmware, client
<1>3. Nested'
  <2> SUFFICES ASSUME NEW k \in frames, NEW m \in frames
               PROVE  k <= level'[k] /\ (k < m => level'[k] < m)
    BY <1>1 DEF Nested
  <2>1. CASE k = l
    BY <1>1, <2>1, EventsAssumption DEF IInv, StackOK, Runs, TPL, Application
  <2>2. CASE k # l
    BY <1>1, <2>2 DEF IInv, StackOK, Nested
  <2> QED BY <2>1, <2>2
<1>4. StackOK'
  BY <1>1, <1>3 DEF IInv, StackOK
<1> QED BY <1>2, <1>4 DEF IInv

LEMMA ReturnStep == ASSUME IInv, NEW l \in TPL, Return(l) PROVE IInv'
BY DEF IInv, EventsOK, TimersOK, StackOK, Nested, Notifies, Return, firmware, client

-----------------------------------------------------------------------------
\* One step of the firmware or of the client keeps the invariant.
LEMMA StepIInv == IInv /\ [Next]_vars => IInv'
<1> SUFFICES ASSUME IInv, [Next]_vars PROVE IInv'
  OBVIOUS
<1>1. CASE Firmware
  BY <1>1, DispatchStep, ExpireStep, TestStep DEF Firmware
<1>2. CASE Client
  BY <1>2, CreateStep, CloseStep, SignalStep, CheckStep, WaitStep, TimerStep, LevelStep, ReturnStep
     DEF Client
<1>3. CASE UNCHANGED vars
  BY <1>3 DEF vars, firmware, stack, client, IInv, EventsOK, TimersOK, StackOK, Nested, Notifies
<1> QED BY <1>1, <1>2, <1>3 DEF Next

\* The inductive invariant holds always: the queue, the timers and the frames of
\* the methods of BootServices stay consistent under every interruption.
THEOREM Invariance == Spec => []IInv
BY InitIInv, StepIInv, PTL DEF Spec

\* The type invariant, for every set of events and every number of TPLs.
THEOREM TypeCorrect == Spec => []TypeOK
<1>1. IInv => TypeOK
  BY DEF IInv, EventsOK, TimersOK, StackOK, TypeOK
<1> QED BY <1>1, Invariance, PTL

\* raise_tpl excludes every notification function up to the TPL raised to, at any depth.
THEOREM RaisedAlone == Spec => []Nested
<1>1. IInv => Nested
  BY DEF IInv, StackOK
<1> QED BY <1>1, Invariance, PTL

\* After close_event no notification of the event is queued and no timer runs.
THEOREM ClosedIsSilent == Spec => []CallbackOwned
<1>1. IInv => CallbackOwned
  BY DEF IInv, EventsOK, TimersOK, CallbackOwned
<1> QED BY <1>1, Invariance, PTL

\* What signal_event has promised is queued until it is notified.
THEOREM NoSignalLost == Spec => []SignalDelivered
<1>1. IInv => SignalDelivered
  BY DEF IInv, EventsOK, SignalDelivered
<1> QED BY <1>1, Invariance, PTL

\* Timers run exactly as set_timer was told.
THEOREM TimersCorrect == Spec => []TimersAsAsked
<1>1. IInv => TimersAsAsked
  BY DEF IInv, TimersOK, TimersAsAsked
<1> QED BY <1>1, Invariance, PTL

=============================================================================
