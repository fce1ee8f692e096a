--------------------------- MODULE EventServices ---------------------------
(***************************************************************************)
(* The events, timers and task priority levels (TPL) of BootServices       *)
(* (boot_services.hpp) between a client and the firmware.  Each method of  *)
(* the class passes its arguments to the function pointer of the table of  *)
(* the same name; what is behind the pointers is the firmware's, modelled  *)
(* from the signatures and the UEFI specification.                         *)
(*                                                                         *)
(* There is one processor.  A notification function interrupts code that   *)
(* runs at a lower TPL and runs to its end before that code goes on, so    *)
(* the code under way is a frame for each TPL at which a function has been *)
(* entered, on top of the application's.  A frame may raise its TPL, once  *)
(* at a time, and must restore it; any frame calls any method.             *)
(***************************************************************************)
EXTENDS Integers

CONSTANTS Events,      \* the events that can be created
          EventTypes,  \* the types they are created with, each a set of flags
          MaxTPL,      \* the highest TPL, at which nothing interrupts
          nullptr      \* the null pointer

\* static_cast combines the enumerators of EventType, which is no flag type.
Flags == {"Timer", "NotifyWait", "NotifySignal"}

ASSUME EventsAssumption ==
  /\ MaxTPL \in Nat
  /\ MaxTPL > 1
  /\ nullptr \notin Events
  /\ EventTypes \subseteq SUBSET Flags

VARIABLES
  open,        \* the events the firmware keeps
  type,        \* the flags each was created with, none if it is not open
  notify_tpl,  \* the TPL of its notification function, if it has one
  signaled,    \* the events in the signaled state
  alarm,       \* what the timer of each event is set to
  queued,      \* the events whose notification function is to be called
  earlier,     \* the pairs of them that were queued in this order
  frames,      \* the TPL at which each frame was entered
  level,       \* the TPL it has now
  checking,    \* the event a frame is about to test, or nullptr
  waiting,     \* the events wait_for_events of the application waits for
  owned,       \* the events the client has created and not closed
  owed,        \* the events it has signaled, until they are notified
  armed        \* what it has set each timer to, until that expires

firmware == <<open, type, notify_tpl, signaled, alarm, queued, earlier>>
stack == <<frames, level, checking, waiting>>
client == <<owned, owed, armed>>
vars == <<firmware, stack, client>>

Application == 0
TPL == Application .. MaxTPL
NotifyTPL == {n \in TPL : n > Application /\ n < MaxTPL}
TimerDelay == {"Cancel", "Periodic", "Relative"}

TypeOK ==
  /\ open \subseteq Events
  /\ type \in [Events -> SUBSET Flags]
  /\ notify_tpl \in [Events -> TPL]
  /\ signaled \subseteq open
  /\ alarm \in [Events -> TimerDelay]
  /\ queued \subseteq open
  /\ earlier \subseteq queued \X queued
  /\ frames \subseteq TPL
  /\ Application \in frames
  /\ level \in [TPL -> TPL]
  /\ checking \in [TPL -> Events \cup {nullptr}]
  /\ waiting \subseteq Events
  /\ owned \subseteq Events
  /\ owed \subseteq Events
  /\ armed \in [Events -> TimerDelay]

Init ==
  /\ open = {}
  /\ type = [e \in Events |-> {}]
  /\ notify_tpl = [e \in Events |-> Application]
  /\ signaled = {}
  /\ alarm = [e \in Events |-> "Cancel"]
  /\ queued = {}
  /\ earlier = {}
  /\ frames = {Application}
  /\ level = [n \in TPL |-> n]
  /\ checking = [n \in TPL |-> nullptr]
  /\ waiting = {}
  /\ owned = {}
  /\ owed = {}
  /\ armed = [e \in Events |-> "Cancel"]

-----------------------------------------------------------------------------
\* The firmware.

Waits(e) == "NotifyWait" \in type[e]
Notifies(e) == "NotifySignal" \in type[e]
Refused == UNCHANGED firmware

\* The topmost frame is the code that runs.
Runs(l) == l \in frames /\ \A m \in frames : m <= l

\* An event queued again goes behind those of its TPL.
Enqueue(e) ==
  /\ queued' = queued \cup {e}
  /\ earlier' = {p \in earlier : e \notin {p[1], p[2]}}
                  \cup {<<q, e>> : q \in {q \in queued \ {e} : notify_tpl[q] = notify_tpl[e]}}

Dequeue(e) ==
  /\ queued' = queued \ {e}
  /\ earlier' = {p \in earlier : e \notin {p[1], p[2]}}

NoQueueing == UNCHANGED <<queued, earlier>>

Signal(e) ==
  /\ signaled' = signaled \cup {e}
  /\ IF Notifies(e) /\ e \notin signaled THEN Enqueue(e) ELSE NoQueueing

Notify == {"NotifyWait", "NotifySignal"}

create_event_(flags, tpl, e) ==
  IF Notify \subseteq flags \/ (Notify \cap flags # {} /\ tpl \notin NotifyTPL) THEN Refused
  ELSE /\ open' = open \cup {e}
       /\ type' = [type EXCEPT ![e] = flags]
       /\ notify_tpl' = [notify_tpl EXCEPT ![e] = IF Notify \cap flags = {} THEN Application ELSE tpl]
       /\ UNCHANGED <<signaled, alarm, queued, earlier>>

close_event_(e) ==
  /\ open' = open \ {e}
  /\ signaled' = signaled \ {e}
  /\ alarm' = [alarm EXCEPT ![e] = "Cancel"]
  /\ type' = [type EXCEPT ![e] = {}]
  /\ notify_tpl' = [notify_tpl EXCEPT ![e] = Application]
  /\ Dequeue(e)

signal_event_(e) ==
  /\ Signal(e)
  /\ UNCHANGED <<open, type, notify_tpl, alarm>>

\* The queued function of an expired timer stays queued when the timer is set.
set_timer_(e, delay) ==
  IF "Timer" \notin type[e] THEN Refused
  ELSE /\ alarm' = [alarm EXCEPT ![e] = delay]
       /\ UNCHANGED <<open, type, notify_tpl, signaled, queued, earlier>>

\* A NotifyWait event that is not signaled gets its function called first.
check_event_(l, e) ==
  IF ~Notifies(e) /\ e \notin signaled /\ Waits(e)
  THEN /\ Enqueue(e)
       /\ checking' = [checking EXCEPT ![l] = e]
       /\ UNCHANGED <<open, type, notify_tpl, signaled, alarm, frames, level, waiting>>
  ELSE /\ signaled' = IF Notifies(e) THEN signaled ELSE signaled \ {e}
       /\ UNCHANGED <<open, type, notify_tpl, alarm, queued, earlier, stack>>

\* Waiting is for code at the application's TPL.
wait_for_event_(l, events) ==
  /\ waiting' = IF level[l] = Application THEN events ELSE waiting
  /\ UNCHANGED <<firmware, frames, level, checking>>

raise_tpl_(l, new_tpl) == level' = [level EXCEPT ![l] = new_tpl]

restore_tpl_(l, old_tpl) == level' = [level EXCEPT ![l] = old_tpl]

\* Queued functions above the TPL of the code that runs are called before
\* anything else, those of the highest TPL first.
Settled(l) == Runs(l) /\ \A e \in queued : notify_tpl[e] <= level[l]

Dispatch(e) ==
  /\ e \in queued
  /\ \E l \in frames : Runs(l) /\ notify_tpl[e] > level[l]
  /\ \A q \in queued : notify_tpl[q] <= notify_tpl[e] /\ <<q, e>> \notin earlier
  /\ Dequeue(e)
  /\ signaled' = IF Notifies(e) THEN signaled \ {e} ELSE signaled
  /\ frames' = frames \cup {notify_tpl[e]}
  /\ level' = [level EXCEPT ![notify_tpl[e]] = notify_tpl[e]]
  /\ owed' = owed \ {e}
  /\ UNCHANGED <<open, type, notify_tpl, alarm, checking, waiting, owned, armed>>

\* The timer interrupt; it is masked at the highest TPL.
Expire(e) ==
  /\ alarm[e] # "Cancel"
  /\ \E l \in frames : Runs(l) /\ level[l] < MaxTPL
  /\ alarm' = [alarm EXCEPT ![e] = IF @ = "Periodic" THEN @ ELSE "Cancel"]
  /\ Signal(e)
  /\ armed' = [armed EXCEPT ![e] = IF @ = "Periodic" THEN @ ELSE "Cancel"]
  /\ UNCHANGED <<open, type, notify_tpl, stack, owned, owed>>

\* The second test of check_event_, after the function has been called.
CheckAgain(l) ==
  /\ Settled(l)
  /\ checking[l] # nullptr
  /\ signaled' = signaled \ {checking[l]}
  /\ checking' = [checking EXCEPT ![l] = nullptr]
  /\ UNCHANGED <<open, type, notify_tpl, alarm, queued, earlier, frames, level, waiting, client>>

\* The loop of wait_for_event_ tests its events over and over.
Waken(e) ==
  /\ Settled(Application)
  /\ e \in waiting
  /\ e \in signaled \/ Notifies(e)
  /\ signaled' = IF Notifies(e) THEN signaled ELSE signaled \ {e}
  /\ waiting' = {}
  /\ UNCHANGED <<open, type, notify_tpl, alarm, queued, earlier, frames, level, checking, client>>

WaitNotify(e) ==
  /\ Settled(Application)
  /\ e \in waiting
  /\ e \notin signaled
  /\ Waits(e)
  /\ Enqueue(e)
  /\ UNCHANGED <<open, type, notify_tpl, signaled, alarm, stack, client>>

-----------------------------------------------------------------------------
\* The methods, as a client calls them in the frame that runs.

Calls(l) ==
  /\ Settled(l)
  /\ checking[l] = nullptr
  /\ l = Application => waiting = {}

\* Nobody closes an event that a frame below waits for or tests.
InUse(e) == e \in waiting \/ \E l \in TPL : checking[l] = e

create_event(l, flags, tpl, e) ==
  /\ Calls(l)
  /\ e \notin owned
  /\ create_event_(flags, tpl, e)
  /\ owned' = owned \cup (open' \ open)
  /\ UNCHANGED <<stack, owed, armed>>

\* Mutant: the pointer called is the neighbour's, signal_event_.
close_eventSignals(l, e) ==
  /\ Calls(l)
  /\ e \in owned
  /\ ~InUse(e)
  /\ signal_event_(e)
  /\ owned' = owned \ {e}
  /\ owed' = owed \ {e}
  /\ armed' = [armed EXCEPT ![e] = "Cancel"]
  /\ UNCHANGED stack

close_event(l, e) ==
  /\ Calls(l)
  /\ e \in owned
  /\ ~InUse(e)
  /\ close_event_(e)
  /\ owned' = owned \ {e}
  /\ owed' = owed \ {e}
  /\ armed' = [armed EXCEPT ![e] = "Cancel"]
  /\ UNCHANGED stack

\* Mutant: the pointer called is the one after the next, check_event_.
signal_eventChecks(l, e) ==
  /\ Calls(l)
  /\ e \in owned
  /\ check_event_(l, e)
  /\ owed' = owed \cup ({e} \cap {f \in Events : Notifies(f)})
  /\ UNCHANGED <<owned, armed>>

signal_event(l, e) ==
  /\ Calls(l)
  /\ e \in owned
  /\ signal_event_(e)
  /\ owed' = owed \cup ({e} \cap {f \in Events : Notifies(f)})
  /\ UNCHANGED <<stack, owned, armed>>

check_event(l, e) ==
  /\ Calls(l)
  /\ e \in owned
  /\ check_event_(l, e)
  /\ UNCHANGED client

wait_for_events(l, events) ==
  /\ Calls(l)
  /\ events \subseteq owned
  /\ wait_for_event_(l, events)
  /\ UNCHANGED client

\* Mutant: the order of the enumerators Periodic and Relative is swapped.
set_timerSwapped(l, e, delay) ==
  /\ Calls(l)
  /\ e \in owned
  /\ set_timer_(e, IF delay = "Relative" THEN "Periodic" ELSE delay)
  /\ armed' = IF "Timer" \notin type[e] THEN armed
              ELSE [armed EXCEPT ![e] = delay]
  /\ UNCHANGED <<stack, owned, owed>>

set_timer(l, e, delay) ==
  /\ Calls(l)
  /\ e \in owned
  /\ set_timer_(e, delay)
  /\ armed' = IF "Timer" \notin type[e] THEN armed
              ELSE [armed EXCEPT ![e] = delay]
  /\ UNCHANGED <<stack, owned, owed>>

\* Mutant: the TPL is counted from one.
raise_tplAbove(l, new_tpl) ==
  /\ Calls(l)
  /\ level[l] = l
  /\ new_tpl > l
  /\ raise_tpl_(l, new_tpl + 1)
  /\ UNCHANGED <<firmware, frames, checking, waiting, client>>

raise_tpl(l, new_tpl) ==
  /\ Calls(l)
  /\ level[l] = l
  /\ new_tpl > l
  /\ raise_tpl_(l, new_tpl)
  /\ UNCHANGED <<firmware, frames, checking, waiting, client>>

\* Mutant: another TPL than the one to restore is passed on.
restore_tplToBottom(l) ==
  /\ Calls(l)
  /\ level[l] > l
  /\ restore_tpl_(l, Application)
  /\ UNCHANGED <<firmware, frames, checking, waiting, client>>

\* The old TPL is the one raise_tpl has returned.
restore_tpl(l) ==
  /\ Calls(l)
  /\ level[l] > l
  /\ restore_tpl_(l, l)
  /\ UNCHANGED <<firmware, frames, checking, waiting, client>>

\* A notification function returns, at the TPL it was called at.
Return(l) ==
  /\ Calls(l)
  /\ l # Application
  /\ level[l] = l
  /\ frames' = frames \ {l}
  /\ UNCHANGED <<firmware, level, checking, waiting, client>>

-----------------------------------------------------------------------------
Firmware ==
  \/ \E e \in Events : Dispatch(e) \/ Expire(e) \/ Waken(e) \/ WaitNotify(e)
  \/ \E l \in TPL : CheckAgain(l)

Client ==
  \E l \in TPL :
    \/ \E e \in Events :
         \/ \E flags \in EventTypes, tpl \in TPL : create_event(l, flags, tpl, e)
         \/ close_event(l, e) \/ signal_event(l, e) \/ check_event(l, e)
         \/ \E delay \in TimerDelay : set_timer(l, e, delay)
    \/ \E events \in (SUBSET Events) \ {{}} : wait_for_events(l, events)
    \/ \E new_tpl \in TPL : raise_tpl(l, new_tpl)
    \/ restore_tpl(l) \/ Return(l)

Next == Firmware \/ Client

Spec == Init /\ [][Next]_vars

\* The firmware calls what is queued and finishes its tests; notification
\* functions return in the end, and code that has raised the TPL restores it.
FairSpec ==
  /\ Spec
  /\ \A e \in Events : WF_vars(Dispatch(e))
  /\ \A l \in TPL : WF_vars(CheckAgain(l)) /\ SF_vars(Return(l)) /\ SF_vars(restore_tpl(l))

-----------------------------------------------------------------------------
\* What raise_tpl and restore_tpl are for: no notification function is entered at a TPL
\* that code it interrupts, at any depth, runs at or has raised its TPL to,
\* and no code goes on below the TPL it was entered at.  Code at a raised TPL is alone
\* with the data it shares with functions up to that TPL.
Nested ==
  \A l \in frames : l <= level[l] /\ \A m \in frames : l < m => level[l] < m

\* Once close_event has returned, the notification function of the event is not
\* called again, even if it was queued or its timer was set: the client may
\* free what the function works on.
CallbackOwned ==
  /\ queued \subseteq owned
  /\ \A e \in Events : alarm[e] # "Cancel" => e \in owned

\* No signal is lost: when signal_event has returned, the notification of the event
\* has run since, or is still queued, whoever else has signaled, checked
\* or re-armed the event in between.
SignalDelivered == owed \subseteq queued

\* The firmware's timers are those the client has set and not cancelled: a
\* Relative timer expires once, a cancelled one never again.
TimersAsAsked == \A e \in owned : alarm[e] # "Cancel" <=> armed[e] # "Cancel"

\* A signaled event at the highest TPL of notifications is notified in the end,
\* however often other timers expire and functions signal one another.
SignalRuns ==
  \A e \in Events : e \in owed /\ notify_tpl[e] = MaxTPL - 1 ~> e \notin owed

=============================================================================
