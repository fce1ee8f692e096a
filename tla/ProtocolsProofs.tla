-------------------------- MODULE ProtocolsProofs --------------------------
(***************************************************************************)
(* Proofs about Protocols, for all sets of handles, images and drivers.    *)
(***************************************************************************)
EXTENDS Protocols, TLAPS

-----------------------------------------------------------------------------
(* The inductive invariant: no image is started twice, so that an exit     *)
(* ends the one instance there is.                                         *)

StackOK ==
  /\ started \in Seq(Images)
  /\ \A i \in Images : state[i] = "started" <=> \E k \in DOMAIN started : started[k] = i
  /\ \A k, l \in DOMAIN started : started[k] = started[l] => k = l

RestOK ==
  /\ interfaces \subseteq Handles
  /\ opens \subseteq OpenProtocolInformationEntry
  /\ state \in [Images -> {"unloaded", "loaded", "started", "resident"}]
  /\ held \subseteq OpenProtocolInformationEntry
  /\ searched \in {"nothing", "none", "Guid", "Guid*"}
  /\ untried \subseteq Handles

IInv == StackOK /\ RestOK /\ ExclusiveAlone /\ OpensAsHeld /\ SweepLeavesNone

LEMMA InitIInv == ProtocolsInit => IInv
<1> SUFFICES ASSUME ProtocolsInit PROVE IInv
  OBVIOUS
<1>1. StackOK
  BY DEF ProtocolsInit, StackOK
<1>2. RestOK
  BY DEF ProtocolsInit, RestOK
<1>3. ExclusiveAlone /\ OpensAsHeld /\ SweepLeavesNone
  BY DEF ProtocolsInit, ExclusiveAlone, OpensAsHeld, SweepLeavesNone
<1> QED BY <1>1, <1>2, <1>3 DEF IInv

-----------------------------------------------------------------------------
(* The stack of the started images.                                        *)

\* The innermost image is started.
LEMMA RunningIsStarted ==
  ASSUME StackOK, NEW image \in Images, Running(image)
  PROVE  state[image] = "started" /\ Len(started) \in DOMAIN started
BY DEF StackOK, Running

\* An image that comes or goes without having been started.
LEMMA StackKept ==
  ASSUME StackOK, RestOK, UNCHANGED started, NEW image \in Images, NEW new,
         state[image] # "started", new # "started", state' = [state EXCEPT ![image] = new]
  PROVE  StackOK'
BY DEF StackOK, RestOK

LEMMA StackPushed ==
  ASSUME StackOK, RestOK, NEW image \in Images, state[image] # "started",
         state' = [state EXCEPT ![image] = "started"], started' = Append(started, image)
  PROVE  StackOK'
<1>1. started' \in Seq(Images) /\ Len(started') = Len(started) + 1
  BY DEF StackOK
<1>2. DOMAIN started' = DOMAIN started \cup {Len(started) + 1}
  BY <1>1 DEF StackOK
<1>3. started'[Len(started) + 1] = image /\ \A k \in DOMAIN started : started'[k] = started[k]
  BY DEF StackOK
<1>4. \A k \in DOMAIN started : started[k] # image
  BY DEF StackOK
<1>5. Len(started) + 1 \notin DOMAIN started
  BY DEF StackOK
<1>6. \A i \in Images : state'[i] = "started" <=> i = image \/ state[i] = "started"
  BY DEF RestOK
<1>7. \A i \in Images : state'[i] = "started" <=> \E k \in DOMAIN started' : started'[k] = i
  BY <1>2, <1>3, <1>6 DEF StackOK
<1>8. \A k, l \in DOMAIN started' : started'[k] = started'[l] => k = l
  BY <1>2, <1>3, <1>4, <1>5 DEF StackOK
<1> QED BY <1>1, <1>7, <1>8 DEF StackOK

LEMMA StackPopped ==
  ASSUME StackOK, RestOK, NEW image \in Images, Running(image), NEW new, new # "started",
         state' = [state EXCEPT ![image] = new],
         started' = SubSeq(started, 1, Len(started) - 1)
  PROVE  StackOK'
<1>1. Len(started) \in Nat \ {0} /\ started[Len(started)] = image
  BY DEF StackOK, Running
<1>2. started' \in Seq(Images) /\ DOMAIN started' = 1 .. (Len(started) - 1)
  BY <1>1 DEF StackOK
<1>3. \A k \in DOMAIN started' : started'[k] = started[k]
  BY <1>1, <1>2 DEF StackOK
<1>4. DOMAIN started = DOMAIN started' \cup {Len(started)} /\ Len(started) \notin DOMAIN started'
  <2>1. DOMAIN started = 1 .. Len(started)
    BY DEF StackOK
  <2> QED BY <1>1, <1>2, <2>1
<1>5. \A i \in Images : state'[i] = "started" <=> i # image /\ state[i] = "started"
  BY DEF RestOK
<1>6. \A i \in Images : state'[i] = "started" <=> \E k \in DOMAIN started' : started'[k] = i
  <2>1. \A k \in DOMAIN started' : started[k] # image
    BY <1>1, <1>4, Zenon DEF StackOK
  <2>2. \A i \in Images : i # image =>
          ((\E k \in DOMAIN started : started[k] = i) <=> \E k \in DOMAIN started' : started'[k] = i)
    BY <1>1, <1>3, <1>4, Zenon
  <2>3. \A i \in Images : state[i] = "started" <=> \E k \in DOMAIN started : started[k] = i
    BY DEF StackOK
  <2> QED BY <1>3, <1>5, <2>1, <2>2, <2>3
<1>7. \A k, l \in DOMAIN started' : started'[k] = started'[l] => k = l
  BY <1>3, <1>4, Zenon DEF StackOK
<1> QED BY <1>2, <1>6, <1>7 DEF StackOK

-----------------------------------------------------------------------------
(* The lists of opens.                                                     *)

\* What stops drivers takes the same entries from both lists.
LEMMA StoppedEntries ==
  ASSUME NEW handle \in Handles, NEW stopped \in Stopped(handle)
  PROVE  /\ stopped \subseteq opens
         /\ \A entry \in stopped : Guarded(entry) /\ entry.handle = handle
BY DEF Stopped, By, On, Guarded

\* Whoever is gone has nothing in the lists.
LEMMA GoneStep ==
  ASSUME RestOK, OpensAsHeld, NEW image \in Images, Gone(image), NEW new,
         state' = [state EXCEPT ![image] = new],
         held' = {entry \in held : entry.agent # image}
  PROVE  OpensAsHeld'
<1>1. {entry \in opens' : Guarded(entry)} = held'
  BY DEF OpensAsHeld, Gone, Guarded
<1>2. \A entry \in opens' : entry.agent \in Images /\ state'[entry.agent] = state[entry.agent]
  BY DEF RestOK, Gone, OpenProtocolInformationEntry
<1> QED BY <1>1, <1>2 DEF OpensAsHeld, Gone

\* Fewer entries are held, of handles that keep the interface.
LEMMA FewerHeld ==
  ASSUME ExclusiveAlone, held' \subseteq held, interfaces' = interfaces
  PROVE  ExclusiveAlone'
BY DEF ExclusiveAlone

\* Nobody is passed by when what is let go of is to be tried again.
LEMMA SweepKept ==
  ASSUME SweepLeavesNone, UNCHANGED <<interfaces, searched>>, untried \subseteq untried',
         \A entry \in held \ held' : entry.handle \in untried'
  PROVE  SweepLeavesNone'
BY DEF SweepLeavesNone

\* A firmware that stops some of those on a handle and not all stops none: there is one.
LEMMA SomeStopped ==
  ASSUME ExclusiveAlone, OpensAsHeld, NEW handle \in Handles, NEW stopped \in Stopped(handle),
         ~({entry \in On(handle) : Guarded(entry)} \subseteq stopped)
  PROVE  stopped = {}
<1>1. PICK other \in opens : Guarded(other) /\ other.handle = handle /\ other \notin stopped
  BY DEF On
<1>2. \A entry \in stopped : entry \in held /\ entry.handle = handle
  BY StoppedEntries DEF OpensAsHeld
<1>3. other \in held
  BY <1>1 DEF OpensAsHeld
<1> QED BY <1>1, <1>2, <1>3 DEF ExclusiveAlone

-----------------------------------------------------------------------------
(* One step for each service.                                              *)

LEMMA InstallStep == ASSUME IInv, NEW handle \in Handles, Install(handle) PROVE IInv'
<1> USE DEF IInv, Install
<1>1. StackOK' /\ RestOK'
  BY DEF StackOK, RestOK
<1>2. ExclusiveAlone' /\ OpensAsHeld'
  BY DEF ExclusiveAlone, OpensAsHeld
<1>3. SweepLeavesNone'
  BY DEF SweepLeavesNone
<1> QED BY <1>1, <1>2, <1>3

LEMMA UninstallStep == ASSUME IInv, NEW handle \in Handles, Uninstall(handle) PROVE IInv'
<1> USE DEF IInv
<1>0. PICK stopped \in Stopped(handle) :
        /\ held' = held \ stopped
        /\ IF {entry \in On(handle) : Guarded(entry)} \subseteq stopped
           THEN /\ interfaces' = interfaces \ {handle}
                /\ opens' = opens \ On(handle)
                /\ untried' = untried \cup {handle}
           ELSE opens' = opens \ stopped /\ UNCHANGED <<interfaces, untried>>
  BY DEF Uninstall
<1>1. UNCHANGED <<state, started, searched>>
  BY DEF Uninstall
<1>2. stopped \subseteq opens /\ \A entry \in stopped : Guarded(entry) /\ entry.handle = handle
  BY StoppedEntries
<1>3. StackOK' /\ RestOK'
  BY <1>0, <1>1 DEF StackOK, RestOK
<1>4. CASE {entry \in On(handle) : Guarded(entry)} \subseteq stopped
  <2>1. {entry \in On(handle) : Guarded(entry)} = stopped
    BY <1>2, <1>4 DEF On
  <2>2. OpensAsHeld'
    BY <1>0, <1>1, <1>4, <2>1 DEF OpensAsHeld, On
  <2>3. \A entry \in held' : entry.handle # handle
    BY <1>0, <2>1 DEF OpensAsHeld, On
  <2>4. ExclusiveAlone'
    BY <1>0, <1>4, <2>3 DEF ExclusiveAlone
  <2>5. SweepLeavesNone'
    <3>1. \A entry \in held : entry.handle # handle => entry \in held'
      BY <1>0, <1>2
    <3> QED BY <1>0, <1>1, <1>4, <3>1 DEF SweepLeavesNone
  <2> QED BY <1>3, <2>2, <2>4, <2>5
<1>5. CASE ~({entry \in On(handle) : Guarded(entry)} \subseteq stopped)
  <2>1. OpensAsHeld'
    BY <1>0, <1>1, <1>2, <1>5 DEF OpensAsHeld
  <2>2. stopped = {}
    BY <1>5, SomeStopped
  <2>3. ExclusiveAlone' /\ SweepLeavesNone'
    BY <1>0, <1>1, <1>5, <2>2, FewerHeld, SweepKept
  <2> QED BY <1>3, <2>1, <2>3
<1> QED BY <1>4, <1>5

LEMMA load_imageStep == ASSUME IInv, NEW image \in Images, load_image(image) PROVE IInv'
<1> USE DEF IInv, sweep, load_image
<1>1. StackOK'
  BY StackKept
<1>2. RestOK' /\ ExclusiveAlone' /\ SweepLeavesNone'
  BY DEF RestOK, ExclusiveAlone, SweepLeavesNone
<1>3. OpensAsHeld'
  BY DEF OpensAsHeld, RestOK, OpenProtocolInformationEntry
<1> QED BY <1>1, <1>2, <1>3

LEMMA start_imageStep == ASSUME IInv, NEW image \in Images, start_image(image) PROVE IInv'
<1> USE DEF IInv, sweep, start_image
<1>1. StackOK'
  BY StackPushed
<1>2. RestOK' /\ ExclusiveAlone' /\ SweepLeavesNone'
  BY DEF RestOK, ExclusiveAlone, SweepLeavesNone
<1>3. OpensAsHeld'
  BY DEF OpensAsHeld, RestOK, OpenProtocolInformationEntry
<1> QED BY <1>1, <1>2, <1>3

LEMMA UnloadImageStep == ASSUME IInv, NEW image \in Images, UnloadImage(image) PROVE IInv'
<1> USE DEF IInv, sweep, UnloadImage
<1>1. StackOK'
  BY StackKept
<1>2. RestOK' /\ ExclusiveAlone' /\ SweepLeavesNone'
  BY DEF RestOK, ExclusiveAlone, SweepLeavesNone, Gone
<1>3. held' = {entry \in held : entry.agent # image}
  OBVIOUS
<1>4. OpensAsHeld'
  BY <1>3, GoneStep
<1> QED BY <1>1, <1>2, <1>4

LEMMA exitStep ==
  ASSUME IInv, NEW image \in Images, NEW status \in {"Success", "Aborted"}, exit(image, status)
  PROVE  IInv'
<1> USE DEF IInv
<1>1. Running(image) /\ exit_(image, status) /\ UNCHANGED <<interfaces, searched>>
      /\ untried' = untried \cup {entry.handle : entry \in held \ held'}
  BY DEF exit
<1>2. CASE image \in Drivers /\ status = "Success"
  <2>1. state' = [state EXCEPT ![image] = "resident"] /\ UNCHANGED <<opens, held>>
    BY <1>1, <1>2 DEF exit, exit_
  <2>2. StackOK'
    BY <1>1, <2>1, StackPopped DEF exit_
  <2>3. RestOK' /\ ExclusiveAlone' /\ SweepLeavesNone'
    BY <1>1, <2>1 DEF RestOK, ExclusiveAlone, SweepLeavesNone
  <2>4. OpensAsHeld'
    BY <2>1 DEF OpensAsHeld, RestOK, OpenProtocolInformationEntry
  <2> QED BY <2>2, <2>3, <2>4
<1>3. CASE ~(image \in Drivers /\ status = "Success")
  <2>1. /\ state' = [state EXCEPT ![image] = "unloaded"]
        /\ Gone(image)
        /\ held' = {entry \in held : entry.agent # image}
    BY <1>1, <1>3 DEF exit, exit_
  <2>2. StackOK'
    BY <1>1, <2>1, StackPopped DEF exit_
  <2>3. RestOK' /\ SweepLeavesNone'
    <3>1. untried' \subseteq Handles
      BY <1>1 DEF RestOK, OpenProtocolInformationEntry
    <3> QED BY <1>1, <2>1, <3>1, SweepKept DEF RestOK, Gone
  <2>4. ExclusiveAlone'
    BY <1>1, <2>1, FewerHeld
  <2>5. OpensAsHeld'
    BY <2>1, GoneStep
  <2> QED BY <2>2, <2>3, <2>4, <2>5
<1> QED BY <1>2, <1>3

\* The entry of an open that succeeds is one of the list, and its agent is there.
LEMMA EntryOfOpen ==
  ASSUME IInv, NEW handle \in Handles, NEW agent \in Images,
         NEW controller \in Handles \cup {no_controller}, NEW attribute \in OpenProtocolAttribute,
         Active(agent)
  PROVE  /\ Entry(handle, agent, controller, attribute) \in OpenProtocolInformationEntry
         /\ Entry(handle, agent, controller, attribute).handle = handle
         /\ Entry(handle, agent, controller, attribute).attribute = attribute
         /\ state[Entry(handle, agent, controller, attribute).agent] \in {"started", "resident"}
BY RunningIsStarted DEF IInv, Entry, OpenProtocolInformationEntry, Active

LEMMA open_protocolStep ==
  ASSUME IInv, NEW handle \in Handles, NEW agent \in Images,
         NEW controller \in Handles \cup {no_controller}, NEW attribute \in OpenProtocolAttribute,
         open_protocol(handle, agent, controller, attribute)
  PROVE  IInv'
<1> USE DEF IInv
<1> DEFINE new == Entry(handle, agent, controller, attribute)
<1>1. /\ UNCHANGED <<interfaces, state, started, searched>>
      /\ open_protocol_(handle, agent, controller, attribute)
      /\ untried' = IF attribute = "ByDriver" THEN untried \ {handle} ELSE untried
  BY DEF open_protocol
<1>2. /\ new \in OpenProtocolInformationEntry
      /\ new.handle = handle /\ new.attribute = attribute
      /\ state[new.agent] \in {"started", "resident"}
  BY EntryOfOpen DEF open_protocol
<1>3. StackOK' /\ untried' \subseteq Handles /\ untried \subseteq untried' \cup {handle}
  BY <1>1 DEF StackOK, RestOK
<1>4. ASSUME opens' = opens, held' = held,
             attribute = "ByDriver" /\ handle \in interfaces =>
               \E entry \in held : entry.handle = handle
      PROVE  IInv'
  <2>1. SweepLeavesNone'
    BY <1>1, <1>4 DEF SweepLeavesNone
  <2> QED BY <1>1, <1>3, <1>4, <2>1 DEF RestOK, ExclusiveAlone, OpensAsHeld
<1>5. CASE attribute = "GetProtocol" /\ opens' = opens \cup {new} /\ held' = held
  <2>1. ~Guarded(new)
    BY <1>2, <1>5 DEF Guarded
  <2>2. OpensAsHeld'
    BY <1>1, <1>2, <1>5, <2>1 DEF OpensAsHeld
  <2>3. SweepLeavesNone'
    BY <1>1, <1>5 DEF SweepLeavesNone
  <2> QED BY <1>1, <1>2, <1>3, <1>5, <2>2, <2>3 DEF RestOK, ExclusiveAlone
<1>6. ASSUME NEW stopped \in SUBSET opens,
             \A entry \in stopped : Guarded(entry) /\ entry.handle = handle,
             handle \in interfaces, Guarded(new),
             \A other \in opens : Guarded(other) /\ other.handle = handle => other \in stopped,
             opens' = (opens \ stopped) \cup {new}, held' = (held \ stopped) \cup {new}
      PROVE  IInv'
  <2>1. OpensAsHeld'
    BY <1>1, <1>2, <1>6 DEF OpensAsHeld
  <2>2. \A entry \in held \ stopped : entry.handle # handle
    BY <1>6 DEF OpensAsHeld
  <2>3. ExclusiveAlone'
    BY <1>1, <1>2, <1>6, <2>2 DEF ExclusiveAlone
  <2>4. RestOK'
    BY <1>1, <1>2, <1>3, <1>6 DEF RestOK
  <2>5. new \in held' /\ \A entry \in held : entry.handle # handle => entry \in held'
    BY <1>6
  <2>6. SweepLeavesNone'
    BY <1>1, <1>2, <1>3, <2>5 DEF SweepLeavesNone
  <2> QED BY <1>3, <2>1, <2>3, <2>4, <2>6
<1>7. CASE attribute = "GetProtocol"
  <2>1. ~Guarded(new)
    BY <1>2, <1>7 DEF Guarded
  <2> QED BY <1>1, <1>4, <1>5, <1>7, <2>1 DEF open_protocol_
<1>8. CASE attribute = "ByDriver" /\ handle \in interfaces /\ ~\E other \in On(handle) : Guarded(other)
  <2>1. Guarded(new)
    BY <1>2, <1>8 DEF Guarded
  <2>2. opens' = (opens \ {}) \cup {new} /\ held' = (held \ {}) \cup {new}
    BY <1>1, <1>8, <2>1 DEF open_protocol_
  <2>3. {} \in SUBSET opens /\ \A entry \in {} : Guarded(entry) /\ entry.handle = handle
    OBVIOUS
  <2>4. \A other \in opens : Guarded(other) /\ other.handle = handle => other \in {}
    BY <1>8 DEF On
  <2>5. handle \in interfaces
    BY <1>8
  <2> HIDE DEF new, IInv
  <2> QED BY <1>6, <2>1, <2>2, <2>3, <2>4, <2>5
<1>9. CASE attribute = "Exclusive" /\ handle \in interfaces /\ By(On(handle), "Exclusive") = {}
  <2>1. Guarded(new)
    BY <1>2, <1>9 DEF Guarded
  <2>2. PICK stopped \in Stopped(handle) :
          IF stopped = By(On(handle), "ByDriver")
          THEN opens' = (opens \ stopped) \cup {new} /\ held' = (held \ stopped) \cup {new}
          ELSE opens' = opens \ stopped /\ held' = held \ stopped
    BY <1>1, <1>9 DEF open_protocol_
  <2>3. stopped \in SUBSET opens /\ \A entry \in stopped : Guarded(entry) /\ entry.handle = handle
    BY StoppedEntries
  <2>4. By(On(handle), "ByDriver") = {entry \in On(handle) : Guarded(entry)}
    BY <1>9 DEF By, Guarded
  <2>5. CASE stopped = By(On(handle), "ByDriver")
    <3>1. \A other \in opens : Guarded(other) /\ other.handle = handle => other \in stopped
      BY <2>4, <2>5 DEF On
    <3>2. opens' = (opens \ stopped) \cup {new} /\ held' = (held \ stopped) \cup {new}
      BY <2>2, <2>5
    <3> HIDE DEF new, IInv
    <3> QED BY <1>6, <1>9, <2>1, <2>3, <3>1, <3>2
  <2>6. CASE stopped # By(On(handle), "ByDriver")
    <3>1. stopped \subseteq By(On(handle), "ByDriver")
      BY DEF Stopped
    <3>2. stopped = {}
      BY <2>4, <2>6, <3>1, SomeStopped
    <3> QED BY <1>4, <1>9, <2>2, <2>6, <3>2
  <2> QED BY <2>5, <2>6
<1>10. CASE opens' = opens /\ held' = held /\ attribute = "ByDriver" /\ handle \in interfaces
            /\ \E other \in On(handle) : Guarded(other)
  BY <1>4, <1>10 DEF On, OpensAsHeld
<1>11. CASE opens' = opens /\ held' = held /\ ~(attribute = "ByDriver" /\ handle \in interfaces)
  BY <1>4, <1>11
<1>12. (opens' = opens /\ held' = held /\ ~(attribute = "ByDriver" /\ handle \in interfaces))
       \/ attribute = "GetProtocol"
       \/ (attribute = "ByDriver" /\ handle \in interfaces
             /\ (~(\E other \in On(handle) : Guarded(other)) \/ (opens' = opens /\ held' = held)))
       \/ (attribute = "Exclusive" /\ handle \in interfaces /\ By(On(handle), "Exclusive") = {})
  BY <1>1 DEF open_protocol_, OpenProtocolAttribute
<1> QED BY <1>7, <1>8, <1>9, <1>10, <1>11, <1>12

LEMMA close_protocolStep ==
  ASSUME IInv, NEW handle \in Handles, NEW agent \in Images,
         NEW controller \in Handles \cup {no_controller},
         close_protocol(handle, agent, controller)
  PROVE  IInv'
<1> USE DEF IInv, close_protocol, close_protocol_
<1>1. StackOK' /\ RestOK'
  BY DEF StackOK, RestOK
<1>2. ExclusiveAlone'
  BY FewerHeld
<1>3. OpensAsHeld'
  BY DEF OpensAsHeld, Closed
<1>4. SweepLeavesNone'
  BY SweepKept DEF Closed
<1> QED BY <1>1, <1>2, <1>3, <1>4

LEMMA locate_handle_bufferStep ==
  ASSUME IInv, NEW argument \in {"none", "Guid", "Guid*"}, locate_handle_buffer(argument)
  PROVE  IInv'
<1> USE DEF IInv, locate_handle_buffer, firmware
<1>1. untried' \subseteq Handles /\ (argument # "Guid*" => interfaces \subseteq untried')
  BY DEF Overload, Search, RestOK
<1>2. StackOK' /\ RestOK' /\ SweepLeavesNone'
  BY <1>1 DEF StackOK, RestOK, SweepLeavesNone
<1>3. ExclusiveAlone' /\ OpensAsHeld'
  BY DEF ExclusiveAlone, OpensAsHeld
<1> QED BY <1>2, <1>3

LEMMA NextIInv == IInv /\ [ProtocolsNext]_protocol_vars => IInv'
<1> SUFFICES ASSUME IInv, [ProtocolsNext]_protocol_vars PROVE IInv'
  OBVIOUS
<1>1. CASE UNCHANGED protocol_vars
  BY <1>1 DEF protocol_vars, firmware, sweep, IInv, StackOK, RestOK, ExclusiveAlone, OpensAsHeld,
     SweepLeavesNone
<1>2. CASE ProtocolsNext
  BY <1>2, InstallStep, UninstallStep, load_imageStep, start_imageStep, UnloadImageStep,
     exitStep, open_protocolStep, close_protocolStep, locate_handle_bufferStep DEF ProtocolsNext
<1> QED BY <1>1, <1>2

\* The inductive invariant holds always: start_image and exit keep the images on a stack,
\* and open_protocol, close_protocol and exit keep the list in step with them.
THEOREM Invariance == ProtocolsSpec => []IInv
BY InitIInv, NextIInv, PTL DEF ProtocolsSpec

-----------------------------------------------------------------------------
\* The variables have their types, and the images that load_image, start_image and exit
\* have brought to the state "started" are those on the stack.
THEOREM TypeCorrect == ProtocolsSpec => []ProtocolsTypeOK
<1>1. IInv => ProtocolsTypeOK
  BY DEF IInv, StackOK, RestOK, ProtocolsTypeOK
<1> QED BY <1>1, Invariance, PTL

\* An image whose open_protocol with Exclusive or ByDriver succeeded has the device to
\* itself among those that hold it, and the interface stays installed.
THEOREM HolderIsAlone == ProtocolsSpec => []ExclusiveAlone
BY Invariance, PTL DEF IInv

\* The firmware's list has what the images hold after every open_protocol, close_protocol,
\* exit and stop of a driver, and nothing of an image that is gone.
THEOREM ListIsWhatIsHeld == ProtocolsSpec => []OpensAsHeld
BY Invariance, PTL DEF IInv

\* Drivers that try what a locate_handle_buffer without an argument or by a GUID returned
\* leave no device behind that neither is held nor is still to be tried.
THEOREM DevicesAreDriven == ProtocolsSpec => []SweepLeavesNone
BY Invariance, PTL DEF IInv

\* What the overload for pointers does with a `Guid*`: of a device nobody has the search
\* leaves nothing to try, which is why SweepLeavesNone is about the other two.
THEOREM PointerFindsNothing ==
  ASSUME NEW handle \in interfaces, ~\E entry \in held : entry.handle = handle,
         locate_handle_buffer("Guid*")
  PROVE  \E left \in interfaces' \ untried' : ~\E entry \in held' : entry.handle = left
<1>1. untried' = {}
  BY DEF locate_handle_buffer, Overload, Search
<1> QED BY <1>1 DEF locate_handle_buffer, firmware

=============================================================================
