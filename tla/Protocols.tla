----------------------------- MODULE Protocols -----------------------------
(***************************************************************************)
(* The image and the protocol services of BootServices                     *)
(* (boot_services.hpp).  Images are loaded, started one inside the other   *)
(* and end by exit; the running and the resident ones open a protocol on   *)
(* the handles that have it.  The firmware keeps one list of opens; the    *)
(* images keep theirs in `held`, from what their calls have told them.  A  *)
(* search hands out the handles that drivers then try in turn.             *)
(***************************************************************************)
EXTENDS BootTable

CONSTANTS Handles,   \* the handles of devices
          Images,    \* the handles of images
          Drivers,   \* the images that stay when they end with success
          no_controller  \* the null handle

ASSUME ProtocolsAssumption ==
  Drivers \subseteq Images /\ no_controller \notin Handles \cup Images

VARIABLES
  interfaces,   \* the handles the protocol is installed on
  opens,        \* the firmware's list: who has opened it, where and how
  state,        \* what has become of each image
  started,      \* the images started and not ended, the innermost last
  held,         \* the opens by driver and the exclusive ones the images hold
  searched,     \* the argument of the last locate_handle_buffer
  untried       \* what drivers have still to try: the handles it has returned
                \* and those that have come, gone or been let go of since

firmware == <<interfaces, opens, state, started>>
sweep == <<searched, untried>>
protocol_vars == <<firmware, held, sweep>>

\* ByHandleProtocol, TestProtocol and ByChildController are left out: none of
\* them keeps another from opening, though the last leaves an entry.
OpenProtocolAttribute == {"GetProtocol", "ByDriver", "Exclusive"}
OpenProtocolInformationEntry ==
  [handle : Handles, agent : Images, controller : Handles \cup {no_controller},
   attribute : OpenProtocolAttribute]

\* Entries nobody else can take from their holder.
Guarded(entry) == entry.attribute \in {"ByDriver", "Exclusive"}

ProtocolsTypeOK ==
  /\ interfaces \subseteq Handles
  /\ opens \subseteq OpenProtocolInformationEntry
  /\ state \in [Images -> {"unloaded", "loaded", "started", "resident"}]
  /\ started \in Seq(Images)
  /\ \A i \in Images : state[i] = "started" <=> \E k \in DOMAIN started : started[k] = i
  /\ held \subseteq OpenProtocolInformationEntry
  /\ searched \in {"nothing", "none", "Guid", "Guid*"}
  /\ untried \subseteq Handles

ProtocolsInit ==
  /\ interfaces = {}
  /\ opens = {}
  /\ state = [i \in Images |-> "unloaded"]
  /\ started = <<>>
  /\ held = {}
  /\ searched = "nothing"
  /\ untried = {}

-----------------------------------------------------------------------------
\* The firmware.

Entry(handle, agent, controller, attribute) ==
  [handle |-> handle, agent |-> agent, controller |-> controller, attribute |-> attribute]

On(handle) == {entry \in opens : entry.handle = handle}
By(set, attribute) == {entry \in set : entry.attribute = attribute}

\* A driver told to stop closes what it has opened by driver, or refuses.
Stopped(handle) ==
  {set \in SUBSET By(On(handle), "ByDriver") :
     \A entry \in set : state[entry.agent] \in {"started", "resident"}}

\* Opens by driver give way to an exclusive one, if the drivers agree.
open_protocol_(handle, agent, controller, attribute) ==
  LET entry == Entry(handle, agent, controller, attribute)
      open == opens' = opens \cup {entry} /\ held' = held \cup IF Guarded(entry) THEN {entry} ELSE {}
      refused == UNCHANGED <<opens, held>>
  IN CASE handle \notin interfaces -> refused
       [] handle \in interfaces /\ attribute = "GetProtocol" -> open
       [] handle \in interfaces /\ attribute = "ByDriver" ->
            IF \E other \in On(handle) : Guarded(other) THEN refused ELSE open
       [] handle \in interfaces /\ attribute = "Exclusive" ->
            IF By(On(handle), "Exclusive") # {} THEN refused
            ELSE \E stopped \in Stopped(handle) :
                   IF stopped = By(On(handle), "ByDriver")
                   THEN /\ opens' = (opens \ stopped) \cup {entry}
                        /\ held' = (held \ stopped) \cup {entry}
                   ELSE opens' = opens \ stopped /\ held' = held \ stopped

\* All the agent has opened there for the controller.
Closed(set, handle, agent, controller) ==
  {entry \in set : entry.handle = handle /\ entry.agent = agent /\ entry.controller = controller}

close_protocol_(handle, agent, controller) ==
  opens' = opens \ Closed(opens, handle, agent, controller)

\* What an image that is unloaded has open is closed.
Gone(image) == opens' = {entry \in opens : entry.agent # image}

exit_(image, status) ==
  /\ started' = SubSeq(started, 1, Len(started) - 1)
  /\ IF image \in Drivers /\ status = "Success"
     THEN state' = [state EXCEPT ![image] = "resident"] /\ UNCHANGED opens
     ELSE state' = [state EXCEPT ![image] = "unloaded"] /\ Gone(image)

\* Devices come, and go when the drivers on them stop; an entry by
\* GetProtocol does not keep the interface.
Install(handle) ==
  /\ handle \notin interfaces
  /\ interfaces' = interfaces \cup {handle}
  /\ untried' = untried \cup {handle}
  /\ UNCHANGED <<opens, state, started, held, searched>>

Uninstall(handle) ==
  /\ handle \in interfaces
  /\ \E stopped \in Stopped(handle) :
       /\ held' = held \ stopped
       /\ IF {entry \in On(handle) : Guarded(entry)} \subseteq stopped
          THEN /\ interfaces' = interfaces \ {handle}
               /\ opens' = opens \ On(handle)
               /\ untried' = untried \cup {handle}
          ELSE opens' = opens \ stopped /\ UNCHANGED <<interfaces, untried>>
  /\ UNCHANGED <<state, started, searched>>

\* A shell unloads an image that was never started, or a driver that has
\* closed all; the class has a field for this and no method.
UnloadImage(image) ==
  /\ state[image] \in {"loaded", "resident"}
  /\ \A entry \in held : entry.agent # image
  /\ state' = [state EXCEPT ![image] = "unloaded"]
  /\ Gone(image)
  /\ UNCHANGED <<interfaces, started, held, sweep>>

-----------------------------------------------------------------------------
\* The methods.

Running(image) == started # <<>> /\ started[Len(started)] = image

\* The code of an image: the innermost started one, and the resident ones
\* when the firmware calls them.
Active(image) == Running(image) \/ state[image] = "resident"

load_image(image) ==
  /\ state[image] = "unloaded"
  /\ Enters("load_image_", "LoadImage")
  /\ state' = [state EXCEPT ![image] = "loaded"]
  /\ UNCHANGED <<interfaces, opens, started, held, sweep>>

\* Mutant: an image that is running is started once more.
start_imageAgain(image) ==
  /\ state[image] \in {"loaded", "started"}
  /\ Enters("image_start_", "StartImage")
  /\ state' = [state EXCEPT ![image] = "started"]
  /\ started' = Append(started, image)
  /\ UNCHANGED <<interfaces, opens, held, sweep>>

start_image(image) ==
  /\ state[image] = "loaded"
  /\ Enters("image_start_", "StartImage")
  /\ state' = [state EXCEPT ![image] = "started"]
  /\ started' = Append(started, image)
  /\ UNCHANGED <<interfaces, opens, held, sweep>>

\* Both overloads, or a return from the entry point.
exit(image, status) ==
  /\ Running(image)
  /\ exit_(image, status)
  /\ held' = IF image \in Drivers /\ status = "Success" THEN held
             ELSE {entry \in held : entry.agent # image}
  /\ untried' = untried \cup {entry.handle : entry \in held \ held'}
  /\ UNCHANGED <<interfaces, searched>>

\* Mutant: the call goes through handle_protocol_, which has no attributes.
open_protocolByHandle(handle, agent, controller, attribute) ==
  /\ Active(agent)
  /\ opens' = IF handle \in interfaces
              THEN opens \cup {Entry(handle, agent, controller, "GetProtocol")} ELSE opens
  /\ held' = IF handle \in interfaces /\ attribute # "GetProtocol"
             THEN held \cup {Entry(handle, agent, controller, attribute)} ELSE held
  /\ UNCHANGED <<interfaces, state, started, sweep>>

\* A driver names the handle it drives as the controller, others name none;
\* it has tried the handle, whatever the firmware answers.
open_protocol(handle, agent, controller, attribute) ==
  /\ Active(agent)
  /\ controller = IF attribute = "ByDriver" THEN handle ELSE no_controller
  /\ Enters("open_protocol_", "OpenProtocol")
  /\ open_protocol_(handle, agent, controller, attribute)
  /\ untried' = IF attribute = "ByDriver" THEN untried \ {handle} ELSE untried
  /\ UNCHANGED <<interfaces, state, started, searched>>

\* Mutant: the two handles of the same type are passed in the other order.
close_protocolSwapped(handle, agent, controller) ==
  /\ Active(agent)
  /\ Closed(held, handle, agent, controller) # {}
  /\ close_protocol_(handle, controller, agent)
  /\ held' = held \ Closed(held, handle, agent, controller)
  /\ untried' = untried \cup {handle}
  /\ UNCHANGED <<interfaces, state, started, searched>>

close_protocol(handle, agent, controller) ==
  /\ Active(agent)
  /\ Closed(held, handle, agent, controller) # {}
  /\ Enters("close_protocol_", "CloseProtocol")
  /\ close_protocol_(handle, agent, controller)
  /\ held' = held \ Closed(held, handle, agent, controller)
  /\ untried' = untried \cup {handle}
  /\ UNCHANGED <<interfaces, state, started, searched>>

\* The handles of a search; a key that is no registration finds nothing.
Search(search_type) ==
  CASE search_type = "AllHandles"       -> Handles
    [] search_type = "ByProtocol"       -> interfaces
    [] search_type = "ByRegisterNotify" -> {}

\* Mutant: a GUID selects the search of the neighbouring overload.
OverloadOfPointer(argument) ==
  IF argument = "none" THEN "AllHandles" ELSE "ByRegisterNotify"

\* The overload an argument selects: none, `const Guid&`, or a pointer, to a
\* Guid or to anything else.
Overload(argument) ==
  CASE argument = "none"  -> "AllHandles"
    [] argument = "Guid"  -> "ByProtocol"
    [] argument = "Guid*" -> "ByRegisterNotify"

locate_handle_buffer(argument) ==
  /\ Enters("locate_handle_buffer_", "LocateHandleBuffer")
  /\ searched' = argument
  /\ untried' = Search(Overload(argument))
  /\ UNCHANGED <<firmware, held>>

ProtocolsNext ==
  \/ \E handle \in Handles : Install(handle) \/ Uninstall(handle)
  \/ \E image \in Images :
       \/ load_image(image) \/ start_image(image) \/ UnloadImage(image)
       \/ \E status \in {"Success", "Aborted"} : exit(image, status)
  \/ \E handle \in Handles, agent \in Images, controller \in Handles \cup {no_controller} :
       \/ \E attribute \in OpenProtocolAttribute :
            open_protocol(handle, agent, controller, attribute)
       \/ close_protocol(handle, agent, controller)
  \/ \E argument \in {"none", "Guid", "Guid*"} : locate_handle_buffer(argument)

ProtocolsSpec == ProtocolsInit /\ [][ProtocolsNext]_protocol_vars

-----------------------------------------------------------------------------
\* An image that has opened a protocol with Exclusive has the device to itself, and one
\* that has with ByDriver shares it with no driver; the interface stays
\* installed meanwhile.  This is stated over what the images hold, not over the
\* firmware's list: an open whose attribute or whose close went astray breaks it.
ExclusiveAlone ==
  \A entry \in held :
    /\ entry.handle \in interfaces
    /\ \A other \in held : other.handle = entry.handle => other = entry

\* The firmware's list has exactly what the images hold, whichever way it ended:
\* close_protocol with the agent and the controller of the open, a driver
\* stopped for another's open, exit, unload.  Nothing stays behind that would
\* refuse the device to everyone, and nothing of an image that is gone.
OpensAsHeld ==
  /\ {entry \in opens : Guarded(entry)} = held
  /\ \A entry \in opens : state[entry.agent] \in {"started", "resident"}

\* Drivers that try the handles a locate_handle_buffer without an argument or by a
\* `const Guid&` has returned, and those that come or are let go of later, leave no device
\* behind that nobody has: each one is still to be tried, or is held.  A search that misses
\* devices breaks it, and so does an entry in the firmware's list that outlives its holder,
\* for which the device is refused.  A `Guid*` selects another search and finds none.
SweepLeavesNone ==
  searched # "Guid*" =>
    \A handle \in interfaces \ untried : \E entry \in held : entry.handle = handle

=============================================================================
