--------------------------- MODULE DeviceRecords ---------------------------
(***************************************************************************)
(* The record of one plugin device and everyone who writes it whole: the    *)
(* state bridge (crates/hc-core/src/state_bridge.rs), which handles the     *)
(* messages of the internal bus one at a time, and the requests of          *)
(* crates/hc-api/src/handlers.rs that change, remove or command a device.   *)
(* Each reads the record, awaits, and writes all of it back.                *)
(*                                                                         *)
(* The attributes are one attribute, which a report names or leaves out.    *)
(***************************************************************************)
EXTENDS Naturals, Sequences

CONSTANTS
    Values,      \* the values of the attribute
    Messages,    \* what the device's plugin may publish
    Cmds,        \* the commands that may be sent to the device
    Names,       \* what a plugin or a person may call the device
    IdName,      \* the device's id, which names it until the plugin does
    NoName,
    NoCmd,
    NoRecord,
    CreditSecs,  \* for how long a command explains a report: 5 in the code
    BusRoom,     \* the capacity of each bus
    MaxInputs    \* bound: the number of messages, commands and requests

Absent == "absent"  \* the attribute is not there, or not in the report
Null   == "null"    \* the report says that it is to go

(* What a plugin publishes under its device's topics: a state, full or      *)
(* partial, with or without a word on where the change came from; its       *)
(* availability; its registration and the end of it.                        *)
PluginMessage ==
    [kind : {"report"}, full : BOOLEAN, attr : Values \cup {Absent, Null},
     explicit : {"none", "own", "external"}, answers : {NoCmd}]
    \cup [kind : {"availability"}, up : BOOLEAN]
    \cup [kind : {"register"}, name : Names, typed : BOOLEAN]
    \cup [kind : {"unregister"}, owner : {"derived", "plugin"}]

(* What the store keeps of the device: name is the plugin's, override a     *)
(* person's (name_override; area and area_override are such a pair too).    *)
DeviceRecord ==
    [attr : Values \cup {Absent}, avail : BOOLEAN,
     owner : {"derived", "plugin"}, name : Names, override : Names \cup {NoName},
     change : Cmds \cup {"none", "own", "external", "unknown"}]

ASSUME RecordsAssumption ==
    /\ {Absent, Null} \cap Values = {}
    /\ NoCmd \notin Cmds
    /\ IdName \in Names /\ NoName \notin Names
    /\ NoRecord \notin DeviceRecord
    /\ Messages \subseteq PluginMessage
    /\ CreditSecs \in Nat /\ BusRoom \in Nat \ {0}
    /\ MaxInputs \in Nat

VARIABLES
    record,    \* the device in the store, or NoRecord
    forgotten, \* the device is among the removed ones
    bus,       \* internal_bus, as far as the bridge has not read it
    bridge,    \* the message in hand, and the record read for it
    pending,   \* pending_command_changes[device_id]
    cmd,       \* how far each command has come, and how old it is
    patch,     \* an update_device request, and the record read for it
    removal,   \* a delete_device request, and whether the device was listed
    events,    \* pub_bus, as far as the rule engine has not read it
    published, \* history variable: what the messages so far say of the device
    lost,      \* history variable: a bus has dropped an event
    overtaken, \* history variable: a write replaced a record newer than it read,
               \* or the device was removed after the bridge had looked
    removed,   \* history variable: the device has been deleted
    reported,  \* history variable: the plugin has published of its own accord
    chosen,    \* history variable: what a person called the device, or NoName
    agreed,    \* history variable: the plugin called it so already
    inputs

choiceVars == <<chosen, agreed>>
recordState == <<record, forgotten, bus, bridge, pending, cmd, patch, removal,
                 published, overtaken, removed, reported, choiceVars, inputs>>
recordVars  == <<recordState, events, lost>>

(* DeviceState::new: the owner and the name are taken from the device's id  *)
(* until the plugin registers it.                                           *)
New(owner) ==
    [attr |-> Absent, avail |-> FALSE, owner |-> owner, name |-> IdName,
     override |-> NoName, change |-> "none"]

(* effective_name                                                           *)
EffectiveName(r) == IF r.override = NoName THEN r.name ELSE r.override

Report(full, attr, explicit) ==
    [kind |-> "report", full |-> full, attr |-> attr, explicit |-> explicit,
     answers |-> NoCmd]
Availability(up)  == [kind |-> "availability", up |-> up]
Register(name, typed) == [kind |-> "register", name |-> name, typed |-> typed]
Unregister(owner) == [kind |-> "unregister", owner |-> owner]
Command(c)        == [kind |-> "command", cmd |-> c]

Idle == [at |-> "idle"]

-----------------------------------------------------------------------------
(* A broadcast channel that is full forgets its oldest event.               *)
Push(q, e) == Append(IF Len(q) = BusRoom THEN Tail(q) ELSE q, e)
Full(q)    == Len(q) = BusRoom

Input == inputs < MaxInputs /\ inputs' = inputs + 1

Arrive(m) == bus' = Push(bus, m) /\ lost' = (lost \/ Full(bus))

(* Mutant: every partial report is taken for a full one.                    *)
MergedWhole(attr, m) == IF m.attr \in Values THEN m.attr ELSE Absent

(* The attributes become the report's, or apply_partial_merge_patch.        *)
Merged(attr, m) ==
    CASE m.attr \in Values           -> m.attr
      [] m.attr = Absent /\ ~ m.full -> attr
      [] OTHER                       -> Absent

(* What a message says of the device, by the meaning of its topic.          *)
Said(p, m) ==
    CASE m.kind = "report" /\ m.attr \in Values -> [attr |-> m.attr, avail |-> TRUE]
      [] m.kind = "report" /\ m.attr \notin Values /\ (m.full \/ m.attr = Null)
                                 -> [attr |-> Absent, avail |-> TRUE]
      [] m.kind = "report" /\ m.attr = Absent /\ ~ m.full -> [p EXCEPT !.avail = TRUE]
      [] m.kind = "availability" -> [p EXCEPT !.avail = m.up]
      [] OTHER                   -> p

Fresh(c) == c # NoCmd /\ cmd[c].age <= CreditSecs

(* resolve_state_change: what a plugin says of itself counts, unless it is  *)
(* only that the change came from outside.                                  *)
Change(m) ==
    CASE m.explicit = "own"     -> "own"
      [] m.explicit # "own" /\ Fresh(pending) -> pending
      [] m.explicit = "external" /\ ~ Fresh(pending) -> "external"
      [] OTHER                  -> "unknown"

Announce(es) ==
    /\ events' = CASE es = <<>> -> events
                   [] Len(es) = 1 -> Push(events, es[1])
                   [] OTHER -> Push(Push(events, es[1]), es[2])
    /\ lost' = (lost \/ Len(events) + Len(es) > BusRoom)

StateChanged(previous, current) ==
    [type |-> "state", previous |-> previous, current |-> current]
AvailabilityChanged(up) == [type |-> "availability", up |-> up]
(* DeviceNameChanged, DeviceSchemaChanged, device_deleted: room on the bus. *)
Other == [type |-> "other"]
OtherIf(b) == IF b THEN <<Other>> ELSE <<>>

-----------------------------------------------------------------------------
(* The world: the plugin publishes; a command goes to the broker, which     *)
(* sends it to the device and, because of homecore/#, back to the core; the *)
(* handler also puts it on the bus itself.                                  *)
PluginPublishes(m) ==
    /\ Input
    /\ reported' = TRUE
    /\ Arrive(m)
    /\ published' = Said(published, m)
    /\ UNCHANGED <<record, forgotten, bridge, pending, cmd, patch, removal,
                   events, overtaken, removed, choiceVars>>

CommandDevice(c) ==
    /\ Input
    /\ cmd[c].at = {}
    /\ cmd' = [cmd EXCEPT ![c] = [at |-> {"sent"}, age |-> 0]]
    /\ UNCHANGED <<record, forgotten, bus, bridge, pending, patch, removal,
                   events, published, lost, overtaken, removed, reported,
                   choiceVars>>

(* The command comes to the bus, by the handler or by the broker.           *)
CommandArrives(c, way) ==
    /\ "sent" \in cmd[c].at /\ way \notin cmd[c].at
    /\ cmd' = [cmd EXCEPT ![c].at = @ \cup {way}]
    /\ Arrive(Command(c))
    /\ UNCHANGED <<record, forgotten, bridge, pending, patch, removal, events,
                   published, overtaken, removed, reported,
                   choiceVars, inputs>>

(* The device's answer takes the broker's way, behind the command.          *)
DeviceAnswers(c, v) ==
    LET m == [Report(FALSE, v, "none") EXCEPT !.answers = c]
    IN  /\ "broker" \in cmd[c].at /\ "answered" \notin cmd[c].at
        /\ cmd' = [cmd EXCEPT ![c].at = @ \cup {"answered"}]
        /\ Arrive(m)
        /\ published' = Said(published, m)
        /\ UNCHANGED <<record, forgotten, bridge, pending, patch, removal,
                       events, overtaken, removed, reported,
                       choiceVars, inputs>>

-----------------------------------------------------------------------------
(* The bridge.                                                              *)

(* Mutant: the echo of a command is left to the plugin it is for.           *)
BridgeTakesOnlyOthers ==
    /\ bridge = Idle /\ bus # <<>>
    /\ bus' = Tail(bus)
    /\ bridge' = IF Head(bus).kind = "command" THEN Idle
                 ELSE [at |-> IF record = NoRecord THEN "look" ELSE "write",
                       msg |-> Head(bus), read |-> record]
    /\ UNCHANGED <<record, forgotten, pending, cmd, patch, removal, events,
                   published, lost, overtaken, removed, reported,
                   choiceVars, inputs>>

(* handle_mqtt: a command is remembered (record_pending_command_change); of *)
(* any other message's device the record is read.                           *)
BridgeTakes ==
    /\ bridge = Idle /\ bus # <<>>
    /\ bus' = Tail(bus)
    /\ LET m == Head(bus)
       IN  IF m.kind = "command"
           THEN pending' = m.cmd /\ bridge' = Idle
           ELSE /\ bridge' = [at |-> IF record = NoRecord THEN "look" ELSE "write",
                              msg |-> m, read |-> record]
                /\ pending' = pending
    /\ UNCHANGED <<record, forgotten, cmd, patch, removal, events, published,
                   lost, overtaken, removed, reported, choiceVars, inputs>>

(* Mutant: a report creates its device whatever was removed.                *)
BridgeLooksAway ==
    /\ bridge.at = "look"
    /\ bridge' = [bridge EXCEPT !.at = "write"]
    /\ UNCHANGED <<record, forgotten, bus, pending, cmd, patch, removal,
                   events, published, lost, overtaken, removed, reported,
                   choiceVars, inputs>>

(* No record: is_forgotten.  An unregistration does not ask; a registration *)
(* that is ignored still announces the schema of its type.                  *)
BridgeLooks ==
    LET m    == bridge.msg
        away == forgotten /\ m.kind # "unregister"
    IN  /\ bridge.at = "look"
        /\ bridge' = IF away THEN Idle ELSE [bridge EXCEPT !.at = "write"]
        /\ Announce(OtherIf(away /\ m.kind = "register" /\ m.typed))
        /\ UNCHANGED <<record, forgotten, bus, pending, cmd, patch, removal,
                       published, overtaken, removed, reported, choiceVars,
                       inputs>>

Found(owner) == IF bridge.read = NoRecord THEN New(owner) ELSE bridge.read

BridgeWrites(r, es) ==
    /\ bridge.at = "write"
    /\ record' = r
    /\ Announce(es)
    /\ overtaken' = (overtaken \/ record # bridge.read)
    /\ bridge' = Idle
    /\ UNCHANGED <<forgotten, bus, cmd, patch, removal, published, reported,
                   inputs>>

ComesOnline(old) == IF old.avail THEN <<>> ELSE <<AvailabilityChanged(TRUE)>>

(* handle_state                                                             *)
BridgeReports ==
    LET m   == bridge.msg
        old == Found("derived")
        new == [old EXCEPT !.attr = Merged(old.attr, m), !.avail = TRUE,
                           !.change = Change(m)]
    IN  /\ bridge.at = "write" /\ m.kind = "report"
        /\ BridgeWrites(new, ComesOnline(old)
                             \o IF new.attr = old.attr THEN <<>>
                                ELSE <<StateChanged(old.attr, new.attr)>>)
        /\ pending' = NoCmd
        /\ UNCHANGED <<removed, choiceVars>>

(* handle_availability                                                      *)
BridgeAvailability ==
    LET m   == bridge.msg
        old == Found("derived")
    IN  /\ bridge.at = "write" /\ m.kind = "availability"
        /\ BridgeWrites([old EXCEPT !.avail = m.up],
                        IF old.avail = m.up THEN <<>>
                        ELSE <<AvailabilityChanged(m.up)>>)
        /\ UNCHANGED <<pending, removed, choiceVars>>

(* For the history: what a person chose holds no longer.                    *)
ChoiceOver == chosen' = NoName /\ agreed' = FALSE

(* handle_device_registration: name and owner become the plugin's.  What a  *)
(* person chose when the plugin already called the device so was not kept,  *)
(* and goes by the name the plugin gives now.                               *)
BridgeRegisters ==
    LET m       == bridge.msg
        old     == Found("plugin")
        renamed == bridge.read # NoRecord /\ bridge.read.name # m.name
    IN  /\ bridge.at = "write" /\ m.kind = "register"
        /\ BridgeWrites([old EXCEPT !.owner = "plugin", !.name = m.name],
                        OtherIf(renamed) \o OtherIf(m.typed))
        /\ IF agreed /\ m.name # chosen THEN ChoiceOver ELSE UNCHANGED choiceVars
        /\ UNCHANGED <<pending, removed>>

(* handle_device_unregistration: only by the owner.  The schema may outlive *)
(* the device, and its end is announced as well.                            *)
BridgeUnregisters ==
    LET owned == bridge.read = NoRecord \/ bridge.read.owner = bridge.msg.owner
    IN  /\ bridge.at = "write" /\ bridge.msg.kind = "unregister"
        /\ record' = IF owned THEN NoRecord ELSE record
        /\ \E there \in {TRUE, record # NoRecord} : Announce(OtherIf(owned /\ there))
        /\ removed' = (removed \/ owned)
        /\ IF owned THEN ChoiceOver ELSE UNCHANGED choiceVars
        /\ bridge' = Idle
        /\ UNCHANGED <<forgotten, bus, pending, cmd, patch, removal, published,
                       overtaken, reported, inputs>>

-----------------------------------------------------------------------------
(* The requests.                                                            *)

(* update_device: the record is read, and then all of them.                 *)
PatchReads ==
    /\ Input
    /\ patch = Idle /\ record # NoRecord
    /\ patch' = [at |-> "write", read |-> record]
    /\ UNCHANGED <<record, forgotten, bus, bridge, pending, cmd, removal,
                   events, published, lost, overtaken, removed, reported,
                   choiceVars>>

(* What becomes of name_override: no name clears it, and so does the name   *)
(* that the plugin gave.                                                    *)
Override(r, name) == IF name = r.name THEN NoName ELSE name

(* A person's choice is remembered unless the bridge has the record in hand.*)
Chose(name) ==
    /\ chosen' = IF bridge = Idle THEN name ELSE NoName
    /\ agreed' = (bridge = Idle /\ name = patch.read.name)

(* Mutant: the name is written where the plugin's is.                       *)
PatchWritesName(name) ==
    /\ patch # Idle
    /\ record' = [patch.read EXCEPT !.name = IF name = NoName THEN @ ELSE name]
    /\ Chose(name)
    /\ overtaken' = (overtaken \/ record # patch.read)
    /\ patch' = Idle
    /\ UNCHANGED <<forgotten, bus, bridge, pending, cmd, removal, events,
                   published, lost, removed, reported, inputs>>

(* The whole record as it was read, with the name, or with none (null or    *)
(* empty): a request for something else leaves the override alone.          *)
PatchWrites(name) ==
    /\ patch # Idle
    /\ record' = [patch.read EXCEPT !.override = Override(patch.read, name)]
    /\ Chose(name)
    /\ overtaken' = (overtaken \/ record # patch.read)
    /\ patch' = Idle
    /\ UNCHANGED <<forgotten, bus, bridge, pending, cmd, removal, events,
                   published, lost, removed, reported, inputs>>

PatchWritesOther ==
    /\ patch # Idle
    /\ record' = patch.read
    /\ overtaken' = (overtaken \/ record # patch.read)
    /\ patch' = Idle
    /\ UNCHANGED <<forgotten, bus, bridge, pending, cmd, removal, events,
                   published, lost, removed, reported, choiceVars, inputs>>

(* delete_device: the devices are listed, the device is remembered as       *)
(* removed if it was among them, and it is deleted.                         *)
RemovalLists ==
    /\ Input
    /\ removal = Idle
    /\ removal' = [at |-> IF record = NoRecord THEN "delete" ELSE "remember"]
    /\ UNCHANGED <<record, forgotten, bus, bridge, pending, cmd, patch,
                   events, published, lost, overtaken, removed, reported,
                   choiceVars>>

(* remember_removed                                                         *)
RemovalRemembers ==
    /\ removal.at = "remember"
    /\ forgotten' = TRUE
    /\ removal' = [at |-> "delete"]
    /\ overtaken' = (overtaken \/ (bridge.at = "write" /\ bridge.read = NoRecord))
    /\ UNCHANGED <<record, bus, bridge, pending, cmd, patch, events,
                   published, lost, removed, reported, choiceVars, inputs>>

RemovalDeletes ==
    /\ removal.at = "delete"
    /\ removal' = Idle
    /\ record' = NoRecord
    /\ removed' = TRUE
    /\ ChoiceOver
    /\ UNCHANGED <<forgotten, bus, bridge, pending, cmd, patch, events,
                   published, lost, overtaken, reported, inputs>>

(* bring_back_device                                                        *)
BringBack ==
    /\ Input
    /\ forgotten
    /\ forgotten' = FALSE
    /\ UNCHANGED <<record, bus, bridge, pending, cmd, patch, removal, events,
                   published, lost, overtaken, removed, reported, choiceVars>>

BridgeStep ==
    BridgeTakes \/ BridgeLooks \/ BridgeReports \/ BridgeAvailability
    \/ BridgeRegisters \/ BridgeUnregisters

RequestStep ==
    \/ \E name \in Names \cup {NoName} : PatchWrites(name)
    \/ PatchWritesOther \/ RemovalRemembers \/ RemovalDeletes

WorldStep ==
    \/ \E m \in Messages : PluginPublishes(m)
    \/ \E c \in Cmds : \/ CommandDevice(c)
                       \/ \E way \in {"handler", "broker"} : CommandArrives(c, way)
                       \/ \E v \in Values : DeviceAnswers(c, v)
    \/ PatchReads \/ RemovalLists \/ BringBack

(* A second passes for the commands.                                        *)
CommandsAge ==
    cmd' = [c \in Cmds |-> IF cmd[c].at # {} /\ cmd[c].age <= CreditSecs
                           THEN [cmd[c] EXCEPT !.age = @ + 1] ELSE cmd[c]]

RecordsInit ==
    /\ record = NoRecord /\ forgotten = FALSE /\ bus = <<>> /\ bridge = Idle
    /\ pending = NoCmd /\ cmd = [c \in Cmds |-> [at |-> {}, age |-> 0]]
    /\ patch = Idle /\ removal = Idle /\ events = <<>>
    /\ published = [attr |-> Absent, avail |-> FALSE]
    /\ lost = FALSE /\ overtaken = FALSE /\ removed = FALSE
    /\ reported = FALSE /\ chosen = NoName /\ agreed = FALSE /\ inputs = 0
=============================================================================
