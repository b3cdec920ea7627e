--------------------------- MODULE DeferredFiring ---------------------------
(***************************************************************************)
(* The rule engine's side of a device: its cache of the attributes, and the *)
(* firing of a rule whose trigger has for_duration_secs                     *)
(* (crates/hc-core/src/engine.rs).  A match spawns a task that sleeps, looks *)
(* again, and sends the engine a deferred_rule_fire, on which the engine    *)
(* looks once more.  It is composed with DeviceRecords, whose events it     *)
(* reads and whose record it asks for the availability.                     *)
(***************************************************************************)
EXTENDS DeviceRecords, FiniteSets

CONSTANTS
    Target,      \* the value the trigger waits for
    Duration     \* for_duration_secs

ASSUME DeferredAssumption ==
    Target \in Values /\ Duration \in Nat \ {0}

VARIABLES
    trigger,  \* the rule's trigger: "state" or "availability" (to offline)
    cache,    \* device_cache[device_id], as far as the attribute goes
    tasks,    \* how many tasks have how many seconds left to sleep
    heldFor,  \* history variable: for how long the cache has held the target
    awaited,  \* history variable: a match has not led to a firing yet
    fired     \* history variable: the step just taken fired the rule

deferredVars == <<trigger, cache, tasks, heldFor, awaited, fired>>
allVars == <<recordVars, deferredVars>>

-----------------------------------------------------------------------------
(* trigger_check, for an event of the device.                               *)
Matches(e) ==
    CASE e.type = "state"        -> /\ trigger = "state"
                                    /\ e.current = Target /\ e.previous # Target
      [] e.type = "availability" -> trigger = "availability" /\ ~ e.up
      [] OTHER                   -> FALSE

(* Mutant: the availability to be held is not handed on.                    *)
StillMatchesUnheld == trigger = "state" /\ cache = Target

(* still_matches_for_duration and availability_held.                        *)
StillMatches ==
    CASE trigger = "state"        -> cache = Target
      [] trigger = "availability" -> record # NoRecord /\ ~ record.avail

(* The cache takes over the attributes the event has, and keeps the others. *)
Cached(c, e) == IF e.current = Absent THEN c ELSE e.current

(* handle_event, for the device's events.                                   *)
EngineHears ==
    /\ events # <<>> /\ Head(events).type # "deferred"
    /\ LET e == Head(events)
       IN  /\ events' = Tail(events)
           /\ cache' = IF e.type = "state" THEN Cached(cache, e) ELSE cache
           /\ heldFor' = IF cache' = cache THEN heldFor ELSE 0
           /\ tasks' = IF Matches(e) THEN [tasks EXCEPT ![Duration] = @ + 1] ELSE tasks
           /\ awaited' = (awaited \/ Matches(e))
           /\ fired' = FALSE
    /\ UNCHANGED <<recordState, lost, trigger>>

(* A task whose sleep is over.                                              *)
TaskWakes ==
    /\ tasks[0] > 0
    /\ tasks' = [tasks EXCEPT ![0] = @ - 1]
    /\ Announce(IF StillMatches THEN <<[type |-> "deferred"]>> ELSE <<>>)
    /\ fired' = FALSE
    /\ UNCHANGED <<recordState, trigger, cache, heldFor, awaited>>

(* handle_event, for deferred_rule_fire.                                    *)
EngineFires ==
    /\ events # <<>> /\ Head(events).type = "deferred"
    /\ events' = Tail(events)
    /\ fired' = StillMatches
    /\ awaited' = (awaited /\ ~ StillMatches)
    /\ UNCHANGED <<recordState, lost, trigger, cache, tasks, heldFor>>

(* A second passes; what is due is done first.                              *)
SecondPasses ==
    /\ tasks[0] = 0
    /\ tasks' = [k \in 0..Duration |-> IF k < Duration THEN tasks[k + 1] ELSE 0]
    /\ heldFor' = IF heldFor < Duration THEN heldFor + 1 ELSE heldFor
    /\ CommandsAge
    /\ fired' = FALSE
    /\ UNCHANGED <<trigger, cache, awaited, record, forgotten, bus, bridge,
                   pending, patch, removal, published, overtaken, removed,
                   reported, choiceVars, inputs, events, lost>>

RestOfEngine == fired' = FALSE /\ UNCHANGED <<trigger, cache, tasks, heldFor, awaited>>

RecordStep == (BridgeStep \/ RequestStep \/ WorldStep) /\ RestOfEngine

HomeInit ==
    /\ RecordsInit
    /\ trigger \in {"state", "availability"}
    /\ cache = Absent /\ tasks = [k \in 0..Duration |-> 0] /\ heldFor = Duration
    /\ awaited = FALSE /\ fired = FALSE

HomeNext ==
    \/ RecordStep
    \/ EngineHears \/ EngineFires \/ TaskWakes \/ SecondPasses

(* The tasks of the runtime are polled, and time passes.                    *)
HomeSpec ==
    /\ HomeInit /\ [][HomeNext]_allVars
    /\ WF_allVars(BridgeStep /\ RestOfEngine)
    /\ WF_allVars(EngineHears \/ EngineFires)
    /\ WF_allVars(TaskWakes) /\ WF_allVars(SecondPasses)

-----------------------------------------------------------------------------
(* Properties.                                                              *)

(* What is on the two buses, and in the hands of the writers.               *)
BusMessage ==
    PluginMessage
    \cup [kind : {"report"}, full : {FALSE}, attr : Values, explicit : {"none"},
          answers : Cmds]
    \cup [kind : {"command"}, cmd : Cmds]
BusEvent ==
         [type : {"state"}, previous : Values \cup {Absent},
          current : Values \cup {Absent}]
    \cup [type : {"availability"}, up : BOOLEAN]
    \cup [type : {"deferred", "other"}]
InBridge ==
    [at : {"look", "write"}, msg : {m \in BusMessage : m.kind # "command"},
     read : DeviceRecord \cup {NoRecord}]
CmdState == [at : SUBSET {"sent", "handler", "broker", "answered"}, age : Nat]

Views == [attr : Values \cup {Absent}, avail : BOOLEAN]

RecordOK ==
    /\ record \in DeviceRecord \cup {NoRecord}
    /\ bridge \in {Idle} \cup InBridge
    /\ bridge # Idle /\ bridge.at = "look" => bridge.read = NoRecord
    /\ patch \in {Idle} \cup [at : {"write"}, read : DeviceRecord]
    /\ removal \in [at : {"idle", "remember", "delete"}]
    /\ pending \in Cmds \cup {NoCmd}
    /\ inputs \in Nat
BusOK ==
    /\ bus \in Seq(BusMessage) /\ Len(bus) <= BusRoom
    /\ published \in Views
EventsOK ==
    events \in Seq(BusEvent) /\ Len(events) <= BusRoom
EngineOK ==
    /\ trigger \in {"state", "availability"}
    /\ cache \in Values \cup {Absent}
    /\ tasks \in [0..Duration -> Nat]
    /\ heldFor \in 0..Duration
FlagsOK ==
    /\ forgotten \in BOOLEAN /\ lost \in BOOLEAN /\ overtaken \in BOOLEAN
    /\ removed \in BOOLEAN /\ reported \in BOOLEAN /\ agreed \in BOOLEAN
    /\ chosen \in Names \cup {NoName}
    /\ awaited \in BOOLEAN /\ fired \in BOOLEAN

(* Every variable has its type, and neither bus holds more than its room.   *)
RecordsTypeOK ==
    RecordOK /\ BusOK /\ EventsOK /\ cmd \in [Cmds -> CmdState] /\ EngineOK /\ FlagsOK

Settled == bus = <<>> /\ bridge = Idle /\ patch = Idle /\ removal = Idle

(* When all messages have been handled the record says of the device what   *)
(* its plugin published, full and partial reports and availability in       *)
(* order, and once the events have been heard the rule engine goes by the   *)
(* same: unless a bus dropped a message, the device was deleted, or a       *)
(* writer's read and write enclosed another's write.  An attribute that has *)
(* left the record stays in the engine's cache.                             *)
RecordAsPublished ==
    Settled /\ ~ lost /\ ~ overtaken /\ ~ removed /\ record # NoRecord
        => /\ record.attr = published.attr /\ record.avail = published.avail
           /\ events = <<>> /\ record.attr # Absent => cache = record.attr

(* A removed device stays away until it is brought back, whatever its       *)
(* plugin publishes, unless the removal came between a read and a write.    *)
RemovedStaysAway ==
    Settled /\ forgotten /\ ~ overtaken => record = NoRecord

(* The first report after the only command to a device, when it is the      *)
(* device's answer, comes soon enough and says nothing of itself, is put    *)
(* down to the command: the answer overtakes neither way of the command.    *)
AnswerCredited ==
    [][bridge # Idle /\ bridge'.at = "idle" /\ record' # record
          /\ bridge.msg.kind = "report" /\ bridge.msg.answers # NoCmd
          /\ ~ lost /\ ~ reported
          /\ cmd[bridge.msg.answers].age <= CreditSecs
          /\ (\A c \in Cmds : c = bridge.msg.answers \/ cmd[c].at = {})
          => record'.change = bridge.msg.answers]_allVars

(* A device is shown under the name a person has given it, whatever the     *)
(* plugin reports and registers and whatever else is changed in the record, *)
(* until it is named anew or removed: unless the bridge had the record in   *)
(* hand when the choice was written.  One exception is the code's own: a    *)
(* choice of the name the plugin gave is not pinned, and lasts only until   *)
(* the plugin registers another.                                            *)
ChoiceKept ==
    chosen # NoName => record # NoRecord /\ EffectiveName(record) = chosen

Lasts == IF trigger = "state" THEN cache = Target
                              ELSE record # NoRecord /\ ~ record.avail

(* A state or an offline device that the rule waits for leads to a firing   *)
(* when it lasts; or it does not last, or its event or record is lost.      *)
DeferredFires == (awaited /\ Lasts) ~> (~ awaited \/ ~ Lasts \/ lost \/ removed)

(* The documentation's "must hold the new value for 5 min before firing".   *)
HeldThroughout ==
    [][fired' /\ ~ fired /\ trigger = "state" => heldFor >= Duration]_allVars
=============================================================================
