# A TLA+ specification of homeCore's automation core

homeCore is a home-automation server written in Rust: devices report their
state over MQTT, rules react to what happens, timers and plugins run beside
them.  This directory models the parts of it in which several tasks share
state, or a process talks to something that may stop, lose messages or come
late: the rule engine with its action executor, its run modes and its deferred
firings; the records of devices with everyone who writes them; the scheduler,
the timer manager, the mode manager and the alert engine; the plugin supervisor;
and one plugin, the thermostat.  TLC checks the models on small instances;
TLAPS proves the safety properties of all of them but the scheduler for every
value of the constants.

Paths below are relative to the repository root.  `PROJECT.json` maps every
definition to the lines it models.

## 1. Inventory

### The parts and how they meet

All parts live in one tokio process and meet in three places: the event bus (a
bounded broadcast channel; a reader that lags loses the oldest events), the
state store (a database of device records, read and written whole), and maps
shared behind locks.

| part | source | state | operations | meets |
|---|---|---|---|---|
| rule engine | `crates/hc-core/src/engine.rs` | rule list, `cooldown_map`, `pause_state`, `rule_in_flight` (a `RuleRuns` cell per rule: counter, newest stop flag, semaphore), `in_flight`, `fire_history` | `handle_event`, `fire`, the spawned run and its epilogue, `purge_callback`, the shutdown drain | bus, store, executor, rule loader, API |
| action executor | `crates/hc-core/src/executor.rs` | the action list in hand, stop flag, `delay_registry`, pause state | one branch per `Action` | engine, bus, devices |
| rule model | `crates/hc-types/src/rule.rs` | - | run modes, actions, triggers, conditions | engine, executor, API |
| hot reload | `crates/hc-core/src/rule_loader.rs` | rule list, path index | watch, parse, swap, purge | engine |
| timer manager | `crates/hc-core/src/timer_manager.rs` | one record per timer in the store, a map of task handles, the tasks | six commands, firing, repeating, reconstruction at start | bus, store |
| plugin supervisor | `homecore/src/plugin_manager.rs` | child process, backoff, command channel, status in the plugin record | launch, stop, restart, backoff, shutdown | API, registry listener, bus |
| registry listener and sweep | `crates/hc-api/src/lib.rs` | the plugin records | register, heartbeat, offline, 90-second sweep | bus, supervisor |
| scheduler | `crates/hc-core/src/scheduler.rs` | `last_periodic_fire`, `alert_fired`, the minute slept for | minute poll, catch-up at start, alerts that last | bus, alert engine |
| state bridge | `crates/hc-core/src/state_bridge.rs` | `pending_command_changes`, device records | full and partial reports, availability, registration, command echoes | broker, bus, store, API, rule engine |
| mode manager | `crates/hc-core/src/mode_manager.rs` | mode list, next solar transition, `modes.toml` | transitions, commands, reload, reconcile | bus, store, API, people who edit the file |
| alert engine | `crates/hc-core/src/alerts.rs` | active and acknowledged alerts, when a state was first seen, plugin reports | one pass, acknowledge, ignore | bus, store, API, scheduler |
| battery watcher | `crates/hc-core/src/battery_watcher.rs` | low-battery flag per device | hysteresis | bus |
| glue devices | `crates/hc-core/src/glue` | counters, groups, switches | react to events | bus, store |
| thermostat plugin | `plugins/hc-thermostat/src/controller.rs` | one record per thermostat, readings, what is known of the switch, retained state | ticks, sensor and switch messages, commands, start and shutdown | broker, sensor, switch, household |
| API, authentication, store, broker, topic map, notification, logging, command line, other plugins, SDK | `crates/hc-api`, `crates/hc-auth`, ... | requests, tokens, tables | requests | all |

### What is hard in this code, and what correct means

**Rule engine.**  One loop fires the rules an event matched, one after the
other, but `fire` awaits between the cooldown check, the gates, the run mode
and the conditions, while the runs it spawned earlier move on and a reload may
replace the rules.  What was checked may no longer hold when the rule fires.
Correct means: the counters are exact however a run ends; a `Single` rule
never runs beside itself; a `Queued` rule keeps `max_queue` and runs one at a
time; `Restart` leaves only the newest run unstopped; no event starts a rule
within its cooldown; the drain at shutdown is complete when it says so; every
run ends.

**Executor.**  Runs of all rules share one delay registry, in which delays are
entered, replaced, ended and cancelled from several tasks.  `Parallel` spawns
tasks that outlive an error; `RunRuleActions` recurses under a new stop flag.
Correct means: the registry holds the delays that wait and nothing else, and a
delay with a key of its own can always be interrupted.

**Timer manager.**  The command loop and the timer's own task read, change and
write the same record.  The task may be finishing while a command cancels it,
and the process may stop at any point.  Correct means: one armed task at most;
a running timer has it; the record and the task agree on what is left; a
running timer ends.

**Plugin supervisor.**  A command, an exit and the shutdown signal may come in
any wait, and three parties write the status.  Correct means: no stop, restart,
exit or shutdown leaves a process behind (a Start while it runs does, section 6);
shutdown completes; a plugin that runs is shown active some day.

**Device records.**  The state bridge and the API requests each read a device's
record, await, and write all of it back; the rule engine keeps a copy fed by a
bus that drops what it has no room for; a removal may fall between any two of
these.  Who caused a change is kept apart from the change, in one slot per
device.  Correct means: when everyone is at rest, record and copy say what the
plugin published, a removed device is gone, a device is shown under the name a
person gave it, and the answer to a command is put down to the command.

**Deferred firings.**  A `for_duration_secs` match spawns a task that sleeps,
looks again and posts an event on which the engine looks once more.  Correct
means: what lasts leads to a firing, and only what lasted.

**Scheduler.**  Minutes are polled by a loop that sleeps to the next minute and
may wake late; a process that was down makes up for what it missed.  Correct
means: what fell due fires once, by a tick or by the catch-up, and no period
is cut short or left out, but for what a start fires.

**Mode manager.**  The loop sleeps for one transition while messages, reloads
and its own file writes keep it from it, and `modes.toml` is truncated, filled
and read by three parties.  Correct means: a solar mode is on when the sun says
so, and again after it was missed; list, file and devices come to agree.

**Alert engine.**  A pass works out all alerts and then awaits notifications
before it replaces the list; people acknowledge meanwhile; reads of the store
fail; plugin reports are dropped by a bus at its limit.  Correct means: one
notification and one firing per alert; acknowledgements are kept and shown;
what is listed is what the house calls for, and was announced.

**Thermostat.**  A command may be lost, carried out late or undone by hand, the
switch may be out of reach, the sensor silent, and the plugin may stop between
a command and its echo.  Correct means: the thermostat does not take for
confirmed what is not so; the compressor guard, the longest run and a person's
override are kept over restarts; what was lost is asked again, so that runs end
and a call for heat is answered.

`PROJECT.json` lists each hazard at its line with the properties that cover
it.

## 2. Plan

Done: `Executor`, `RuleEngine`, `RunModes`, `TimerManager`, `PluginSupervisor`,
`DeviceRecords`, `DeferredFiring`, `Scheduler`, `ModeManager`, `AlertEngine`,
`Thermostat`, their instances, and the proofs in
`RuleEngineProofs`, `RuleEngineTypes`, `TimerManagerProofs`,
`PluginSupervisorProofs`, `AlertEngineProofs`, `DeferredFiringProofs`,
`ModeManagerProofs` and `ThermostatProofs`.

To come, in this order:

1. Proofs of the safety properties of `Scheduler`.
2. `DeferredFiring` joined to the run modes: what is deferred fires through
   `fire`.
3. The battery watcher and the glue devices, each a small state machine behind
   the same bus.

## 3. Modules

### Executor and RuleEngine

`RuleEngine` extends `Executor`: the engine spawns runs, the executor walks
their action lists, and both change the delay registry and the stop flags.

*Runs.*  Run `i` is the i-th task spawned by `fire`; `run[i]` holds its rule,
the `RuleRuns` cell it was given, why it fired and when; `st[i]` is where it
is.  The states before `"ended"` are inside `execute_actions_at`; the ones
after are the epilogue, one step for each of history, `count`, `in_flight`, and the
drop of the queue permit, in the order of the code.

*The event loop.*  `loop` and `batch` hold the rules of the event in hand still
to be fired.  One firing is several actions, split where the code awaits:
`FireBegins` (pause and cooldown), the gates, the run mode (`ModeSkips`,
`ModeAllows`), the conditions, and `Fires`.  Each of the early returns
(`FirePaused`, `FireCooldown`, `RequiredExpressionFails`, `TriggerGateFails`,
`ModeSkips`, `ConditionsFail`) writes its line of history, and `FireErrors` is
the `?` that abandons the rest of the batch.  Whether an expression or a condition holds is a
free choice, as the properties do not depend on it; so is which rules an event
matches (`MayMatch`: `trigger_check` is not translated here).

*Cells.*  `rule_in_flight` maps a rule to a cell that firings and runs share by
reference.  `Purge` takes the cell out of the map and leaves it to the runs
that hold it; `SwapRules` and `Purge` are two steps, as they are in
`RuleWatcher`.

*Action lists.*  `frames[i]` is the stack of lists a run walks: its own and those
that `RunRuleActions` entered, each with its stop flag.  The actions that
change engine state are steps of their own; the others (device commands,
notifications, scripts) are one step `"act"` that succeeds or fails.  `"hold"`
is a delay that is not cancelable, `"wait"` a `WaitForEvent` or
`WaitForExpression`.  `"block"` stands for the loops and `Conditional`: their
inner list is walked under the same flag, so a round puts it in front of what
is left.

*Delay registry.*  An entry is a rule, a key and the waiter that registered it.
`cut` is the set of waiters whose `Notify` was signalled and that have not yet
gone on.  A delay with no `cancel_key` has a key nobody shares (`"auto"`).

Simplifications: the branches of a `Parallel` are single actions without a
list inside; a block inside a block is not written in the instances;
cancelling several delays is one step, where the code collects the keys and
removes them one by one; the pauses inside a loop's interval are not steps; a
panic in a task is not modelled.  A reload takes rules out and puts them back but
does not change the mode, cooldown or actions of one; and `Purge` goes by the
rules loaded when it runs, where the code goes by the list its own reload read
(`rule_loader.rs:411-422`), which differs only if a second reload overtakes it.

### RunModes

The abstract specification of the four run modes: a run is waiting, active or
over, has been told to stop or not, and a firing may start one when the mode
allows it.  It has no event loop, no counters, no semaphore and no newest-run
flag.  `RuleEngine` implements it (`Promise`, `KeepsRunModes`): the phase is read off
`st` (a run waits while it is `"spawned"` or `"queued"`, and is over once its
counter is released), rule and cell are those of the run, and the stopped runs
are those with `exitFlag`.  So the check of the run mode, which the engine makes
several awaits before the run is spawned, counts as made when it is spawned.

### TimerManager

One timer, as timers share nothing.  A command is two actions: the reading of
the record together with the hang-up of the task (`Start`, `Pause`, ...), and
`Finish`, which writes what the command computed and spawns the task.  A task
sleeps, wakes having read the record (`Wake`), writes it (`FireTimer`), and
then starts the next cycle (`ResetForRepeat`) or removes the handle
(`RemoveHandle`).  These are the points between which the other side's steps
fall.  `Crash` loses everything but the record, `Reconstruct` is
`reconstruct_timers`.

Time is relative: the record keeps the seconds since `started_at`, the task
the seconds still to sleep.  `Tick` waits until no handler is in the middle and
no task is due, as a handler's store calls take far less than the second that
timers count in.

`raced` and `stretched` are history variables: a command came while a task was
finishing or due; an extended timer was restarted.  They mark the situations
in which the code does not keep the property, so that it can be checked
everywhere else.

### PluginSupervisor

One plugin: `sup` is where `supervise` is, `alive` whether the child it holds
is, `orphans` the living processes it let go of (`DropChild`: a `Child` that goes
out of scope is not killed), and `doubled`, for the history, the Starts that found
a living child.  The five branches that end a wait by the shutdown signal are
one action, as they differ only in whether there is a child to kill; those for a
closed command channel are left out, as its sender lives as long as homeCore.
`SetStatus` is `set_status` with its
event; `Listener` is the arm of `spawn_plugin_registry_listener` for each
event; `Sweep` the heartbeat timeout.  `bus` is the broadcast channel as the
listener sees it: it forgets its oldest event when full.  SIGKILL is taken to
work; the two-second grace before it is part of the kill.  `ShutdownCompletes` is
about the child the supervisor holds; orphans outlive a shutdown.

### DeviceRecords and DeferredFiring

`DeviceRecords` is one device: its `record` with one attribute, its availability,
owner, the plugin's `name` and the person's `override` of it (the room and its
override are another such pair, under the same contract), and what its last
change was put down to.
The bridge takes a message (`bridge` holds it and the record read for it) and
writes in a later step; `patch` and `removal` are API requests that do the same.
A command goes two ways, to the device and as an echo to the bridge, and the
device's answer may overtake neither; `cmd` says how far each way is.
`published` is a history variable that folds what the plugin has said;
`overtaken` marks that a write replaced a record newer than the one it was made
from, `lost` that a bus dropped something, `removed` a deletion: the properties say
what holds in their absence, and section 6 what happens otherwise.

`PatchWrites` follows `update_device`: a null or empty name clears the override,
and so does the name the plugin gave, which is agreement and is not pinned
(`Override`).  `chosen` and `agreed` are the history of it: the name a person last
gave the device, and whether the plugin called it so already.  A choice that
is not pinned ends when the plugin registers another name; a choice written
while the bridge has the record in hand is not counted, as the bridge's write takes it
back.  One request of each kind is under way at a time.  `bulk_patch_devices` and
`bulk_delete_devices` take, device by device, the same read and write, and list,
remember and delete, and are not modelled beside them; nor is the `name` attribute of a report
that renames a device (`state_bridge.rs:577`).  Renames, schemas and deletions are
events of kind `Other`, which take room on the bus and say nothing to the cache;
events of other devices and of rooms are left out.

`DeferredFiring` extends it with the rule engine's side, which reads the
bridge's events: the `cache`, and the sleeping `tasks`, kept as how many have how
long to sleep, as they are otherwise alike.  `TaskWakes` is the look of the task,
`EngineFires` that of the engine on `deferred_rule_fire`.

### Scheduler

One rule with any triggers, over seconds, minutes and days of the sizes given.
`FiresNow` and `CaughtUp` are the code's arithmetic; `Occurs` is what a trigger
means, and the properties compare the two.  `lastPeriodic` is the code's
`last_periodic_fire`, which a restart forgets; `lastFired` and `startedAt` are the
history `PeriodKept` goes by: when the rule was really fired last, over
restarts too, and when a process that had it on was started.  A tick reads the clock, fires, and
sleeps to the next minute; `MaxLate` is how late a sleep may end.

### ModeManager

The loop (`mgr`) starts, waits, settles after a reload or writes an offset, and
sleeps `toGo` moments for the next transition.  `file` is `modes.toml`, whose writes
are a truncation and a filling, by the loop, by API calls and by hand.  `unseen`
marks a change of the file that no watcher saw, `missed` a transition that fell due
while the loop was at something else.

### AlertEngine

A pass is split at its awaits: the plugin reports are taken in, the store is
read, the alerts worked out, sent to their channels, published, and the list
replaced.  Acknowledgements, ignores and changes of the house come in between.
The alert's sort says what it is about and so from when it counts.  `announced`
is what a listener to the events believes, `pairs` the scheduler's
`alert_fired`.  Left out of what calls for an alert (`CalledFor`): the hours a rule is
confined to (`alerts.rs:581`) and the removal of a device (`:129`, `:623-627`).

### Thermostat

One thermostat, sensor and switch.  An input and all it decides (`evaluate`) are one
step, as the controller is one task; orders to the switch and its reports are
queues.  Instants are ages and rests, cut where nothing looks further.  A shutdown
sends OFF and keeps what the retained state keeps; a crash does not send it.

`rest` is the time since the switch was last asked to go off, by a decision or by a
shutdown, or a running thermostat was told that it had been turned off.  A
shutdown's OFF is not stamped in `last_change`, so `parted` marks that it was the
last to ask, until something is stamped again: `GuardKept` excludes that span,
and without the exclusion TLC finds ON right after it.  Left out: the age of a
reading kept over a restart (`controller.rs:687-702`, `:817-823`: a reading heard
before the start counts as new), and the commands that are refused (a setpoint out of
range, an unknown mode, a hold of no length), each of which is a decision on an
unchanged thermostat.

## 4. Runs

Passing:

| run | instance | what it shows |
|---|---|---|
| `single` | one `Single` rule, cooldown 2 s, two firings, clock to 3 s, reloads, two cells | `TypeOK`, `SingleAlone`, `CooldownKept`, `DrainedClean`, under events, manual runs with and without checks, and a rule taken out and put back |
| `restart` | two `Restart` rules, two firings, delays in the run and in branches, all three cancels | `RestartSupersedes`: all but the newest run are stopped; `RegistryExact`: the registry holds delays that wait, and every delay with no key of its own |
| `queued` | one `Queued` rule, `max_queue` 2, three firings, a list with a loop, a call of itself to depth 1 and an exit in a branch, errors | `CountsExact`, `QueueBounded`, `QueueOneAtATime`, `RunsFinish`, and the refinement `KeepsRunModes` |
| `commands` | a timer, three commands of any kind, lengths 1 and 2, up to 4 s, one crash | `OneArmed`, `RunningHasTask`, `RemainingAgrees`, `RunningEnds` |
| `supervision` | a plugin, three commands, three failures, channel and bus of two | `NoStrayProcess`: the child lives only while watched, and only a Start that found it running leaves a process unwatched; `ShutdownCompletes`, `RunningShowsActive` |
| `alerts` | one alert of any of the five sorts, one person, holds of one minute, a bus for one report, three changes, two acknowledgements, one failed read or restart | `OncePerAlert`; `AcksAgree` and `AcksShown`: an acknowledgement is kept and shown, even one a pass has overwritten; `LongAlertFires`; `ListConverges`, `ListedIsAnnounced` |
| `modes` | night, day and a manual mode, a day of four moments, offsets 0 and 1; one API call, command, edit by hand and crash | `SolarRight` between transitions, `SolarHeals` after one that was missed, `ModesSettle`: list, file and devices agree |
| `schedule` | minutes of 3 s, days of 4 minutes, a window of 2 minutes, ticks up to 1 s late, 26 s, two starts; every time, cron, calendar and periodic rule, periods of 1 to 4 minutes | `FiresWhatCame`, `CatchupComplete` across midnight; `PeriodKept`: between real firings, over a restart too, for periods within the window and longer ones |
| `records` | values on and off, nine messages of all sorts, names of the id, the plugin and a person, one command, three inputs, buses of three, credit and duration of 1 s | `RecordAsPublished`, `RemovedStaysAway`, `AnswerCredited`, `DeferredFires`; `ChoiceKept`: names pinned, agreed to and cleared, over reports, registrations and patches of something else |
| `thermostat` | a heater, readings 0 and 4 around setpoint 2, hold at 6, rests of 1 and 2 ticks, a longest run of 1, two inputs, one fault | `ConfirmedIsTrue`; `GuardKept`, but for what follows a shutdown's OFF; `LeftAlone`, but for the shutdown's OFF itself; `RunsEnd` and `HeatsWhenCold`, lost commands asked again, unless the retry was dropped (section 6) |

Violations, each of one property that a comment or a document states:

| run | what the trace shows |
|---|---|
| `held` | a state leaves and comes back while the task of a for-duration trigger sleeps; the task finds it matching and the rule fires early, against "must hold the new value for 5 min before firing" |
| `hands_off` | Off is set while the switch is off already; `entering_off` stays up, and a switch then turned on by hand is turned off again, against "one OFF, then the switch is the household's" |

Each module states the types of its variables; only `RuleEngine`'s `TypeOK` is
checked in a run, as it is the one that is proved.

### Bounds

Bounds sit in the guards and are named constants.  `MaxRuns` is 2 or 3:
every property is about a pair of runs, and a third is needed only where one
run must leave to let another in.  `MaxCells` is 2, so that a
purged rule gets a second cell while the first is still held.  The cooldown is
two seconds and the clock three, so that a firing may come one second too
early, just in time and late.  `MaxCallDepth` 1 lets the call be both taken and
refused.  A timer's lengths 1 and 2 let an extension, a pause halfway and a
zero remainder happen; three commands are enough for every ordered triple.
The backoff goes 2, 4, 6, so that doubling meets its limit.

In `alerts`, ids share nothing but the pass, so one alert of any sort is enough;
three changes let an alert be raised, cleared and raised again, and the second
acknowledgement meets the first.  In `modes`, sunrise 1 and sunset 3 of 4
moments with offsets of 1 let transitions of night and day coincide, fall apart and
wrap around midnight.  In `schedule`, 26 s is a little more than two days, and the window is
half a day, so that it reaches back over midnight and ends inside the day;
periods of one and two minutes are within it, three and four are longer.  In
`records`, three inputs are a report, a request between its read and its write,
and one more message.  In `thermostat`, the guard of two ticks is longer than
the confirmation of one, so a retry may fall inside it.

Deadlock is checked in `records`, where time always passes.  The other systems
come to rest when their bounded inputs are used up.

### Fairness

`RuleEngine`: weak fairness of each run's own task and of its branches: tokio
polls a task that can move, delays run out, and the semaphore is first come
first served.  The event that a `WaitForEvent` waits for is owed by nobody, and
the lists of the liveness runs have none.  `TimerManager`: time passes, tasks are polled,
a command begun is carried through, and a process that is down is started
again.  No command and no crash is assumed.  `PluginSupervisor`: the supervisor
and the listener are polled, and a plugin that lives sends heartbeats, as the
SDK does.

`AlertEngine`: the passes, the handlers of acknowledgements and the scheduler run
on.  Taking in the mail and the passing of a minute are strongly fair, as passes
that come again and again interrupt them without stopping them.  `ModeManager`:
the loop, a request once begun, and time go on, and a person who broke the file
mends it.  Waking for the sun is strongly fair: a message may steal one
transition, but nothing steals all.  `DeferredFiring`: bridge, engine and
sleeping tasks are polled and time passes; no message, request or command is
owed.  The engine's loop is one fairness condition, whatever event comes next, as it is one
task.  `Thermostat`: the tick, the messages of the switch, the carrying out of
commands, and the start of a plugin that ended (by the supervisor); nobody owes
a reading, a command or a reachable switch.  `Scheduler` claims no liveness.

## 5. Proofs

Each theorem holds for every value of the constants that satisfies the named
assumptions of its module, and so for every bound of the runs.

### The rule engine

`RuleEngineProofs` and `RuleEngineTypes` prove, for any set of rules, any action
lists, run modes, limits and bounds that satisfy `ExecutorAssumption` and
`EngineAssumption`, that `Spec` implies:

| theorem | property |
|---|---|
| `CountersCorrect` | `CountsExact` |
| `SingleCorrect` | `SingleAlone` |
| `QueueBoundCorrect` | `QueueBounded` |
| `QueueTurnCorrect` | `QueueOneAtATime` |
| `RestartCorrect` | `RestartSupersedes` |
| `CooldownCorrect` | `CooldownKept` |
| `DrainCorrect` | `DrainedClean` |
| `TypeCorrect` (in `RuleEngineTypes`) | `TypeOK` |
| `RegistryCorrect` (in `RuleEngineTypes`) | `RegistryExact` |
| `RefinementCorrect` | `KeepsRunModes` |

The assumptions say no more than what the types of the code do, and that the
list has an order (`Rank` is injective), so that the batch has a first rule.

None of the properties is inductive.  `IInv` adds what they rest on:

- `Shape`: types as far as needed, runs numbered in the order they fired, a
  firing in hand belongs to the batch;
- `CellsOwned`: a cell belongs to one rule, and a rule that was not dropped
  has the cell that all its runs hold.  Without it `SingleAlone`, about a
  rule, does not follow from a counter, which is about a cell;
- `RoomKept`: what the run mode saw still holds when the rule fires.  This is
  the argument for the check and the increment being steps apart: only the
  event loop raises a counter, and it handles one firing at a time;
- `SingleInCell`, `QueueRoom`: the limits, per cell;
- `TurnHeld`: a queued run past its wait holds the permit until it closes;
- `OlderStopped`: all but `latest` are stopped, and while a `Restart` firing
  waits for its conditions, `latest` too;
- `Rested`: from the cooldown check to the firing, the last start stays a
  cooldown ago.  Only the event loop stamps starts, and time only grows.

The proof looks at the steps of the executor only through `ExecEffect`, which
says what they leave alone and how `st` may move: so the result holds for
every action list.  Cardinalities come from `FiniteSetTheorems`.

`DrainedClean` is inductive beside `IInv`: the drain ends unforced only at
`inFlight = 0`, which by `CountsExact` leaves no run flying, and a loop that
has stopped fires nothing more.

`TypeCorrect` needs what `IInv` leaves out, the executor's own data.  `TInv`
adds it: the innermost list of a run is not empty while the run is inside a
step, and a run has a list for as long as it has steps to take, through calls,
rounds of a block, errors, and branches that raise the flag of the list their
`Parallel` is in.  Without the first, `Step(i)` would be the head of an empty
sequence.  Branches, registry, waiting runs and history keep their types one
step at a time; `PushShape` is the argument that the history stays a ring.

`RefinementCorrect` is a step simulation under `IInv`: `StepMaps` shows that every
step of the engine maps to `Start`, `Begin`, `Stop` or `Finish` of `RunModes`, or to
a stutter.  That a firing may `Start` is `RoomKept` and, for `Restart`,
`OlderStopped`, with `CountsExact` to turn the counter into the set of
unfinished runs; that a run may `Begin` is `TurnHeld`, with one more invariant,
`WaitersQueued`: only the runs of `Queued` rules wait.  TLC checks the
refinement for the `Queued` rule of run `queued`; the theorem covers the four modes.

`RegistryCorrect` is about who waits and what is registered.  `RegInv` says it of
branches as well as of runs: every entry is of a waiter that is in its delay,
under the key and the rule of that delay; a key is held once; and a waiter
without a key of its own is registered or already signalled.  That a branch
left behind by an error keeps its place among the waiters needs `BranchesOver`:
a run begins a `Parallel` only when it has no branches, and drops them only when
all are over.  `SameDelay` splits every step into the waiters it moves, for
which the four parts are shown, and the others, which it cannot disturb.

### Timers

`TimerManagerProofs`, under `TimerAssumption`: `TimerTypes` (`TypeOK`), `OneTaskArmed`
(`OneArmed`), `RunningIsKept` (`RunningHasTask`), `RemainderIsRight` (`RemainingAgrees`).
The four follow from `TimerInv`:

- `OneOpen`: the only task with a sender is the one in the handle, in whatever
  state.  `OneArmed` speaks of sleeping tasks alone and is not inductive: a task
  that wakes must not be joined by another that sleeps with a sender;
- `OwesRight`: a handler between its read and its write has taken every task's
  sender, owes a task exactly when it owes a running record, and for as long as
  that record says is left;
- `Agreed`: between commands the record runs exactly while an open task sleeps or
  fires, with the same time to go;
- `ClosedSleeps`: a task without its sender sleeps and is not yet due.  This, `OwesRight`
  and `Agreed` hold until a command meets a finishing task (`raced`): the
  disagreement listed in section 6 is exactly where the invariant stops;
- `DownIsClear`, and `PausedFits`: a paused timer has no more left than its length,
  which keeps an extension in range.

### Plugin supervisor

`PluginSupervisorProofs`, for any room, backoff limits and bounds: `SupervisorTypes`
(`TypeOK`: the backoff stays within its limits under doubling and reset, the
channel and the bus within their room) and `NoStrays` (`NoStrayProcess`), which is
inductive beside the types: every step that lets go of a living child is a
Start that is counted.

### Alerts

`AlertEngineProofs`, under `AlertAssumption`: `AlertTypes`, `SentAndFiredOnce`
(`OncePerAlert`) and `AcksGoTogether` (`AcksAgree`).  `AlertInv` adds to the types what a
pass in flight has in hand: what was sent is in the list or about to be, what
is still to be sent is in neither and was not sent (`SendsOnce`); the scheduler
has the pair of what fired for as long as it lasts (`FiresOnce`); the kept
acknowledgements are those of the list that will be in place when the pass is
over, but for the ones made after it looked (`AcksKept`).  The mail's room rests
on cardinalities, so `Alerts` is assumed finite.

### Records

`DeferredFiringProofs`, under `RecordsAssumption` and `DeferredAssumption`, of `HomeSpec`:

| theorem | property |
|---|---|
| `RecordTypes` | `RecordsTypeOK` |
| `RemovalHolds` | `RemovedStaysAway` |
| `ChoiceHolds` | `ChoiceKept` |
| `PublishedIsKept` | `RecordAsPublished` |
| `AnswerIsCredited` | `AnswerCredited` |

The reports, availabilities and registrations of the bridge are looked at once,
by `Written`: the record becomes what the message makes of the record that was
read, the choice stays, and a change of the attribute is announced after
anything else.  `RecordSteps` sorts all steps by what they do to the record, and
the other lemmas go by it.

`RecordAsPublished` speaks of empty queues only, so its invariant has to say what
the queues hold: the messages on the bus take what the record says, with the
message in hand applied, to what has been published (`BusAgrees`), and the
events take the engine's cache to the record's attribute (`CacheAgrees`).  "Take" is
`Path(S, f, q, a, b)`: there are values from `a` to `b`, one for each element of `q`,
each made by `f` from the one before.  This stands for a fold, about which
nothing could be proved without induction; that a path can be lengthened at
its end and shortened at its head (`PathAppend`, `PathTail`) is all that queues
need.  `Kept` is the part about removals: until the device is deleted nobody
finds the record gone, so the bridge never turns a message away.

`RemovalHolds` needs `Away`: a remembered device has a record only while its removal
is about to delete it, and a bridge that writes a new record has not looked
before the removal.  `ChoiceHolds` needs `ChoiceStands`: not the record alone but
every copy of it that will be written back, the bridge's and the request's,
stands for the choice, by its override or, where the plugin had given the same
name, by the plugin's.  `AnswerIsCredited` needs `CommandAhead`: with one command and no
other report, the command is in the slot or on the bus ahead of the answer,
from the moment the broker has sent it back.

Attempts to prove these showed four places where the model was wrong, and it
was changed: a removal that is remembered after the bridge has looked counts as
`overtaken` (with four inputs TLC finds the same counterexample to the old
definition); after a restart the alert engine's mail keeps only what the bus
has room for; the guards of `Said` are exclusive, as `CASE` leaves open which of
two true guards is taken; and `NoRecord` is not a record.

### Modes

`ModeManagerProofs` proves for `ModeSpec`, from `ModeAssumption` (a day has a
moment, sunrise and sunset are in it, offsets are natural numbers and may be zero),
that types are kept (`ModeTypes`) and that `SolarRight` holds (`SunIsFollowed`).

`SunAgrees` is the arithmetic: comparing times of day, with the window that goes
over midnight told apart (`SolarModeIsOn`), says the same as the order in which the
two transitions came (`SunSays`), for every offset that moves them past midnight or
past each other.  `Steady` says that a moment with no transition changes nothing,
`NextIn` that there is none before the one `NextSolarTransition` finds.

`SolarRight` speaks of an idle loop only.  The inductive `ModeInv` adds:

- `Awake`: in the middle of a reload or of writing an offset too, every solar mode
  but the one whose offset is being written is right, and has no transition
  before the sleep is over.  This is what a reload relies on when it leaves the
  modes that did not change alone;
- `AllPlain`, `CallsManual`: in memory, in the file and in an API call's copy only
  `mode_night` and `mode_day` follow the sun, and the API touches neither, so
  deleting a mode's device cannot disturb them.

### Thermostat

`ThermostatProofs`, for either kind of appliance and any readings, setpoints,
rests, timeouts, overrides, room and numbers of faults and inputs that satisfy
`ThermostatAssumption`, of `ThermostatSpec`:

| theorem | property |
|---|---|
| `ThermostatTypes` | `ThermostatTypeOK` |
| `ConfirmedHolds` | `ConfirmedIsTrue` |
| `GuardHolds` | `GuardKept` |
| `HandHolds` | `LeftAlone` |

`evaluate` is looked at once.  `LookedIn`, `DecidedIn` and `SettledIn` say what its
three parts do to any thermostat, `DecideStep` puts them together, and `ReadyStep`
shows that a decision on a thermostat that is `Ready` keeps the invariant and sends
nothing it may not.  Each action then has to show only that what it decides on
(a thermostat after a tick, a report, a command, a restart) is `Ready`.

`ThermostatInv` adds to the types:

- `LastSaid`: the last report of its state under way from a switch within reach,
  or if there is none the last one heard, is what the switch is.  Without it
  `ConfirmedIsTrue`, which speaks of an empty queue, says nothing of the queue
  before;
- `Confirms`: what is confirmed is what the switch was last seen to be, and `Down`:
  a controller that has yet to start has asked for nothing;
- `RestedFor`: the age of the last change, which the guard looks at, is no more
  than that of the last change to off, which `GuardKept` is about, or a shutdown
  was the last to ask for one; `Stamped` is what a report must have done for
  it: an off that it told of is a change;
- `InHand`: a flip by hand that may be counted on is an override with at least
  as long to go, and the thermostat is not Off; with `OwesOff`, that only an Off
  thermostat owes its switch an OFF, nothing is decided past the override.

The proof showed that `ConfirmedIsTrue` holds whatever commands are under way, and
it now says so.

### Only model-checked

The liveness properties (`RunsFinish`, `RunningEnds`,
`ShutdownCompletes`, `RunningShowsActive`, `AcksShown`, `LongAlertFires`,
`ListConverges`, `ListedIsAnnounced`, `SolarHeals`, `ModesSettle`,
`DeferredFires`, `RunsEnd`, `HeatsWhenCold`), which the prover does not reach;
and the safety properties of the scheduler.

## 6. Disagreements met without a run of their own

- A reload that drops a rule whose run is in flight, and a second that brings
  it back, give it a new cell that counts from zero, so a `Single` rule may run
  beside its old run (`engine.rs:285`).  `SingleAlone` excludes dropped rules.
- `Restart` raises the flag and notifies the registered delays; a run that has
  looked at its flag and not yet registered its delay (`executor.rs:723`) waits
  it out.
- Two runs that wait under the same `cancel_key` share one entry, so the first
  can no longer be interrupted once the second has begun (`executor.rs:724`).
  `RegistryExact` asks it of delays with no key.
- `CancelRuleTimers` says "delays and waits" (`rule.rs:824`); waits are not in
  the registry.
- A timer cancelled while its task finishes is set to `finished` afterwards.
- Extend adds to the record's `duration_secs`, which Resume takes for later
  cycles and Restart does not look at: an extended, paused and resumed
  repeating timer keeps the longer cycle, against `timer_manager.rs:27`, and
  after extend and restart the record says more is left than the task sleeps.
- A repeating timer that elapsed while the process was down is set to
  `finished` and starts no new cycle.
- Queued runs take their turn in the order their tasks are first polled
  (`engine.rs:1079`), not in the order they fired, as `rule.rs:32` and
  `engine.rs:1076` say.
- A `Parallel` branch that fails ends the run while other branches are still at
  work (`executor.rs:639`); the next firing of a `Single` rule is then let in,
  against `rule.rs:26`.
- A run inside `RunRuleActions` that `Restart` stops begins the called list's
  next step, as that list has a flag of its own (`executor.rs:1277`, against
  `rule.rs:28` and `executor.rs:22`).
- A timer started while its last task finishes loses the new task's handle to
  the old task, and says `running` for good (`timer_manager.rs:513`, `:32`).
- Start to a plugin that runs launches another child and leaves the first one
  running with nobody to stop it, not even at shutdown (`plugin_manager.rs:330`,
  under "Already running — ignore."): two processes of one plugin.
- Stop to a plugin during its backoff ends the sleep and is forgotten
  (`plugin_manager.rs:437`).

Alerts (`alerts.rs`):

- An acknowledgement that comes while a pass awaits is hidden until the next
  pass; a second one made in that time replaces the first, against "Acknowledging
  it again keeps the first" (`:187`).
- An acknowledgement of an alert that the pass drops leaves an entry, so the alert
  is acknowledged when it comes back, against `hc-types/src/alert.rs:74`; and its
  `AlertRaised` update may follow its `AlertCleared`.
- A plugin's "cleared" that the bus drops leaves the alert (`:10`); a failed read
  of the rules clears the alerts of all rules until the next pass; the time a
  disabled rule's state was first seen stays.
- An alert that clears and returns between two ticks of the scheduler does not
  fire again (`scheduler.rs:87`).

Modes (`mode_manager.rs`):

- A write of the whole list from a stale read loses a mode the API created, or
  an offset; a file read between truncation and filling has no modes; after a
  parse error, appending a mode writes a file with nothing else in it.
- A file changed in the start-up delay, before there is a watcher, goes
  unnoticed.  A crash between file and store leaves a device without a mode.
- A transition that falls due while a message or a reload is handled is skipped
  until the mode's next one.
- A mode whose on and off moments coincide is never on; `:243` says "on at the
  boundary".

Scheduler (`scheduler.rs`):

- Triggers of the start minute are fired by the catch-up and by the first tick;
  cron moments in it too, and a tick that is late has another window, so a cron
  moment inside a minute may be lost or doubled.
- A catch-up window of a day or more catches only the current minute.
- Of a periodic trigger `docs/devNotes.md:2887` says that it "fires immediately on
  startup if the period has elapsed since the last run", and `scheduler.rs:361` that
  "Periodic triggers always fire on startup".  The last run is forgotten by a
  restart (`:366-374`): a period within the window fires at every start, however
  recent its last run, and a longer one waits a whole period from every start,
  however long ago it was, so one longer than the process lives never fires.  A rule that
  is off at the start is not seeded, and fires at the first tick after it
  is turned on.
- Today's weekday is asked on both sides of midnight (`docs/devNotes.md:2180`); the
  window includes its start, which the documentation does not.

Records (`state_bridge.rs`, `handlers.rs`, `engine.rs`):

- A report or a patch under way over a removal creates the device again, against
  "so it stays gone until brought back" (`handlers.rs:866`).
- The bridge's write over an API patch takes back the person's choice; the API's
  stale write takes back attributes and availability, and the next "offline" is
  then not announced.
- A command whose report never comes leaves its provenance in the slot, and it
  explains the next report within five seconds.
- The engine's cache never removes an attribute, and is loaded before its
  subscription begins.  A device made by a report belongs to its id's prefix.

Thermostat (`controller.rs`):

- A command under way whose opposite is wanted and dropped again before its echo
  counts as confirmed; the late echo is then taken for a flip by hand, against "Nobody here asked
  for that: a person" (`:873`).  The same may leave a heater on at shutdown.
- `retry_at` is cleared while nothing is wanted, so a command that was not confirmed
  is not asked again after a change of sensors, a stale sensor with
  `on_stale = "hold"`, or Off and back on while the first reading is waited for (`:1044-1050`,
  `:1087-1089`), against `:22` and the plugin's `README.md:50-53` ("is asked again,
  less often each time"): a heater whose OFF was lost then stays on, and neither
  the longest run nor a stale sensor ends it; the alert remains.
- An Off whose three OFFs are lost clears `entering_off` and the alert: the heater
  stays on and nothing says so.
- The longest run is not kept during an override or with `on_stale = "hold"`; a
  run that was tripped is forgotten by a restart.
- Shutdown's OFF is not stamped as a change (`:1195-1213`), so `min_off` does not count
  from it, and after a restart ON may follow it at once; nor is an off that
  comes while the plugin is down, or while an ON is under way (`:872-877`): against "once off it
  stays off `min_off_secs`" (the plugin's `README.md:46`).
- `start_now` stays in force until the next command is sent.

## 7. Not modelled

The state store and the broker are single atomic calls.  Parsing, naming,
topic mapping, scripting, notification, logging, metrics, the command line and
the web administration keep no state that several tasks share.
Authentication is tokens and cryptography.  Rooms and calendars are date
arithmetic.  The other plugins, the SDK and the runtime host are programs of
their own, most of them translations of one protocol into another; the
supervisor sees a process and its messages.  The battery watcher and the glue
devices are planned.

Inside the modelled parts: of the state bridge, what schemas say, renaming by
a report, statistics and notices; of the API, requests about several
devices and whatever does not write one of the modelled states; of the mode
manager, names, icons and modes defined by criteria, and two file writers that
overlap to the byte (the last to fill wins); of the alert engine, what makes a device wet or silent, and `alert_links`; of the
scheduler, where the sun stands, cron syntax and calendar files; of the
thermostat, several sensors and their aggregation, the change of the switch,
and the commands that set the swing, the guard and the aggregation.

## 8. Running

    tlc -config MCRuleEngine_single.cfg MCRuleEngine
    tlapm RuleEngineProofs.tla
    tlapm RuleEngineTypes.tla
    tlapm TimerManagerProofs.tla
    tlapm PluginSupervisorProofs.tla
    tlapm AlertEngineProofs.tla
    tlapm DeferredFiringProofs.tla
    tlapm ModeManagerProofs.tla
    tlapm ThermostatProofs.tla

Each `.cfg` is named after its module and its run.  Operators marked "Mutant" are
faulty versions of the definition that follows; nothing uses them in a run,
and putting one in the place of its definition makes the property it is listed
with in `PROJECT.json` fail.
