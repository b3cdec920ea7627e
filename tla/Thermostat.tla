----------------------------- MODULE Thermostat -----------------------------
(***************************************************************************)
(* plugins/hc-thermostat/src/controller.rs: one thermostat, its sensor and  *)
(* its switch.  The controller runs on one task, so an input and all that   *)
(* it decides are one step; the switch is a device of its own, to which     *)
(* commands travel, and which may lose them, be out of reach, or be flipped *)
(* by hand.  The plugin stops, crashes and starts again.                    *)
(*                                                                         *)
(* Time is in ticks of the controller (10 s).  An instant is kept as its    *)
(* distance from now: an age that grows to a cap, or a rest that shrinks to *)
(* 0, when it is due; None where the code has no instant.                   *)
(***************************************************************************)
EXTENDS Integers, Sequences

CONSTANTS
    Kind,          \* "heater" or "ac"
    Temps,         \* the readings of the sensor
    Setpoints,     \* the targets people set
    HoldSetpoints, \* the targets people hold
    Half,          \* half the swing
    StaleOff,      \* on_stale is "off"
    SensorTimeout, MinOn, MinOff, MaxRun, OverrideFor, HoldFor,
    Confirm,       \* CONFIRM_SECS
    MaxRetry,      \* MAX_RETRY_SECS
    StartupGrace,  \* STARTUP_GRACE_SECS
    FirstReading,  \* FIRST_READING_SECS
    Room,          \* bound: commands, and reports, under way
    MaxInputs,     \* bound: what people do
    MaxFaults      \* bound: lost commands, switches out of reach, restarts

ASSUME ThermostatAssumption ==
    /\ Kind \in {"heater", "ac"} /\ StaleOff \in BOOLEAN
    /\ Temps \subseteq Nat /\ Setpoints \subseteq Nat /\ HoldSetpoints \subseteq Nat
    /\ Setpoints # {} /\ Half \in Nat
    /\ {SensorTimeout, Confirm, MaxRetry, StartupGrace, FirstReading, HoldFor, Room}
         \subseteq Nat \ {0}
    /\ {MinOn, MinOff, MaxRun, OverrideFor, MaxInputs, MaxFaults} \subseteq Nat

VARIABLES
    started,  \* the controller has started
    t,        \* Thermo: the thermostat
    reading,  \* what is known of the sensor
    seen,     \* what is known of the switch
    orders,   \* commands on their way to the switch
    reports,  \* what the switch says, on its way to the controller
    plug,     \* the switch: "on" or "off"
    reach,    \* the switch is within reach
    rest,     \* history variable: the time since the switch was last asked, or
              \* seen, to go off
    parted,   \* history variable: the last to ask it was a shutdown
    hand,     \* history variable: the age of a flip by hand the household may count on
    inputs, faults

thermostatVars == <<started, t, reading, seen, orders, reports, plug, reach, rest,
                    parted, hand, inputs, faults>>

None    == -1
NoHold  == [setpoint |-> None, left |-> None]
NoTemp  == None
Unheard == [value |-> NoTemp, age |-> None, offline |-> FALSE]
Unseen  == [on |-> "unknown", offline |-> FALSE]
Words   == {"on", "off"}
Not(w)  == IF w = "on" THEN "off" ELSE "on"

Running == IF Kind = "heater" THEN "heat" ELSE "cool"
Guard   == IF MinOn > MinOff THEN MinOn ELSE MinOff

(* Thermo::new, the mode and the target from the settings.                  *)
Fresh(mode, setpoint) ==
    [mode |-> mode, setpoint |-> setpoint, hold |-> NoHold, calling |-> FALSE,
     stale |-> FALSE, commanded |-> "unknown", confirmed |-> FALSE, waited |-> 0,
     attempts |-> 0, retryIn |-> None, notResponding |-> FALSE, changed |-> Guard,
     ran |-> None, force |-> FALSE, bypass |-> FALSE, enteringOff |-> FALSE,
     override |-> None, tripped |-> FALSE, grace |-> None]

Active(x) == x.mode # "off"
Target(x) == IF x.hold.left # None THEN x.hold.setpoint ELSE x.setpoint

(* compute_call_for, TRUE for a call.                                       *)
CallFor(current, target, mode, calling) ==
    \/ mode = "heat" /\ current < (IF calling THEN target + Half ELSE target - Half)
    \/ mode = "cool" /\ current > (IF calling THEN target - Half ELSE target + Half)

(* backoff_secs: doubled for each try after the first, five times at most.  *)
Backoff(attempts) ==
    LET doubled == Confirm * <<1, 2, 4, 8, 16, 32>>[IF attempts > 6 THEN 6 ELSE attempts]
    IN  IF doubled > MaxRetry THEN MaxRetry ELSE doubled

(* A count of tries, as far as it is told apart.                            *)
Tries(attempts) ==
    IF attempts > 3 /\ Backoff(attempts) = Backoff(attempts - 1) THEN attempts - 1 ELSE attempts

(* lockout_remaining: what is left of the short-cycle guard.  A switch that *)
(* has never changed has the age Guard.                                     *)
LockoutRemaining(on, changed) ==
    LET limit == IF on THEN MinOn ELSE MinOff IN
    IF changed >= limit THEN 0 ELSE limit - changed

(* person_changed_it.                                                       *)
PersonChangedIt(x) == [x EXCEPT !.override = None, !.tripped = FALSE]

-----------------------------------------------------------------------------
(* evaluate: the parts of a decision on the thermostat x, the readings r    *)
(* and the switch s as they are known.                                      *)

(* A reading counts while it is current.                                    *)
IsFresh(r) == ~r.offline /\ r.value # NoTemp /\ r.age <= SensorTimeout
(* Nothing heard yet, within the grace: not quiet, unknown.                 *)
WaitingForFirst(grace, r) == grace # None /\ ~IsFresh(r) /\ r.age = None /\ ~r.offline

NowOn(x, s) == IF s.on # "unknown" THEN s.on ELSE x.commanded

(* Mutant: nothing looks at how long it has run.                            *)
LookedAway(x, r, s) ==
    LET grace == IF x.grace = 0 THEN None ELSE x.grace IN
    [x EXCEPT !.hold     = IF @.left = 0 THEN NoHold ELSE @,
              !.override = IF @ = 0 THEN None ELSE @,
              !.force    = @ \/ x.override = 0,
              !.grace    = grace,
              !.stale    = Active(x) /\ ~IsFresh(r) /\ ~WaitingForFirst(grace, r)]

(* Holds, overrides and grace that are over; what is stale; the longest     *)
(* run.                                                                     *)
Looked(x, r, s) ==
    LET grace == IF x.grace = 0 THEN None ELSE x.grace IN
    [x EXCEPT
       !.hold     = IF @.left = 0 THEN NoHold ELSE @,
       !.override = IF @ = 0 THEN None ELSE @,
       !.force    = @ \/ x.override = 0,
       !.grace    = grace,
       !.stale    = Active(x) /\ ~IsFresh(r) /\ ~WaitingForFirst(grace, r),
       !.tripped  = @ \/ /\ Active(x) /\ MaxRun > 0
                         /\ NowOn(x, s) = "on" /\ x.ran >= MaxRun]

(* Mutant: a quiet sensor comes before an override.                         *)
DecidedStaleFirst(x, r) ==
    IF x.enteringOff \/ (x.stale /\ StaleOff)
    THEN [thermo |-> [x EXCEPT !.calling = FALSE], want |-> "off", safety |-> TRUE]
    ELSE IF ~Active(x) \/ x.override # None \/ WaitingForFirst(x.grace, r) \/ x.stale
    THEN [thermo |-> x, want |-> "unknown", safety |-> FALSE]
    ELSE LET calls == CallFor(r.value, Target(x), x.mode, x.calling) IN
         [thermo |-> [x EXCEPT !.calling = calls, !.tripped = @ /\ calls],
          want   |-> IF calls /\ ~x.tripped THEN "on" ELSE "off",
          safety |-> x.tripped /\ calls]

(* The thermostat with its call, what it wants of its switch ("unknown" is  *)
(* leave it alone), and whether that is for safety, past the guards.        *)
Decided(x, r) ==
    IF x.enteringOff THEN [thermo |-> x, want |-> "off", safety |-> TRUE]
    ELSE IF ~Active(x) \/ x.override # None \/ WaitingForFirst(x.grace, r)
    THEN [thermo |-> x, want |-> "unknown", safety |-> FALSE]
    ELSE IF x.stale
    THEN [thermo |-> [x EXCEPT !.calling = FALSE],
          want |-> IF StaleOff THEN "off" ELSE "unknown", safety |-> StaleOff]
    ELSE LET calls   == CallFor(r.value, Target(x), x.mode, x.calling)
             tripped == x.tripped /\ calls IN
         [thermo |-> [x EXCEPT !.calling = calls, !.tripped = tripped],
          want   |-> IF calls /\ ~tripped THEN "on" ELSE "off",
          safety |-> tripped]

(* A command w goes to the switch.                                          *)
Sent(x, s, w) ==
    LET retry    == x.commanded = w /\ ~x.confirmed
        attempts == IF retry THEN x.attempts + 1 ELSE 1 IN
    [x EXCEPT
       !.attempts    = Tries(attempts),
       !.waited      = IF retry THEN @ ELSE 0,
       !.commanded   = w,
       !.confirmed   = (s.on = w),
       !.retryIn     = Backoff(attempts),
       !.force       = FALSE,
       !.bypass      = FALSE,
       !.enteringOff = @ /\ attempts < 3,
       !.ran         = IF w = "on" /\ @ = None THEN 0
                       ELSE IF w = "off" /\ s.on = "unknown" THEN None ELSE @]

(* Mutant: a command is sent once.                                          *)
SettledOnce(x, s, w, safety) ==
    LET nowOn      == NowOn(x, s)
        transition == nowOn # w /\ x.commanded # w
        guarded    == /\ transition /\ ~safety /\ ~x.bypass
                      /\ LockoutRemaining(nowOn = "on", x.changed) > 0 IN
    CASE w = "unknown" -> <<[x EXCEPT !.retryIn = None, !.force = FALSE], "unknown">>
      [] w # "unknown" /\ (x.commanded = w \/ nowOn = w) /\ ~x.force ->
            <<IF s.on = w THEN [x EXCEPT !.commanded = w, !.confirmed = TRUE] ELSE x,
              "unknown">>
      [] OTHER ->
            IF guarded THEN <<x, "unknown">>
            ELSE <<Sent(IF transition THEN [x EXCEPT !.changed = 0] ELSE x, s, w), w>>

(* What becomes of the want w: asked again when due, taken as it is, held   *)
(* back by a guard, or sent.  The second part is the command sent, if any.  *)
Settled(x, s, w, safety) ==
    LET nowOn      == NowOn(x, s)
        transition == nowOn # w /\ x.commanded # w
        guarded    == /\ transition /\ ~safety /\ ~x.bypass
                      /\ LockoutRemaining(nowOn = "on", x.changed) > 0 IN
    CASE w = "unknown" -> <<[x EXCEPT !.retryIn = None, !.force = FALSE], "unknown">>
      [] w # "unknown" /\ x.commanded = w /\ ~x.confirmed /\ ~x.force ->
            IF ~s.offline /\ x.retryIn = 0 THEN <<Sent(x, s, w), w>> ELSE <<x, "unknown">>
      [] w # "unknown" /\ (x.commanded # w \/ x.confirmed) /\ nowOn = w /\ ~x.force ->
            <<IF s.on = w THEN [x EXCEPT !.commanded = w, !.confirmed = TRUE] ELSE x,
              "unknown">>
      [] OTHER ->
            IF guarded THEN <<x, "unknown">>
            ELSE <<Sent(IF transition THEN [x EXCEPT !.changed = 0] ELSE x, s, w), w>>

(* The wait and the tries of a confirmed command, never looked at again.    *)
AtRest(x) == IF x.confirmed THEN [x EXCEPT !.attempts = 0, !.retryIn = None, !.waited = 0] ELSE x

NotResponding(x, s, want) ==
    /\ want # "unknown"
    /\ s.offline \/ (x.commanded # "unknown" /\ ~x.confirmed /\ x.waited >= Confirm)

(* The whole of evaluate, for a rest of the switch that has come to age:    *)
(* the thermostat x is decided on anew and its command goes out.  For the   *)
(* history: an off that it asks for, or that x was told of and t was not.   *)
Decide(x, r, s, age) ==
    \E y \in {Looked(x, r, s)} : \E d \in {Decided(y, r)} :
    \E e \in {Settled(d.thermo, s, d.want, d.safety)} :
        /\ t' = [AtRest(e[1]) EXCEPT !.notResponding = NotResponding(e[1], s, d.want)]
        /\ orders' = IF e[2] = "unknown" THEN orders ELSE Append(orders, e[2])
        /\ rest' = IF \/ e[2] = "off" /\ y.commanded # "off" /\ s.on # "off"
                      \/ y.commanded = "off" /\ t.commanded # "off"
                   THEN 0 ELSE age
        /\ parted' = (parted /\ t'.changed # 0)

(* A controller that has yet to start decides nothing.                      *)
Evaluate(x, r, s, age) ==
    \/ started /\ Decide(x, r, s, age)
    \/ ~started /\ t' = x /\ rest' = age /\ UNCHANGED <<orders, parted>>

Later(left) == IF left > 0 THEN left - 1 ELSE left
Older(age, cap) == IF age = None \/ age >= cap THEN age ELSE age + 1

Elapsed(x) ==
    [x EXCEPT !.hold.left = Later(@), !.waited = Older(@, Confirm), !.retryIn = Later(@),
              !.changed = Older(@, Guard), !.ran = Older(@, MaxRun),
              !.override = Later(@), !.grace = Later(@)]

(* tick: 10 s go by and every thermostat is decided on again.               *)
Tick ==
    /\ Len(orders) < Room /\ Len(reports) < Room
    /\ UNCHANGED <<started, seen, reports, plug, reach, inputs, faults>>
    /\ reading' = [reading EXCEPT !.age = Older(@, SensorTimeout + 1)]
    /\ Evaluate(Elapsed(t), reading', seen, Older(rest, MinOff))
    /\ hand' = Older(hand, OverrideFor)

(* on_sensor_state: a reading, or the word that there is none.              *)
OnSensorState(v) ==
    /\ Len(orders) < Room
    /\ reading' = [reading EXCEPT !.value = v, !.age = 0]
    /\ Evaluate(t, reading', seen, rest)
    /\ UNCHANGED <<started, seen, reports, plug, reach, hand, inputs, faults>>

(* on_availability of the sensor.                                           *)
OnSensorAvailability ==
    /\ Len(orders) < Room
    /\ reading' = [reading EXCEPT !.offline = ~@]
    /\ Evaluate(t, reading', seen, rest)
    /\ faults' = IF reading.offline THEN faults ELSE faults + 1
    /\ faults' <= MaxFaults
    /\ UNCHANGED <<started, seen, reports, plug, reach, hand, inputs>>

-----------------------------------------------------------------------------
(* note_switch.                                                             *)
NoteSwitch(x, on) == [x EXCEPT !.ran = IF on = "on" THEN 0 ELSE None]

(* Mutant: what someone else does is no command.                            *)
ReportedAside(x, prev, on) ==
    LET flipped == prev # "unknown" /\ prev # on
        noted   == IF flipped THEN NoteSwitch(x, on) ELSE x IN
    IF x.commanded = on /\ ~x.confirmed
    THEN [noted EXCEPT !.confirmed = TRUE, !.attempts = 0, !.retryIn = None, !.waited = 0,
                       !.notResponding = FALSE, !.enteringOff = @ /\ on = "on"]
    ELSE IF ~started \/ ~flipped THEN noted
    ELSE [noted EXCEPT !.changed = 0,
                       !.override = IF Active(x) /\ OverrideFor > 0 THEN OverrideFor ELSE @]

(* on_switch_state up to evaluate, for a thermostat that knew the switch to *)
(* be prev: an echo of its command, a command still on its way, or someone  *)
(* else's doing.                                                            *)
Reported(x, prev, on) ==
    LET flipped == prev # "unknown" /\ prev # on
        noted   == IF flipped THEN NoteSwitch(x, on)
                   ELSE IF prev = "unknown" /\ on = "on" /\ x.ran = None /\ started
                   THEN [x EXCEPT !.ran = 0] ELSE x IN
    IF x.commanded = on /\ ~x.confirmed
    THEN [noted EXCEPT !.confirmed = TRUE, !.attempts = 0, !.retryIn = None, !.waited = 0,
                       !.notResponding = FALSE, !.enteringOff = @ /\ on = "on"]
    ELSE IF (x.commanded = Not(on) /\ ~x.confirmed) \/ ~started \/ ~flipped
    THEN noted
    ELSE [noted EXCEPT !.changed = 0, !.commanded = on, !.confirmed = TRUE,
                       !.override = IF Active(x) /\ OverrideFor > 0 THEN OverrideFor ELSE @]

(* A flip by hand that the thermostat can tell from its own doing.          *)
TellsByHand(m) == m.byHand /\ started /\ Active(t) /\ OverrideFor > 0
                  /\ t.confirmed /\ seen.on = Not(m.on)

(* on_state and on_switch_state.                                            *)
OnSwitchState ==
    /\ reports # <<>> /\ Head(reports).type = "state"
    /\ reports' = Tail(reports)
    /\ LET m == Head(reports) IN
       /\ seen' = [seen EXCEPT !.on = m.on]
       /\ Evaluate(Reported(t, seen.on, m.on), reading, seen', rest)
       /\ hand' = IF TellsByHand(m) THEN 0 ELSE hand
    /\ UNCHANGED <<started, reading, plug, reach, inputs, faults>>

(* on_availability of the switch: back online it is asked again.            *)
OnSwitchAvailability ==
    /\ reports # <<>> /\ Head(reports).type # "state"
    /\ reports' = Tail(reports)
    /\ LET offline == Head(reports).type = "offline"
           again   == ~offline /\ seen.offline /\ t.commanded # "unknown" /\ ~t.confirmed IN
       /\ seen' = [seen EXCEPT !.offline = offline]
       /\ Evaluate(IF again THEN [t EXCEPT !.retryIn = 0] ELSE t, reading, seen', rest)
    /\ UNCHANGED <<started, reading, plug, reach, hand, inputs, faults>>

-----------------------------------------------------------------------------
(* on_command: what a person, or a rule, asks of the thermostat, and the    *)
(* decision that follows.  A change of target or mode, a hold and a resume  *)
(* end an override (personal).                                              *)
Commanded(x, personal) ==
    /\ started /\ inputs < MaxInputs /\ Len(orders) < Room
    /\ inputs' = inputs + 1
    /\ hand' = IF personal THEN None ELSE hand
    /\ Evaluate(x, reading, seen, rest)
    /\ UNCHANGED <<started, reading, seen, reports, plug, reach, faults>>

(* set_mode.                                                                *)
WithMode(m) ==
    PersonChangedIt(
        IF m = t.mode THEN t
        ELSE [t EXCEPT !.mode = m, !.calling = FALSE, !.enteringOff = (m = "off"),
                       !.force = @ \/ m = "off",
                       !.hold = IF m = "off" THEN NoHold ELSE @])

SetMode(m)      == Commanded(WithMode(m), TRUE)
SetSetpoint(v)  == Commanded(PersonChangedIt([t EXCEPT !.setpoint = v, !.hold = NoHold]), TRUE)
HoldAt(v)       == Commanded(PersonChangedIt([t EXCEPT !.hold = [setpoint |-> v,
                                                                 left |-> HoldFor]]), TRUE)
Resume          == Commanded(PersonChangedIt([t EXCEPT !.hold = NoHold, !.force = Active(t)]),
                             TRUE)
Resync          == Commanded([t EXCEPT !.force = Active(t)], FALSE)
StartNow        == Commanded([t EXCEPT !.bypass = TRUE], FALSE)

(* set_sensors: another sensor, of which nothing has been heard.            *)
SetSensors ==
    /\ started /\ inputs < MaxInputs /\ Len(orders) < Room
    /\ inputs' = inputs + 1
    /\ reading' = Unheard
    /\ Evaluate([t EXCEPT !.grace = FirstReading], reading', seen, rest)
    /\ UNCHANGED <<started, seen, reports, plug, reach, hand, faults>>

-----------------------------------------------------------------------------
(* The switch (external): it carries out what reaches it and reports its    *)
(* state when that changes.                                                 *)
State(on, byHand) == [type |-> "state", on |-> on, byHand |-> byHand]
Availability(word) == [type |-> word, on |-> plug, byHand |-> FALSE]

CarryOut ==
    /\ orders # <<>> /\ Len(reports) < Room
    /\ orders' = Tail(orders)
    /\ plug' = IF reach THEN Head(orders) ELSE plug
    /\ reports' = IF plug' # plug THEN Append(reports, State(plug', FALSE)) ELSE reports
    /\ UNCHANGED <<started, t, reading, seen, reach, rest, parted, hand, inputs, faults>>

Lose ==
    /\ orders # <<>> /\ reach /\ faults < MaxFaults
    /\ orders' = Tail(orders)
    /\ faults' = faults + 1
    /\ UNCHANGED <<started, t, reading, seen, reports, plug, reach, rest, parted, hand, inputs>>

FlipByHand ==
    /\ inputs < MaxInputs /\ Len(reports) < Room
    /\ inputs' = inputs + 1
    /\ plug' = Not(plug)
    /\ reports' = IF reach THEN Append(reports, State(plug', orders = <<>>)) ELSE reports
    /\ UNCHANGED <<started, t, reading, seen, orders, reach, rest, parted, hand, faults>>

OutOfReach ==
    /\ reach /\ faults < MaxFaults /\ Len(orders) < Room /\ Len(reports) < Room
    /\ reach' = FALSE
    /\ faults' = faults + 1
    /\ reports' = Append(reports, Availability("offline"))
    /\ UNCHANGED <<started, t, reading, seen, orders, plug, rest, parted, hand, inputs>>

(* Back within reach it says so, and what it is.                            *)
WithinReach ==
    /\ ~reach /\ reports = <<>>
    /\ reach' = TRUE
    /\ reports' = <<Availability("online"), State(plug, FALSE)>>
    /\ UNCHANGED <<started, t, reading, seen, orders, plug, rest, parted, hand, inputs, faults>>

-----------------------------------------------------------------------------
(* Mutant: when the switch last changed is not kept.                        *)
RestoredUnguarded(x) ==
    [Fresh(x.mode, x.setpoint) EXCEPT
       !.hold     = IF x.hold.left > 0 THEN x.hold ELSE NoHold,
       !.override = IF x.override > 0 THEN x.override ELSE None,
       !.ran      = x.ran]

(* keep_runtime, apply_learned and restore_own: what is left of x after a   *)
(* restart.  The call is told by the reason published last.                 *)
Restored(x) ==
    [Fresh(x.mode, x.setpoint) EXCEPT
       !.hold     = IF x.hold.left > 0 THEN x.hold ELSE NoHold,
       !.override = IF x.override > 0 THEN x.override ELSE None,
       !.changed  = x.changed,
       !.ran      = x.ran,
       !.calling  = /\ x.calling /\ Active(x) /\ ~x.stale /\ x.override = None
                    /\ ~x.tripped /\ ~x.notResponding]

Ends(off) ==
    /\ started /\ faults < MaxFaults /\ Len(orders) < Room
    /\ started' = FALSE
    /\ faults' = faults + 1
    /\ t' = Restored(t)
    /\ orders' = IF off THEN Append(orders, "off") ELSE orders
    /\ reading' = Unheard /\ seen' = Unseen
    /\ reports' = <<IF reach THEN State(plug, FALSE) ELSE Availability("offline")>>
    /\ rest' = IF off THEN 0 ELSE rest
    /\ parted' = (parted \/ off)
    /\ UNCHANGED <<plug, reach, hand, inputs>>

(* shutdown: a heater that may be running is turned off, which is not       *)
(* stamped as a change.                                                     *)
Shutdown == Ends(/\ Kind = "heater" /\ Active(t)
                 /\ (seen.on = "on" \/ t.commanded = "on"))
Crash    == Ends(FALSE)

(* start: one settling pass.                                                *)
Start ==
    /\ ~started /\ Len(orders) < Room
    /\ started' = TRUE
    /\ LET ran == IF seen.on = "off" THEN None
                  ELSE IF seen.on = "on" /\ t.ran = None THEN 0 ELSE t.ran IN
       Decide([t EXCEPT !.ran = ran, !.force = Active(t), !.grace = StartupGrace],
              reading, seen, rest)
    /\ UNCHANGED <<reading, seen, reports, plug, reach, hand, inputs, faults>>

-----------------------------------------------------------------------------
ThermostatInit ==
    /\ started = FALSE
    /\ t \in {Fresh(m, v) : m \in {Running, "off"}, v \in Setpoints}
    /\ reading = Unheard /\ seen = Unseen
    /\ orders = <<>>
    /\ plug \in Words /\ reach = TRUE
    /\ reports = <<State(plug, FALSE)>>
    /\ rest = MinOff /\ parted = FALSE /\ hand = None
    /\ inputs = 0 /\ faults = 0

Household ==
    \/ \E m \in {Running, "off"} : SetMode(m)
    \/ \E v \in Setpoints : SetSetpoint(v)
    \/ \E v \in HoldSetpoints : HoldAt(v)
    \/ Resume \/ Resync \/ StartNow \/ SetSensors \/ FlipByHand

ThermostatNext ==
    \/ Tick
    \/ \E v \in Temps \cup {NoTemp} : OnSensorState(v)
    \/ OnSensorAvailability \/ OnSwitchState \/ OnSwitchAvailability
    \/ Household
    \/ CarryOut \/ Lose \/ OutOfReach \/ WithinReach
    \/ Shutdown \/ Crash \/ Start

(* The runtime polls the plugin's task and its timer, the broker passes     *)
(* messages on, and the supervisor starts a plugin that ended.              *)
(* A report, a command and a start change the state whenever their guards   *)
(* hold, so the guard stands for ENABLED.                                   *)
ThermostatFairness ==
    /\ WF_thermostatVars(Tick)
    /\ []<>(reports = <<>>) \/ []<><<OnSwitchState \/ OnSwitchAvailability>>_thermostatVars
    /\ []<>(orders = <<>> \/ Len(reports) >= Room) \/ []<><<CarryOut>>_thermostatVars
    /\ []<>(started \/ Len(orders) >= Room) \/ []<><<Start>>_thermostatVars

ThermostatSpec ==
    ThermostatInit /\ [][ThermostatNext]_thermostatVars /\ ThermostatFairness

-----------------------------------------------------------------------------
(* What the fields of a thermostat may be.                                  *)
Flag      == BOOLEAN
Modes     == {Running, "off"}
Holds     == {NoHold} \cup [setpoint : HoldSetpoints, left : 0..HoldFor]
Asked     == Words \cup {"unknown"}
Waits     == 0..Confirm
Counts    == 0..6
Retries   == {None} \cup 0..MaxRetry
Changes   == 0..Guard
RunTimes  == {None} \cup 0..MaxRun
Overrides == {None} \cup 0..OverrideFor
Graces    == {None} \cup 0..(StartupGrace + FirstReading)

ThermoRecord ==
    [mode : Modes, setpoint : Setpoints, hold : Holds, calling : Flag, stale : Flag,
     commanded : Asked, confirmed : Flag, waited : Waits, attempts : Counts,
     retryIn : Retries, notResponding : Flag, changed : Changes, ran : RunTimes,
     force : Flag, bypass : Flag, enteringOff : Flag, override : Overrides,
     tripped : Flag, grace : Graces]

Reading == [value : Temps \cup {NoTemp}, age : {None} \cup 0..(SensorTimeout + 1),
            offline : BOOLEAN]
Sight   == [on : Asked, offline : BOOLEAN]
Message == [type : {"state", "online", "offline"}, on : Words, byHand : BOOLEAN]

ThermostatTypeOK ==
    /\ started \in BOOLEAN
    /\ t \in ThermoRecord
    /\ reading \in Reading /\ seen \in Sight
    /\ orders \in Seq(Words) /\ reports \in Seq(Message)
    /\ plug \in Words /\ reach \in BOOLEAN
    /\ rest \in 0..MinOff /\ parted \in BOOLEAN /\ hand \in Overrides
    /\ inputs \in 0..MaxInputs /\ faults \in 0..MaxFaults

(* confirmed (on_switch_state, evaluate): a switch within reach, none of    *)
(* whose reports is under way, is what the thermostat last asked it to be,  *)
(* or the thermostat knows that it has not said so - whatever commands are  *)
(* under way, lost or late, and whatever is flipped by hand.                *)
ConfirmedIsTrue ==
    started /\ reports = <<>> /\ reach /\ t.confirmed => plug = t.commanded

SendsOrder(w) == started' /\ orders' = Append(orders, w)
SendsAny      == \E w \in Words : SendsOrder(w)

(* lockout_remaining and last_change: a switch that is off, or not known to *)
(* be on, is not asked on sooner than MinOff after the thermostat last      *)
(* asked it to go off or, running, was told that someone turned it off;     *)
(* whichever way it is decided (a force, an override that ends, a crash and *)
(* a restart), unless someone said start_now.  Left out, as the code stamps *)
(* no change then: what follows a shutdown's OFF up to the next change, and *)
(* an off while the plugin was down or while an ON was under way.           *)
GuardKept ==
    [][SendsOrder("on") /\ seen'.on # "on" /\ t.commanded # "on" /\ ~t.bypass /\ ~parted
         => rest' >= MinOff \/ StartNow]_thermostatVars

(* override_until: a switch that someone flips by hand is sent nothing for  *)
(* OverrideFor, or until the target or mode changes, over a restart too;    *)
(* only a shutdown turns off a heater all the same, as is documented.       *)
LeftAlone == [][SendsAny /\ hand' # None => hand' >= OverrideFor]_thermostatVars

(* The retry of a command has been dropped: evaluate drops it when the      *)
(* switch is to be left alone, and a command that is not confirmed is asked *)
(* again only when its retry is due.                                        *)
NotAskedAgain == t.commanded # "unknown" /\ ~t.confirmed /\ t.retryIn = None

(* max_run_secs, sensors_stale and the retries: a switch of an active       *)
(* thermostat does not stay on for ever, a lost OFF is asked again: unless  *)
(* it is out of reach, or the retry has been dropped.                       *)
RunsEnd == ~<>[](plug = "on" /\ Active(t) /\ reach /\ ~NotAskedAgain)

(* waiting_min_off and the retries: a call for heat is not put off for      *)
(* ever while nothing stands in its way: a guard ends, and a lost ON is     *)
(* asked again, unless the retry has been dropped.                          *)
HeatsWhenCold ==
    ~<>[](/\ started /\ plug = "off" /\ reach /\ Active(t) /\ t.calling
          /\ t.override = None /\ ~t.tripped /\ ~t.stale /\ ~NotAskedAgain)

HandedOver == /\ t.mode = "off" /\ t.commanded = "off" /\ t.confirmed
              /\ orders = <<>> /\ plug = "on"

(* "One OFF, then the switch is the household's": once an OFF has been      *)
(* confirmed and carried out, a switch turned on by hand is left alone as   *)
(* long as the thermostat is Off.                                           *)
HandsOff == [][HandedOver /\ t'.mode = "off" => ~SendsAny]_thermostatVars
=============================================================================
