----------------------------- MODULE Scheduler -----------------------------
(***************************************************************************)
(* The scheduler of crates/hc-core/src/scheduler.rs, for one rule: the      *)
(* catch-up pass of a start, the tick of every minute, and the sleep to the *)
(* next minute, across restarts of the process.                             *)
(*                                                                         *)
(* Time is counted in seconds of MinuteLen to the minute and DayLenMins     *)
(* minutes to the day; days alternate.  What a trigger means is kept apart  *)
(* from how the code finds it: Occurs says at which seconds it is due.      *)
(* AlertActiveFor is in AlertEngine.                                        *)
(***************************************************************************)
EXTENDS Naturals, FiniteSets

CONSTANTS
    MinuteLen,     \* seconds in a minute
    DayLenMins,    \* minutes in a day
    CatchupMins,   \* catchup_window_minutes
    MaxLate,       \* how late a sleep may end, in seconds
    TriggerChoices,\* the triggers the rule may have: sets of triggers
    MaxSeconds,    \* bound: the clock
    MaxBoots       \* bound: the number of starts

ASSUME SchedulerAssumption ==
    /\ MinuteLen \in Nat \ {0} /\ DayLenMins \in Nat \ {0}
    /\ CatchupMins \in Nat /\ CatchupMins < DayLenMins
    /\ MaxLate \in Nat /\ MaxLate < MinuteLen
    /\ MaxSeconds \in Nat /\ MaxBoots \in Nat

Never == MaxSeconds + 1

VARIABLES
    time,       \* seconds since the first midnight
    triggers,   \* the rule's triggers
    enabled,    \* the rule is enabled
    sched,      \* where the scheduler is
    wakeAt,     \* when its sleep is over
    lastPeriodic, \* last_periodic_fire
    firing,     \* history variable: the step just taken fired the rule
    lastTick,   \* history variable: the last tick of this start, or Never
    aliveAt,    \* history variable: the last tick of any start
    turned,     \* history variable: the rule was off at the last tick
    lastFired,  \* history variable: when the rule was last fired, by any start
    startedAt,  \* history variable: when this start found the rule on, or Never
    boots

schedulerVars == <<time, triggers, enabled, sched, wakeAt, lastPeriodic, firing,
                   lastTick, aliveAt, turned, lastFired, startedAt, boots>>

DaySecs      == DayLenMins * MinuteLen
MinuteOf(t)  == (t % DaySecs) \div MinuteLen   \* the minute of the day
WeekdayOf(t) == (t \div DaySecs) % 2
SecondOf(t)  == t % MinuteLen
StartOfMinute(t) == t - SecondOf(t)

(* TimeOfDay and SunEvent: a minute of the day; the days, if any are named. *)
AtMinute(minute, days) == [type |-> "time", at |-> minute, days |-> days]
(* Cron: a second of the day.                                               *)
AtSecond(second, days) == [type |-> "cron", at |-> second, days |-> days]
(* CalendarEvent: a minute of all time, the offset taken off.               *)
AtEvent(minute) == [type |-> "event", at |-> minute, days |-> {}]
(* Periodic: a period in seconds.                                           *)
Every(n) == [type |-> "periodic", at |-> n, days |-> {}]

DayMatches(g, t) == g.days = {} \/ WeekdayOf(t) \in g.days

(* The seconds at which a trigger is due, whatever the code does.           *)
Occurs(g, t) ==
    CASE g.type = "time"  -> SecondOf(t) = 0 /\ MinuteOf(t) = g.at /\ DayMatches(g, t)
      [] g.type = "cron"  -> t % DaySecs = g.at /\ DayMatches(g, t)
      [] g.type = "event" -> t = g.at * MinuteLen
      [] OTHER            -> FALSE

-----------------------------------------------------------------------------
(* cron_fired_in_window, over (from, to].                                   *)
CronFiredInWindow(g, from, to) == \E t \in (from + 1)..to : Occurs(g, t)

(* Mutant: the date of the next occurrence is thrown away.                  *)
FiresNowDateless(g) ==
    CASE g.type = "time"     -> g.at = MinuteOf(time) /\ DayMatches(g, time)
      [] g.type = "cron"     -> g.at \div MinuteLen = MinuteOf(time)
      [] g.type = "event"    -> g.at = time \div MinuteLen
      [] g.type = "periodic" -> lastPeriodic = Never \/ time - lastPeriodic >= g.at

(* What the tick asks of each trigger.                                      *)
FiresNow(g) ==
    CASE g.type = "time"     -> g.at = MinuteOf(time) /\ DayMatches(g, time)
      [] g.type = "cron"     -> CronFiredInWindow(g, IF time > MinuteLen
                                                     THEN time - MinuteLen ELSE 0, time)
      [] g.type = "event"    -> g.at = time \div MinuteLen
      [] g.type = "periodic" -> lastPeriodic = Never \/ time - lastPeriodic >= g.at

Periodics == {g \in triggers : g.type = "periodic"}

(* Mutant: a window that crosses midnight is taken for one that does not.   *)
InCatchupWindowPlain(minute, start, now) == minute >= start /\ minute <= now

(* in_catchup_window, in minutes of the day.                                *)
InCatchupWindow(minute, start, now) ==
    IF start <= now THEN minute >= start /\ minute <= now
                    ELSE minute >= start \/ minute <= now

WindowStart == IF time > CatchupMins * MinuteLen
               THEN time - CatchupMins * MinuteLen
               ELSE time + DaySecs - CatchupMins * MinuteLen

(* What the catch-up asks: the day is the day it is now.                    *)
CaughtUp(g) ==
    CASE g.type = "time" ->
            /\ DayMatches(g, time)
            /\ InCatchupWindow(g.at, MinuteOf(WindowStart), MinuteOf(time))
      [] g.type = "cron" ->
            CronFiredInWindow(g, IF time > CatchupMins * MinuteLen
                                 THEN time - CatchupMins * MinuteLen ELSE 0, time)
      [] g.type = "periodic" -> CatchupMins * MinuteLen >= g.at
      [] OTHER -> FALSE

(* The process is started, with what it remembers gone.                     *)
SchedulerStart ==
    /\ sched = "down" /\ boots < MaxBoots
    /\ boots' = boots + 1
    /\ sched' = "starting"
    /\ lastPeriodic' = Never
    /\ lastTick' = Never
    /\ startedAt' = Never
    /\ firing' = FALSE
    /\ UNCHANGED <<time, triggers, enabled, wakeAt, aliveAt, turned, lastFired>>

(* For the history: the rule is fired, or is not.                           *)
Fires(f) ==
    /\ firing' = f
    /\ lastFired' = IF f THEN time ELSE lastFired

(* Mutant: a periodic trigger is not seeded by the catch-up.                *)
FireCatchupUnseeded ==
    /\ sched = "starting"
    /\ Fires(CatchupMins > 0 /\ enabled /\ \E g \in triggers : CaughtUp(g))
    /\ startedAt' = IF enabled THEN time ELSE Never
    /\ sched' = "ticking"
    /\ UNCHANGED <<time, triggers, enabled, wakeAt, lastPeriodic, lastTick,
                   aliveAt, turned, boots>>

(* fire_catchup, if there is a window; periodic triggers count from now on. *)
FireCatchup ==
    /\ sched = "starting"
    /\ Fires(CatchupMins > 0 /\ enabled /\ \E g \in triggers : CaughtUp(g))
    /\ startedAt' = IF enabled THEN time ELSE Never
    /\ lastPeriodic' = IF CatchupMins > 0 /\ enabled /\ Periodics # {}
                       THEN time ELSE lastPeriodic
    /\ sched' = "ticking"
    /\ UNCHANGED <<time, triggers, enabled, wakeAt, lastTick, aliveAt, turned,
                   boots>>

UntilNextMinute == MinuteLen - SecondOf(time)

(* One round of the loop: the rule is fired at most once for its time       *)
(* triggers and once for its calendar ones.                                 *)
SchedulerTick ==
    LET due(types) == enabled /\ \E g \in triggers : g.type \in types /\ FiresNow(g)
        timed == due({"time", "cron", "periodic"})
    IN  /\ sched = "ticking"
        /\ Fires(timed \/ due({"event"}))
        /\ lastPeriodic' = IF timed /\ Periodics # {} THEN time ELSE lastPeriodic
        /\ sched' = "sleeping"
        /\ wakeAt' = time + UntilNextMinute
        /\ lastTick' = time
        /\ aliveAt' = time
        /\ turned' = ~ enabled
        /\ UNCHANGED <<time, triggers, enabled, startedAt, boots>>

SchedulerWake ==
    /\ sched = "sleeping" /\ time >= wakeAt
    /\ sched' = "ticking"
    /\ firing' = FALSE
    /\ UNCHANGED <<time, triggers, enabled, wakeAt, lastPeriodic, lastTick,
                   aliveAt, turned, lastFired, startedAt, boots>>

(* Shutdown, or a crash.                                                    *)
SchedulerStop ==
    /\ sched = "sleeping"
    /\ sched' = "down"
    /\ firing' = FALSE
    /\ UNCHANGED <<time, triggers, enabled, wakeAt, lastPeriodic, lastTick,
                   aliveAt, turned, lastFired, startedAt, boots>>

(* The live rule set is read at each tick: a rule turned off or on counts   *)
(* from the next one.                                                       *)
SwitchRule ==
    /\ sched = "sleeping"
    /\ enabled' = ~ enabled
    /\ turned' = TRUE
    /\ firing' = FALSE
    /\ UNCHANGED <<time, triggers, sched, wakeAt, lastPeriodic, lastTick,
                   aliveAt, lastFired, startedAt, boots>>

SecondPasses ==
    /\ time < MaxSeconds
    /\ sched = "down" \/ (sched = "sleeping" /\ time < wakeAt + MaxLate)
    /\ time' = time + 1
    /\ firing' = FALSE
    /\ UNCHANGED <<triggers, enabled, sched, wakeAt, lastPeriodic, lastTick,
                   aliveAt, turned, lastFired, startedAt, boots>>

SchedulerInit ==
    /\ time = 0
    /\ triggers \in TriggerChoices
    /\ enabled = TRUE
    /\ sched = "down" /\ wakeAt = 0
    /\ lastPeriodic = Never /\ lastTick = Never /\ aliveAt = Never
    /\ lastFired = Never /\ startedAt = Never
    /\ firing = FALSE /\ turned = FALSE /\ boots = 0

SchedulerNext ==
    \/ SchedulerStart \/ FireCatchup \/ SchedulerTick \/ SchedulerWake
    \/ SchedulerStop \/ SwitchRule \/ SecondPasses

SchedulerSpec == SchedulerInit /\ [][SchedulerNext]_schedulerVars

-----------------------------------------------------------------------------
(* Properties.                                                              *)

SchedulerTypeOK ==
    /\ time \in 0..MaxSeconds /\ enabled \in BOOLEAN /\ firing \in BOOLEAN
    /\ sched \in {"down", "starting", "ticking", "sleeping"}
    /\ wakeAt \in 0..(MaxSeconds + MinuteLen)
    /\ lastPeriodic \in 0..Never /\ lastTick \in 0..Never /\ aliveAt \in 0..Never
    /\ lastFired \in 0..Never /\ startedAt \in 0..Never
    /\ turned \in BOOLEAN /\ boots \in 0..MaxBoots

Ticks == sched = "ticking" /\ sched' = "sleeping"

OnTheMinute(g) == g.type \in {"time", "event"} \/ (g.type = "cron" /\ SecondOf(g.at) = 0)

(* From the second tick on, a rule is fired exactly when one of its moments *)
(* came since the tick before: none is left out between two ticks and none  *)
(* is fired by both, days of the week and midnight included.  Cron moments  *)
(* inside a minute are left out: a tick that comes late has another window. *)
FiresWhatCame ==
    [][Ticks /\ lastTick # Never /\ enabled /\ (\A g \in triggers : OnTheMinute(g))
          => (firing' <=> \E g \in triggers, t \in (lastTick + 1)..time : Occurs(g, t))
      ]_schedulerVars

(* A moment that came while the process was down, no longer ago than the    *)
(* window, is fired by the catch-up, on both sides of midnight; rules with  *)
(* named days are left out: the day that is looked at is today's.           *)
CatchupComplete ==
    [][sched = "starting" /\ enabled /\ CatchupMins > 0 /\ aliveAt # Never
          /\ (\E g \in triggers, t \in (aliveAt + 1)..time :
                 /\ g.type \in {"time", "cron"} /\ g.days = {}
                 /\ Occurs(g, t) /\ t > time - CatchupMins * MinuteLen)
          /\ sched' = "ticking"
          => firing']_schedulerVars

(* The later of the last firing and the start.                              *)
CountsFrom == IF lastFired # Never /\ lastFired > startedAt THEN lastFired ELSE startedAt

(* The step fires the rule although none of its periods has gone by since   *)
(* it was really fired last, before a restart or after.                     *)
FiresTooSoon == firing' /\ \A g \in triggers : lastFired # Never /\ time - lastFired < g.at

(* A periodic rule that was on when the process started is fired within two *)
(* minutes of its period from the last firing, or from the start, for as    *)
(* long as it stays on; and sooner than a period after a firing only by the *)
(* start itself, and only when the period fits into the catch-up window: a  *)
(* rule of a longer period waits a whole one from the start, and the first  *)
(* tick does not repeat what the start has fired.                           *)
PeriodKept ==
    [][triggers = Periodics /\ CatchupMins > 0 =>
         /\ sched = "starting" /\ FiresTooSoon =>
               \E g \in triggers : g.at <= CatchupMins * MinuteLen
         /\ Ticks /\ startedAt # Never =>
               /\ ~ FiresTooSoon
               /\ firing' => \E g \in triggers : time - startedAt >= g.at
               /\ enabled /\ ~ turned /\ ~ firing' =>
                     \A g \in triggers : time - CountsFrom < g.at + 2 * MinuteLen
      ]_schedulerVars
=============================================================================
