----------------------------- MODULE MCScheduler -----------------------------
EXTENDS Scheduler
(* Every kind of trigger at every moment of the day; periods that fit into  *)
(* the catch-up window and one that does not; rules of two triggers.        *)
AnyRule ==
    {{g} : g \in [type : {"time"}, at : 0..(DayLenMins - 1), days : {{}, {0}}]
              \cup [type : {"cron"}, at : 0..(DaySecs - 1), days : {{}, {1}}]
              \cup [type : {"event"}, at : 1..5, days : {{}}]
              \cup {Every(n * MinuteLen) : n \in 1..3}}
    \cup {{AtMinute(1, {}), Every(2 * MinuteLen)},
          {AtMinute(1, {}), AtMinute(3, {})},
          {Every(2 * MinuteLen), Every(4 * MinuteLen)}}
=============================================================================
