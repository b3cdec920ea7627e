---------------------------- MODULE AlertEngine ----------------------------
(***************************************************************************)
(* The alert engine of crates/hc-core/src/alerts.rs: passes that work out   *)
(* the whole set of alerts and announce the difference, people who          *)
(* acknowledge alerts through the API while a pass is under way, plugins    *)
(* whose reports come over a bounded bus, and the AlertActiveFor trigger    *)
(* that the scheduler (scheduler.rs) fires for alerts that last.            *)
(*                                                                         *)
(* An alert is its id.  What it is about is its sort: "plain" (wet, smoke,  *)
(* jammed), "since" (a time rule that counts from the persisted change      *)
(* time), "level" (offline, and the rules that count from when the engine   *)
(* first saw the state), "battery" and "plugin".  Times are kept as ages in *)
(* minutes, cut at Cap, beyond which nothing looks.                         *)
(***************************************************************************)
EXTENDS Naturals, FiniteSets, Sequences, SequencesExt

CONSTANTS
    Alerts,       \* alert ids
    People,       \* who acknowledges
    Nobody,       \* no acknowledgement
    NoAlert,      \* not in the map
    Unseen,       \* not in the engine's memory
    SortChoices,  \* what the alerts may be about: a set of functions
    HoldMins,     \* for_minutes of the rules, and OFFLINE_AFTER
    ActiveMins,   \* `minutes` of the AlertActiveFor trigger
    MailRoom,     \* capacity of the bus, in plugin reports
    MaxChanges,   \* bound: changes of the house, the rules and the ignores
    MaxAcks,      \* bound: acknowledgements
    MaxFaults     \* bound: reads of the store that fail, and restarts

Sorts == {"plain", "since", "level", "battery", "plugin"}
Cap   == IF HoldMins > ActiveMins THEN HoldMins ELSE ActiveMins
Ages  == 0..Cap

ASSUME AlertAssumption ==
    /\ IsFiniteSet(Alerts)
    /\ Nobody \notin People
    /\ NoAlert \notin People \cup {Nobody}
    /\ NoAlert \notin [lasted : Ages, ack : People \cup {Nobody}]
    /\ Unseen \notin Ages
    /\ SortChoices \subseteq [Alerts -> Sorts]
    /\ HoldMins \in Nat /\ ActiveMins \in Nat
    /\ MailRoom \in Nat \ {0}
    /\ MaxChanges \in Nat /\ MaxAcks \in Nat /\ MaxFaults \in Nat

VARIABLES
    sort,       \* what each alert is about
    house,      \* what the device says: [level, age]
    mail,       \* plugin reports the engine has not taken in
    reported,   \* PluginAlerts.reported: the alerts that plugins say are true
    ignored,    \* the stored ignores
    off,        \* the alerts of disabled rules and of topics turned off
    memory,     \* Memory: when a state was first seen
    pass,       \* where the pass is
    view,       \* what the pass has read of the store
    before,     \* the active alerts when it worked the new ones out
    after,      \* the ones it worked out
    toSend,     \* the new alerts still to be sent to a channel
    primed,     \* a pass has been made since the start
    active,     \* AlertsHandle.active
    acks,       \* AlertsHandle.acks
    posting,    \* acknowledgements made and not yet announced
    announced,  \* what a subscriber to AlertRaised and AlertCleared believes
    pairs,      \* alert_fired, for one rule
    sent,       \* history variable: notifications of the alert as it lasts
    fired,      \* history variable: firings for the alert as it lasts
    leftover,   \* history variable: the pair was there when it was raised
    late,       \* history variable: acknowledged after the pass looked
    lagged,     \* history variable: reports the bus has forgotten
    changes, ackings, faults

worldVars == <<sort, house, ignored, off, changes>>
mailVars  == <<mail, reported, lagged>>
passVars  == <<memory, pass, view, before, after, toSend, primed>>
ackVars   == <<acks, posting, late, ackings>>
schedVars == <<pairs, fired, leftover>>
alertVars == <<worldVars, mailVars, passVars, ackVars, schedVars,
               active, announced, sent, faults>>

Levels == {"clear", "band", "on"}
Shown  == [lasted : Ages, ack : People \cup {Nobody}] \cup {NoAlert}
Empty  == [a \in Alerts |-> NoAlert]
NoView == [house |-> [a \in Alerts |-> [level |-> "clear", age |-> 0]],
           rules |-> TRUE, off |-> {}, ignored |-> {}]
Listed == {a \in Alerts : active[a] # NoAlert}

Aged(n) == IF n < Cap THEN n + 1 ELSE n
AllAged(f) == [a \in Alerts |->
    IF f[a] = NoAlert THEN NoAlert ELSE [f[a] EXCEPT !.lasted = Aged(@)]]

-----------------------------------------------------------------------------
(* The house, and what people set.                                          *)

Change == changes < MaxChanges /\ changes' = changes + 1

(* A device reports another state; its change time is stored with it.       *)
DeviceChanges(a, level) ==
    /\ Change
    /\ sort[a] # "plugin"
    /\ level = "band" => sort[a] = "battery"
    /\ house[a].level # level
    /\ house' = [house EXCEPT ![a] = [level |-> level, age |-> 0]]
    /\ UNCHANGED <<sort, ignored, off, mailVars, passVars, ackVars, schedVars,
                   active, announced, sent, faults>>

(* A plugin publishes what is true now.  The bus forgets its oldest report  *)
(* when it is full.                                                         *)
PluginReports(a) ==
    /\ Change
    /\ sort[a] = "plugin"
    /\ LET now == IF house[a].level = "on" THEN "clear" ELSE "on"
           all == Append(mail, [alert |-> a, on |-> now = "on"])
       IN  /\ house' = [house EXCEPT ![a] = [level |-> now, age |-> 0]]
           /\ mail' = IF Len(all) > MailRoom THEN Tail(all) ELSE all
           /\ lagged' = IF Len(all) > MailRoom
                        THEN lagged \cup {all[1].alert} ELSE lagged
    /\ UNCHANGED <<sort, ignored, off, reported, passVars, ackVars, schedVars,
                   active, announced, sent, faults>>

Ignore(a) ==
    /\ Change
    /\ ignored' = (ignored \ {a}) \cup ({a} \ ignored)
    /\ UNCHANGED <<sort, house, off, mailVars, passVars, ackVars, schedVars,
                   active, announced, sent, faults>>

TurnOff(a) ==
    /\ Change
    /\ sort[a] \in {"since", "level", "plugin"}
    /\ off' = (off \ {a}) \cup ({a} \ off)
    /\ UNCHANGED <<sort, house, ignored, mailVars, passVars, ackVars, schedVars,
                   active, announced, sent, faults>>

(* Only the sending of a pass, which waits for other machines, is long      *)
(* enough for a minute to pass.                                             *)
MinutePasses ==
    /\ pass \in {"waiting", "sending"}
    /\ house' = [a \in Alerts |-> [house[a] EXCEPT !.age = Aged(@)]]
    /\ memory' = [a \in Alerts |->
           IF memory[a] = Unseen THEN Unseen ELSE Aged(memory[a])]
    /\ active' = AllAged(active)
    /\ before' = AllAged(before)
    /\ after' = AllAged(after)
    /\ UNCHANGED <<sort, ignored, off, changes, mailVars, pass, view, toSend,
                   primed, ackVars, schedVars, announced, sent, faults>>

-----------------------------------------------------------------------------
(* A pass.                                                                  *)

(* The 30 second tick, a relevant event, or a changed rule.                 *)
PassBegins ==
    /\ pass = "waiting"
    /\ pass' = "reading"
    /\ UNCHANGED <<worldVars, mailVars, memory, view, before, after, toSend,
                   primed, ackVars, schedVars, active, announced, sent, faults>>

(* Mutant: a report that takes an alert back is not taken in.               *)
AbsorbedRaised == [a \in Alerts |->
    reported[a] \/ \E i \in 1..Len(mail) : mail[i].alert = a /\ mail[i].on]

(* absorb: the last report about an alert is what counts.                   *)
Absorbed == [a \in Alerts |->
    LET about == SelectSeq(mail, LAMBDA m : m.alert = a)
    IN  IF about = <<>> THEN reported[a] ELSE about[Len(about)].on]

(* A report wakes the engine, and what came with it is taken in as well.    *)
PassTakesMail ==
    /\ pass = "waiting"
    /\ mail # <<>>
    /\ pass' = "reading"
    /\ reported' = Absorbed
    /\ mail' = <<>>
    /\ UNCHANGED <<worldVars, lagged, memory, view, before, after, toSend,
                   primed, ackVars, schedVars, active, announced, sent, faults>>

(* Rules, ignores or topic settings that cannot be read count as none, and  *)
(* without the devices there is no pass.                                    *)
PassReads ==
    /\ pass = "reading"
    /\ \E unread \in SUBSET {"rules", "ignores", "topics"} :
        /\ unread # {} => faults < MaxFaults
        /\ faults' = IF unread # {} THEN faults + 1 ELSE faults
        /\ view' = [house |-> house,
                    rules |-> "rules" \notin unread,
                    off |-> {a \in off : sort[a] = "plugin" => "topics" \notin unread},
                    ignored |-> IF "ignores" \in unread THEN {} ELSE ignored]
    /\ pass' = "working"
    /\ UNCHANGED <<worldVars, mailVars, memory, before, after, toSend, primed,
                   ackVars, schedVars, active, announced, sent>>

PassGivesUp ==
    /\ pass = "reading"
    /\ faults < MaxFaults
    /\ faults' = faults + 1
    /\ pass' = "waiting"
    /\ UNCHANGED <<worldVars, mailVars, memory, view, before, after, toSend,
                   primed, ackVars, schedVars, active, announced, sent>>

On(a)    == view.house[a].level = "on"
InUse(a) == sort[a] \in {"since", "level"} => view.rules /\ a \notin view.off

(* Memory: entry().or_insert(now) while the state is seen, removed when it  *)
(* is seen gone, and left alone for a rule that is not in use.              *)
Remembered(a) ==
    IF sort[a] # "level" \/ ~ InUse(a) THEN memory[a]
    ELSE IF ~ On(a) THEN Unseen
    ELSE IF memory[a] = Unseen THEN 0 ELSE memory[a]

(* Whether the state calls for the alert.                                   *)
CalledFor(a) ==
    CASE sort[a] = "plain"   -> On(a)
      [] sort[a] = "since"   -> On(a) /\ InUse(a) /\ view.house[a].age >= HoldMins
      [] sort[a] = "level"   -> On(a) /\ InUse(a) /\ Remembered(a) >= HoldMins
      [] sort[a] = "battery" -> On(a) \/ (view.house[a].level = "band" /\ active[a] # NoAlert)
      [] sort[a] = "plugin"  -> reported[a] /\ a \notin view.off

(* raised_at of an alert that was not active.                               *)
FirstLasted(a) ==
    CASE sort[a] = "level"  -> Remembered(a)
      [] sort[a] = "plugin" -> 0
      [] OTHER              -> view.house[a].age

(* desired, from_plugins and unignored: an alert still called for keeps its *)
(* raised_at.                                                               *)
WorkedOut == [a \in Alerts |->
    IF ~ CalledFor(a) \/ a \in view.ignored THEN NoAlert
    ELSE [lasted |-> IF active[a] # NoAlert THEN active[a].lasted
                                            ELSE FirstLasted(a),
          ack |-> Nobody]]

Having(f) == {a \in Alerts : f[a] # NoAlert}

(* Mutant: the acknowledgements of alerts that end are kept.                *)
AcksOfAll(f) == acks

(* acks.retain                                                              *)
AcksOf(f) == [a \in Alerts |-> IF f[a] = NoAlert THEN Nobody ELSE acks[a]]

(* Mutant: the acknowledgement shown last is carried on.                    *)
CarriedAsShown(f) == [a \in Alerts |->
    IF f[a] = NoAlert \/ active[a] = NoAlert THEN f[a]
    ELSE [f[a] EXCEPT !.ack = active[a].ack]]

(* alert.acknowledged = acks.get(id)                                        *)
Carried(f) == [a \in Alerts |->
    IF f[a] = NoAlert THEN NoAlert ELSE [f[a] EXCEPT !.ack = acks[a]]]

(* Only what was not active is sent, and nothing on the first pass.         *)
ToBeSent(was, is) == IF primed THEN Having(is) \ Having(was) ELSE {}

PassWorks ==
    /\ pass = "working"
    /\ memory' = [a \in Alerts |-> Remembered(a)]
    /\ before' = active
    /\ acks' = AcksOf(WorkedOut)
    /\ after' = Carried(WorkedOut)
    /\ toSend' = ToBeSent(active, WorkedOut)
    /\ late' = {}
    /\ pass' = "sending"
    /\ view' = NoView
    /\ UNCHANGED <<worldVars, mailVars, primed, posting, ackings,
                   schedVars, active, announced, sent, faults>>

PassSends(a) ==
    /\ pass = "sending"
    /\ a \in toSend
    /\ toSend' = toSend \ {a}
    /\ sent' = [sent EXCEPT ![a] = @ + 1]
    /\ UNCHANGED <<worldVars, mailVars, memory, pass, view, before, after,
                   primed, ackVars, schedVars, active, announced, faults>>

(* Mutant: an alert that was not there before is not announced.             *)
PublishedUpdates(a) ==
    IF before[a] \in {after[a], NoAlert} THEN announced[a]
    ELSE IF after[a] = NoAlert THEN NoAlert ELSE after[a].ack

(* AlertRaised for what is new or says something else, AlertCleared for     *)
(* what is gone.                                                            *)
Published(a) ==
    IF after[a] = before[a] THEN announced[a]
    ELSE IF after[a] = NoAlert THEN NoAlert ELSE after[a].ack

PassPublishes ==
    /\ pass = "sending"
    /\ toSend = {}
    /\ announced' = [a \in Alerts |-> Published(a)]
    /\ primed' = TRUE
    /\ pass' = "replacing"
    /\ UNCHANGED <<worldVars, mailVars, memory, view, before, after, toSend,
                   ackVars, schedVars, active, sent, faults>>

PassReplaces ==
    /\ pass = "replacing"
    /\ active' = after
    /\ before' = Empty
    /\ after' = Empty
    /\ pass' = "waiting"
    /\ sent' = [a \in Alerts |-> IF after[a] = NoAlert THEN 0 ELSE sent[a]]
    /\ fired' = [a \in Alerts |->
           IF a \in Having(after) /\ a \in Listed THEN fired[a] ELSE 0]
    /\ leftover' = [a \in Alerts |->
           IF a \in Having(after) /\ a \notin Listed THEN a \in pairs
                                                     ELSE leftover[a]]
    /\ UNCHANGED <<worldVars, mailVars, memory, view, toSend, primed, ackVars,
                   pairs, announced, faults>>

-----------------------------------------------------------------------------
(* POST /alerts/{id}/acknowledge: the maps are changed under their locks,   *)
(* and the change is announced after.                                       *)

Acknowledge(a, p) ==
    /\ a \in Listed
    /\ ackings < MaxAcks
    /\ ackings' = ackings + 1
    /\ IF active[a].ack = Nobody
       THEN /\ active' = [active EXCEPT ![a].ack = p]
            /\ acks' = [acks EXCEPT ![a] = p]
            /\ late' = IF pass \in {"sending", "replacing"}
                       THEN late \cup {a} ELSE late
       ELSE UNCHANGED <<active, acks, late>>
    /\ posting' = posting \cup {[alert |-> a, ack |-> active'[a].ack]}
    /\ UNCHANGED <<worldVars, mailVars, passVars, schedVars, announced, sent,
                   faults>>

AnnounceAck(m) ==
    /\ m \in posting
    /\ posting' = posting \ {m}
    /\ announced' = [announced EXCEPT ![m.alert] = m.ack]
    /\ UNCHANGED <<worldVars, mailVars, passVars, acks, late, ackings,
                   schedVars, active, sent, faults>>

-----------------------------------------------------------------------------
(* Mutant: a pair is forgotten at the next tick.                            *)
PairsKeptNone == {}

(* alert_fired.retain                                                       *)
PairsKept == pairs \cap Listed

LongEnough == {a \in Listed : active[a].lasted >= ActiveMins}

(* Mutant: the pair is entered before the time is looked at.                *)
FireAlertsMarked ==
    LET lasting == LongEnough \ PairsKept
    IN  /\ pairs' = Listed
        /\ fired' = [a \in Alerts |-> IF a \in lasting THEN fired[a] + 1
                                                       ELSE fired[a]]
        /\ UNCHANGED <<leftover, worldVars, mailVars, passVars, ackVars, active,
                       announced, sent, faults>>

(* fire_alerts_active_for, once a minute.                                   *)
FireAlertsActiveFor ==
    LET lasting == LongEnough \ PairsKept
    IN  /\ pairs' = PairsKept \cup lasting
        /\ fired' = [a \in Alerts |-> IF a \in lasting THEN fired[a] + 1
                                                       ELSE fired[a]]
        /\ leftover' = [a \in Alerts |-> leftover[a] /\ a \in PairsKept]
        /\ UNCHANGED <<worldVars, mailVars, passVars, ackVars, active,
                       announced, sent, faults>>

(* The process stops and is started: the maps are empty, subscribers list   *)
(* the alerts anew, and plugins that connect again say theirs again, of     *)
(* which the bus keeps what it has room for.                                *)
AlertRestart ==
    LET saying == {a \in Alerts : sort[a] = "plugin" /\ house[a].level = "on"}
    IN  /\ faults < MaxFaults
        /\ faults' = faults + 1
        /\ \E heard \in SUBSET saying :
              /\ Cardinality(heard) <= MailRoom
              /\ heard # saying => Cardinality(heard) = MailRoom
              /\ mail' = SetToSeq({[alert |-> a, on |-> TRUE] : a \in heard})
              /\ lagged' = saying \ heard
        /\ reported' = [a \in Alerts |-> FALSE]
        /\ memory' = [a \in Alerts |-> Unseen]
        /\ pass' = "waiting"
        /\ active' = Empty /\ before' = Empty /\ after' = Empty
        /\ toSend' = {} /\ primed' = FALSE
        /\ acks' = [a \in Alerts |-> Nobody]
        /\ posting' = {} /\ late' = {}
        /\ announced' = Empty
        /\ pairs' = {}
        /\ sent' = [a \in Alerts |-> 0]
        /\ fired' = [a \in Alerts |-> 0]
        /\ leftover' = [a \in Alerts |-> FALSE]
        /\ view' = NoView
        /\ UNCHANGED <<worldVars, ackings>>

-----------------------------------------------------------------------------
AlertInit ==
    /\ sort \in SortChoices
    /\ house = [a \in Alerts |-> [level |-> "clear", age |-> Cap]]
    /\ mail = <<>>
    /\ reported = [a \in Alerts |-> FALSE]
    /\ ignored = {} /\ off = {}
    /\ memory = [a \in Alerts |-> Unseen]
    /\ pass = "waiting"
    /\ view = NoView
    /\ before = Empty /\ after = Empty /\ active = Empty /\ announced = Empty
    /\ toSend = {} /\ primed = FALSE
    /\ acks = [a \in Alerts |-> Nobody]
    /\ posting = {} /\ late = {} /\ lagged = {} /\ pairs = {}
    /\ sent = [a \in Alerts |-> 0]
    /\ fired = [a \in Alerts |-> 0]
    /\ leftover = [a \in Alerts |-> FALSE]
    /\ changes = 0 /\ ackings = 0 /\ faults = 0

PassMoves == PassReads \/ PassWorks \/ (\E a \in Alerts : PassSends(a))
             \/ PassPublishes \/ PassReplaces

AlertNext ==
    \/ \E a \in Alerts : \/ \E l \in Levels : DeviceChanges(a, l)
                         \/ PluginReports(a) \/ Ignore(a) \/ TurnOff(a)
                         \/ \E p \in People : Acknowledge(a, p)
    \/ MinutePasses
    \/ PassBegins \/ PassTakesMail \/ PassGivesUp \/ PassMoves
    \/ \E m \in posting : AnnounceAck(m)
    \/ FireAlertsActiveFor
    \/ AlertRestart

(* The engine ticks every 30 seconds and takes in what the bus holds, a     *)
(* handler runs on, the scheduler polls, and time passes.                   *)
AlertFairness ==
    /\ WF_alertVars(PassBegins) /\ SF_alertVars(PassTakesMail)
    /\ WF_alertVars(PassMoves)
    /\ WF_alertVars(\E m \in posting : AnnounceAck(m))
    /\ WF_alertVars(FireAlertsActiveFor)
    /\ SF_alertVars(MinutePasses)

AlertSpec == AlertInit /\ [][AlertNext]_alertVars /\ AlertFairness

-----------------------------------------------------------------------------
(* Properties.                                                              *)

(* What a pass reads of the store.                                          *)
Views == [house : [Alerts -> [level : Levels, age : Ages]], rules : BOOLEAN,
          off : SUBSET Alerts, ignored : SUBSET Alerts]

(* Every variable has its type: ages stay within Cap, the mail within its   *)
(* room, and a pass has alerts to send only while it sends.                 *)
AlertTypeOK ==
    /\ sort \in [Alerts -> Sorts]
    /\ house \in [Alerts -> [level : Levels, age : Ages]]
    /\ mail \in Seq([alert : Alerts, on : BOOLEAN]) /\ Len(mail) <= MailRoom
    /\ ignored \subseteq Alerts /\ off \subseteq Alerts
    /\ memory \in [Alerts -> Ages \cup {Unseen}]
    /\ pass \in {"waiting", "reading", "working", "sending", "replacing"}
    /\ view \in Views
    /\ active \in [Alerts -> Shown]
    /\ before \in [Alerts -> Shown] /\ after \in [Alerts -> Shown]
    /\ acks \in [Alerts -> People \cup {Nobody}]
    /\ posting \subseteq [alert : Alerts, ack : People \cup {Nobody}]
    /\ announced \in [Alerts -> People \cup {Nobody, NoAlert}]
    /\ toSend \subseteq Having(after) /\ pairs \subseteq Alerts
    /\ toSend # {} => pass = "sending"
    /\ sent \in [Alerts -> Nat] /\ fired \in [Alerts -> Nat]

(* An alert is sent to a channel, and fires an AlertActiveFor rule, at most *)
(* once while it lasts, however many passes and ticks come between: `run`   *)
(* sends what was not active before, and the scheduler keeps the pair.      *)
OncePerAlert == \A a \in Alerts : sent[a] <= 1 /\ fired[a] <= 1

(* Between passes the acknowledgements kept and the ones shown are the      *)
(* same, and none outlives its alert ("kept here, for as long as its alert  *)
(* lasts"), unless the acknowledgement came after the pass under way had    *)
(* looked at them.                                                          *)
AcksAgree ==
    pass = "waiting" =>
        \A a \in Alerts \ late :
            acks[a] = IF a \in Listed THEN active[a].ack ELSE Nobody

(* An acknowledgement that a pass has overwritten comes back: what is kept  *)
(* in acks is shown some day, or the alert is over.                         *)
AcksShown ==
    \A a \in Alerts :
        acks[a] # Nobody ~> (a \notin Listed \/ active[a].ack # Nobody)

Lasting(a) == a \in Listed /\ active[a].lasted >= ActiveMins

(* An alert that lasts long enough fires the rule, unless the scheduler     *)
(* still holds the pair of an earlier alert of that id: one that cleared    *)
(* and was raised again between two of its ticks.                           *)
LongAlertFires ==
    \A a \in Alerts :
        Lasting(a) ~> (fired[a] = 1 \/ leftover[a] \/ a \notin Listed)

Wanted(a) ==
    /\ house[a].level = "on" /\ a \notin ignored \cup off
    /\ a \notin lagged

Unwanted(a) ==
    \/ a \in ignored \cup off
    \/ house[a].level = "clear" /\ a \notin lagged

(* Once the house is quiet, the list of alerts is what its state calls for, *)
(* whatever was missed, failed or restarted before ("a missed event or a    *)
(* restart can't leave a stale alert behind"); plugin reports that the bus  *)
(* has forgotten are the exception, as nothing else tells them.             *)
ListConverges ==
    <>[](\A a \in Alerts : /\ Wanted(a) => a \in Listed
                           /\ Unwanted(a) => a \notin Listed)

(* Every alert in the list has been announced to those who only follow the  *)
(* events, so AlertRaised is not lost between the passes.                   *)
ListedIsAnnounced == <>[](\A a \in Listed : announced[a] # NoAlert)

=============================================================================
