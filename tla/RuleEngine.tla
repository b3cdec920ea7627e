----------------------------- MODULE RuleEngine -----------------------------
(***************************************************************************)
(* The rule engine of crates/hc-core/src/engine.rs: one event loop that     *)
(* fires the rules an event matched, one at a time, and the tasks it spawns *)
(* for their runs.  Firing looks at the pause and cooldown state, the       *)
(* gates, the run mode and the conditions, in that order, and waits between *)
(* them, so runs in flight move on meanwhile; so does the hot reload of     *)
(* rule_loader.rs, which replaces the rule list and then purges the state   *)
(* kept for rules that are gone.                                            *)
(*                                                                         *)
(* The counters of a rule's runs live in a RuleRuns cell that the firing    *)
(* and the runs share.  Purging takes the cell out of the map, never out of *)
(* the hands of the runs that hold it.                                      *)
(***************************************************************************)
EXTENDS Executor

CONSTANTS
    RunMode,        \* the run mode of each rule
    MaxQueue,       \* max_queue of each rule; read when its mode is "queued"
    CooldownSecs,   \* cooldown_secs of each rule, 0 for none
    CancelOnFalse,  \* the rules with cancel_on_false
    StopsTheChain,  \* the rules with an enabled StopRuleChain action
    Rank,           \* the place of each rule in the list (priority order)
    RingSize,       \* HISTORY_RING_SIZE
    Removable,      \* bound: the rules that reloads take out and put back
    MaxCells,       \* bound: the number of RuleRuns cells ever made
    MaxTime         \* bound: the clock, in seconds

Modes == {"parallel", "single", "restart", "queued"}
Cells == 1..MaxCells
None  == 0            \* no cell, no run
Never == MaxTime + 1  \* not in cooldown_map

ASSUME EngineAssumption ==
    /\ RunMode \in [Rules -> Modes]
    /\ MaxQueue \in [Rules -> Nat]
    /\ CooldownSecs \in [Rules -> Nat]
    /\ CancelOnFalse \subseteq Rules
    /\ StopsTheChain \subseteq Rules
    /\ Rank \in [Rules -> Nat]
    /\ \A q, r \in Rules : Rank[q] = Rank[r] => q = r
    /\ RingSize \in Nat \ {0}
    /\ Removable \subseteq Rules
    /\ MaxCells \in Nat
    /\ MaxTime \in Nat

VARIABLES
    now,        \* seconds
    loop,       \* what the event loop is doing
    batch,      \* the rules of the event in hand still to be fired
    kind,       \* the Run that is asked of them
    firingCell, \* the RuleRuns cell that the firing in hand holds
    purgeDue,   \* a reload has replaced the rules and not yet purged
    lastFire,   \* cooldown_map
    cellOf,     \* rule_in_flight: the cell of each rule, or None
    nCells,     \* the number of cells made
    count,      \* RuleRuns.count
    latest,     \* RuleRuns.latest: the run whose stop flag it holds
    turn,       \* RuleRuns.queue: the run that holds the permit
    waiters,    \* the runs waiting for it, first come first
    nRuns,      \* the number of runs spawned
    run,        \* what each run is a run of
    inFlight,   \* in_flight
    history,    \* fire_history
    dropped     \* history variable: the rules that a purge has dropped

loopVars  == <<loop, batch, kind, firingCell>>
cellVars  == <<cellOf, nCells, count, latest, turn, waiters>>
runVars   == <<nRuns, run, inFlight>>
ruleVars  == <<loaded, purgeDue, lastFire, history, dropped>>
vars == <<execVars, loopVars, cellVars, runVars, ruleVars, now>>

Kinds == {"event", "checked", "unchecked"}  \* Run::Event, Run::Asked{checks}
Outcomes == {"Fired", "NotFired"}           \* FireOutcome, the reason left out
LoopStates == {"fire", "gates", "mode", "conditions", "drain",
               "stopped", "forced"}

Counted == RunStates \ {"none", "uncounted", "closing", "finished"}
Flying  == Counted \cup {"uncounted"}
CountedIn(c) == {i \in Runs : run[i].cell = c /\ st[i] \in Counted}
Idle == loop = "fire" /\ batch = {}

(* The rule being fired: the first of the batch in the list's order.        *)
FirstOf(S) == CHOOSE r \in S : \A q \in S : Rank[r] <= Rank[q]
Firing == FirstOf(batch)

(* Mutant: the ring is cut after it has grown one too far.                  *)
PushLate(r, outcome) ==
    history' = [history EXCEPT ![r] =
        Append(IF Len(@) > RingSize THEN Tail(@) ELSE @, outcome)]

(* push_history: a ring of RingSize outcomes.                               *)
Push(r, outcome) ==
    history' = [history EXCEPT ![r] =
        Append(IF Len(@) >= RingSize THEN Tail(@) ELSE @, outcome)]

-----------------------------------------------------------------------------
(* The event loop.                                                          *)

(* An event may match any of the rules in the list: triggers are data.      *)
MayMatch(S) == S # {} /\ S \subseteq loaded

HandleEvent(S) ==
    /\ Idle
    /\ MayMatch(S)
    /\ nRuns + Cardinality(S) <= MaxRuns
    /\ batch' = S
    /\ kind' = "event"
    /\ UNCHANGED <<execVars, loop, firingCell, cellVars, runVars, ruleVars, now>>

(* POST /automations/{id}/run, with or without the rule's checks.           *)
HandleManualRun(r, k) ==
    /\ Idle
    /\ r \in loaded
    /\ k \in {"checked", "unchecked"}
    /\ nRuns < MaxRuns
    /\ batch' = {r}
    /\ kind' = k
    /\ UNCHANGED <<execVars, loop, firingCell, cellVars, runVars, ruleVars, now>>

(* fire returns Ok(false) with one line of history.                         *)
NotFired ==
    /\ Push(Firing, "NotFired")
    /\ loop' = "fire"
    /\ batch' = batch \ {Firing}
    /\ firingCell' = None
    /\ kind' = IF batch' = {} THEN "event" ELSE kind

(* Mutant: the cooldown ends a second early.                                *)
InCooldownShort(r) ==
    /\ CooldownSecs[r] > 0
    /\ lastFire[r] # Never
    /\ now - lastFire[r] + 1 < CooldownSecs[r]

InCooldown(r) ==
    /\ CooldownSecs[r] > 0
    /\ lastFire[r] # Never
    /\ now - lastFire[r] < CooldownSecs[r]

FirePaused ==
    /\ loop = "fire" /\ batch # {}
    /\ kind = "event" /\ Firing \in paused
    /\ NotFired
    /\ UNCHANGED <<execVars, cellVars, runVars, now,
                   loaded, purgeDue, lastFire, dropped>>

FireCooldown ==
    /\ loop = "fire" /\ batch # {}
    /\ kind = "event" /\ Firing \notin paused /\ InCooldown(Firing)
    /\ NotFired
    /\ UNCHANGED <<execVars, cellVars, runVars, now,
                   loaded, purgeDue, lastFire, dropped>>

FireBegins ==
    /\ loop = "fire" /\ batch # {}
    /\ kind = "event" => Firing \notin paused /\ ~ InCooldown(Firing)
    /\ loop' = IF kind = "unchecked" THEN "mode" ELSE "gates"
    /\ UNCHANGED <<execVars, batch, kind, firingCell, cellVars, runVars,
                   ruleVars, now>>

(* required_expression is false; its delays are cancelled if it says so.    *)
RequiredExpressionFails ==
    /\ loop = "gates"
    /\ IF Firing \in CancelOnFalse THEN Cancel(OfRule(Firing))
                                   ELSE UNCHANGED <<registry, cut>>
    /\ NotFired
    /\ UNCHANGED <<st, frames, exitFlag, branches, joined, paused, cellVars,
                   runVars, now, loaded, purgeDue, lastFire, dropped>>

TriggerGateFails ==
    /\ loop = "gates"
    /\ NotFired
    /\ UNCHANGED <<execVars, cellVars, runVars, now,
                   loaded, purgeDue, lastFire, dropped>>

GatesPass ==
    /\ loop = "gates"
    /\ loop' = "mode"
    /\ UNCHANGED <<execVars, batch, kind, firingCell, cellVars, runVars,
                   ruleVars, now>>

(* A script that does not compile or run: the error leaves handle_event, so *)
(* the rules behind this one are not fired for this event.                  *)
FireErrors ==
    /\ loop \in {"gates", "conditions"}
    /\ kind # "unchecked"
    /\ loop' = "fire"
    /\ batch' = {}
    /\ firingCell' = None
    /\ kind' = "event"
    /\ UNCHANGED <<execVars, cellVars, runVars, ruleVars, now>>

(* The cell the firing takes: the rule's, or a new one.                     *)
Cell == IF cellOf[Firing] = None THEN nCells + 1 ELSE cellOf[Firing]
TakeCell ==
    /\ Cell \in Cells
    /\ cellOf' = [cellOf EXCEPT ![Firing] = Cell]
    /\ nCells' = IF cellOf[Firing] = None THEN nCells + 1 ELSE nCells
    /\ UNCHANGED <<count, latest, turn, waiters>>

(* Mutant: both limits are off by one.                                      *)
FullOffByOne(r, c) ==
    \/ RunMode[r] = "single" /\ count[c] > 1
    \/ RunMode[r] = "queued" /\ count[c] > MaxQueue[r]

Full(r, c) ==
    \/ RunMode[r] = "single" /\ count[c] > 0
    \/ RunMode[r] = "queued" /\ count[c] >= MaxQueue[r]

ModeSkips ==
    /\ loop = "mode"
    /\ TakeCell
    /\ Full(Firing, Cell)
    /\ NotFired
    /\ UNCHANGED <<execVars, runVars, now, loaded, purgeDue, lastFire, dropped>>

(* Mutant: Restart cuts the delays and raises no flag.                      *)
ModeAllowsUnstopped ==
    /\ loop = "mode"
    /\ TakeCell
    /\ ~ Full(Firing, Cell)
    /\ IF RunMode[Firing] = "restart"
         THEN Cancel(OfRule(Firing))
         ELSE UNCHANGED <<registry, cut>>
    /\ loop' = "conditions"
    /\ firingCell' = Cell
    /\ UNCHANGED <<st, frames, exitFlag, branches, joined, paused, batch, kind,
                   runVars, ruleVars, now>>

(* Restart raises the flag of the newest run and cuts the rule's delays.    *)
ModeAllows ==
    /\ loop = "mode"
    /\ TakeCell
    /\ ~ Full(Firing, Cell)
    /\ IF RunMode[Firing] = "restart"
         THEN /\ exitFlag' = [i \in Runs |->
                                 exitFlag[i] \/ i = latest[Cell]]
              /\ Cancel(OfRule(Firing))
         ELSE UNCHANGED <<exitFlag, registry, cut>>
    /\ loop' = "conditions"
    /\ firingCell' = Cell
    /\ UNCHANGED <<st, frames, branches, joined, paused, batch, kind, runVars,
                   ruleVars, now>>

ConditionsFail ==
    /\ loop = "conditions"
    /\ kind # "unchecked"
    /\ NotFired
    /\ UNCHANGED <<execVars, cellVars, runVars, now,
                   loaded, purgeDue, lastFire, dropped>>

(* The rule fires: its run is spawned, with a stop flag that is down.       *)
Fires ==
    /\ loop = "conditions"
    /\ nRuns < MaxRuns
    /\ LET r == Firing
           c == firingCell
           i == nRuns + 1 IN
         /\ lastFire' = IF CooldownSecs[r] > 0
                          THEN [lastFire EXCEPT ![r] = now] ELSE lastFire
         /\ latest' = [latest EXCEPT ![c] = i]
         /\ count' = [count EXCEPT ![c] = @ + 1]
         /\ run' = [run EXCEPT ![i] =
                       [rule |-> r, cell |-> c, kind |-> kind, at |-> now]]
         /\ st' = [st EXCEPT ![i] =
                      IF RunMode[r] = "queued" THEN "spawned" ELSE "ready"]
         /\ frames' = [frames EXCEPT ![i] =
                <<[rule |-> r, rest |-> Actions[r], flag |-> FALSE]>>]
         /\ batch' = IF r \in StopsTheChain THEN {} ELSE batch \ {r}
    /\ nRuns' = nRuns + 1
    /\ inFlight' = inFlight + 1
    /\ loop' = "fire"
    /\ firingCell' = None
    /\ kind' = IF batch' = {} THEN "event" ELSE kind
    /\ UNCHANGED <<exitFlag, branches, joined, registry, cut, paused,
                   cellOf, nCells, turn, waiters, loaded, purgeDue, history,
                   dropped, now>>

-----------------------------------------------------------------------------
(* The spawned task around the run's actions.                               *)

(* A queued run asks for the turn when its task is first polled.            *)
AskTurn(i) ==
    /\ st[i] = "spawned"
    /\ waiters' = [waiters EXCEPT ![run[i].cell] = Append(@, i)]
    /\ st' = [st EXCEPT ![i] = "queued"]
    /\ UNCHANGED <<frames, exitFlag, branches, joined, registry, cut, paused,
                   cellOf, nCells, count, latest, turn, loopVars, runVars,
                   ruleVars, now>>

(* Mutant: the head of the queue does not wait for the permit.              *)
TakeTurnAtOnce(i) ==
    LET c == run[i].cell IN
    /\ st[i] = "queued"
    /\ waiters[c] # <<>> /\ Head(waiters[c]) = i
    /\ turn' = [turn EXCEPT ![c] = i]
    /\ waiters' = [waiters EXCEPT ![c] = Tail(@)]
    /\ st' = [st EXCEPT ![i] = "ready"]
    /\ UNCHANGED <<frames, exitFlag, branches, joined, registry, cut, paused,
                   cellOf, nCells, count, latest, loopVars, runVars, ruleVars,
                   now>>

TakeTurn(i) ==
    LET c == run[i].cell IN
    /\ st[i] = "queued"
    /\ turn[c] = None
    /\ waiters[c] # <<>> /\ Head(waiters[c]) = i
    /\ turn' = [turn EXCEPT ![c] = i]
    /\ waiters' = [waiters EXCEPT ![c] = Tail(@)]
    /\ st' = [st EXCEPT ![i] = "ready"]
    /\ UNCHANGED <<frames, exitFlag, branches, joined, registry, cut, paused,
                   cellOf, nCells, count, latest, loopVars, runVars, ruleVars,
                   now>>

(* A step of the executor.                                                  *)
Execute(step) ==
    /\ step
    /\ UNCHANGED <<loopVars, cellVars, runVars, ruleVars, now>>

(* The epilogue, in its order: the history, RuleFired and the row for the   *)
(* database; the rule's counter; the engine's counter; the turn.            *)
Record(i) ==
    /\ st[i] = "ended"
    /\ Push(run[i].rule, "Fired")
    /\ st' = [st EXCEPT ![i] = "recorded"]
    /\ UNCHANGED <<frames, exitFlag, branches, joined, registry, cut, paused,
                   loopVars, cellVars, runVars, loaded, purgeDue, lastFire,
                   dropped, now>>

Uncount(i) ==
    /\ st[i] = "recorded"
    /\ count' = [count EXCEPT ![run[i].cell] = @ - 1]
    /\ st' = [st EXCEPT ![i] = "uncounted"]
    /\ UNCHANGED <<frames, exitFlag, branches, joined, registry, cut, paused,
                   cellOf, nCells, latest, turn, waiters, loopVars, runVars,
                   ruleVars, now>>

Land(i) ==
    /\ st[i] = "uncounted"
    /\ inFlight' = inFlight - 1
    /\ st' = [st EXCEPT ![i] = "closing"]
    /\ UNCHANGED <<frames, exitFlag, branches, joined, registry, cut, paused,
                   cellVars, loopVars, nRuns, run, ruleVars, now>>

(* Mutant: the permit is not given back.                                    *)
CloseKeepingTurn(i) ==
    /\ st[i] = "closing"
    /\ st' = [st EXCEPT ![i] = "finished"]
    /\ UNCHANGED <<frames, exitFlag, branches, joined, registry, cut, paused,
                   cellVars, loopVars, runVars, ruleVars, now>>

Close(i) ==
    LET c == run[i].cell IN
    /\ st[i] = "closing"
    /\ turn' = IF turn[c] = i THEN [turn EXCEPT ![c] = None] ELSE turn
    /\ st' = [st EXCEPT ![i] = "finished"]
    /\ UNCHANGED <<frames, exitFlag, branches, joined, registry, cut, paused,
                   cellOf, nCells, count, latest, waiters, loopVars, runVars,
                   ruleVars, now>>

-----------------------------------------------------------------------------
(* Hot reload, shutdown, time.                                              *)

(* The watcher, or the API, puts another list in rules_handle.              *)
SwapRules(S) ==
    /\ Rules \ S \subseteq Removable
    /\ S # loaded
    /\ loaded' = S
    /\ purgeDue' = TRUE
    /\ UNCHANGED <<execVars, loopVars, cellVars, runVars, lastFire, history,
                   dropped, now>>

(* purge_callback: only the state of the rules still listed is kept.        *)
Purge ==
    /\ purgeDue
    /\ nCells + Cardinality({r \in Rules : r \notin loaded \/ cellOf[r] = None})
          <= MaxCells
    /\ purgeDue' = FALSE
    /\ lastFire' = [r \in Rules |-> IF r \in loaded THEN lastFire[r] ELSE Never]
    /\ paused' = paused \cap loaded
    /\ cellOf' = [r \in Rules |-> IF r \in loaded THEN cellOf[r] ELSE None]
    /\ history' = [r \in Rules |-> IF r \in loaded THEN history[r] ELSE <<>>]
    /\ dropped' = dropped \cup (Rules \ loaded)
    /\ UNCHANGED <<st, frames, exitFlag, branches, joined, registry, cut,
                   nCells, count, latest, turn, waiters, loopVars, runVars,
                   loaded, now>>

Shutdown ==
    /\ Idle
    /\ loop' = "drain"
    /\ UNCHANGED <<execVars, batch, kind, firingCell, cellVars, runVars,
                   ruleVars, now>>

(* Mutant: the deadline passes for a drain that is complete.                *)
DrainedAnyway ==
    /\ loop = "drain"
    /\ loop' = "stopped"
    /\ UNCHANGED <<execVars, batch, kind, firingCell, cellVars, runVars,
                   ruleVars, now>>

(* The drain ends when nothing is in flight, or at its deadline.            *)
Drained ==
    /\ loop = "drain"
    /\ loop' = IF inFlight = 0 THEN "stopped" ELSE "forced"
    /\ UNCHANGED <<execVars, batch, kind, firingCell, cellVars, runVars,
                   ruleVars, now>>

Tick ==
    /\ now < MaxTime
    /\ now' = now + 1
    /\ UNCHANGED <<execVars, loopVars, cellVars, runVars, ruleVars>>

-----------------------------------------------------------------------------
Init ==
    /\ ExecInit
    /\ loaded = Rules
    /\ now = 0
    /\ loop = "fire"
    /\ batch = {}
    /\ kind = "event"
    /\ firingCell = None
    /\ purgeDue = FALSE
    /\ lastFire = [r \in Rules |-> Never]
    /\ cellOf = [r \in Rules |-> None]
    /\ nCells = 0
    /\ count = [c \in Cells |-> 0]
    /\ latest = [c \in Cells |-> None]
    /\ turn = [c \in Cells |-> None]
    /\ waiters = [c \in Cells |-> <<>>]
    /\ nRuns = 0
    /\ run = [i \in Runs |-> [rule |-> None, cell |-> None, kind |-> "event", at |-> 0]]
    /\ inFlight = 0
    /\ history = [r \in Rules |-> <<>>]
    /\ dropped = {}

Fire ==
    \/ FirePaused \/ FireCooldown \/ FireBegins
    \/ RequiredExpressionFails \/ TriggerGateFails \/ GatesPass \/ FireErrors
    \/ ModeSkips \/ ModeAllows
    \/ ConditionsFail \/ Fires

(* What the task of run i does by itself.                                   *)
RunTask(i) ==
    \/ AskTurn(i) \/ TakeTurn(i) \/ Execute(RunStep(i))
    \/ Record(i) \/ Uncount(i) \/ Land(i) \/ Close(i)

Next ==
    \/ \E S \in SUBSET Rules : HandleEvent(S)
    \/ \E r \in Rules, k \in Kinds : HandleManualRun(r, k)
    \/ Fire
    \/ \E i \in Runs :
          RunTask(i) \/ Execute(BranchStep(i)) \/ Execute(EventComes(i))
    \/ \E S \in SUBSET Rules : SwapRules(S)
    \/ Purge
    \/ Shutdown \/ Drained
    \/ Tick

Spec == Init /\ [][Next]_vars

(* The runtime polls every task that can move; it owes nothing to the event *)
(* that a WaitForEvent waits for.                                           *)
FairSpec ==
    /\ Spec
    /\ \A i \in Runs : WF_vars(RunTask(i)) /\ WF_vars(Execute(BranchStep(i)))

-----------------------------------------------------------------------------
(* Properties.                                                              *)

RunRecord == [rule : Rules \cup {None}, cell : Cells \cup {None},
              kind : Kinds, at : Nat]

(* Every variable has its type; the fire history is a ring of RingSize.     *)
TypeOK ==
    /\ loaded \subseteq Rules
    /\ paused \subseteq Rules
    /\ st \in [Runs -> RunStates]
    /\ frames \in [Runs -> Seq(Frame)]
    /\ exitFlag \in [Runs -> BOOLEAN]
    /\ branches \in [Runs -> Seq(Branch)]
    /\ joined \in [Runs -> Nat]
    /\ registry \subseteq Entry
    /\ cut \subseteq Waiter
    /\ now \in Nat
    /\ loop \in LoopStates
    /\ batch \subseteq Rules
    /\ kind \in Kinds
    /\ firingCell \in Cells \cup {None}
    /\ purgeDue \in BOOLEAN
    /\ lastFire \in [Rules -> Nat]
    /\ cellOf \in [Rules -> Cells \cup {None}]
    /\ nCells \in Cells \cup {None}
    /\ count \in [Cells -> Nat]
    /\ latest \in [Cells -> Runs \cup {None}]
    /\ turn \in [Cells -> Runs \cup {None}]
    /\ waiters \in [Cells -> Seq(Runs)]
    /\ nRuns \in Runs \cup {None}
    /\ run \in [Runs -> RunRecord]
    /\ inFlight \in Nat
    /\ history \in [Rules -> Seq(Outcomes)]
    /\ \A r \in Rules : Len(history[r]) <= RingSize
    /\ dropped \subseteq Rules

(* The counters that Single, Queued and the shutdown drain decide by are    *)
(* exact in every state: RuleRuns.count is the number of runs that hold the *)
(* cell and have not released it, in_flight the number of runs in flight,   *)
(* whether runs end, exit or fail.                                          *)
CountsExact ==
    /\ \A c \in Cells : count[c] = Cardinality(CountedIn(c))
    /\ inFlight = Cardinality({i \in Runs : st[i] \in Flying})

(* Single: a rule that no reload has dropped never has two runs at once,    *)
(* whatever events and manual runs come.                                    *)
SingleAlone ==
    \A i, j \in Runs :
        /\ st[i] \in Counted /\ st[j] \in Counted
        /\ run[i].rule = run[j].rule
        /\ RunMode[run[i].rule] = "single"
        /\ run[i].rule \notin dropped
        => i = j

(* Queued: no more than max_queue runs of a cell wait or run.               *)
QueueBounded ==
    \A i \in Runs :
        st[i] \in Counted /\ RunMode[run[i].rule] = "queued"
            => Cardinality(CountedIn(run[i].cell)) <= MaxQueue[run[i].rule]

(* Queued: two runs of a cell never execute actions at the same time; the   *)
(* one past its queue holds the turn.                                       *)
QueueOneAtATime ==
    \A i, j \in Runs :
        /\ st[i] \in Executing /\ st[j] \in Executing
        /\ run[i].cell = run[j].cell
        /\ RunMode[run[i].rule] = "queued"
        => i = j

(* Restart: of the runs of a cell only the newest has its stop flag down,   *)
(* however firings, failing conditions and finishing runs interleave.       *)
RestartSupersedes ==
    \A i, j \in Runs :
        /\ st[i] \in Counted /\ st[j] \in Counted
        /\ run[i].cell = run[j].cell
        /\ RunMode[run[i].rule] = "restart"
        /\ i < j
        => exitFlag[i]

(* cooldown_secs: a firing that an event started comes no sooner than the   *)
(* cooldown after the last start of the same rule, manual ones included,    *)
(* unless a reload has dropped the rule in between.                         *)
CooldownKept ==
    \A i, j \in 1..nRuns :
        /\ i < j
        /\ run[i].rule = run[j].rule
        /\ run[j].kind = "event"
        /\ run[j].rule \notin dropped
        => run[j].at - run[i].at >= CooldownSecs[run[j].rule]

(* Where a waiter is, and the key it waits under.                           *)
InDelay(w) ==
    \/ w[2] = Main /\ st[w[1]] = "delay"
    \/ w[2] \in DOMAIN branches[w[1]] /\ branches[w[1]][w[2]].at = "delay"
DelayKey(w) ==
    IF w[2] = Main THEN Step(w[1]).key ELSE branches[w[1]][w[2]].step.key
DelayRule(w) ==
    IF w[2] = Main THEN Top(w[1]).rule ELSE branches[w[1]][w[2]].rule

(* The delay registry is exact.  It holds no entry of a delay that is over, *)
(* "the entry is removed regardless of how the delay exits", and no two     *)
(* under one key; and a cancelable delay with no key of its own can be      *)
(* interrupted until it has been: it is registered or it has been           *)
(* signalled, never neither.                                                *)
RegistryExact ==
    /\ \A e \in registry :
          InDelay(e.waiter) /\ e.key = DelayKey(e.waiter)
                           /\ e.rule = DelayRule(e.waiter)
    /\ \A w \in cut : InDelay(w)
    /\ \A e, f \in registry :
          e.rule = f.rule /\ e.key = f.key /\ e.key # AutoKey => e = f
    /\ \A i \in Runs :
          st[i] = "delay" /\ Step(i).key = AutoKey =>
             \/ <<i, Main>> \in cut
             \/ \E e \in registry : e.waiter = <<i, Main>>

(* A drain that was not forced leaves no run that still has history to      *)
(* write, and so none that is still doing its actions.                      *)
DrainedClean ==
    loop = "stopped" =>
        \A i \in Runs : st[i] \in {"none", "closing", "finished"}

(* The run modes as a caller sees them: a run is waiting until it has the   *)
(* turn, and over once it is off the rule's counter.                        *)
PhaseOf(s) ==
    CASE s = "none"                             -> "none"
      [] s \in {"spawned", "queued"}            -> "waiting"
      [] s \in Counted \ {"spawned", "queued"}  -> "active"
      [] OTHER                                  -> "over"

Promise == INSTANCE RunModes WITH
    phase   <- [i \in Runs |-> PhaseOf(st[i])],
    rule    <- [i \in Runs |-> run[i].rule],
    cell    <- [i \in Runs |-> run[i].cell],
    stopped <- {i \in Runs : exitFlag[i]}

(* The engine keeps what the run modes promise, through conditions that are *)
(* awaited, runs that end meanwhile, manual runs and reloads.               *)
KeepsRunModes == Promise!ModesSpec

(* Every run that is spawned is over some day, one that queues included:    *)
(* no stop, cut, error or missed turn strands it.                           *)
RunsFinish ==
    \A i \in Runs : st[i] # "none" ~> st[i] = "finished"
=============================================================================
