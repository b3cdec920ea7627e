------------------------------ MODULE Executor ------------------------------
(***************************************************************************)
(* How a rule's actions are carried out: the step loop of                   *)
(* crates/hc-core/src/executor.rs, for the runs that the rule engine        *)
(* (module RuleEngine) spawns.                                              *)
(*                                                                         *)
(* A run is one spawned task.  It walks the action list of its rule, one    *)
(* step at a time, looking at its stop flag before each step.               *)
(* RunRuleActions pushes the list of another rule, with a stop flag of its  *)
(* own; Parallel spawns one task per branch and joins them in order; a      *)
(* cancelable delay waits with an entry in the delay registry, which is     *)
(* shared by all runs of all rules.                                         *)
(***************************************************************************)
EXTENDS Naturals, Sequences, FiniteSets

CONSTANTS
    Rules,          \* the rule identifiers
    Actions,        \* the action list of each rule, as a sequence of Steps
    Keys,           \* the cancel_key labels used by the action lists
    MaxCallDepth,   \* MAX_CALL_DEPTH
    MaxRuns         \* bound: the number of runs in a behaviour

Runs == 1..MaxRuns

AutoKey == "auto"     \* a Delay with no cancel_key: its key is unique to it

(* The actions that change what this module keeps; every other action of a  *)
(* rule (a device command, a notification, a script) is an "act", which may *)
(* succeed or fail.                                                         *)
LeafSteps ==
         [op : {"act", "exit", "hold", "wait", "cancelAll"}]
    \cup [op : {"delay"}, key : Keys \cup {AutoKey}]
    \cup [op : {"cancelKey"}, key : Keys]
    \cup [op : {"pause", "resume", "cancelRule"}, rule : Rules]
PlainSteps ==
         LeafSteps
    \cup [op : {"call"}, rule : Rules]
    \cup [op : {"parallel"}, branches : Seq(LeafSteps)]

(* A step with a list inside: RepeatUntil, RepeatWhile, RepeatCount and     *)
(* ForEachAlert walk it up to times times, Conditional at most once.        *)
Steps ==
         PlainSteps
    \cup [op : {"block"}, body : Seq(PlainSteps), times : Nat]

ASSUME ExecutorAssumption ==
    /\ MaxRuns \in Nat
    /\ MaxCallDepth \in Nat
    /\ AutoKey \notin Keys
    /\ Actions \in [Rules -> Seq(Steps)]

VARIABLES
    loaded,     \* the rules of rules_handle
    paused,     \* pause_state: the rules PauseRule has paused
    st,         \* where each run is
    frames,     \* the action lists a run is walking, innermost first
    exitFlag,   \* the stop flag of each run's own action list
    branches,   \* the tasks of a run's Parallel step
    joined,     \* how many of those the run has joined
    registry,   \* delay_registry
    cut         \* the waiting delays whose Notify has been signalled

execVars == <<st, frames, exitFlag, branches, joined, registry, cut, paused>>

(* "none": not spawned yet; "spawned" and "queued": before its first step;  *)
(* "ready": about to look at its stop flag; "acting": inside the step at    *)
(* the head of its innermost list; "delay", "hold", "wait", "join": waiting *)
(* inside that step; "ended" and later: the list is over and the engine's   *)
(* epilogue runs.                                                           *)
RunStates == {"none", "spawned", "queued", "ready", "acting", "delay",
              "hold", "wait", "join", "ended", "recorded", "uncounted",
              "closing", "finished"}
Executing == {"ready", "acting", "delay", "hold", "wait", "join"}
BranchStates == {"acting", "delay", "hold", "wait", "ok", "err"}

Frame  == [rule : Rules, rest : Seq(Steps), flag : BOOLEAN]
Branch == [rule : Rules, step : LeafSteps, at : BranchStates]
Main   == 0
Waiter == Runs \X Nat     \* a run's own task (Main) or one of its branches
Entry  == [rule : Rules, key : Keys \cup {AutoKey}, waiter : Waiter]

-----------------------------------------------------------------------------
Top(i)  == Head(frames[i])
Step(i) == Head(Top(i).rest)

(* The stop flag the step loop looks at: the run's own, or the one that     *)
(* RunRuleActions made for the list being run.                              *)
Flagged(i) == IF Len(frames[i]) = 1 THEN exitFlag[i] ELSE Top(i).flag

(* The innermost list is now f; without its head.                           *)
WithTop(i, f) == [frames EXCEPT ![i] = <<f>> \o Tail(@)]
NextTop(i)    == [Top(i) EXCEPT !.rest = Tail(@)]
Advanced(i)   == WithTop(i, NextTop(i))

(* ExitRule raises that flag; the innermost list is f then.                 *)
RaiseFlag(i, f) ==
    IF Len(frames[i]) = 1
      THEN /\ exitFlag' = [exitFlag EXCEPT ![i] = TRUE]
           /\ frames' = WithTop(i, f)
      ELSE /\ frames' = WithTop(i, [f EXCEPT !.flag = TRUE])
           /\ UNCHANGED exitFlag

(* What removing entries es from the registry and notifying them does.      *)
Cancel(es) ==
    /\ registry' = registry \ es
    /\ cut' = cut \cup {e.waiter : e \in es}
OfRule(r) == {e \in registry : e.rule = r}

(* The entries with the key that a delay of waiter w under (r, k) has.      *)
WithKey(r, k, w) ==
    {e \in registry : e.rule = r /\ e.key = k /\ (k = AutoKey => e.waiter = w)}

(* A cancelable delay begins: its entry replaces one with the same key.     *)
Register(r, k, w) ==
    registry' = (registry \ WithKey(r, k, w))
                    \cup {[rule |-> r, key |-> k, waiter |-> w]}

(* Mutant: the key goes only when the delay is cut short.                   *)
UnregisterWhenCut(r, k, w) ==
    /\ registry' = IF w \in cut THEN registry \ WithKey(r, k, w) ELSE registry
    /\ cut' = cut \ {w}

(* It ends, by its time or by its Notify: the key is removed.               *)
Unregister(r, k, w) ==
    /\ registry' = registry \ WithKey(r, k, w)
    /\ cut' = cut \ {w}

(* A device command, a hub variable, a mode, a scene: nothing kept here.    *)
Acts(step) == step.op = "act"

(* A wait with no entry in the registry, which no cancel reaches.           *)
Waits(step) == step.op \in {"hold", "wait"}

(* The effect of a step that takes no time, run under rule r's id.          *)
Instant(step, r) ==
    \/ /\ Acts(step)
       /\ UNCHANGED <<registry, cut, paused>>
    \/ /\ step.op = "pause"
       /\ paused' = paused \cup {step.rule}
       /\ UNCHANGED <<registry, cut>>
    \/ /\ step.op = "resume"
       /\ paused' = paused \ {step.rule}
       /\ UNCHANGED <<registry, cut>>
    \/ /\ step.op = "cancelKey"
       /\ Cancel({e \in OfRule(r) : e.key = step.key})
       /\ UNCHANGED paused
    \/ /\ step.op = "cancelAll"
       /\ Cancel(OfRule(r))
       /\ UNCHANGED paused
    \/ /\ step.op = "cancelRule"
       /\ Cancel(OfRule(step.rule))
       /\ UNCHANGED paused

-----------------------------------------------------------------------------
(* The step loop: look at the stop flag, then begin the next step.          *)
BeginStep(i) ==
    /\ st[i] = "ready"
    /\ ~ Flagged(i)
    /\ Top(i).rest # <<>>
    /\ st' = [st EXCEPT ![i] = "acting"]
    /\ UNCHANGED <<frames, exitFlag, branches, joined, registry, cut, paused>>

(* The list is over, or the flag is up: back to the calling list, or the    *)
(* run's actions are done.                                                  *)
EndList(i) ==
    /\ st[i] = "ready"
    /\ Flagged(i) \/ Top(i).rest = <<>>
    /\ IF Len(frames[i]) = 1
         THEN st' = [st EXCEPT ![i] = "ended"]
         ELSE UNCHANGED st
    /\ frames' = [frames EXCEPT ![i] = Tail(@)]
    /\ UNCHANGED <<exitFlag, branches, joined, registry, cut, paused>>

Perform(i) ==
    /\ st[i] = "acting"
    /\ Instant(Step(i), Top(i).rule)
    /\ frames' = Advanced(i)
    /\ st' = [st EXCEPT ![i] = "ready"]
    /\ UNCHANGED <<exitFlag, branches, joined>>

(* Mutant: the error leaves the task before its epilogue.                   *)
FailUncounted(i) ==
    /\ st[i] = "acting"
    /\ Acts(Step(i)) \/ Step(i).op = "block"
    /\ st' = [st EXCEPT ![i] = "closing"]
    /\ frames' = [frames EXCEPT ![i] = <<>>]
    /\ UNCHANGED <<exitFlag, branches, joined, registry, cut, paused>>

(* An action that fails, or the condition of a loop or a Conditional, ends  *)
(* the whole run, nested lists included.                                    *)
Fail(i) ==
    /\ st[i] = "acting"
    /\ Acts(Step(i)) \/ Step(i).op = "block"
    /\ st' = [st EXCEPT ![i] = "ended"]
    /\ frames' = [frames EXCEPT ![i] = <<>>]
    /\ UNCHANGED <<exitFlag, branches, joined, registry, cut, paused>>

ExitRule(i) ==
    /\ st[i] = "acting"
    /\ Step(i).op = "exit"
    /\ RaiseFlag(i, NextTop(i))
    /\ st' = [st EXCEPT ![i] = "ready"]
    /\ UNCHANGED <<branches, joined, registry, cut, paused>>

RunRuleActions(i) ==
    /\ st[i] = "acting"
    /\ Step(i).op = "call"
    /\ LET t == Step(i).rule IN
         IF Len(frames[i]) > MaxCallDepth \/ t \notin loaded
           THEN frames' = Advanced(i)
           ELSE frames' = [frames EXCEPT ![i] =
                   <<[rule |-> t, rest |-> Actions[t], flag |-> FALSE]>>
                     \o Advanced(i)[i]]
    /\ st' = [st EXCEPT ![i] = "ready"]
    /\ UNCHANGED <<exitFlag, branches, joined, registry, cut, paused>>

(* A round of a loop, or the branch of a Conditional that is selected: its  *)
(* list is walked under the same stop flag, looked at before each of its    *)
(* steps too, so the list is put in front of what is left.                  *)
BlockRound(i) ==
    /\ st[i] = "acting"
    /\ Step(i).op = "block"
    /\ Step(i).times > 0
    /\ frames' = WithTop(i, [Top(i) EXCEPT !.rest =
           Step(i).body \o <<[Step(i) EXCEPT !.times = @ - 1]>> \o Tail(@)])
    /\ st' = [st EXCEPT ![i] = "ready"]
    /\ UNCHANGED <<exitFlag, branches, joined, registry, cut, paused>>

(* The condition says so, or no rounds are left.                            *)
BlockOver(i) ==
    /\ st[i] = "acting"
    /\ Step(i).op = "block"
    /\ frames' = Advanced(i)
    /\ st' = [st EXCEPT ![i] = "ready"]
    /\ UNCHANGED <<exitFlag, branches, joined, registry, cut, paused>>

(* A delay or a wait begins.  Only a cancelable delay is registered.        *)
BeginDelay(i) ==
    /\ st[i] = "acting"
    /\ Step(i).op = "delay"
    /\ Register(Top(i).rule, Step(i).key, <<i, Main>>)
    /\ st' = [st EXCEPT ![i] = "delay"]
    /\ UNCHANGED <<frames, exitFlag, branches, joined, cut, paused>>

BeginWait(i) ==
    /\ st[i] = "acting"
    /\ Waits(Step(i))
    /\ st' = [st EXCEPT ![i] = Step(i).op]
    /\ UNCHANGED <<frames, exitFlag, branches, joined, registry, cut, paused>>

EndDelay(i) ==
    /\ st[i] = "delay"
    /\ Unregister(Top(i).rule, Step(i).key, <<i, Main>>)
    /\ frames' = Advanced(i)
    /\ st' = [st EXCEPT ![i] = "ready"]
    /\ UNCHANGED <<exitFlag, branches, joined, paused>>

(* A delay that is not cancelable has run out; an event that was waited for *)
(* has come, or its timeout.                                                *)
EndWait(i, kind) ==
    /\ kind \in {"hold", "wait"}
    /\ st[i] = kind
    /\ frames' = Advanced(i)
    /\ st' = [st EXCEPT ![i] = "ready"]
    /\ UNCHANGED <<exitFlag, branches, joined, registry, cut, paused>>

(* Parallel: every branch is a task of its own, which does its action       *)
(* without looking at the stop flag.                                        *)
BeginParallel(i) ==
    /\ st[i] = "acting"
    /\ Step(i).op = "parallel"
    /\ branches' = [branches EXCEPT ![i] =
           [b \in 1..Len(Step(i).branches) |->
               [rule |-> Top(i).rule,
                step |-> Step(i).branches[b], at |-> "acting"]]]
    /\ joined' = [joined EXCEPT ![i] = 0]
    /\ st' = [st EXCEPT ![i] = "join"]
    /\ UNCHANGED <<frames, exitFlag, registry, cut, paused>>

(* The handles are awaited in order; the first error ends the run and       *)
(* leaves the tasks of the later branches running.                          *)
Join(i) ==
    /\ st[i] = "join"
    /\ joined[i] < Len(branches[i])
    /\ branches[i][joined[i] + 1].at \in {"ok", "err"}
    /\ joined' = [joined EXCEPT ![i] = @ + 1]
    /\ IF branches[i][joined[i] + 1].at = "ok"
         THEN UNCHANGED <<st, frames>>
         ELSE /\ st' = [st EXCEPT ![i] = "ended"]
              /\ frames' = [frames EXCEPT ![i] = <<>>]
    /\ UNCHANGED <<exitFlag, branches, registry, cut, paused>>

EndParallel(i) ==
    /\ st[i] = "join"
    /\ joined[i] = Len(branches[i])
    /\ frames' = Advanced(i)
    /\ st' = [st EXCEPT ![i] = "ready"]
    /\ branches' = [branches EXCEPT ![i] = <<>>]
    /\ joined' = [joined EXCEPT ![i] = 0]
    /\ UNCHANGED <<exitFlag, registry, cut, paused>>

-----------------------------------------------------------------------------
(* The task of branch b of run i.                                           *)
MoveBranch(i, b, to) == branches' = [branches EXCEPT ![i][b].at = to]

BranchActs(i, b) ==
    /\ branches[i][b].at = "acting"
    /\ LET step == branches[i][b].step
           r    == branches[i][b].rule IN
         \/ /\ Instant(step, r)
            /\ MoveBranch(i, b, "ok")
         \/ /\ Acts(step)
            /\ MoveBranch(i, b, "err")
            /\ UNCHANGED <<registry, cut, paused>>
         \/ /\ step.op = "delay"
            /\ Register(r, step.key, <<i, b>>)
            /\ MoveBranch(i, b, "delay")
            /\ UNCHANGED <<cut, paused>>
         \/ /\ Waits(step)
            /\ MoveBranch(i, b, step.op)
            /\ UNCHANGED <<registry, cut, paused>>
    /\ UNCHANGED <<st, frames, exitFlag, joined>>

(* ExitRule in a branch: the flag is that of the list the Parallel is in.   *)
(* A branch left behind by an error raises a flag nobody reads any more.    *)
BranchExits(i, b) ==
    /\ branches[i][b].at = "acting"
    /\ branches[i][b].step.op = "exit"
    /\ IF st[i] = "join" THEN RaiseFlag(i, Top(i))
                         ELSE UNCHANGED <<frames, exitFlag>>
    /\ MoveBranch(i, b, "ok")
    /\ UNCHANGED <<st, joined, registry, cut, paused>>

BranchWaitEnds(i, b) ==
    /\ branches[i][b].at \in {"delay", "hold", "wait"}
    /\ IF branches[i][b].at = "delay"
         THEN Unregister(branches[i][b].rule, branches[i][b].step.key, <<i, b>>)
         ELSE UNCHANGED <<registry, cut>>
    /\ MoveBranch(i, b, "ok")
    /\ UNCHANGED <<st, frames, exitFlag, joined, paused>>

-----------------------------------------------------------------------------
(* The steps of run i's own task that need nobody else, those of its        *)
(* branches, and the coming of the event it waits for.                      *)
RunStep(i) ==
    \/ BeginStep(i) \/ EndList(i)
    \/ Perform(i) \/ Fail(i) \/ ExitRule(i) \/ RunRuleActions(i)
    \/ BlockRound(i) \/ BlockOver(i)
    \/ BeginDelay(i) \/ EndDelay(i)
    \/ BeginWait(i) \/ EndWait(i, "hold")
    \/ BeginParallel(i) \/ Join(i) \/ EndParallel(i)
EventComes(i) == EndWait(i, "wait")
BranchStep(i) ==
    \E b \in DOMAIN branches[i] :
        BranchActs(i, b) \/ BranchExits(i, b) \/ BranchWaitEnds(i, b)

ExecInit ==
    /\ paused = {}
    /\ st = [i \in Runs |-> "none"]
    /\ frames = [i \in Runs |-> <<>>]
    /\ exitFlag = [i \in Runs |-> FALSE]
    /\ branches = [i \in Runs |-> <<>>]
    /\ joined = [i \in Runs |-> 0]
    /\ registry = {}
    /\ cut = {}
=============================================================================
