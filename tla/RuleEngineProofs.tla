-------------------------- MODULE RuleEngineProofs --------------------------
(***************************************************************************)
(* Proofs about the rule engine, for any rules, action lists, run modes and *)
(* bounds.                                                                  *)
(***************************************************************************)
EXTENDS RuleEngine, FiniteSetTheorems, TLAPS

-----------------------------------------------------------------------------
(* A batch that is not empty has a first rule.                              *)
LEMMA FirstOfIn ==
    ASSUME NEW S, S \subseteq Rules, S # {}
    PROVE  FirstOf(S) \in S
<1> DEFINE Ranks == {Rank[r] : r \in S}
           Less  == {ss \in Nat \X Nat : ss[1] < ss[2]}
<1>1. Ranks \subseteq Nat /\ Ranks # {}
  BY EngineAssumption
<1>2. IsWellFoundedOn(Less, Nat)
  BY NatLessThanWellFounded DEF OpToRel
<1>3. \E m \in Ranks : \A n \in Ranks : m <= n
  <2>1. \E m \in Ranks : \A n \in Ranks : ~ (<<n, m>> \in Less)
    <3> HIDE DEF Ranks, Less
    <3> QED  BY <1>1, <1>2, WFMin
  <2>2. \A m, n \in Nat : ~ (<<n, m>> \in Less) => m <= n
    OBVIOUS
  <2>3. QED
    <3> HIDE DEF Ranks, Less
    <3> QED  BY <1>1, <2>1, <2>2
<1>4. \E r \in S : \A q \in S : Rank[r] <= Rank[q]
  BY <1>3
<1>5. QED
  BY <1>4 DEF FirstOf

-----------------------------------------------------------------------------
(* The inductive invariant, part by part.                                   *)

InFire == {"gates", "mode", "conditions"}   \* fire is at work on one rule

(* The event loop is at work on a rule of its batch.                        *)
LoopShape ==
    /\ batch \subseteq Rules
    /\ loop \in InFire => batch # {}
    /\ kind \in Kinds
    /\ firingCell \in 0..nCells
    /\ loop = "conditions" => firingCell # None

CellShape ==
    /\ nCells \in 0..MaxCells
    /\ cellOf \in [Rules -> 0..nCells]
    /\ count \in [Cells -> Int]
    /\ latest \in [Cells -> 0..nRuns]
    /\ turn \in [Cells -> 0..MaxRuns]

(* The runs are numbered in the order they fired, and each keeps the rule   *)
(* and the cell it was fired with.                                          *)
RunShape ==
    /\ st \in [Runs -> RunStates]
    /\ exitFlag \in [Runs -> BOOLEAN]
    /\ nRuns \in 0..MaxRuns
    /\ inFlight \in Int
    /\ run \in [Runs -> RunRecord]
    /\ \A i \in Runs : st[i] = "none" <=> i > nRuns
    /\ \A i \in 1..nRuns : run[i].rule \in Rules /\ run[i].cell \in 1..nCells

TimeShape ==
    /\ now \in 0..MaxTime
    /\ lastFire \in [Rules -> Nat]
    /\ dropped \subseteq Rules

Shape == LoopShape /\ CellShape /\ RunShape /\ TimeShape

(* A cell belongs to one rule, and the cell of a rule that no purge has     *)
(* dropped is the one that all its runs hold.                               *)
CellsOwned ==
    /\ \A i, j \in 1..nRuns :
          run[i].cell = run[j].cell => run[i].rule = run[j].rule
    /\ \A i \in 1..nRuns, r \in Rules :
          cellOf[r] = run[i].cell => run[i].rule = r
    /\ \A q, r \in Rules : cellOf[q] = cellOf[r] /\ cellOf[q] # None => q = r
    /\ \A i \in 1..nRuns :
          run[i].rule \notin dropped => cellOf[run[i].rule] = run[i].cell
    /\ loop = "conditions" =>
          /\ \A i \in 1..nRuns : run[i].cell = firingCell => run[i].rule = Firing
          /\ \A r \in Rules : cellOf[r] = firingCell => r = Firing
          /\ Firing \notin dropped => cellOf[Firing] = firingCell

(* What the run mode has seen still holds when the rule fires: only the     *)
(* event loop adds to a counter.                                            *)
RoomKept ==
    loop = "conditions" =>
        /\ RunMode[Firing] = "single" => count[firingCell] = 0
        /\ RunMode[Firing] = "queued" => count[firingCell] < MaxQueue[Firing]
SingleInCell ==
    \A i, j \in Runs :
        /\ st[i] \in Counted /\ st[j] \in Counted
        /\ run[i].cell = run[j].cell
        /\ RunMode[run[i].rule] = "single"
        => i = j

QueueRoom ==
    \A i \in Runs :
        st[i] \in Counted /\ RunMode[run[i].rule] = "queued"
            => count[run[i].cell] <= MaxQueue[run[i].rule]

(* A queued run past its wait holds the turn until it closes.               *)
PastTurn == Executing \cup {"ended", "recorded", "uncounted", "closing"}
TurnHeld ==
    \A i \in 1..nRuns :
        RunMode[run[i].rule] = "queued" /\ st[i] \in PastTurn
            => turn[run[i].cell] = i

(* latest is the newest run of a cell, and the others have been stopped;    *)
(* while the conditions are looked at, so has that one.                     *)
OlderStopped ==
    /\ \A i \in 1..nRuns : i <= latest[run[i].cell]
    /\ \A i \in 1..nRuns :
          RunMode[run[i].rule] = "restart" /\ i # latest[run[i].cell]
              => exitFlag[i]
    /\ /\ loop = "conditions"
       /\ RunMode[Firing] = "restart"
       /\ latest[firingCell] # None
       => exitFlag[latest[firingCell]]

(* cooldown_map remembers the last firing, and what the cooldown check has  *)
(* seen still holds when the rule fires.                                    *)
Rested ==
    /\ \A i \in 1..nRuns : run[i].at <= now
    /\ \A i \in 1..nRuns :
          CooldownSecs[run[i].rule] > 0 /\ run[i].rule \notin dropped =>
              /\ lastFire[run[i].rule] # Never
              /\ run[i].at <= lastFire[run[i].rule]
    /\ \A r \in Rules : lastFire[r] # Never => lastFire[r] <= now
    /\ loop \in InFire /\ kind = "event" /\ Firing \notin dropped
          => ~ InCooldown(Firing)

IInv == /\ Shape /\ CountsExact /\ CellsOwned
        /\ RoomKept /\ SingleInCell /\ QueueRoom
        /\ TurnHeld /\ OlderStopped
        /\ Rested /\ CooldownKept

-----------------------------------------------------------------------------
(* A run's own steps, those of its branches and the event it waits for      *)
(* concern the engine little: it stays a run that executes, or has ended,   *)
(* and no stop flag is lowered.                                             *)
ExecStep(i) ==
    Execute(RunStep(i)) \/ Execute(BranchStep(i)) \/ Execute(EventComes(i))

LEMMA ExecEffect ==
    ASSUME RunShape, NEW i \in Runs, ExecStep(i)
    PROVE  /\ UNCHANGED <<loopVars, cellVars, runVars, ruleVars, now>>
           /\ st' \in [Runs -> RunStates]
           /\ exitFlag' \in [Runs -> BOOLEAN]
           /\ \A j \in Runs :
                 \/ st'[j] = st[j]
                 \/ st[j] \in Executing /\ st'[j] \in Executing \cup {"ended"}
           /\ \A j \in Runs : exitFlag[j] => exitFlag'[j]
<1> USE DEF RunShape, RunStates, Executing
<1>1. UNCHANGED <<loopVars, cellVars, runVars, ruleVars, now>>
  BY DEF ExecStep, Execute
<1>2. CASE RunStep(i)
  <2>1. CASE BeginStep(i)         BY <1>1, <2>1 DEF BeginStep
  <2>2. CASE EndList(i)           BY <1>1, <2>2 DEF EndList
  <2>3. CASE Perform(i)           BY <1>1, <2>3 DEF Perform
  <2>4. CASE Fail(i)              BY <1>1, <2>4 DEF Fail
  <2>5. CASE ExitRule(i)          BY <1>1, <2>5 DEF ExitRule, RaiseFlag
  <2>6. CASE RunRuleActions(i)    BY <1>1, <2>6 DEF RunRuleActions
  <2>7. CASE BlockRound(i)        BY <1>1, <2>7 DEF BlockRound
  <2>8. CASE BlockOver(i)         BY <1>1, <2>8 DEF BlockOver
  <2>9. CASE BeginDelay(i)        BY <1>1, <2>9 DEF BeginDelay
  <2>10. CASE EndDelay(i)         BY <1>1, <2>10 DEF EndDelay
  <2>11. CASE BeginWait(i)        BY <1>1, <2>11 DEF BeginWait, Waits
  <2>12. CASE EndWait(i, "hold")  BY <1>1, <2>12 DEF EndWait
  <2>13. CASE BeginParallel(i)    BY <1>1, <2>13 DEF BeginParallel
  <2>14. CASE Join(i)             BY <1>1, <2>14 DEF Join
  <2>15. CASE EndParallel(i)      BY <1>1, <2>15 DEF EndParallel
  <2>16. QED
    BY <1>1, <1>2, <2>1, <2>2, <2>3, <2>4, <2>5, <2>6, <2>7, <2>8, <2>9,
       <2>10, <2>11, <2>12, <2>13, <2>14, <2>15 DEF RunStep
<1>3. CASE EventComes(i)
  BY <1>1, <1>3 DEF EventComes, EndWait
<1>4. CASE BranchStep(i)
  <2>1. PICK b \in DOMAIN branches[i] :
           BranchActs(i, b) \/ BranchExits(i, b) \/ BranchWaitEnds(i, b)
    BY <1>4 DEF BranchStep
  <2>2. CASE BranchActs(i, b)      BY <1>1, <2>2 DEF BranchActs
  <2>3. CASE BranchExits(i, b)     BY <1>1, <2>3 DEF BranchExits, RaiseFlag
  <2>4. CASE BranchWaitEnds(i, b)  BY <1>1, <2>4 DEF BranchWaitEnds
  <2>5. QED
    BY <2>1, <2>2, <2>3, <2>4
<1>5. QED
  BY <1>2, <1>3, <1>4 DEF ExecStep, Execute
-----------------------------------------------------------------------------
(* The steps, sorted by what they touch.  A step aside touches no run, no   *)
(* cell and no cooldown, and leaves the firing in hand as it is.            *)
Aside ==
    /\ UNCHANGED <<st, exitFlag, nRuns, run, inFlight, cellOf, nCells, count,
                   latest, turn, lastFire, dropped>>
    /\ now' \in {now, now + 1} /\ (now' # now => now < MaxTime)
    /\ loop' \in InFire => UNCHANGED <<batch, kind, firingCell>>
    /\ loop' \in InFire => loop \in InFire \/ FireBegins
    /\ loop' = "conditions" => loop = "conditions"
    /\ batch' \subseteq Rules /\ kind' \in Kinds
    /\ firingCell' \in {firingCell, None}

LEMMA StepKinds ==
    ASSUME LoopShape, [Next]_vars
    PROVE  \/ Aside \/ ModeSkips \/ ModeAllows \/ Fires \/ Purge
           \/ \E i \in Runs : \/ AskTurn(i) \/ TakeTurn(i) \/ ExecStep(i)
                              \/ Record(i) \/ Uncount(i) \/ Land(i) \/ Close(i)
<1> USE DEF LoopShape, InFire, Kinds, execVars, loopVars, cellVars, runVars,
           ruleVars
<1>1. ASSUME NEW S \in SUBSET Rules, HandleEvent(S) PROVE Aside
  BY <1>1 DEF HandleEvent, Idle, Aside
<1>2. ASSUME NEW r \in Rules, NEW k \in Kinds, HandleManualRun(r, k) PROVE Aside
  BY <1>2 DEF HandleManualRun, Idle, Aside
<1>3. CASE FirePaused
  BY <1>3 DEF FirePaused, NotFired, Aside
<1>4. CASE FireCooldown
  BY <1>4 DEF FireCooldown, NotFired, Aside
<1>5. CASE FireBegins
  BY <1>5 DEF FireBegins, Aside
<1>6. CASE RequiredExpressionFails
  BY <1>6 DEF RequiredExpressionFails, NotFired, Aside
<1>7. CASE TriggerGateFails
  BY <1>7 DEF TriggerGateFails, NotFired, Aside
<1>8. CASE GatesPass
  BY <1>8 DEF GatesPass, Aside
<1>9. CASE FireErrors
  BY <1>9 DEF FireErrors, Aside
<1>10. CASE ConditionsFail
  BY <1>10 DEF ConditionsFail, NotFired, Aside
<1>11. ASSUME NEW S \in SUBSET Rules, SwapRules(S) PROVE Aside
  BY <1>11 DEF SwapRules, Aside
<1>12. CASE Shutdown
  BY <1>12 DEF Shutdown, Aside
<1>13. CASE Drained
  BY <1>13 DEF Drained, Aside
<1>14. CASE Tick
  BY <1>14 DEF Tick, Aside
<1>15. CASE UNCHANGED vars
  BY <1>15 DEF vars, Aside
<1>16. QED
  BY <1>1, <1>2, <1>3, <1>4, <1>5, <1>6, <1>7, <1>8, <1>9, <1>10, <1>11,
     <1>12, <1>13, <1>14, <1>15
     DEF Next, Fire, RunTask, ExecStep

LEMMA FiringIn ==
    ASSUME LoopShape, loop \in InFire
    PROVE  Firing \in batch /\ Firing \in Rules
BY FirstOfIn DEF LoopShape, Firing

(* Shape is inductive.                                                      *)
LEMMA ShapeInit == Init => Shape
BY ExecutorAssumption, EngineAssumption
   DEF Init, ExecInit, Shape, LoopShape, CellShape, RunShape, TimeShape, Runs,
       RunStates, Cells, None, Never, Kinds, RunRecord, InFire

(* The steps of a run's task, its branches and its epilogue: the event loop *)
(* and the rules keep their state, no counter grows and no flag is lowered. *)
RunMoves ==
    /\ UNCHANGED <<loopVars, cellOf, nCells, latest, nRuns, run, lastFire,
                   dropped, now>>
    /\ st' \in [Runs -> RunStates]
    /\ exitFlag' \in [Runs -> BOOLEAN]
    /\ count' \in [Cells -> Int]
    /\ turn' \in [Cells -> 0..MaxRuns]
    /\ inFlight' \in Int
    /\ \A j \in Runs : st'[j] = "none" <=> st[j] = "none"
    /\ \A j \in Runs : st'[j] \in Counted => st[j] \in Counted
    /\ \A j \in Runs : exitFlag[j] => exitFlag'[j]
    /\ \A c \in Cells : count'[c] <= count[c]

LEMMA RunTaskMoves ==
    ASSUME CellShape, RunShape, NEW i \in Runs,
           \/ AskTurn(i) \/ TakeTurn(i) \/ ExecStep(i)
           \/ Record(i) \/ Uncount(i) \/ Land(i) \/ Close(i)
    PROVE  RunMoves
<1> USE DEF loopVars, cellVars, runVars, ruleVars
<1>0. i \in 0..MaxRuns
  BY DEF Runs
<1>1. CASE AskTurn(i)
  BY <1>1 DEF AskTurn, RunMoves, RunShape, CellShape, RunStates, Counted
<1>2. CASE TakeTurn(i)
  <2> DEFINE c == run[i].cell
  <2>1. /\ turn' = [turn EXCEPT ![c] = i]
        /\ st' = [st EXCEPT ![i] = "ready"] /\ st[i] = "queued"
        /\ UNCHANGED <<exitFlag, count, cellOf, nCells, latest, loopVars,
                       runVars, ruleVars, now>>
    BY <1>2 DEF TakeTurn
  <2>2. turn' \in [Cells -> 0..MaxRuns]
    BY <1>0, <2>1 DEF CellShape
  <2>3. QED
    BY <2>1, <2>2 DEF RunMoves, RunShape, CellShape, RunStates, Counted
<1>3. CASE ExecStep(i)
  BY <1>3, ExecEffect
     DEF RunMoves, RunShape, CellShape, RunStates, Counted, Executing
<1>4. CASE Record(i)
  BY <1>4 DEF Record, RunMoves, RunShape, CellShape, RunStates, Counted
<1>5. CASE Uncount(i)
  <2> DEFINE c == run[i].cell
  <2>1. /\ count' = [count EXCEPT ![c] = @ - 1]
        /\ st' = [st EXCEPT ![i] = "uncounted"] /\ st[i] = "recorded"
        /\ UNCHANGED <<exitFlag, turn, cellOf, nCells, latest, loopVars,
                       runVars, ruleVars, now>>
    BY <1>5 DEF Uncount
  <2>2. count' \in [Cells -> Int] /\ \A d \in Cells : count'[d] <= count[d]
    <3>1. count \in [Cells -> Int]
      BY DEF CellShape
    <3>2. \A d \in Cells :
             count'[d] = IF d = c THEN count[d] - 1 ELSE count[d]
      BY <2>1, <3>1
    <3>3. count' \in [Cells -> Int]
      <4>1. count' = [d \in Cells |-> count'[d]]
        BY <2>1, <3>1
      <4>2. \A d \in Cells : count'[d] \in Int
        BY <3>1, <3>2
      <4>3. QED
        BY <4>1, <4>2
    <3>4. QED
      BY <3>1, <3>2, <3>3
  <2>3. QED
    BY <2>1, <2>2 DEF RunMoves, RunShape, CellShape, RunStates, Counted
<1>6. CASE Land(i)
  BY <1>6 DEF Land, RunMoves, RunShape, CellShape, RunStates, Counted
<1>7. CASE Close(i)
  <2> DEFINE c == run[i].cell
  <2>1. /\ turn' = IF turn[c] = i THEN [turn EXCEPT ![c] = None] ELSE turn
        /\ st' = [st EXCEPT ![i] = "finished"] /\ st[i] = "closing"
        /\ UNCHANGED <<exitFlag, count, cellOf, nCells, latest, loopVars,
                       runVars, ruleVars, now>>
    BY <1>7 DEF Close
  <2>2. None \in 0..MaxRuns
    BY ExecutorAssumption DEF None
  <2>3. turn' \in [Cells -> 0..MaxRuns]
    BY <2>1, <2>2 DEF CellShape
  <2>4. QED
    BY <2>1, <2>3 DEF RunMoves, RunShape, CellShape, RunStates, Counted
<1>8. QED
  BY <1>1, <1>2, <1>3, <1>4, <1>5, <1>6, <1>7
LEMMA StepEffects ==
    ASSUME Shape, [Next]_vars
    PROVE  \/ Aside \/ ModeSkips \/ ModeAllows \/ Fires \/ Purge \/ RunMoves
BY StepKinds, RunTaskMoves DEF Shape

(* Taking a cell gives the rule being fired its own cell, or a new one.     *)
LEMMA TakeCellEffect ==
    ASSUME Shape, loop = "mode", TakeCell
    PROVE  /\ Firing \in Rules
           /\ nCells' \in nCells..MaxCells
           /\ Cell \in 1..nCells'
           /\ cellOf' \in [Rules -> 0..nCells']
           /\ cellOf'[Firing] = Cell
           /\ \A r \in Rules : r # Firing => cellOf'[r] = cellOf[r]
           /\ \/ cellOf[Firing] # None /\ Cell = cellOf[Firing]
              \/ cellOf[Firing] = None /\ Cell = nCells + 1
           /\ UNCHANGED <<count, latest, turn>>
<1>1. Firing \in Rules
  BY FiringIn DEF Shape, InFire
<1>2. /\ nCells \in 0..MaxCells /\ cellOf \in [Rules -> 0..nCells]
      /\ Cell \in 1..MaxCells
      /\ cellOf' = [cellOf EXCEPT ![Firing] = Cell]
      /\ nCells' = IF cellOf[Firing] = None THEN nCells + 1 ELSE nCells
      /\ UNCHANGED <<count, latest, turn>>
  BY DEF Shape, CellShape, TakeCell, Cells
<1>3. Cell = IF cellOf[Firing] = None THEN nCells + 1 ELSE cellOf[Firing]
  BY DEF Cell
<1>4. nCells' \in nCells..MaxCells /\ Cell \in 1..nCells'
  BY <1>1, <1>2, <1>3, EngineAssumption DEF None
<1>5. cellOf' \in [Rules -> 0..nCells']
  BY <1>1, <1>2, <1>4, EngineAssumption
<1>6. QED
  BY <1>1, <1>2, <1>3, <1>4, <1>5
(* Firing puts the next run under the cell and the rule in hand.            *)
LEMMA FiresEffect ==
    ASSUME Shape, Fires
    PROVE  /\ Firing \in Rules /\ firingCell \in 1..nCells
           /\ nRuns + 1 \in Runs /\ nRuns' = nRuns + 1
           /\ inFlight' = inFlight + 1
           /\ count' = [count EXCEPT ![firingCell] = @ + 1]
           /\ latest' = [latest EXCEPT ![firingCell] = nRuns + 1]
           /\ run' = [run EXCEPT ![nRuns + 1] =
                         [rule |-> Firing, cell |-> firingCell,
                          kind |-> kind, at |-> now]]
           /\ \E s \in {"spawned", "ready"} :
                 /\ st' = [st EXCEPT ![nRuns + 1] = s]
                 /\ RunMode[Firing] = "queued" <=> s = "spawned"
           /\ lastFire' = IF CooldownSecs[Firing] > 0
                            THEN [lastFire EXCEPT ![Firing] = now]
                            ELSE lastFire
           /\ loop' = "fire" /\ firingCell' = None
           /\ batch' \subseteq batch /\ kind' \in Kinds
           /\ UNCHANGED <<exitFlag, cellOf, nCells, turn, dropped, now>>
<1>1. Firing \in Rules
  BY FiringIn DEF Shape, Fires, InFire
<1>2. firingCell \in 1..nCells
  BY DEF Shape, LoopShape, CellShape, Fires, None
<1>3. nRuns + 1 \in Runs
  BY ExecutorAssumption DEF Shape, RunShape, Fires, Runs
<1>4. kind' \in Kinds
  BY DEF Shape, LoopShape, Fires, Kinds
<1>5. QED
  BY <1>1, <1>2, <1>3, <1>4 DEF Fires

(* The run that a firing adds is the newest; the others stay as they are.   *)
LEMMA NewRun ==
    ASSUME Shape, Fires, NEW k, k = nRuns + 1
    PROVE  /\ k \in Runs /\ nRuns' = k
           /\ 1..nRuns \subseteq Runs
           /\ \A j \in 1..nRuns : j < k
           /\ \A j \in 1..nRuns' : j = k \/ j \in 1..nRuns
           /\ \A j \in Runs : j # k => run'[j] = run[j] /\ st'[j] = st[j]
           /\ run'[k] = [rule |-> Firing, cell |-> firingCell,
                         kind |-> kind, at |-> now]
           /\ st[k] = "none"
           /\ st'[k] \in {"spawned", "ready"}
           /\ RunMode[Firing] = "queued" => st'[k] = "spawned"
<1>1. k \in Runs /\ nRuns' = k /\ nRuns \in Nat /\ nRuns <= MaxRuns
  BY FiresEffect, ExecutorAssumption DEF Shape, RunShape
<1>2. /\ 1..nRuns \subseteq Runs
      /\ \A j \in 1..nRuns : j < k
      /\ \A j \in 1..nRuns' : j = k \/ j \in 1..nRuns
  BY <1>1, ExecutorAssumption DEF Runs
<1>3. run \in [Runs -> RunRecord] /\ st \in [Runs -> RunStates]
  BY DEF Shape, RunShape
<1>4. /\ \A j \in Runs : j # k => run'[j] = run[j]
      /\ run'[k] = [rule |-> Firing, cell |-> firingCell,
                    kind |-> kind, at |-> now]
  <2>1. run' = [run EXCEPT ![k] = [rule |-> Firing, cell |-> firingCell,
                                   kind |-> kind, at |-> now]]
    BY FiresEffect
  <2>2. QED  BY <1>1, <1>3, <2>1
<1>5. PICK s \in {"spawned", "ready"} :
         /\ st' = [st EXCEPT ![k] = s]
         /\ RunMode[Firing] = "queued" <=> s = "spawned"
  BY FiresEffect
<1>6. /\ \A j \in Runs : j # k => st'[j] = st[j]
      /\ st'[k] = s
  BY <1>1, <1>3, <1>5
<1>7. st[k] = "none"
  BY <1>1 DEF Shape, RunShape
<1>8. QED
  BY <1>1, <1>2, <1>4, <1>5, <1>6, <1>7

LEMMA AddAt ==
    ASSUME NEW S, NEW f \in [S -> Int], NEW c \in S, NEW k \in Int
    PROVE  [f EXCEPT ![c] = @ + k] \in [S -> Int]
OBVIOUS

LEMMA ShapeStep ==
    ASSUME Shape, [Next]_vars
    PROVE  Shape'
<1>0. MaxRuns \in Nat /\ MaxCells \in Nat /\ MaxTime \in Nat
  BY ExecutorAssumption, EngineAssumption
<1>1. CASE Aside
  <2>1. LoopShape'
    BY <1>0, <1>1
       DEF Aside, FireBegins, Shape, LoopShape, CellShape, InFire, None
  <2>2. CellShape'
    BY <1>1 DEF Aside, Shape, CellShape
  <2>3. RunShape'
    BY <1>1 DEF Aside, Shape, RunShape
  <2>4. TimeShape'
    BY <1>0, <1>1 DEF Aside, Shape, TimeShape
  <2>5. QED  BY <2>1, <2>2, <2>3, <2>4 DEF Shape
<1>2. CASE RunMoves
  <2>1. LoopShape'
    BY <1>2 DEF RunMoves, loopVars, Shape, LoopShape
  <2>2. CellShape'
    BY <1>2 DEF RunMoves, Shape, CellShape
  <2>3. RunShape'
    BY <1>2 DEF RunMoves, Shape, RunShape
  <2>4. TimeShape'
    BY <1>2 DEF RunMoves, Shape, TimeShape
  <2>5. QED  BY <2>1, <2>2, <2>3, <2>4 DEF Shape
<1>3. CASE Purge
  <2>1. LoopShape'
    BY <1>3 DEF Purge, loopVars, Shape, LoopShape
  <2>2. CellShape'
    BY <1>0, <1>3 DEF Purge, runVars, Shape, CellShape, None
  <2>3. RunShape'
    BY <1>3 DEF Purge, runVars, Shape, RunShape
  <2>4. TimeShape'
    BY <1>0, <1>3 DEF Purge, Shape, TimeShape, Never
  <2>5. QED  BY <2>1, <2>2, <2>3, <2>4 DEF Shape
<1>4. CASE Fires
  <2>1. LoopShape'
    BY <1>0, <1>4, FiresEffect DEF Shape, LoopShape, CellShape, InFire, None
  <2>2. CellShape'
    <3>0. nCells \in 0..MaxCells /\ firingCell \in 1..nCells
      BY <1>4, FiresEffect DEF Shape, CellShape
    <3>1. /\ firingCell \in Cells /\ nRuns \in 0..MaxRuns
          /\ count \in [Cells -> Int] /\ latest \in [Cells -> 0..nRuns]
      <4>1. firingCell \in Cells
        BY <1>0, <3>0 DEF Cells
      <4>2. QED
        BY <4>1 DEF Shape, CellShape, RunShape
    <3>2. count' \in [Cells -> Int]
      BY <1>4, <3>1, FiresEffect, AddAt
    <3>3. latest' \in [Cells -> 0..nRuns']
      <4>1. nRuns' = nRuns + 1 /\ latest' = [latest EXCEPT ![firingCell] = nRuns + 1]
        BY <1>4, FiresEffect
      <4>2. 0..nRuns \subseteq 0..nRuns' /\ nRuns + 1 \in 0..nRuns'
        BY <3>1, <4>1
      <4>3. QED
        BY <3>1, <4>1, <4>2
    <3>4. QED
      BY <1>4, <3>2, <3>3, FiresEffect DEF Shape, CellShape
  <2>3. RunShape'
    <3> DEFINE k == nRuns + 1
               rec == [rule |-> Firing, cell |-> firingCell,
                       kind |-> kind, at |-> now]
    <3>1. /\ k \in Runs /\ nRuns' = k /\ inFlight' = inFlight + 1
          /\ run' = [run EXCEPT ![k] = rec] /\ nCells' = nCells
          /\ exitFlag' = exitFlag /\ nRuns \in 0..MaxRuns
      BY <1>4, FiresEffect DEF Shape, RunShape
    <3>2. PICK s \in {"spawned", "ready"} : st' = [st EXCEPT ![k] = s]
      BY <1>4, FiresEffect
    <3>3. rec \in RunRecord /\ rec.rule \in Rules /\ rec.cell \in 1..nCells
      BY <1>0, <1>4, FiresEffect
         DEF Shape, LoopShape, CellShape, TimeShape, RunRecord, Cells
    <3> HIDE DEF rec
    <3>4. st' \in [Runs -> RunStates] /\ nRuns' \in 0..MaxRuns
          /\ inFlight' \in Int
      BY <1>0, <3>1, <3>2 DEF Shape, RunShape, RunStates, Runs
    <3>5. run' \in [Runs -> RunRecord]
      BY <3>1, <3>3 DEF Shape, RunShape
    <3>6. \A i \in Runs : st'[i] = "none" <=> i > nRuns'
      BY <1>0, <3>1, <3>2 DEF Shape, RunShape, Runs
    <3>7. \A i \in 1..nRuns' :
             run'[i].rule \in Rules /\ run'[i].cell \in 1..nCells'
      BY <1>0, <3>1, <3>3 DEF Shape, RunShape, Runs
    <3>8. QED
      BY <3>1, <3>4, <3>5, <3>6, <3>7 DEF Shape, RunShape
  <2>4. TimeShape'
    BY <1>0, <1>4, FiresEffect DEF Shape, TimeShape
  <2>5. QED  BY <2>1, <2>2, <2>3, <2>4 DEF Shape
<1>5. CASE ModeSkips
  <2>0. /\ loop = "mode" /\ TakeCell /\ NotFired
        /\ UNCHANGED <<execVars, runVars, now, lastFire, dropped>>
    BY <1>5 DEF ModeSkips
  <2>1. LoopShape'
    BY <1>0, <2>0, TakeCellEffect
       DEF NotFired, Shape, LoopShape, CellShape, InFire, None, Kinds
  <2>2. CellShape'
    BY <1>0, <2>0, TakeCellEffect DEF runVars, Shape, CellShape
  <2>3. RunShape'
    BY <1>0, <2>0, TakeCellEffect
       DEF execVars, runVars, Shape, RunShape, CellShape
  <2>4. TimeShape'
    BY <2>0 DEF Shape, TimeShape
  <2>5. QED  BY <2>1, <2>2, <2>3, <2>4 DEF Shape
<1>6. CASE ModeAllows
  <2>0. /\ loop = "mode" /\ TakeCell
        /\ loop' = "conditions" /\ firingCell' = Cell
        /\ exitFlag' \in [Runs -> BOOLEAN]
        /\ UNCHANGED <<st, batch, kind, runVars, ruleVars, now>>
    BY <1>6 DEF ModeAllows, Shape, RunShape
  <2>1. LoopShape'
    BY <1>0, <2>0, TakeCellEffect
       DEF Shape, LoopShape, CellShape, InFire, None
  <2>2. CellShape'
    BY <1>0, <2>0, TakeCellEffect DEF runVars, Shape, CellShape
  <2>3. RunShape'
    BY <1>0, <2>0, TakeCellEffect DEF runVars, Shape, RunShape, CellShape
  <2>4. TimeShape'
    BY <2>0 DEF ruleVars, Shape, TimeShape
  <2>5. QED  BY <2>1, <2>2, <2>3, <2>4 DEF Shape
<1>7. QED
  BY <1>1, <1>2, <1>3, <1>4, <1>5, <1>6, StepEffects
-----------------------------------------------------------------------------
(* The counters.                                                            *)

FlyingRuns == {i \in Runs : st[i] \in Flying}

LEMMA RunSetsFinite == \A T \in SUBSET Runs : IsFiniteSet(T)
<1>1. IsFiniteSet(Runs)
  BY ExecutorAssumption, FS_Interval DEF Runs
<1>2. QED
  BY <1>1, FS_Subset

LEMMA RunsFinite ==
    /\ \A c : IsFiniteSet(CountedIn(c))
    /\ IsFiniteSet(FlyingRuns)
BY RunSetsFinite DEF CountedIn, FlyingRuns

(* A step that moves no run in or out of the counted states.                *)
LEMMA CountsUnmoved ==
    ASSUME CountsExact, UNCHANGED <<run, count, inFlight>>,
           \A j \in Runs : /\ st'[j] \in Counted <=> st[j] \in Counted
                           /\ st'[j] \in Flying <=> st[j] \in Flying
    PROVE  CountsExact'
<1>1. \A c \in Cells : CountedIn(c)' = CountedIn(c)
  BY DEF CountedIn
<1>2. FlyingRuns' = FlyingRuns
  BY DEF FlyingRuns
<1>3. QED
  BY <1>1, <1>2 DEF CountsExact, FlyingRuns

LEMMA CountsStep ==
    ASSUME Shape, CountsExact, [Next]_vars
    PROVE  CountsExact'
<1>1. CASE Aside
  BY <1>1, CountsUnmoved DEF Aside
<1>2. CASE ModeSkips
  BY <1>2, CountsUnmoved DEF ModeSkips, TakeCell, execVars, runVars
<1>3. CASE ModeAllows
  BY <1>3, CountsUnmoved DEF ModeAllows, TakeCell, runVars
<1>4. CASE Purge
  BY <1>4, CountsUnmoved DEF Purge, runVars
<1>5. CASE Fires
  <2>0. PICK k \in Runs : k = nRuns + 1
    BY <1>5, FiresEffect
  <2>1. st[k] = "none"
    BY <2>0, ExecutorAssumption DEF Shape, RunShape
  <2>2. PICK c \in Cells : c = firingCell
    BY <1>5, FiresEffect, EngineAssumption DEF Shape, CellShape, Cells
  <2>3. PICK s \in {"spawned", "ready"} : st' = [st EXCEPT ![k] = s]
    BY <1>5, <2>0, FiresEffect
  <2>4. /\ \A j \in Runs : st'[j] = IF j = k THEN s ELSE st[j]
        /\ \A j \in Runs : j # k => run'[j] = run[j]
        /\ run'[k].cell = c
    BY <1>5, <2>0, <2>2, <2>3, FiresEffect DEF Shape, RunShape
  <2>5. CountedIn(c)' = CountedIn(c) \cup {k} /\ k \notin CountedIn(c)
    BY <2>1, <2>4 DEF CountedIn, Counted, RunStates
  <2>6. \A d \in Cells : d # c => CountedIn(d)' = CountedIn(d)
    BY <2>1, <2>4 DEF CountedIn, Counted, RunStates
  <2>7. FlyingRuns' = FlyingRuns \cup {k} /\ k \notin FlyingRuns
    BY <2>1, <2>4 DEF FlyingRuns, Flying, Counted, RunStates
  <2>8. /\ Cardinality(CountedIn(c)') = Cardinality(CountedIn(c)) + 1
        /\ Cardinality(FlyingRuns') = Cardinality(FlyingRuns) + 1
    BY <2>5, <2>7, RunsFinite, FS_AddElement
  <2>9. /\ count'[c] = count[c] + 1 /\ inFlight' = inFlight + 1
        /\ \A d \in Cells : d # c => count'[d] = count[d]
    BY <1>5, <2>2, FiresEffect DEF Shape, CellShape
  <2>10. QED
    BY <2>6, <2>8, <2>9 DEF CountsExact, FlyingRuns
<1>6. ASSUME NEW i \in Runs, Uncount(i) PROVE CountsExact'
  <2>0. PICK c : c = run[i].cell
    OBVIOUS
  <2>1. /\ st[i] = "recorded" /\ st' = [st EXCEPT ![i] = "uncounted"]
        /\ count' = [count EXCEPT ![c] = @ - 1] /\ UNCHANGED <<run, inFlight>>
    BY <1>6, <2>0 DEF Uncount, runVars
  <2>2. /\ c \in Cells /\ count \in [Cells -> Int]
        /\ \A j \in Runs : st'[j] = IF j = i THEN "uncounted" ELSE st[j]
    BY <2>0, <2>1, EngineAssumption, ExecutorAssumption
       DEF Shape, RunShape, CellShape, Cells, Runs
  <2>3. CountedIn(c)' = CountedIn(c) \ {i} /\ i \in CountedIn(c)
    BY <2>0, <2>1, <2>2 DEF CountedIn, Counted, RunStates
  <2>4. \A d \in Cells : d # c => CountedIn(d)' = CountedIn(d)
    BY <2>0, <2>1, <2>2 DEF CountedIn, Counted, RunStates
  <2>5. FlyingRuns' = FlyingRuns
    BY <2>1, <2>2 DEF FlyingRuns, Flying, Counted, RunStates
  <2>6. Cardinality(CountedIn(c)') = Cardinality(CountedIn(c)) - 1
    BY <2>3, RunsFinite, FS_RemoveElement
  <2>7. /\ count'[c] = count[c] - 1
        /\ \A d \in Cells : d # c => count'[d] = count[d]
    BY <2>1, <2>2
  <2>8. QED
    BY <2>1, <2>2, <2>4, <2>5, <2>6, <2>7 DEF CountsExact, FlyingRuns
<1>7. ASSUME NEW i \in Runs, Land(i) PROVE CountsExact'
  <2>1. /\ st[i] = "uncounted" /\ inFlight' = inFlight - 1
        /\ \A j \in Runs : st'[j] = IF j = i THEN "closing" ELSE st[j]
        /\ UNCHANGED <<run, count>>
    BY <1>7 DEF Land, cellVars, Shape, RunShape
  <2>2. \A d \in Cells : CountedIn(d)' = CountedIn(d)
    BY <2>1 DEF CountedIn, Counted, RunStates
  <2>3. FlyingRuns' = FlyingRuns \ {i} /\ i \in FlyingRuns
    BY <2>1 DEF FlyingRuns, Flying, Counted, RunStates
  <2>4. Cardinality(FlyingRuns') = Cardinality(FlyingRuns) - 1
    BY <2>3, RunsFinite, FS_RemoveElement
  <2>5. QED
    BY <2>1, <2>2, <2>4 DEF CountsExact, FlyingRuns
<1>8. ASSUME NEW i \in Runs,
             AskTurn(i) \/ TakeTurn(i) \/ ExecStep(i) \/ Record(i) \/ Close(i)
      PROVE  CountsExact'
  <2>1. UNCHANGED <<run, count, inFlight>>
    BY <1>8, ExecEffect
       DEF AskTurn, TakeTurn, Record, Close, runVars, cellVars, Shape
  <2>2. \A j \in Runs : /\ st'[j] \in Counted <=> st[j] \in Counted
                        /\ st'[j] \in Flying <=> st[j] \in Flying
    <3> USE DEF Flying, Counted, RunStates, Shape, RunShape
    <3>1. CASE AskTurn(i)   BY <3>1 DEF AskTurn
    <3>2. CASE TakeTurn(i)  BY <3>2 DEF TakeTurn
    <3>3. CASE ExecStep(i)  BY <3>3, ExecEffect DEF Executing
    <3>4. CASE Record(i)    BY <3>4 DEF Record
    <3>5. CASE Close(i)     BY <3>5 DEF Close
    <3>6. QED
      BY <1>8, <3>1, <3>2, <3>3, <3>4, <3>5
  <2>3. QED
    BY <2>1, <2>2, CountsUnmoved
<1>9. QED
  BY <1>1, <1>2, <1>3, <1>4, <1>5, <1>6, <1>7, <1>8, StepKinds DEF Shape
-----------------------------------------------------------------------------
(* The cells.                                                               *)

LEMMA FiringUnmoved ==
    ASSUME UNCHANGED batch
    PROVE  Firing' = Firing
BY DEF Firing

(* Taking a cell keeps the first four parts of CellsOwned.                  *)
LEMMA CellTaken ==
    ASSUME Shape, CellsOwned, loop = "mode", TakeCell,
           UNCHANGED <<nRuns, run, dropped>>
    PROVE  /\ \A i, j \in 1..nRuns' :
                 run'[i].cell = run'[j].cell => run'[i].rule = run'[j].rule
           /\ \A i \in 1..nRuns', r \in Rules :
                 cellOf'[r] = run'[i].cell => run'[i].rule = r
           /\ \A q, r \in Rules :
                 cellOf'[q] = cellOf'[r] /\ cellOf'[q] # None => q = r
           /\ \A i \in 1..nRuns' :
                 run'[i].rule \notin dropped'
                     => cellOf'[run'[i].rule] = run'[i].cell
           /\ \A i \in 1..nRuns' : run'[i].cell = Cell => run'[i].rule = Firing
           /\ \A r \in Rules : cellOf'[r] = Cell => r = Firing
<1>1. /\ nCells \in Nat /\ cellOf \in [Rules -> 0..nCells]
      /\ \A i \in 1..nRuns : run[i].rule \in Rules /\ run[i].cell \in 1..nCells
  BY EngineAssumption DEF Shape, CellShape, RunShape
<1>2. /\ Firing \in Rules /\ cellOf'[Firing] = Cell
      /\ \A r \in Rules : r # Firing => cellOf'[r] = cellOf[r]
      /\ \/ cellOf[Firing] # None /\ Cell = cellOf[Firing]
         \/ cellOf[Firing] = None /\ Cell = nCells + 1
  BY TakeCellEffect
<1>3. CASE cellOf[Firing] # None /\ Cell = cellOf[Firing]
  BY <1>1, <1>2, <1>3 DEF CellsOwned
<1>4. CASE cellOf[Firing] = None /\ Cell = nCells + 1
  <2>1. \A i \in 1..nRuns : run[i].cell # Cell /\ run[i].cell # None
    BY <1>1, <1>4 DEF None
  <2>2. \A r \in Rules : cellOf[r] # Cell
    BY <1>1, <1>4
  <2>3. QED
    BY <1>1, <1>2, <1>4, <2>1, <2>2 DEF CellsOwned
<1>5. QED
  BY <1>2, <1>3, <1>4

LEMMA CellsOwnedStep ==
    ASSUME Shape, CellsOwned, [Next]_vars
    PROVE  CellsOwned'
<1>1. CASE Aside
  BY <1>1, FiringUnmoved DEF Aside, CellsOwned, InFire
<1>2. CASE RunMoves
  BY <1>2, FiringUnmoved DEF RunMoves, loopVars, CellsOwned
<1>3. CASE Purge
  <2>1. /\ UNCHANGED <<loopVars, nRuns, run>> /\ dropped \subseteq dropped'
        /\ \A r \in Rules : cellOf'[r] = cellOf[r] \/ cellOf'[r] = None
        /\ \A r \in Rules : r \notin dropped' => cellOf'[r] = cellOf[r]
    BY <1>3 DEF Purge, runVars
  <2>2. \A i \in 1..nRuns : run[i].rule \in Rules /\ run[i].cell # None
    BY DEF Shape, RunShape, None
  <2>3. loop = "conditions" => firingCell # None /\ Firing \in Rules
    BY FiringIn DEF Shape, LoopShape, InFire
  <2>4. QED
    BY <2>1, <2>2, <2>3, FiringUnmoved DEF CellsOwned, loopVars
<1>4. CASE ModeSkips
  BY <1>4, CellTaken DEF ModeSkips, NotFired, runVars, CellsOwned
<1>5. CASE ModeAllows
  <2>1. /\ loop = "mode" /\ TakeCell /\ firingCell' = Cell
        /\ UNCHANGED <<batch, nRuns, run, dropped>>
    BY <1>5 DEF ModeAllows, runVars, ruleVars
  <2>2. Firing' = Firing /\ cellOf'[Firing] = Cell
    BY <2>1, FiringUnmoved, TakeCellEffect
  <2>3. QED
    BY <2>1, <2>2, CellTaken DEF CellsOwned
<1>6. CASE Fires
  <2>1. PICK k \in Runs : k = nRuns + 1
    BY <1>6, FiresEffect
  <2>2. /\ loop = "conditions" /\ loop' = "fire" /\ Firing \in Rules
        /\ UNCHANGED <<cellOf, dropped>>
    BY <1>6, FiresEffect DEF Fires
  <2>3. /\ run'[k].rule = Firing /\ run'[k].cell = firingCell
        /\ \A j \in 1..nRuns : run'[j] = run[j]
        /\ \A j \in 1..nRuns' : j = k \/ j \in 1..nRuns
    BY <1>6, <2>1, NewRun
  <2>4. QED
    BY <2>2, <2>3 DEF CellsOwned
<1>7. QED
  BY <1>1, <1>2, <1>3, <1>4, <1>5, <1>6, StepEffects
-----------------------------------------------------------------------------
(* The limits of Single and Queued.                                         *)

LEMMA CountsNat ==
    ASSUME CountsExact, NEW c \in Cells
    PROVE  count[c] \in Nat /\ (count[c] = 0 => CountedIn(c) = {})
BY RunsFinite, FS_CardinalityType, FS_EmptySet DEF CountsExact

LEMMA RoomKeptStep ==
    ASSUME Shape, CountsExact, CountsExact', RoomKept, [Next]_vars
    PROVE  RoomKept'
<1>1. CASE Aside
  BY <1>1, FiringUnmoved DEF Aside, RoomKept, InFire
<1>2. CASE RunMoves
  <2>1. SUFFICES ASSUME loop = "conditions"
                 PROVE  RoomKept'
    BY <1>2 DEF RunMoves, loopVars, RoomKept
  <2>2. firingCell \in Cells /\ Firing \in Rules
    BY <2>1, FiringIn, EngineAssumption
       DEF Shape, LoopShape, CellShape, InFire, Cells, None
  <2>3. /\ Firing' = Firing /\ firingCell' = firingCell
        /\ count[firingCell] \in Nat /\ count'[firingCell] \in Nat
        /\ count'[firingCell] <= count[firingCell]
    <3>1. \A c \in Cells : count[c] \in Nat
      BY CountsNat
    <3>2. \A c \in Cells : count'[c] \in Nat
      <4>1. \A c \in Cells : IsFiniteSet(CountedIn(c)')
        BY RunSetsFinite DEF CountedIn
      <4>2. QED
        BY <4>1, FS_CardinalityType DEF CountsExact
    <3>3. QED
      BY <1>2, <2>2, <3>1, <3>2, FiringUnmoved DEF RunMoves, loopVars
  <2>4. MaxQueue[Firing] \in Nat
    BY <2>2, EngineAssumption
  <2>5. QED
    BY <2>1, <2>3, <2>4 DEF RoomKept
<1>3. CASE Purge
  BY <1>3, FiringUnmoved DEF Purge, loopVars, RoomKept
<1>4. CASE ModeSkips
  BY <1>4 DEF ModeSkips, NotFired, RoomKept
<1>5. CASE Fires
  BY <1>5 DEF Fires, RoomKept
<1>6. CASE ModeAllows
  <2>1. /\ loop = "mode" /\ TakeCell /\ ~ Full(Firing, Cell)
        /\ firingCell' = Cell /\ UNCHANGED <<batch, count>>
    BY <1>6 DEF ModeAllows, TakeCell
  <2>2. Cell \in Cells /\ Firing \in Rules
    BY <2>1, TakeCellEffect DEF TakeCell
  <2>3. count[Cell] \in Nat /\ MaxQueue[Firing] \in Nat
    BY <2>2, CountsNat, EngineAssumption
  <2>4. QED
    BY <2>1, <2>3, FiringUnmoved DEF Full, RoomKept
<1>7. QED
  BY <1>1, <1>2, <1>3, <1>4, <1>5, <1>6, StepEffects

(* Steps that add no run.                                                   *)
LEMMA OnlyFiringAdds ==
    ASSUME Shape, [Next]_vars
    PROVE  \/ Fires
           \/ /\ UNCHANGED <<nRuns, run, latest>>
              /\ \A j \in Runs : st'[j] \in Counted => st[j] \in Counted
              /\ \A j \in Runs : exitFlag[j] => exitFlag'[j]
              /\ \A c \in Cells : count'[c] <= count[c]
<1> USE DEF runVars
<1>0. \A c \in Cells : count[c] <= count[c]
  BY DEF Shape, CellShape
<1>1. CASE Aside       BY <1>0, <1>1 DEF Aside
<1>2. CASE RunMoves    BY <1>2 DEF RunMoves
<1>3. CASE Purge       BY <1>0, <1>3 DEF Purge
<1>4. CASE ModeSkips   BY <1>0, <1>4 DEF ModeSkips, TakeCell, execVars
<1>5. CASE ModeAllows  BY <1>0, <1>5 DEF ModeAllows, TakeCell
<1>6. QED
  BY <1>1, <1>2, <1>3, <1>4, <1>5, StepEffects

LEMMA CountedSpawned ==
    ASSUME Shape, NEW j \in Runs, st[j] \in Counted
    PROVE  /\ j \in 1..nRuns /\ run[j].rule \in Rules
           /\ run[j].cell \in Cells
<1>1. j \in 1..nRuns
  BY ExecutorAssumption DEF Shape, RunShape, Counted, Runs
<1>2. QED
  BY <1>1, EngineAssumption DEF Shape, RunShape, CellShape, Cells

LEMMA LimitsStep ==
    ASSUME Shape, CountsExact, CellsOwned, RoomKept, SingleInCell, QueueRoom,
           [Next]_vars
    PROVE  SingleInCell' /\ QueueRoom'
<1>1. CASE Fires
  <2>1. PICK k \in Runs : k = nRuns + 1
    BY <1>1, FiresEffect
  <2>2. /\ run'[k].cell = firingCell /\ run'[k].rule = Firing
        /\ \A j \in Runs : j # k => run'[j] = run[j] /\ st'[j] = st[j]
    BY <1>1, <2>1, NewRun
  <2>3. loop = "conditions" /\ firingCell \in Cells /\ Firing \in Rules
    BY <1>1, FiresEffect, EngineAssumption
       DEF Fires, Shape, CellShape, Cells
  <2>4. \A j \in Runs : st[j] \in Counted /\ run[j].cell = firingCell
                           => run[j].rule = Firing
    BY <2>3, CountedSpawned DEF CellsOwned
  <2>5. SingleInCell'
    <3>1. ASSUME RunMode[Firing] = "single"
          PROVE  \A j \in Runs : ~ (st[j] \in Counted /\ run[j].cell = firingCell)
      BY <2>3, <3>1, CountsNat DEF RoomKept, CountedIn
    <3>2. QED
      BY <2>2, <2>4, <3>1 DEF SingleInCell
  <2>6. QueueRoom'
    <3>1. count' = [count EXCEPT ![firingCell] = @ + 1] /\ count \in [Cells -> Int]
      BY <1>1, FiresEffect DEF Shape, CellShape
    <3>2. /\ \A c \in Cells : c # firingCell => count'[c] = count[c]
          /\ count'[firingCell] = count[firingCell] + 1
          /\ count[firingCell] \in Nat /\ MaxQueue[Firing] \in Nat
      BY <2>3, <3>1, CountsNat, EngineAssumption
    <3>3. RunMode[Firing] = "queued" => count'[firingCell] <= MaxQueue[Firing]
      BY <2>3, <3>2 DEF RoomKept
    <3>4. ASSUME NEW i \in Runs, st'[i] \in Counted,
                 RunMode[run'[i].rule] = "queued"
          PROVE  count'[run'[i].cell] <= MaxQueue[run'[i].rule]
      <4>1. CASE i = k
        BY <2>2, <3>3, <3>4, <4>1
      <4>2. CASE i # k
        BY <2>2, <2>4, <3>2, <3>3, <3>4, <4>2, CountedSpawned DEF QueueRoom
      <4>3. QED
        BY <4>1, <4>2
    <3>5. QED
      BY <3>4 DEF QueueRoom
  <2>7. QED
    BY <2>5, <2>6
<1>2. CASE ~ Fires
  <2>1. /\ UNCHANGED run
        /\ \A j \in Runs : st'[j] \in Counted => st[j] \in Counted
        /\ \A c \in Cells : count'[c] <= count[c]
    BY <1>2, OnlyFiringAdds
  <2>2. SingleInCell'
    BY <2>1 DEF SingleInCell
  <2>3. ASSUME NEW i \in Runs, st'[i] \in Counted,
               RunMode[run'[i].rule] = "queued"
        PROVE  count'[run'[i].cell] <= MaxQueue[run'[i].rule]
    <3>1. /\ run[i].cell \in Cells /\ run[i].rule \in Rules
          /\ count[run[i].cell] <= MaxQueue[run[i].rule]
          /\ count'[run[i].cell] <= count[run[i].cell]
      BY <2>1, <2>3, CountedSpawned DEF QueueRoom
    <3>2. /\ count[run[i].cell] \in Int /\ MaxQueue[run[i].rule] \in Int
          /\ count'[run[i].cell] \in Int
      BY <3>1, ShapeStep, EngineAssumption DEF Shape, CellShape
    <3>3. QED
      BY <2>1, <3>1, <3>2
  <2>4. QED
    BY <2>2, <2>3 DEF QueueRoom
<1>3. QED
  BY <1>1, <1>2
-----------------------------------------------------------------------------
(* The turn of Queued.                                                      *)

LEMMA TurnHeldStep ==
    ASSUME Shape, TurnHeld, [Next]_vars
    PROVE  TurnHeld'
<1>0. /\ turn \in [Cells -> 0..MaxRuns]
      /\ st \in [Runs -> RunStates]
      /\ 1..nRuns \subseteq Runs
      /\ \A j \in 1..nRuns : run[j].cell \in Cells
  <2>1. nRuns \in 0..MaxRuns /\ nCells \in 0..MaxCells
    BY DEF Shape, RunShape, CellShape
  <2>2. QED
    BY <2>1, ExecutorAssumption, EngineAssumption
       DEF Shape, RunShape, CellShape, Runs, Cells
<1>1. CASE Aside
  BY <1>1 DEF Aside, TurnHeld
<1>2. CASE ModeSkips
  BY <1>2 DEF ModeSkips, TakeCell, execVars, runVars, TurnHeld
<1>3. CASE ModeAllows
  BY <1>3 DEF ModeAllows, TakeCell, runVars, TurnHeld
<1>4. CASE Purge
  BY <1>4 DEF Purge, runVars, TurnHeld
<1>5. CASE Fires
  <2>1. PICK k \in Runs : k = nRuns + 1
    BY <1>5, FiresEffect
  <2>2. /\ run'[k].rule = Firing
        /\ RunMode[Firing] = "queued" => st'[k] \notin PastTurn
        /\ \A j \in 1..nRuns : run'[j] = run[j] /\ st'[j] = st[j]
        /\ \A j \in 1..nRuns' : j = k \/ j \in 1..nRuns
    <3>1. "spawned" \notin PastTurn
      BY DEF PastTurn, Executing
    <3>2. QED
      BY <1>5, <2>1, <3>1, NewRun
  <2>3. turn' = turn
    BY <1>5 DEF Fires
  <2>4. QED
    BY <2>2, <2>3 DEF TurnHeld
<1>6. ASSUME NEW i \in Runs, TakeTurn(i) PROVE TurnHeld'
  <2>1. /\ st[i] = "queued" /\ turn[run[i].cell] = None
        /\ turn' = [turn EXCEPT ![run[i].cell] = i]
        /\ st' = [st EXCEPT ![i] = "ready"] /\ UNCHANGED <<nRuns, run>>
    BY <1>6 DEF TakeTurn, runVars
  <2>2. SUFFICES ASSUME NEW j \in 1..nRuns, RunMode[run[j].rule] = "queued",
                        st'[j] \in PastTurn
                 PROVE  turn'[run[j].cell] = j
    BY <2>1 DEF TurnHeld
  <2>3. CASE j = i
    BY <1>0, <2>1, <2>3
  <2>4. CASE j # i
    <3>1. turn[run[j].cell] = j
      BY <1>0, <2>1, <2>2, <2>4 DEF TurnHeld
    <3>2. j # None
      BY DEF None
    <3>3. QED
      BY <1>0, <2>1, <3>1, <3>2
  <2>5. QED
    BY <2>3, <2>4
<1>7. ASSUME NEW i \in Runs, Close(i) PROVE TurnHeld'
  <2>1. /\ turn' = IF turn[run[i].cell] = i
                     THEN [turn EXCEPT ![run[i].cell] = None] ELSE turn
        /\ st' = [st EXCEPT ![i] = "finished"] /\ UNCHANGED <<nRuns, run>>
    BY <1>7 DEF Close, runVars
  <2>2. SUFFICES ASSUME NEW j \in 1..nRuns, RunMode[run[j].rule] = "queued",
                        st'[j] \in PastTurn
                 PROVE  turn'[run[j].cell] = j
    BY <2>1 DEF TurnHeld
  <2>3. j # i
    BY <1>0, <2>1, <2>2 DEF PastTurn, Executing
  <2>4. turn[run[j].cell] = j
    BY <1>0, <2>1, <2>2, <2>3 DEF TurnHeld
  <2>5. QED
    BY <1>0, <2>1, <2>3, <2>4
<1>8. ASSUME NEW i \in Runs,
             \/ AskTurn(i) \/ ExecStep(i) \/ Record(i) \/ Uncount(i) \/ Land(i)
      PROVE  TurnHeld'
  <2>1. UNCHANGED <<turn, nRuns, run>>
    BY <1>8, ExecEffect
       DEF AskTurn, Record, Uncount, Land, runVars, cellVars, Shape
  <2>2. \A j \in Runs : st'[j] \in PastTurn => st[j] \in PastTurn
    <3> USE <1>0 DEF PastTurn, Executing
    <3>1. CASE AskTurn(i)   BY <3>1 DEF AskTurn
    <3>2. CASE ExecStep(i)  BY <3>2, ExecEffect DEF Shape
    <3>3. CASE Record(i)    BY <3>3 DEF Record
    <3>4. CASE Uncount(i)   BY <3>4 DEF Uncount
    <3>5. CASE Land(i)      BY <3>5 DEF Land
    <3>6. QED
      BY <1>8, <3>1, <3>2, <3>3, <3>4, <3>5
  <2>3. QED
    BY <1>0, <2>1, <2>2 DEF TurnHeld
<1>9. QED
  BY <1>1, <1>2, <1>3, <1>4, <1>5, <1>6, <1>7, <1>8, StepKinds DEF Shape

-----------------------------------------------------------------------------
(* The stop flags of Restart.                                               *)

LEMMA OlderStoppedStep ==
    ASSUME Shape, CellsOwned, OlderStopped, [Next]_vars
    PROVE  OlderStopped'
<1>0. /\ latest \in [Cells -> 0..nRuns]
      /\ nRuns \in Nat /\ 1..nRuns \subseteq Runs
      /\ \A j \in 1..nRuns : run[j].cell \in Cells
  <2>1. nRuns \in 0..MaxRuns /\ nCells \in 0..MaxCells
    BY DEF Shape, RunShape, CellShape
  <2>2. QED
    BY <2>1, ExecutorAssumption, EngineAssumption
       DEF Shape, RunShape, CellShape, Runs, Cells
<1>1. CASE Fires
  <2>1. PICK k \in Runs : k = nRuns + 1
    BY <1>1, FiresEffect
  <2>2. PICK c \in Cells : c = firingCell
    BY <1>1, FiresEffect, EngineAssumption DEF Shape, CellShape, Cells
  <2>3. /\ run'[k].rule = Firing /\ run'[k].cell = c
        /\ \A j \in 1..nRuns : j < k /\ run'[j] = run[j]
        /\ \A j \in 1..nRuns' : j = k \/ j \in 1..nRuns
    BY <1>1, <2>1, <2>2, NewRun
  <2>4. /\ latest'[c] = k /\ \A d \in Cells : d # c => latest'[d] = latest[d]
        /\ exitFlag' = exitFlag /\ loop = "conditions" /\ loop' = "fire"
    BY <1>0, <1>1, <2>1, <2>2, FiresEffect DEF Fires
  <2>5. \A j \in 1..nRuns : run[j].cell = c => run[j].rule = Firing
    BY <2>2, <2>4 DEF CellsOwned
  <2>6. \A j \in 1..nRuns' : j <= latest'[run'[j].cell]
    BY <1>0, <2>1, <2>3, <2>4 DEF OlderStopped
  <2>7. ASSUME NEW j \in 1..nRuns', RunMode[run'[j].rule] = "restart",
               j # latest'[run'[j].cell]
        PROVE  exitFlag'[j]
    <3>1. j \in 1..nRuns /\ run'[j] = run[j]
      BY <2>3, <2>4, <2>7
    <3>2. CASE run[j].cell # c
      BY <1>0, <2>4, <2>7, <3>1, <3>2 DEF OlderStopped
    <3>3. CASE run[j].cell = c /\ j # latest[c]
      BY <2>4, <2>7, <3>1, <3>3 DEF OlderStopped
    <3>4. CASE run[j].cell = c /\ j = latest[c]
      <4>1. RunMode[Firing] = "restart" /\ latest[firingCell] # None
        BY <2>2, <2>5, <2>7, <3>1, <3>4 DEF None
      <4>2. QED
        BY <2>2, <2>4, <3>4, <4>1 DEF OlderStopped
    <3>5. QED
      BY <3>2, <3>3, <3>4
  <2>8. QED
    BY <2>4, <2>6, <2>7 DEF OlderStopped
<1>2. ASSUME UNCHANGED <<nRuns, run, latest>>,
             \A j \in Runs : exitFlag[j] => exitFlag'[j]
      PROVE  /\ \A i \in 1..nRuns' : i <= latest'[run'[i].cell]
             /\ \A i \in 1..nRuns' :
                   RunMode[run'[i].rule] = "restart"
                      /\ i # latest'[run'[i].cell] => exitFlag'[i]
  BY <1>0, <1>2 DEF OlderStopped
<1>3. ASSUME UNCHANGED <<nRuns, run, latest>>,
             \A j \in Runs : exitFlag[j] => exitFlag'[j],
             loop' = "conditions" =>
                loop = "conditions" /\ UNCHANGED <<batch, firingCell>>
      PROVE  OlderStopped'
  <2>1. ASSUME loop' = "conditions", RunMode[Firing'] = "restart",
               latest'[firingCell'] # None
        PROVE  exitFlag'[latest'[firingCell']]
    <3>1. /\ loop = "conditions" /\ Firing' = Firing /\ firingCell' = firingCell
          /\ latest' = latest
      BY <1>3, <2>1, FiringUnmoved
    <3>2. firingCell \in Cells
      BY <3>1, EngineAssumption DEF Shape, LoopShape, CellShape, Cells, None
    <3>3. latest[firingCell] \in Runs
      BY <1>0, <2>1, <3>1, <3>2 DEF None
    <3>4. exitFlag[latest[firingCell]]
      BY <2>1, <3>1 DEF OlderStopped
    <3>5. QED
      BY <1>3, <3>1, <3>3, <3>4
  <2>2. QED
    BY <1>2, <1>3, <2>1 DEF OlderStopped
<1>4. CASE Aside
  BY <1>3, <1>4 DEF Aside, InFire
<1>5. CASE RunMoves
  BY <1>3, <1>5 DEF RunMoves, loopVars
<1>6. CASE Purge
  BY <1>3, <1>6 DEF Purge, loopVars, runVars
<1>7. CASE ModeSkips
  BY <1>3, <1>7 DEF ModeSkips, NotFired, TakeCell, execVars, runVars
<1>8. CASE ModeAllows
  <2>1. /\ UNCHANGED <<nRuns, run, latest, batch>> /\ firingCell' = Cell
        /\ Cell \in Cells
        /\ \A j \in Runs : exitFlag[j] => exitFlag'[j]
        /\ RunMode[Firing] = "restart" =>
              \A j \in Runs : j = latest[Cell] => exitFlag'[j]
    BY <1>8 DEF ModeAllows, TakeCell, runVars
  <2>2. latest[Cell] # None => latest[Cell] \in Runs
    BY <1>0, <2>1 DEF None
  <2>3. QED
    BY <1>2, <2>1, <2>2, FiringUnmoved DEF OlderStopped
<1>9. QED
  BY <1>1, <1>4, <1>5, <1>6, <1>7, <1>8, StepEffects
-----------------------------------------------------------------------------
(* The cooldown.                                                            *)

(* The last part of Rested, from one state of the event loop to the next.   *)
LEMMA StaysOutOfCooldown ==
    ASSUME Shape, Shape', loop \in InFire, UNCHANGED <<batch, kind>>,
           lastFire'[Firing] = lastFire[Firing], now' >= now,
           lastFire[Firing] # Never => lastFire[Firing] <= now,
           ~ InCooldown(Firing)
    PROVE  ~ InCooldown(Firing)'
<1>1. Firing \in Rules /\ Firing' = Firing
  BY FiringIn, FiringUnmoved DEF Shape
<1>2. /\ now \in Nat /\ now' \in Nat /\ lastFire[Firing] \in Nat
      /\ CooldownSecs[Firing] \in Nat
  BY <1>1, EngineAssumption DEF Shape, TimeShape
<1>3. QED
  BY <1>1, <1>2 DEF InCooldown

LEMMA RestedStep ==
    ASSUME Shape, Shape', Rested, [Next]_vars
    PROVE  Rested'
<1>0. /\ now \in Nat /\ now <= MaxTime /\ MaxTime \in Nat
      /\ lastFire \in [Rules -> Nat]
      /\ \A j \in 1..nRuns : run[j].rule \in Rules /\ run[j].at \in Nat
  <2>1. nRuns \in 0..MaxRuns /\ run \in [Runs -> RunRecord]
    BY DEF Shape, RunShape
  <2>2. \A j \in 1..nRuns : j \in Runs
    BY <2>1, ExecutorAssumption DEF Runs
  <2>3. \A j \in 1..nRuns : run[j].at \in Nat
    BY <2>1, <2>2 DEF RunRecord
  <2>4. QED
    BY <2>3, EngineAssumption DEF Shape, TimeShape, RunShape
<1>1. CASE Aside
  <2>1. /\ now' >= now /\ now' \in Nat
        /\ UNCHANGED <<nRuns, run, lastFire, dropped>>
    BY <1>0, <1>1 DEF Aside
  <2>2. ASSUME loop' \in InFire, kind' = "event", Firing' \notin dropped'
        PROVE  ~ InCooldown(Firing)'
    <3>1. UNCHANGED <<batch, kind, firingCell>> /\ Firing' = Firing
      BY <1>1, <2>2, FiringUnmoved DEF Aside
    <3>2. CASE loop \in InFire
      <4>1. Firing \in Rules
        BY <3>2, FiringIn DEF Shape
      <4>2. QED
        BY <2>1, <2>2, <3>1, <3>2, <4>1, StaysOutOfCooldown DEF Rested
    <3>3. CASE FireBegins
      <4>1. ~ InCooldown(Firing) /\ UNCHANGED <<now, lastFire>>
        BY <2>2, <3>1, <3>3 DEF FireBegins, ruleVars
      <4>2. QED
        BY <3>1, <4>1 DEF InCooldown
    <3>4. QED
      BY <1>1, <2>2, <3>2, <3>3 DEF Aside
  <2>3. /\ \A j \in 1..nRuns' : run'[j].at <= now'
        /\ \A r \in Rules : lastFire'[r] # Never => lastFire'[r] <= now'
    BY <1>0, <2>1 DEF Rested
  <2>4. \A j \in 1..nRuns' :
           CooldownSecs[run'[j].rule] > 0 /\ run'[j].rule \notin dropped' =>
               /\ lastFire'[run'[j].rule] # Never
               /\ run'[j].at <= lastFire'[run'[j].rule]
    BY <2>1 DEF Rested
  <2>5. QED
    BY <2>2, <2>3, <2>4 DEF Rested
<1>2. CASE RunMoves
  BY <1>2, FiringUnmoved DEF RunMoves, loopVars, Rested, InCooldown
<1>3. CASE ModeSkips
  BY <1>3 DEF ModeSkips, NotFired, runVars, Rested, InFire
<1>4. CASE ModeAllows
  BY <1>4, FiringUnmoved
     DEF ModeAllows, runVars, ruleVars, Rested, InFire, InCooldown
<1>5. CASE Purge
  <2>1. /\ UNCHANGED <<nRuns, run, now, loopVars>>
        /\ dropped' = dropped \cup (Rules \ loaded)
        /\ lastFire' = [r \in Rules |->
                           IF r \in loaded THEN lastFire[r] ELSE Never]
    BY <1>5 DEF Purge, runVars
  <2>2. \A r \in Rules : /\ r \notin dropped' => lastFire'[r] = lastFire[r]
                         /\ lastFire'[r] # Never => lastFire'[r] = lastFire[r]
    BY <2>1
  <2>3. ASSUME loop' \in InFire, kind' = "event", Firing' \notin dropped'
        PROVE  ~ InCooldown(Firing)'
    <3>1. Firing \in Rules /\ Firing' = Firing
      BY <2>1, <2>3, FiringIn, FiringUnmoved DEF Shape, loopVars
    <3>2. lastFire'[Firing] = lastFire[Firing] /\ now' = now
      BY <2>1, <2>2, <2>3, <3>1
    <3>3. ~ InCooldown(Firing)
      BY <2>1, <2>3, <3>1 DEF Rested, loopVars
    <3>4. QED
      BY <3>1, <3>2, <3>3 DEF InCooldown
  <2>4. QED
    BY <1>0, <2>1, <2>2, <2>3 DEF Rested
<1>6. CASE Fires
  <2>1. PICK k \in Runs : k = nRuns + 1
    BY <1>6, FiresEffect
  <2>2. /\ run'[k].rule = Firing /\ run'[k].at = now
        /\ \A j \in 1..nRuns : run'[j] = run[j]
        /\ \A j \in 1..nRuns' : j = k \/ j \in 1..nRuns
    BY <1>6, <2>1, NewRun
  <2>3. /\ Firing \in Rules /\ loop' = "fire" /\ UNCHANGED <<now, dropped>>
        /\ lastFire' = IF CooldownSecs[Firing] > 0
                         THEN [lastFire EXCEPT ![Firing] = now] ELSE lastFire
    BY <1>6, FiresEffect
  <2>4. now # Never
    BY <1>0 DEF Never
  <2>5. \A r \in Rules : \/ lastFire'[r] = lastFire[r]
                         \/ r = Firing /\ lastFire'[r] = now
    BY <1>0, <2>3
  <2>6. CooldownSecs[Firing] > 0 => lastFire'[Firing] = now
    BY <1>0, <2>3
  <2>7. QED
    BY <1>0, <2>2, <2>3, <2>4, <2>5, <2>6 DEF Rested, InFire
<1>7. QED
  BY <1>1, <1>2, <1>3, <1>4, <1>5, <1>6, StepEffects

LEMMA CooldownKeptStep ==
    ASSUME Shape, Rested, CooldownKept, [Next]_vars
    PROVE  CooldownKept'
<1>1. CASE Fires
  <2>1. PICK k \in Runs : k = nRuns + 1
    BY <1>1, FiresEffect
  <2>2. /\ run'[k].rule = Firing /\ run'[k].at = now /\ run'[k].kind = kind
        /\ \A j \in 1..nRuns : run'[j] = run[j] /\ j < k
        /\ \A j \in 1..nRuns' : j = k \/ j \in 1..nRuns
        /\ nRuns \in Nat
    BY <1>1, <2>1, NewRun, ExecutorAssumption DEF Shape, RunShape
  <2>3. Firing \in Rules /\ dropped' = dropped /\ loop = "conditions"
    BY <1>1, FiresEffect DEF Fires
  <2>4. /\ now \in Nat /\ lastFire[Firing] \in Nat
        /\ CooldownSecs[Firing] \in Nat
        /\ \A j \in 1..nRuns : run[j].at \in Nat
    <3>1. \A j \in 1..nRuns : run[j].at \in Nat
      <4>1. run \in [Runs -> RunRecord] /\ \A j \in 1..nRuns : j \in Runs
        BY <1>1, NewRun DEF Shape, RunShape
      <4>2. QED
        BY <4>1 DEF RunRecord
    <3>2. QED
      BY <2>3, <3>1, EngineAssumption DEF Shape, TimeShape
  <2>5. ASSUME NEW i \in 1..nRuns, run[i].rule = Firing,
               kind = "event", Firing \notin dropped
        PROVE  now - run[i].at >= CooldownSecs[Firing]
    <3>1. run[i].at <= now
      BY DEF Rested
    <3>2. CASE CooldownSecs[Firing] = 0
      BY <2>4, <3>1, <3>2
    <3>3. CASE CooldownSecs[Firing] > 0
      <4>1. lastFire[Firing] # Never /\ run[i].at <= lastFire[Firing]
        BY <2>5, <3>3 DEF Rested
      <4>2. ~ (now - lastFire[Firing] < CooldownSecs[Firing])
        BY <2>3, <2>5, <3>3, <4>1 DEF Rested, InFire, InCooldown
      <4>3. QED
        BY <2>4, <4>1, <4>2
    <3>4. QED
      BY <2>4, <3>2, <3>3
  <2>6. SUFFICES ASSUME NEW i \in 1..nRuns', NEW j \in 1..nRuns', i < j,
                        run'[i].rule = run'[j].rule, run'[j].kind = "event",
                        run'[j].rule \notin dropped'
                 PROVE  run'[j].at - run'[i].at >= CooldownSecs[run'[j].rule]
    BY DEF CooldownKept
  <2>7. i \in 1..nRuns
    BY <2>1, <2>2, <2>6
  <2>8. CASE j = k
    BY <2>2, <2>3, <2>5, <2>6, <2>7, <2>8
  <2>9. CASE j # k
    BY <2>2, <2>3, <2>6, <2>7, <2>9 DEF CooldownKept
  <2>10. QED
    BY <2>8, <2>9
<1>2. CASE ~ Fires
  <2>1. UNCHANGED <<nRuns, run>>
    BY <1>2, OnlyFiringAdds
  <2>2. dropped \subseteq dropped'
    <3>1. CASE Aside       BY <3>1 DEF Aside
    <3>2. CASE RunMoves    BY <3>2 DEF RunMoves
    <3>3. CASE Purge       BY <3>3 DEF Purge
    <3>4. CASE ModeSkips   BY <3>4 DEF ModeSkips
    <3>5. CASE ModeAllows  BY <3>5 DEF ModeAllows, ruleVars
    <3>6. QED
      BY <1>2, <3>1, <3>2, <3>3, <3>4, <3>5, StepEffects
  <2>3. QED
    BY <2>1, <2>2 DEF CooldownKept
<1>3. QED
  BY <1>1, <1>2
-----------------------------------------------------------------------------
LEMMA IInvInit == Init => IInv
<1> SUFFICES ASSUME Init PROVE IInv
  OBVIOUS
<1>1. Shape
  BY ShapeInit
<1>2. nRuns = 0 /\ loop = "fire" /\ \A i \in Runs : st[i] = "none"
  BY DEF Init, ExecInit
<1>3. \A i \in Runs : st[i] \notin Counted /\ st[i] \notin Flying
  BY <1>2 DEF Counted, Flying, RunStates
<1>4. CountsExact
  <2>1. \A c \in Cells : CountedIn(c) = {}
    BY <1>3 DEF CountedIn
  <2>2. {i \in Runs : st[i] \in Flying} = {}
    BY <1>3
  <2>3. inFlight = 0 /\ \A c \in Cells : count[c] = 0
    BY DEF Init
  <2>4. QED
    BY <2>1, <2>2, <2>3, FS_EmptySet DEF CountsExact
<1>5. CellsOwned
  <2>1. \A r \in Rules : cellOf[r] = None
    BY DEF Init
  <2>2. QED
    BY <1>2, <2>1 DEF CellsOwned
<1>6. RoomKept /\ SingleInCell /\ QueueRoom
  BY <1>2, <1>3 DEF RoomKept, SingleInCell, QueueRoom
<1>7. TurnHeld /\ OlderStopped /\ CooldownKept
  BY <1>2 DEF TurnHeld, OlderStopped, CooldownKept
<1>8. Rested
  <2>1. \A r \in Rules : lastFire[r] = Never
    BY DEF Init
  <2>2. QED
    BY <1>2, <2>1 DEF Rested, InFire
<1>9. QED
  BY <1>1, <1>4, <1>5, <1>6, <1>7, <1>8 DEF IInv

LEMMA IInvStep == IInv /\ [Next]_vars => IInv'
BY ShapeStep, CountsStep, CellsOwnedStep, RoomKeptStep, LimitsStep,
   TurnHeldStep, OlderStoppedStep, RestedStep, CooldownKeptStep
   DEF IInv

(* Every reachable state of the engine satisfies the inductive invariant.   *)
THEOREM Inductive == Spec => []IInv
<1>1. Init => IInv
  BY IInvInit
<1>2. IInv /\ [Next]_vars => IInv'
  BY IInvStep
<1>3. QED
  BY <1>1, <1>2, PTL DEF Spec

(* The counters of fire and of the shutdown drain are exact.                *)
THEOREM CountersCorrect == Spec => []CountsExact
<1>1. IInv => CountsExact
  BY DEF IInv
<1>2. QED
  BY <1>1, Inductive, PTL

(* Single: a rule that no purge has dropped has at most one run, though the *)
(* counter is read in one step of fire and raised in a later one.           *)
THEOREM SingleCorrect == Spec => []SingleAlone
<1>1. IInv => SingleAlone
  <2> SUFFICES ASSUME IInv,
                      NEW i \in Runs, NEW j \in Runs,
                      st[i] \in Counted, st[j] \in Counted,
                      run[i].rule = run[j].rule,
                      RunMode[run[i].rule] = "single",
                      run[i].rule \notin dropped
               PROVE  i = j
    BY DEF SingleAlone
  <2>1. i \in 1..nRuns /\ j \in 1..nRuns
    BY CountedSpawned DEF IInv
  <2>2. run[i].cell = cellOf[run[i].rule] /\ run[j].cell = cellOf[run[j].rule]
    BY <2>1 DEF IInv, CellsOwned
  <2>3. QED
    BY <2>2 DEF IInv, SingleInCell
<1>2. QED
  BY <1>1, Inductive, PTL

(* Queued: no more than max_queue runs wait or run.                         *)
THEOREM QueueBoundCorrect == Spec => []QueueBounded
<1>1. IInv => QueueBounded
  <2> SUFFICES ASSUME IInv, NEW i \in Runs, st[i] \in Counted,
                      RunMode[run[i].rule] = "queued"
               PROVE  Cardinality(CountedIn(run[i].cell))
                         <= MaxQueue[run[i].rule]
    BY DEF QueueBounded
  <2>1. count[run[i].cell] = Cardinality(CountedIn(run[i].cell))
    BY CountedSpawned DEF IInv, CountsExact
  <2>2. QED
    BY <2>1 DEF IInv, QueueRoom
<1>2. QED
  BY <1>1, Inductive, PTL

(* Queued: two runs of one cell never execute their actions together.       *)
THEOREM QueueTurnCorrect == Spec => []QueueOneAtATime
<1>1. IInv => QueueOneAtATime
  <2> SUFFICES ASSUME IInv, NEW i \in Runs, NEW j \in Runs,
                      st[i] \in Executing, st[j] \in Executing,
                      run[i].cell = run[j].cell,
                      RunMode[run[i].rule] = "queued"
               PROVE  i = j
    BY DEF QueueOneAtATime
  <2>1. st[i] \in Counted /\ st[j] \in Counted
    BY DEF Executing, Counted, RunStates
  <2>2. i \in 1..nRuns /\ j \in 1..nRuns
    BY <2>1, CountedSpawned DEF IInv
  <2>3. run[j].rule = run[i].rule
    BY <2>2 DEF IInv, CellsOwned
  <2>4. turn[run[i].cell] = i /\ turn[run[j].cell] = j
    BY <2>2, <2>3 DEF IInv, TurnHeld, PastTurn
  <2>5. QED
    BY <2>4
<1>2. QED
  BY <1>1, Inductive, PTL

(* Restart: the stop flag of every run but the newest of a cell is up.      *)
THEOREM RestartCorrect == Spec => []RestartSupersedes
<1>1. IInv => RestartSupersedes
  <2> SUFFICES ASSUME IInv, NEW i \in Runs, NEW j \in Runs,
                      st[i] \in Counted, st[j] \in Counted,
                      run[i].cell = run[j].cell,
                      RunMode[run[i].rule] = "restart", i < j
               PROVE  exitFlag[i]
    BY DEF RestartSupersedes
  <2>1. i \in 1..nRuns /\ j \in 1..nRuns /\ run[i].cell \in Cells
    BY CountedSpawned DEF IInv
  <2>2. j <= latest[run[i].cell] /\ latest[run[i].cell] \in Int
        /\ nRuns \in Int
    BY <2>1, ExecutorAssumption
       DEF IInv, OlderStopped, Shape, CellShape, RunShape
  <2>3. i # latest[run[i].cell]
    BY <2>1, <2>2
  <2>4. QED
    BY <2>1, <2>3 DEF IInv, OlderStopped
<1>2. QED
  BY <1>1, Inductive, PTL

(* cooldown_secs: no event fires a rule within the cooldown of its last     *)
(* start, though the check comes several waits before the new start.        *)
THEOREM CooldownCorrect == Spec => []CooldownKept
<1>1. IInv => CooldownKept
  BY DEF IInv
<1>2. QED
  BY <1>1, Inductive, PTL

-----------------------------------------------------------------------------
(* Once the loop has stopped it stays so, and a run that is past in_flight  *)
(* only closes.                                                             *)
LEMMA DrainedCleanStep ==
    ASSUME Shape, CountsExact, DrainedClean, [Next]_vars
    PROVE  DrainedClean'
<1> DEFINE Over == {"none", "closing", "finished"}
<1> USE DEF execVars, loopVars, cellVars, runVars, ruleVars
<1>1. st \in [Runs -> RunStates]
  BY DEF Shape, RunShape
<1>2. CASE Drained
  <2>1. SUFFICES ASSUME inFlight = 0 PROVE DrainedClean'
    BY <1>2 DEF Drained, DrainedClean
  <2>2. FlyingRuns = {}
    BY <2>1, RunsFinite, FS_EmptySet DEF CountsExact, FlyingRuns
  <2>3. \A i \in Runs : st[i] \in Over
    BY <1>1, <2>2 DEF FlyingRuns, Flying, Counted, RunStates
  <2>4. QED
    BY <1>2, <2>3 DEF Drained, DrainedClean
<1>3. CASE UNCHANGED <<loop, st>>
  BY <1>3 DEF DrainedClean
<1>4. CASE loop' # "stopped"
  BY <1>4 DEF DrainedClean
<1>5. ASSUME UNCHANGED loop,
             \A j \in Runs : st'[j] = st[j] \/ st[j] \notin Over
                             \/ st'[j] \in Over
      PROVE  DrainedClean'
  BY <1>5 DEF DrainedClean
<1>6. ASSUME NEW i \in Runs, ExecStep(i) PROVE DrainedClean'
  BY <1>5, <1>6, ExecEffect DEF Shape, Executing
<1>7. ASSUME NEW i \in Runs,
             AskTurn(i) \/ TakeTurn(i) \/ Record(i) \/ Uncount(i) \/ Land(i)
             \/ Close(i)
      PROVE  DrainedClean'
  BY <1>1, <1>5, <1>7 DEF AskTurn, TakeTurn, Record, Uncount, Land, Close
<1>8. ASSUME NEW i \in Runs,
             RunTask(i) \/ Execute(BranchStep(i)) \/ Execute(EventComes(i))
      PROVE  DrainedClean'
  BY <1>6, <1>7, <1>8 DEF RunTask, ExecStep
<1>9. CASE Fire
  BY <1>3, <1>4, <1>9
     DEF Fire, FirePaused, FireCooldown, FireBegins, RequiredExpressionFails,
         TriggerGateFails, GatesPass, FireErrors, ModeSkips, ModeAllows,
         ConditionsFail, Fires, NotFired
<1>10. ASSUME NEW S \in SUBSET Rules, HandleEvent(S) \/ SwapRules(S)
       PROVE  DrainedClean'
  BY <1>3, <1>10 DEF HandleEvent, SwapRules
<1>11. ASSUME NEW r \in Rules, NEW k \in Kinds, HandleManualRun(r, k)
       PROVE  DrainedClean'
  BY <1>3, <1>11 DEF HandleManualRun
<1>12. CASE Purge \/ Tick \/ Shutdown \/ UNCHANGED vars
  BY <1>3, <1>4, <1>12 DEF Purge, Tick, Shutdown, vars
<1>13. QED
  BY <1>2, <1>8, <1>9, <1>10, <1>11, <1>12 DEF Next

(* The drain: a shutdown that was not forced leaves no run that is still    *)
(* doing its actions or has its history to write, though the loop looks at  *)
(* one counter and each run leaves it a step after its own.                 *)
THEOREM DrainCorrect == Spec => []DrainedClean
<1>1. Init => DrainedClean
  BY DEF Init, DrainedClean
<1>2. IInv /\ DrainedClean /\ [Next]_vars => DrainedClean'
  BY DrainedCleanStep DEF IInv
<1>3. QED
  BY <1>1, <1>2, Inductive, PTL DEF Spec

-----------------------------------------------------------------------------
(* The engine implements RunModes, for any rules, action lists, run modes   *)
(* and bounds: the refinement mapping.                                      *)

Waiting  == {"spawned", "queued"}
Carrying == Executing \cup {"ended", "recorded"}   \* active, to RunModes

LEMMA Phases ==
    ASSUME NEW s \in RunStates
    PROVE  /\ PhaseOf(s) = "none"    <=> s = "none"
           /\ PhaseOf(s) = "waiting" <=> s \in Waiting
           /\ PhaseOf(s) = "active"  <=> s \in Carrying
           /\ PhaseOf(s) \in {"waiting", "active"} <=> s \in Counted
           /\ s \in {"uncounted", "closing", "finished"} => PhaseOf(s) = "over"
BY DEF PhaseOf, RunStates, Counted, Waiting, Carrying, Executing

(* A step that leaves every run in its phase, with its rule and its cell.   *)
LEMMA PhasesKept ==
    ASSUME \A j \in Runs : PhaseOf(st'[j]) = PhaseOf(st[j]), run' = run
    PROVE  /\ [j \in Runs |-> PhaseOf(st[j])]' = [j \in Runs |-> PhaseOf(st[j])]
           /\ UNCHANGED <<[j \in Runs |-> run[j].rule], [j \in Runs |-> run[j].cell]>>
OBVIOUS

(* A step of one run that leaves it in its phase is a stutter.              *)
LEMMA SamePhase ==
    ASSUME RunShape, NEW i \in Runs, NEW s \in RunStates,
           st' = [st EXCEPT ![i] = s], PhaseOf(s) = PhaseOf(st[i]),
           UNCHANGED <<run, exitFlag>>
    PROVE  UNCHANGED Promise!modeVars
<1>1. \A j \in Runs : PhaseOf(st'[j]) = PhaseOf(st[j])
  BY DEF RunShape
<1>2. QED
  BY <1>1, PhasesKept DEF Promise!modeVars

(* RunModes counts with FiniteSets as the engine does.                      *)
LEMMA SameCardinality == \A S : Promise!Cardinality(S) = Cardinality(S)
BY DEF Promise!Cardinality, Cardinality

(* A step of one run to another phase.                                      *)
LEMMA OtherPhase ==
    ASSUME RunShape, NEW i \in Runs, NEW s \in RunStates,
           st' = [st EXCEPT ![i] = s]
    PROVE  [j \in Runs |-> PhaseOf(st[j])]'
             = [[j \in Runs |-> PhaseOf(st[j])] EXCEPT ![i] = PhaseOf(s)]
<1>1. \A j \in Runs : st'[j] = IF j = i THEN s ELSE st[j]
  BY DEF RunShape
<1>2. \A j \in Runs : PhaseOf(st'[j]) = IF j = i THEN PhaseOf(s) ELSE PhaseOf(st[j])
  BY <1>1
<1>3. QED
  BY <1>2

-----------------------------------------------------------------------------
(* Only the runs of Queued rules wait for a turn.                           *)
WaitersQueued ==
    \A i \in 1..nRuns : st[i] \in Waiting => RunMode[run[i].rule] = "queued"

LEMMA WaitersQueuedStep ==
    ASSUME Shape, Shape', WaitersQueued, [Next]_vars
    PROVE  WaitersQueued'
<1> USE DEF WaitersQueued, Waiting
<1>0. 1..nRuns \subseteq Runs
  BY ExecutorAssumption DEF Shape, RunShape, Runs
<1>1. ASSUME UNCHANGED <<st, nRuns, run>> PROVE WaitersQueued'
  BY <1>1
<1>2. CASE Fires
  <2> DEFINE k == nRuns + 1
  <2>1. SUFFICES ASSUME NEW j \in 1..nRuns', st'[j] \in Waiting
                 PROVE  RunMode[run'[j].rule] = "queued"
    OBVIOUS
  <2>2. CASE j = k
    <3>1. st'[k] = "spawned"
      BY <1>2, <2>1, <2>2, NewRun DEF Waiting
    <3>2. run'[k].rule = Firing
      BY <1>2, NewRun
    <3>3. PICK s \in {"spawned", "ready"} :
             st' = [st EXCEPT ![k] = s] /\ (RunMode[Firing] = "queued" <=> s = "spawned")
      BY <1>2, FiresEffect
    <3>4. st'[k] = s
      BY <1>2, <3>3, NewRun DEF Shape, RunShape
    <3>5. QED
      BY <2>2, <3>1, <3>2, <3>3, <3>4
  <2>3. CASE j # k
    <3>1. j \in 1..nRuns
      BY <1>2, <2>1, <2>3, NewRun
    <3>2. st'[j] = st[j] /\ run'[j] = run[j]
      BY <1>0, <1>2, <2>3, <3>1, NewRun
    <3>3. QED
      BY <2>1, <3>1, <3>2
  <2>4. QED
    BY <2>2, <2>3
<1>3. ASSUME NEW i \in Runs, ExecStep(i) PROVE WaitersQueued'
  <2>1. /\ UNCHANGED <<nRuns, run>>
        /\ \A j \in Runs : \/ st'[j] = st[j]
                           \/ st'[j] \in Executing \cup {"ended"}
    BY <1>3, ExecEffect DEF Shape, runVars
  <2>2. QED
    BY <1>0, <2>1 DEF Executing
<1>4. ASSUME NEW i \in Runs,
             AskTurn(i) \/ TakeTurn(i) \/ Record(i) \/ Uncount(i) \/ Land(i) \/ Close(i)
      PROVE  WaitersQueued'
  <2>1. /\ UNCHANGED <<nRuns, run>>
        /\ \E s \in {"queued", "ready", "recorded", "uncounted", "closing", "finished"} :
              st' = [st EXCEPT ![i] = s] /\ (s = "queued" => st[i] = "spawned")
    BY <1>4 DEF AskTurn, TakeTurn, Record, Uncount, Land, Close, runVars
  <2>2. QED
    BY <1>0, <2>1 DEF Shape, RunShape
<1>5. QED
  BY <1>1, <1>2, <1>3, <1>4, StepKinds
     DEF Shape, Aside, ModeSkips, ModeAllows, Purge, execVars, runVars

LEMMA WaitersQueuedInit == Init => WaitersQueued
BY DEF Init, WaitersQueued

-----------------------------------------------------------------------------
(* A firing finds the room that the run mode has seen.                      *)
LEMMA StartsAllowed ==
    ASSUME IInv, Fires
    PROVE  Promise!MayStart(Firing, firingCell)
<1> DEFINE c == firingCell
<1>1. Firing \in Rules /\ c \in 1..nCells /\ c \in Cells /\ loop = "conditions"
  BY FiresEffect, EngineAssumption DEF IInv, Shape, CellShape, Cells, Fires
<1>2. Promise!Unfinished(c) = CountedIn(c)
  <2>1. \A i \in Runs : PhaseOf(st[i]) \in {"waiting", "active"} <=> st[i] \in Counted
    BY Phases DEF IInv, Shape, RunShape
  <2>2. QED
    BY <2>1 DEF Promise!Unfinished, CountedIn
<1>3. RunMode[Firing] = "single" => CountedIn(c) = {}
  BY <1>1, CountsNat DEF IInv, RoomKept
<1>4. RunMode[Firing] = "queued" => Cardinality(CountedIn(c)) < MaxQueue[Firing]
  BY <1>1 DEF IInv, RoomKept, CountsExact
<1>5. ASSUME RunMode[Firing] = "restart", NEW j \in CountedIn(c)
      PROVE  exitFlag[j]
  <2>1. j \in 1..nRuns /\ run[j].cell = c /\ j # None
    BY <1>5, CountedSpawned DEF IInv, CountedIn, None
  <2>2. run[j].rule = Firing
    BY <1>1, <2>1 DEF IInv, CellsOwned
  <2>3. QED
    BY <1>1, <1>5, <2>1, <2>2 DEF IInv, OlderStopped
<1>6. QED
  BY <1>2, <1>3, <1>4, <1>5, SameCardinality DEF Promise!MayStart, CountedIn

(* Firing starts a run.                                                     *)
LEMMA FiresStarts ==
    ASSUME IInv, Fires
    PROVE  Promise!Start(nRuns + 1, Firing, firingCell)
<1> DEFINE k == nRuns + 1
<1>1. Promise!MayStart(Firing, firingCell)
  BY StartsAllowed
<1>2. /\ RunShape /\ k \in Runs /\ st[k] = "none"
      /\ exitFlag' = exitFlag
      /\ run' = [run EXCEPT ![k] = [rule |-> Firing, cell |-> firingCell,
                                    kind |-> kind, at |-> now]]
  BY NewRun, FiresEffect DEF IInv, Shape
<1>3. PICK s \in {"spawned", "ready"} :
         st' = [st EXCEPT ![k] = s] /\ (RunMode[Firing] = "queued" <=> s = "spawned")
  BY FiresEffect DEF IInv
<1>4. PhaseOf(s) = IF RunMode[Firing] = "queued" THEN "waiting" ELSE "active"
  BY <1>3, Phases DEF RunStates, Waiting, Carrying, Executing
<1>5. [j \in Runs |-> PhaseOf(st[j])]'
        = [[j \in Runs |-> PhaseOf(st[j])] EXCEPT ![k] =
              IF RunMode[Firing] = "queued" THEN "waiting" ELSE "active"]
  BY <1>2, <1>3, <1>4, OtherPhase DEF RunStates
<1>6. [j \in Runs |-> PhaseOf(st[j])][k] = "none"
  BY <1>2, Phases DEF RunStates
<1>7. /\ [j \in Runs |-> run[j].rule]' = [[j \in Runs |-> run[j].rule] EXCEPT ![k] = Firing]
      /\ [j \in Runs |-> run[j].cell]' = [[j \in Runs |-> run[j].cell] EXCEPT ![k] = firingCell]
  <2>1. \A j \in Runs :
           run'[j] = IF j = k THEN [rule |-> Firing, cell |-> firingCell,
                                    kind |-> kind, at |-> now]
                              ELSE run[j]
    BY <1>2 DEF RunShape
  <2>2. /\ \A j \in Runs : run'[j].rule = IF j = k THEN Firing ELSE run[j].rule
        /\ \A j \in Runs : run'[j].cell = IF j = k THEN firingCell ELSE run[j].cell
    BY <2>1
  <2>3. QED
    <3> HIDE DEF k
    <3> QED  BY <2>2
<1>8. QED
  BY <1>1, <1>2, <1>5, <1>6, <1>7 DEF Promise!Start

(* Taking the turn begins a run: no other of its cell is active, as an      *)
(* active run of a Queued rule holds the turn.                              *)
LEMMA TakeTurnBegins ==
    ASSUME IInv, WaitersQueued, NEW i \in Runs, TakeTurn(i)
    PROVE  Promise!Begin(i)
<1>1. /\ RunShape /\ st[i] = "queued" /\ st' = [st EXCEPT ![i] = "ready"]
      /\ turn[run[i].cell] = None /\ UNCHANGED <<run, exitFlag>>
  BY DEF TakeTurn, IInv, Shape, runVars
<1>2. PhaseOf(st[i]) = "waiting" /\ PhaseOf("ready") = "active"
  BY <1>1, Phases DEF RunStates, Waiting, Carrying, Executing
<1>3. ASSUME NEW j \in Runs, PhaseOf(st[j]) = "active", run[j].cell = run[i].cell
      PROVE  FALSE
  <2>1. st[j] \in Carrying
    BY <1>1, <1>3, Phases DEF RunShape
  <2>2. i \in 1..nRuns /\ j \in 1..nRuns
    BY <1>1, <2>1, CountedSpawned DEF IInv, Counted, RunStates, Carrying, Executing
  <2>3. RunMode[run[j].rule] = "queued"
    BY <1>1, <1>3, <2>2 DEF IInv, CellsOwned, WaitersQueued, Waiting
  <2>4. turn[run[j].cell] = j
    BY <2>1, <2>2, <2>3 DEF IInv, TurnHeld, PastTurn, Carrying
  <2>5. QED
    BY <1>1, <1>3, <2>2, <2>4 DEF None
<1>4. [j \in Runs |-> PhaseOf(st[j])]'
        = [[j \in Runs |-> PhaseOf(st[j])] EXCEPT ![i] = "active"]
  BY <1>1, <1>2, OtherPhase DEF RunStates
<1>5. UNCHANGED <<[j \in Runs |-> run[j].rule], [j \in Runs |-> run[j].cell],
                  {j \in Runs : exitFlag[j]}>>
  BY <1>1
<1>6. QED
  BY <1>2, <1>3, <1>4, <1>5 DEF Promise!Begin

LEMMA UncountFinishes ==
    ASSUME IInv, NEW i \in Runs, Uncount(i)
    PROVE  Promise!Finish(i)
<1>1. /\ RunShape /\ st[i] = "recorded" /\ st' = [st EXCEPT ![i] = "uncounted"]
      /\ UNCHANGED <<run, exitFlag>>
  BY DEF Uncount, IInv, Shape, runVars
<1>2. PhaseOf(st[i]) = "active" /\ PhaseOf("uncounted") = "over"
  BY <1>1, Phases DEF RunStates, Carrying
<1>3. [j \in Runs |-> PhaseOf(st[j])]'
        = [[j \in Runs |-> PhaseOf(st[j])] EXCEPT ![i] = "over"]
  BY <1>1, <1>2, OtherPhase DEF RunStates
<1>4. QED
  BY <1>1, <1>2, <1>3 DEF Promise!Finish

(* The executor, and Restart, stop runs and leave them in their phases.     *)
LEMMA RaisingStops ==
    ASSUME run' = run, \A j \in Runs : PhaseOf(st'[j]) = PhaseOf(st[j]),
           \A j \in Runs : exitFlag[j] => exitFlag'[j]
    PROVE  \E S \in SUBSET Runs : Promise!Stop(S)
<1> DEFINE S == {j \in Runs : exitFlag'[j]}
<1>1. {j \in Runs : exitFlag[j]}' = {j \in Runs : exitFlag[j]} \cup S
  OBVIOUS
<1>2. Promise!Stop(S)
  BY <1>1, PhasesKept DEF Promise!Stop
<1>3. S \in SUBSET Runs
  OBVIOUS
<1>4. QED
  <2> HIDE DEF S
  <2> QED  BY <1>2, <1>3 DEF Promise!Stop

-----------------------------------------------------------------------------
LEMMA InitMaps == Init => Promise!ModesInit
<1> SUFFICES ASSUME Init PROVE Promise!ModesInit
  OBVIOUS
<1>1. \A i \in Runs : PhaseOf(st[i]) = "none" /\ ~ exitFlag[i]
  BY Phases DEF Init, ExecInit, RunStates
<1>2. \A i \in Runs : run[i].rule = 0 /\ run[i].cell = 0
  BY DEF Init, None
<1>3. QED
  BY <1>1, <1>2 DEF Promise!ModesInit

(* Every step of the engine is one of RunModes, or a stutter.               *)
LEMMA StepMaps ==
    ASSUME IInv, WaitersQueued, [Next]_vars
    PROVE  [Promise!ModesNext]_(Promise!modeVars)
<1>1. ASSUME UNCHANGED <<st, run, exitFlag>>
      PROVE  UNCHANGED Promise!modeVars
  BY <1>1, PhasesKept DEF Promise!modeVars
<1>2. CASE ModeAllows
  <2>1. /\ UNCHANGED <<st, run>>
        /\ \A j \in Runs : exitFlag[j] => exitFlag'[j]
    BY <1>2 DEF ModeAllows, runVars
  <2>2. QED
    BY <2>1, RaisingStops DEF Promise!ModesNext
<1>3. CASE Fires
  <2>1. nRuns + 1 \in Runs /\ Firing \in Rules /\ firingCell \in Cells
    BY <1>3, FiresEffect, EngineAssumption DEF IInv, Shape, CellShape, Cells
  <2>2. QED
    <3>1. Promise!Start(nRuns + 1, Firing, firingCell)
      BY <1>3, FiresStarts
    <3>2. \E k \in Runs, r \in Rules, c \in Cells : Promise!Start(k, r, c)
      BY <2>1, <3>1 DEF Promise!Start, Promise!MayStart, Promise!Unfinished
    <3>3. QED
      BY <3>2 DEF Promise!ModesNext
<1>4. ASSUME NEW i \in Runs, ExecStep(i)
      PROVE  Promise!ModesNext
  <2>1. RunShape
    BY DEF IInv, Shape
  <2>2. /\ run' = run
        /\ \A j \in Runs : exitFlag[j] => exitFlag'[j]
        /\ \A j \in Runs : \/ st'[j] = st[j]
                           \/ st[j] \in Carrying /\ st'[j] \in Carrying
    BY <1>4, <2>1, ExecEffect DEF runVars, Carrying
  <2>3. \A j \in Runs : PhaseOf(st'[j]) = PhaseOf(st[j])
    BY <2>2, Phases DEF Carrying, Executing, RunStates
  <2>4. QED
    BY <2>2, <2>3, RaisingStops DEF Promise!ModesNext
<1>5. ASSUME NEW i \in Runs, AskTurn(i) \/ Record(i) \/ Land(i) \/ Close(i)
      PROVE  UNCHANGED Promise!modeVars
  <2>1. RunShape /\ UNCHANGED <<run, exitFlag>>
    BY <1>5 DEF IInv, Shape, AskTurn, Record, Land, Close, runVars
  <2>2. CASE AskTurn(i)
    <3>1. PhaseOf("queued") = PhaseOf(st[i]) /\ st' = [st EXCEPT ![i] = "queued"]
      BY <2>2, Phases DEF AskTurn, RunStates, Waiting
    <3>2. QED  BY <2>1, <3>1, SamePhase DEF RunStates
  <2>3. CASE Record(i)
    <3>1. PhaseOf("recorded") = PhaseOf(st[i]) /\ st' = [st EXCEPT ![i] = "recorded"]
      BY <2>3, Phases DEF Record, RunStates, Carrying
    <3>2. QED  BY <2>1, <3>1, SamePhase DEF RunStates
  <2>4. CASE Land(i)
    <3>1. PhaseOf("closing") = PhaseOf(st[i]) /\ st' = [st EXCEPT ![i] = "closing"]
      BY <2>4, Phases DEF Land, RunStates
    <3>2. QED  BY <2>1, <3>1, SamePhase DEF RunStates
  <2>5. CASE Close(i)
    <3>1. PhaseOf("finished") = PhaseOf(st[i]) /\ st' = [st EXCEPT ![i] = "finished"]
      BY <2>5, Phases DEF Close, RunStates
    <3>2. QED  BY <2>1, <3>1, SamePhase DEF RunStates
  <2>6. QED
    BY <1>5, <2>2, <2>3, <2>4, <2>5
<1>6. ASSUME NEW i \in Runs, TakeTurn(i) \/ Uncount(i)
      PROVE  Promise!ModesNext
  BY <1>6, TakeTurnBegins, UncountFinishes DEF Promise!ModesNext
<1>7. CASE Aside \/ ModeSkips \/ Purge
  <2>1. UNCHANGED <<st, run, exitFlag>>
    BY <1>7 DEF Aside, ModeSkips, Purge, execVars, runVars
  <2>2. QED
    BY <1>1, <2>1
<1>8. QED
  BY <1>2, <1>3, <1>4, <1>5, <1>6, <1>7, StepKinds DEF IInv, Shape

(* engine.rs keeps what rule.rs promises of the run modes: with its event   *)
(* loop, its awaits between check and start, its counters, permits and stop *)
(* flags, it implements RunModes, whatever the rules and the bounds.        *)
THEOREM RefinementCorrect == Spec => KeepsRunModes
<1>1. Spec => []IInv
  BY Inductive
<1>2. Init => WaitersQueued
  BY WaitersQueuedInit
<1>3. IInv /\ IInv' /\ WaitersQueued /\ [Next]_vars => WaitersQueued'
  BY WaitersQueuedStep DEF IInv
<1>4. Init => Promise!ModesInit
  BY InitMaps
<1>5. IInv /\ WaitersQueued /\ [Next]_vars => [Promise!ModesNext]_(Promise!modeVars)
  BY StepMaps
<1>6. QED
  BY <1>1, <1>2, <1>3, <1>4, <1>5, PTL DEF Spec, KeepsRunModes, Promise!ModesSpec
=============================================================================
