-------------------------- MODULE RuleEngineTypes --------------------------
(***************************************************************************)
(* Type correctness of the rule engine and its executor, and exactness of   *)
(* the delay registry, for any rules, action lists, run modes and bounds.   *)
(***************************************************************************)
EXTENDS RuleEngineProofs, SequenceTheorems

-----------------------------------------------------------------------------
(* What the fields of a step are, by its kind.                              *)
LEMMA LeafFields ==
    ASSUME NEW s \in LeafSteps
    PROVE  /\ s \in Steps
           /\ s.op = "delay" => s.key \in Keys \cup {AutoKey}
           /\ s.op = "pause" => s.rule \in Rules
  BY DEF LeafSteps, PlainSteps, Steps

(* What the fields of any step are; a block keeps its type by one round.    *)
LEMMA StepFields ==
    ASSUME NEW s \in Steps
    PROVE  /\ s.op = "delay" => s.key \in Keys \cup {AutoKey}
           /\ s.op \in {"pause", "call"} => s.rule \in Rules
           /\ s.op = "parallel" => s.branches \in Seq(LeafSteps)
           /\ s.op = "block" => /\ s.body \in Seq(PlainSteps)
                                /\ s.times \in Nat
                                /\ s.times > 0 =>
                                      [s EXCEPT !.times = @ - 1] \in Steps
<1>1. CASE s \in LeafSteps
  BY <1>1 DEF LeafSteps
<1>2. CASE s \in [op : {"call"}, rule : Rules]
  BY <1>2
<1>3. CASE s \in [op : {"parallel"}, branches : Seq(LeafSteps)]
  BY <1>3
<1>4. CASE s \in [op : {"block"}, body : Seq(PlainSteps), times : Nat]
  BY <1>4 DEF Steps
<1>5. QED
  BY <1>1, <1>2, <1>3, <1>4 DEF Steps, PlainSteps

(* A frame keeps its type when its list or its flag changes.                *)
LEMMA FrameExcept ==
    ASSUME NEW f \in Frame
    PROVE  /\ \A s \in Seq(Steps) : [f EXCEPT !.rest = s] \in Frame
           /\ [f EXCEPT !.flag = TRUE] \in Frame
  BY DEF Frame

-----------------------------------------------------------------------------
(* What the executor keeps: a run has an action list for as long as it has  *)
(* steps to take, and is inside a step of it unless it is about to look at  *)
(* its stop flag.                                                           *)
Inside == Executing \ {"ready"}
Listed == Executing \cup {"spawned", "queued"}

FramesShape ==
    /\ frames \in [Runs -> Seq(Frame)]
    /\ \A i \in Runs : st[i] \in Listed => frames[i] # <<>>
    /\ \A i \in Runs : st[i] \in Inside => Top(i).rest # <<>>

BranchShape ==
    /\ branches \in [Runs -> Seq(Branch)]
    /\ joined \in [Runs -> Nat]

RegistryShape ==
    /\ registry \subseteq Entry
    /\ cut \subseteq Waiter
    /\ paused \subseteq Rules

(* The step in hand.                                                        *)
LEMMA StepInHand ==
    ASSUME FramesShape, NEW i \in Runs, st[i] \in Inside
    PROVE  /\ Top(i) \in Frame /\ Top(i).rule \in Rules
           /\ Step(i) \in Steps
           /\ Tail(Top(i).rest) \in Seq(Steps)
           /\ NextTop(i) \in Frame
<1>1. frames[i] \in Seq(Frame) /\ frames[i] # <<>>
  BY DEF FramesShape, Inside, Listed
<1>2. Top(i) \in Frame
  BY <1>1, HeadTailProperties DEF Top
<1>3. Top(i).rest \in Seq(Steps) /\ Top(i).rest # <<>> /\ Top(i).rule \in Rules
  BY <1>2 DEF Frame, FramesShape
<1>4. Step(i) \in Steps /\ Tail(Top(i).rest) \in Seq(Steps)
  BY <1>3, HeadTailProperties DEF Step
<1>5. QED
  BY <1>2, <1>3, <1>4, FrameExcept DEF NextTop

(* The innermost list of a run that has one is a frame.                     *)
LEMMA TopIn ==
    ASSUME FramesShape, NEW i \in Runs, st[i] \in Listed
    PROVE  Top(i) \in Frame
<1>1. frames[i] \in Seq(Frame) /\ frames[i] # <<>>
  BY DEF FramesShape
<1>2. QED
  BY <1>1, HeadTailProperties DEF Top

(* The innermost list replaced.                                             *)
LEMMA WithTopShape ==
    ASSUME FramesShape, NEW i \in Runs, st[i] \in Listed, NEW f \in Frame
    PROVE  /\ WithTop(i, f) \in [Runs -> Seq(Frame)]
           /\ WithTop(i, f)[i] # <<>>
           /\ Head(WithTop(i, f)[i]) = f
           /\ \A j \in Runs \ {i} : WithTop(i, f)[j] = frames[j]
<1> DEFINE new == <<f>> \o Tail(frames[i])
<1>1. frames[i] \in Seq(Frame) /\ frames[i] # <<>>
  BY DEF FramesShape
<1>2. Tail(frames[i]) \in Seq(Frame)
  BY <1>1, HeadTailProperties
<1>3. <<f>> \in Seq(Frame) /\ Len(<<f>>) = 1 /\ <<f>>[1] = f
  OBVIOUS
<1>4. new \in Seq(Frame) /\ new # <<>> /\ Head(new) = f
  BY <1>2, <1>3
<1>5. WithTop(i, f) = [frames EXCEPT ![i] = new]
  BY DEF WithTop
<1>6. QED
  BY <1>4, <1>5 DEF FramesShape
-----------------------------------------------------------------------------
(* The action lists, step by step.                                          *)
LEMMA FramesReplaced ==
    ASSUME FramesShape, RunShape, NEW i \in Runs,
           frames' \in [Runs -> Seq(Frame)],
           \A j \in Runs \ {i} : frames'[j] = frames[j] /\ st'[j] = st[j],
           st'[i] \in Listed => frames'[i] # <<>>,
           st'[i] \in Inside => Head(frames'[i]).rest # <<>>
    PROVE  FramesShape'
  BY DEF FramesShape, Top

(* Runs and lists left alone.                                               *)
LEMMA FramesKept ==
    ASSUME FramesShape, RunShape, UNCHANGED <<st, frames>>
    PROVE  FramesShape'
  BY DEF FramesShape, Top

(* Every step of a run's own task leaves it a list to go on with, or ends it. *)
LEMMA FramesExec ==
    ASSUME FramesShape, RunShape, NEW i \in Runs, RunStep(i) \/ EventComes(i)
    PROVE  FramesShape'
<1> USE DEF RunShape, RunStates, Executing, Inside, Listed
<1>1. ASSUME st[i] \in Inside, st' = [st EXCEPT ![i] = "ready"],
             NEW f \in Frame, frames' = WithTop(i, f)
      PROVE  FramesShape'
  <2>1. st[i] \in Listed
    BY <1>1
  <2>2. /\ frames' \in [Runs -> Seq(Frame)]
        /\ frames'[i] # <<>>
        /\ \A j \in Runs \ {i} : frames'[j] = frames[j]
    BY <1>1, <2>1, WithTopShape
  <2>3. st'[i] = "ready" /\ \A j \in Runs \ {i} : st'[j] = st[j]
    BY <1>1
  <2>4. QED
    BY <2>2, <2>3, FramesReplaced
<1>2. ASSUME st[i] \in Inside, st' = [st EXCEPT ![i] = "ready"],
             frames' = Advanced(i)
      PROVE  FramesShape'
  BY <1>1, <1>2, StepInHand DEF Advanced
<1>3. ASSUME st' = [st EXCEPT ![i] = "ended"],
             frames' = [frames EXCEPT ![i] = <<>>]
      PROVE  FramesShape'
  <2>1. frames' \in [Runs -> Seq(Frame)]
    BY <1>3 DEF FramesShape
  <2>2. QED
    BY <1>3, <2>1, FramesReplaced DEF FramesShape
<1>4. ASSUME st[i] \in Inside, NEW s \in Inside, st' = [st EXCEPT ![i] = s],
             UNCHANGED frames
      PROVE  FramesShape'
  BY <1>4, FramesReplaced DEF FramesShape, Top
<1>5. CASE BeginStep(i)
  BY <1>5, FramesReplaced DEF BeginStep, FramesShape, Top
<1>6. CASE EndList(i)
  <2>1. frames[i] \in Seq(Frame) /\ frames[i] # <<>>
    BY <1>6 DEF EndList, FramesShape
  <2>2. Tail(frames[i]) \in Seq(Frame) /\ Len(Tail(frames[i])) = Len(frames[i]) - 1
    BY <2>1, HeadTailProperties
  <2>3. Len(frames[i]) # 1 => Tail(frames[i]) # <<>>
    <3>1. Len(frames[i]) \in Nat \ {0}
      BY <2>1, EmptySeq
    <3>2. Len(<<>>) = 0
      BY EmptySeq
    <3>3. Tail(frames[i]) = <<>> => Len(Tail(frames[i])) = 0
      BY <3>2
    <3>4. QED  BY <2>2, <3>1, <3>3
  <2>4. frames' = [frames EXCEPT ![i] = Tail(frames[i])]
    BY <1>6 DEF EndList
  <2>5. frames' \in [Runs -> Seq(Frame)] /\ frames'[i] = Tail(frames[i])
    BY <2>2, <2>4 DEF FramesShape
  <2>6. st'[i] \in Listed => frames'[i] # <<>>
    BY <1>6, <2>3, <2>5 DEF EndList
  <2>7. st'[i] \notin Inside
    BY <1>6 DEF EndList
  <2>8. \A j \in Runs \ {i} : frames'[j] = frames[j] /\ st'[j] = st[j]
    BY <1>6, <2>4 DEF EndList, FramesShape
  <2>9. QED
    BY <2>5, <2>6, <2>7, <2>8, FramesReplaced
<1>7. CASE Perform(i)
  BY <1>2, <1>7 DEF Perform
<1>8. CASE Fail(i)
  BY <1>3, <1>8 DEF Fail
<1>9. CASE ExitRule(i)
  <2>1. NextTop(i) \in Frame /\ [NextTop(i) EXCEPT !.flag = TRUE] \in Frame
    BY <1>9, StepInHand, FrameExcept DEF ExitRule
  <2>2. \/ frames' = WithTop(i, NextTop(i))
        \/ frames' = WithTop(i, [NextTop(i) EXCEPT !.flag = TRUE])
    BY <1>9 DEF ExitRule, RaiseFlag
  <2>3. QED
    BY <1>1, <1>9, <2>1, <2>2 DEF ExitRule
<1>10. CASE RunRuleActions(i)
  <2> DEFINE t   == Step(i).rule
             new == [rule |-> t, rest |-> Actions[t], flag |-> FALSE]
  <2>1. Step(i) \in Steps /\ NextTop(i) \in Frame
    BY <1>10, StepInHand DEF RunRuleActions
  <2>2. t \in Rules
    BY <1>10, <2>1, StepFields DEF RunRuleActions
  <2>3. new \in Frame
    BY <2>2, ExecutorAssumption DEF Frame
  <2>4. Advanced(i) \in [Runs -> Seq(Frame)]
        /\ \A j \in Runs \ {i} : Advanced(i)[j] = frames[j]
    BY <1>10, <2>1, WithTopShape DEF RunRuleActions, Advanced
  <2>5. CASE frames' = Advanced(i)
    BY <1>2, <1>10, <2>5 DEF RunRuleActions
  <2>6. CASE frames' = [frames EXCEPT ![i] = <<new>> \o Advanced(i)[i]]
    <3> DEFINE all == <<new>> \o Advanced(i)[i]
    <3>1. <<new>> \in Seq(Frame) /\ Len(<<new>>) = 1
      BY <2>3
    <3>2. Advanced(i)[i] \in Seq(Frame)
      BY <2>4
    <3>3. all \in Seq(Frame) /\ all # <<>>
      <4> HIDE DEF new
      <4> QED  BY <3>1, <3>2
    <3>4. frames' = [frames EXCEPT ![i] = all]
      BY <2>6
    <3>5. frames' \in [Runs -> Seq(Frame)] /\ frames'[i] = all
          /\ \A j \in Runs \ {i} : frames'[j] = frames[j]
      <4> HIDE DEF all
      <4> QED  BY <3>3, <3>4 DEF FramesShape
    <3>6. st'[i] = "ready" /\ \A j \in Runs \ {i} : st'[j] = st[j]
      BY <1>10 DEF RunRuleActions
    <3>7. QED
      <4> HIDE DEF all
      <4> QED  BY <3>3, <3>5, <3>6, FramesReplaced
  <2>7. QED
    BY <1>10, <2>5, <2>6 DEF RunRuleActions
<1>11. CASE BlockRound(i)
  <2> DEFINE again == [Step(i) EXCEPT !.times = @ - 1]
             list  == Step(i).body \o <<again>> \o Tail(Top(i).rest)
  <2>1. Step(i) \in Steps /\ Top(i) \in Frame
        /\ Tail(Top(i).rest) \in Seq(Steps)
    BY <1>11, StepInHand DEF BlockRound
  <2>2. Step(i).body \in Seq(PlainSteps) /\ again \in Steps
    BY <1>11, <2>1, StepFields DEF BlockRound
  <2>3. Step(i).body \in Seq(Steps)
    BY <2>2, SeqMonotonic DEF Steps
  <2>4. <<again>> \in Seq(Steps)
    <3> HIDE DEF again
    <3> QED  BY <2>2
  <2>5. list \in Seq(Steps)
    <3> HIDE DEF again
    <3> QED  BY <2>1, <2>3, <2>4, ConcatProperties
  <2>6. [Top(i) EXCEPT !.rest = list] \in Frame
    <3> HIDE DEF list
    <3> QED  BY <2>1, <2>5, FrameExcept
  <2>7. frames' = WithTop(i, [Top(i) EXCEPT !.rest = list])
    BY <1>11 DEF BlockRound
  <2>8. st[i] \in Inside /\ st' = [st EXCEPT ![i] = "ready"]
    BY <1>11 DEF BlockRound
  <2>9. QED
    <3> HIDE DEF list
    <3> QED  BY <1>1, <2>6, <2>7, <2>8
<1>12. CASE BlockOver(i)
  BY <1>2, <1>12 DEF BlockOver
<1>13. CASE BeginDelay(i)
  BY <1>4, <1>13 DEF BeginDelay
<1>14. CASE EndDelay(i)
  BY <1>2, <1>14 DEF EndDelay
<1>15. CASE BeginWait(i)
  BY <1>4, <1>15 DEF BeginWait, Waits
<1>16. ASSUME NEW k \in {"hold", "wait"}, EndWait(i, k) PROVE FramesShape'
  BY <1>2, <1>16 DEF EndWait
<1>17. CASE BeginParallel(i)
  BY <1>4, <1>17 DEF BeginParallel
<1>18. CASE Join(i)
  BY <1>3, <1>18, FramesKept DEF Join
<1>19. CASE EndParallel(i)
  BY <1>2, <1>19 DEF EndParallel
<1>20. QED
  BY <1>5, <1>6, <1>7, <1>8, <1>9, <1>10, <1>11, <1>12, <1>13, <1>14, <1>15,
     <1>16, <1>17, <1>18, <1>19 DEF RunStep, EventComes
-----------------------------------------------------------------------------
(* The branches of Parallel.                                                *)
LEMMA BranchIn ==
    ASSUME BranchShape, NEW i \in Runs, NEW b \in DOMAIN branches[i]
    PROVE  /\ branches[i] \in Seq(Branch) /\ b \in 1..Len(branches[i]) /\ b \in Nat
           /\ branches[i][b] \in Branch
           /\ branches[i][b].rule \in Rules
           /\ branches[i][b].step \in LeafSteps
<1>1. branches[i] \in Seq(Branch)
  BY DEF BranchShape
<1>2. b \in 1..Len(branches[i]) /\ b \in Nat
  BY <1>1, LenProperties
<1>3. branches[i][b] \in Branch
  BY <1>1, <1>2, ElementOfSeq
<1>4. QED
  BY <1>1, <1>2, <1>3 DEF Branch

(* A branch that moves on is still a branch.                                *)
LEMMA MoveBranchShape ==
    ASSUME BranchShape, NEW i \in Runs, NEW b \in DOMAIN branches[i],
           NEW to \in BranchStates, MoveBranch(i, b, to), UNCHANGED joined
    PROVE  BranchShape'
<1> DEFINE new == [branches[i][b] EXCEPT !.at = to]
<1>1. new \in Branch
  BY BranchIn DEF Branch
<1>2. [branches[i] EXCEPT ![b] = new] \in Seq(Branch)
  <2> HIDE DEF new
  <2> QED  BY <1>1, BranchIn, ExceptSeq
<1>3. branches' = [branches EXCEPT ![i] = [branches[i] EXCEPT ![b] = new]]
  BY DEF MoveBranch, BranchShape
<1>4. QED
  <2> HIDE DEF new
  <2> QED  BY <1>2, <1>3 DEF BranchShape

(* Parallel makes and clears the branches; nothing else touches them.       *)
LEMMA BranchesExec ==
    ASSUME FramesShape, BranchShape, RunShape, NEW i \in Runs,
           RunStep(i) \/ EventComes(i)
    PROVE  BranchShape'
<1> USE DEF RunShape
<1>1. CASE UNCHANGED <<branches, joined>>
  BY <1>1 DEF BranchShape
<1>2. CASE BeginParallel(i)
  <2> DEFINE bs  == Step(i).branches
             new == [b \in 1..Len(bs) |->
                        [rule |-> Top(i).rule, step |-> bs[b], at |-> "acting"]]
  <2>1. st[i] \in Inside
    BY <1>2 DEF BeginParallel, Inside, Executing
  <2>2. Step(i) \in Steps /\ Top(i).rule \in Rules
    BY <2>1, StepInHand
  <2>3. bs \in Seq(LeafSteps)
    BY <1>2, <2>2, StepFields DEF BeginParallel
  <2>4. Len(bs) \in Nat /\ \A b \in 1..Len(bs) : bs[b] \in LeafSteps
    BY <2>3, LenProperties, ElementOfSeq
  <2>5. \A b \in 1..Len(bs) : new[b] \in Branch
    BY <2>2, <2>4 DEF Branch, BranchStates
  <2>6. new \in Seq(Branch)
    <3>1. new \in [1..Len(bs) -> Branch]
      BY <2>5
    <3>2. QED
      <4> HIDE DEF new
      <4> QED  BY <2>4, <3>1
  <2>7. branches' = [branches EXCEPT ![i] = new]
        /\ joined' = [joined EXCEPT ![i] = 0]
    BY <1>2 DEF BeginParallel
  <2>8. QED
    <3> HIDE DEF new
    <3> QED  BY <2>6, <2>7 DEF BranchShape
<1>3. CASE Join(i)
  BY <1>3 DEF Join, BranchShape
<1>4. CASE EndParallel(i)
  <2>1. <<>> \in Seq(Branch)
    BY EmptySeq
  <2>2. QED
    BY <1>4, <2>1 DEF EndParallel, BranchShape
<1>5. QED
  BY <1>1, <1>2, <1>3, <1>4
     DEF RunStep, EventComes, BeginStep, EndList, Perform, Fail, ExitRule,
         RunRuleActions, BlockRound, BlockOver, BeginDelay, EndDelay,
         BeginWait, EndWait

(* A branch moves itself, and no other branch.                              *)
LEMMA BranchesBranch ==
    ASSUME BranchShape, NEW i \in Runs, NEW b \in DOMAIN branches[i],
           BranchActs(i, b) \/ BranchExits(i, b) \/ BranchWaitEnds(i, b)
    PROVE  BranchShape'
<1>1. UNCHANGED joined
  BY DEF BranchActs, BranchExits, BranchWaitEnds
<1>2. \E to \in BranchStates : MoveBranch(i, b, to)
  BY DEF BranchActs, BranchExits, BranchWaitEnds, Waits, BranchStates
<1>3. QED
  BY <1>1, <1>2, MoveBranchShape

(* ExitRule in a branch keeps the list its run waits in.                    *)
LEMMA FramesBranch ==
    ASSUME FramesShape, RunShape, NEW i \in Runs, NEW b,
           BranchActs(i, b) \/ BranchExits(i, b) \/ BranchWaitEnds(i, b)
    PROVE  FramesShape'
<1>1. CASE UNCHANGED <<st, frames>>
  BY <1>1, FramesKept
<1>2. CASE BranchExits(i, b) /\ st[i] = "join"
  <2>1. st[i] \in Inside /\ st[i] \in Listed
    BY <1>2 DEF Inside, Listed, Executing
  <2>2. Top(i) \in Frame /\ Top(i).rest # <<>>
    BY <2>1, TopIn DEF FramesShape
  <2>3. PICK f \in Frame : f.rest # <<>> /\ frames' = WithTop(i, f)
    <3>1. /\ [Top(i) EXCEPT !.flag = TRUE] \in Frame
          /\ [Top(i) EXCEPT !.flag = TRUE].rest # <<>>
      BY <2>2 DEF Frame
    <3>2. QED
      BY <1>2, <2>2, <3>1 DEF BranchExits, RaiseFlag
  <2>4. /\ frames' \in [Runs -> Seq(Frame)]
        /\ frames'[i] # <<>> /\ Head(frames'[i]) = f
        /\ \A j \in Runs \ {i} : frames'[j] = frames[j]
    BY <2>1, <2>3, WithTopShape
  <2>5. st' = st
    BY <1>2 DEF BranchExits
  <2>6. QED
    BY <2>3, <2>4, <2>5, FramesReplaced
<1>3. QED
  BY <1>1, <1>2 DEF BranchActs, BranchExits, BranchWaitEnds

-----------------------------------------------------------------------------
(* The delay registry and the paused rules.                                 *)
LEMMA CancelShape ==
    ASSUME RegistryShape, NEW es, es \subseteq registry, Cancel(es)
    PROVE  registry' \subseteq Entry /\ cut' \subseteq Waiter
  BY DEF RegistryShape, Cancel, Entry

(* A delay that begins adds an entry.                                       *)
LEMMA RegisterShape ==
    ASSUME RegistryShape, NEW r \in Rules, NEW k \in Keys \cup {AutoKey},
           NEW i \in Runs, NEW b \in Nat, Register(r, k, <<i, b>>)
    PROVE  registry' \subseteq Entry
<1>1. [rule |-> r, key |-> k, waiter |-> <<i, b>>] \in Entry
  BY DEF Entry, Waiter
<1>2. QED
  BY <1>1 DEF Register, RegistryShape, WithKey

(* A step that takes no time cancels entries or pauses a rule.              *)
LEMMA InstantShape ==
    ASSUME RegistryShape, NEW s \in Steps, NEW r, Instant(s, r)
    PROVE  RegistryShape'
<1>1. CASE s.op = "pause" /\ paused' = paused \cup {s.rule}
           /\ UNCHANGED <<registry, cut>>
  BY <1>1, StepFields DEF RegistryShape
<1>2. CASE paused' = paused \ {s.rule} /\ UNCHANGED <<registry, cut>>
  BY <1>2 DEF RegistryShape
<1>3. CASE UNCHANGED <<registry, cut, paused>>
  BY <1>3 DEF RegistryShape
<1>4. ASSUME NEW es, es \subseteq registry, Cancel(es), UNCHANGED paused
      PROVE  RegistryShape'
  BY <1>4, CancelShape DEF RegistryShape
<1>5. CASE Cancel({e \in OfRule(r) : e.key = s.key}) /\ UNCHANGED paused
  BY <1>4, <1>5 DEF OfRule
<1>6. CASE Cancel(OfRule(r)) /\ UNCHANGED paused
  BY <1>4, <1>6 DEF OfRule
<1>7. CASE Cancel(OfRule(s.rule)) /\ UNCHANGED paused
  BY <1>4, <1>7 DEF OfRule
<1>8. QED
  BY <1>1, <1>2, <1>3, <1>5, <1>6, <1>7 DEF Instant

(* The registry through the steps of a run's own task.                      *)
LEMMA RegistryExec ==
    ASSUME FramesShape, RegistryShape, NEW i \in Runs,
           RunStep(i) \/ EventComes(i)
    PROVE  RegistryShape'
<1> USE DEF Inside, Executing
<1>1. CASE UNCHANGED <<registry, cut, paused>>
  BY <1>1 DEF RegistryShape
<1>2. CASE Perform(i)
  BY <1>2, StepInHand, InstantShape DEF Perform
<1>3. CASE BeginDelay(i)
  <2>1. Step(i) \in Steps /\ Top(i).rule \in Rules
    BY <1>3, StepInHand DEF BeginDelay
  <2>2. Step(i).key \in Keys \cup {AutoKey}
    BY <1>3, <2>1, StepFields DEF BeginDelay
  <2>3. Register(Top(i).rule, Step(i).key, <<i, Main>>) /\ UNCHANGED <<cut, paused>>
    BY <1>3 DEF BeginDelay
  <2>4. registry' \subseteq Entry
    BY <2>1, <2>2, <2>3, RegisterShape DEF Main
  <2>5. QED
    BY <2>3, <2>4 DEF RegistryShape
<1>4. CASE EndDelay(i)
  BY <1>4 DEF EndDelay, Unregister, RegistryShape
<1>5. QED
  BY <1>1, <1>2, <1>3, <1>4
     DEF RunStep, EventComes, BeginStep, EndList, Fail, ExitRule,
         RunRuleActions, BlockRound, BlockOver, BeginWait, EndWait,
         BeginParallel, Join, EndParallel

(* The registry through the steps of a branch.                              *)
LEMMA RegistryBranch ==
    ASSUME BranchShape, RegistryShape, NEW i \in Runs,
           NEW b \in DOMAIN branches[i],
           BranchActs(i, b) \/ BranchExits(i, b) \/ BranchWaitEnds(i, b)
    PROVE  RegistryShape'
<1> DEFINE s == branches[i][b].step
           r == branches[i][b].rule
<1>1. s \in LeafSteps /\ s \in Steps /\ r \in Rules /\ b \in Nat
  BY BranchIn, LeafFields
<1>2. CASE UNCHANGED <<registry, cut, paused>>
  BY <1>2 DEF RegistryShape
<1>3. CASE Instant(s, r)
  <2> HIDE DEF s, r
  <2> QED  BY <1>1, <1>3, InstantShape
<1>4. CASE s.op = "delay" /\ Register(r, s.key, <<i, b>>) /\ UNCHANGED <<cut, paused>>
  <2>1. s.key \in Keys \cup {AutoKey}
    BY <1>1, <1>4, LeafFields
  <2>2. registry' \subseteq Entry
    <3> HIDE DEF s, r
    <3> QED  BY <1>1, <1>4, <2>1, RegisterShape
  <2>3. QED
    BY <1>4, <2>2 DEF RegistryShape
<1>5. CASE BranchWaitEnds(i, b)
  BY <1>5 DEF BranchWaitEnds, Unregister, RegistryShape
<1>6. CASE BranchActs(i, b)
  BY <1>2, <1>3, <1>4, <1>6 DEF BranchActs
<1>7. QED
  BY <1>2, <1>5, <1>6 DEF BranchExits
-----------------------------------------------------------------------------
(* What else the engine keeps: the rule list, the waiting runs, and the     *)
(* history, which stays a ring of RingSize.                                 *)
ListShape ==
    /\ loaded \subseteq Rules
    /\ purgeDue \in BOOLEAN
    /\ loop \in LoopStates

WaitShape == waiters \in [Cells -> Seq(Runs)]

HistoryShape ==
    /\ history \in [Rules -> Seq(Outcomes)]
    /\ \A r \in Rules : Len(history[r]) <= RingSize

(* push_history keeps the ring within RingSize.                             *)
LEMMA PushShape ==
    ASSUME HistoryShape, NEW r \in Rules, NEW o \in Outcomes, Push(r, o)
    PROVE  HistoryShape'
<1> DEFINE h   == history[r]
           cut1 == IF Len(h) >= RingSize THEN Tail(h) ELSE h
<1>1. h \in Seq(Outcomes) /\ Len(h) \in Nat /\ Len(h) <= RingSize
      /\ RingSize \in Nat /\ RingSize > 0
  BY LenProperties, EngineAssumption DEF HistoryShape
<1>2. cut1 \in Seq(Outcomes) /\ Len(cut1) < RingSize /\ Len(cut1) \in Nat
  <2>1. CASE Len(h) >= RingSize
    <3>1. h # <<>>
      BY <1>1, <2>1, EmptySeq
    <3>2. Tail(h) \in Seq(Outcomes) /\ Len(Tail(h)) = Len(h) - 1
      <4> HIDE DEF h
      <4> QED  BY <1>1, <3>1, HeadTailProperties
    <3>3. QED
      BY <1>1, <2>1, <3>2
  <2>2. CASE Len(h) < RingSize
    BY <1>1, <2>2
  <2>3. QED
    BY <1>1, <2>1, <2>2
<1>3. Append(cut1, o) \in Seq(Outcomes) /\ Len(Append(cut1, o)) <= RingSize
  <2> HIDE DEF cut1
  <2>1. Append(cut1, o) \in Seq(Outcomes) /\ Len(Append(cut1, o)) = Len(cut1) + 1
    BY <1>2, AppendProperties
  <2>2. QED
    BY <1>1, <1>2, <2>1
<1>4. history' = [history EXCEPT ![r] = Append(cut1, o)]
  BY DEF Push
<1>5. QED
  <2> HIDE DEF cut1
  <2> QED  BY <1>3, <1>4 DEF HistoryShape

(* The invariant of this module.                                            *)
TInv == FramesShape /\ BranchShape /\ RegistryShape /\ ListShape
        /\ WaitShape /\ HistoryShape

(* It holds at the start.                                                   *)
LEMMA TInvInit == Init => TInv
<1> SUFFICES ASSUME Init PROVE TInv
  OBVIOUS
<1> USE DEF Init, ExecInit
<1>1. FramesShape
  BY EmptySeq DEF FramesShape, Listed, Inside, Executing
<1>2. BranchShape
  BY EmptySeq DEF BranchShape
<1>3. RegistryShape
  BY DEF RegistryShape
<1>4. ListShape
  BY DEF ListShape, LoopStates
<1>5. WaitShape
  BY EmptySeq DEF WaitShape
<1>6. HistoryShape
  BY EmptySeq, EngineAssumption DEF HistoryShape
<1>7. QED
  BY <1>1, <1>2, <1>3, <1>4, <1>5, <1>6 DEF TInv

-----------------------------------------------------------------------------
(* The firing in hand is a rule.                                            *)
LEMMA FiringRule ==
    ASSUME LoopShape, batch # {}
    PROVE  Firing \in Rules
  BY FirstOfIn DEF LoopShape, Firing

(* A firing that does not come about writes one line of history.            *)
LEMMA NotFiredShape ==
    ASSUME LoopShape, HistoryShape, batch # {}, NotFired
    PROVE  HistoryShape' /\ loop' = "fire"
<1>1. Push(Firing, "NotFired") /\ loop' = "fire"
  BY DEF NotFired
<1>2. QED
  BY <1>1, FiringRule, PushShape DEF Outcomes

(* Every step of the event loop but the one that spawns a run, and those    *)
(* of reload, shutdown and time.                                            *)
LEMMA EventLoopStep ==
    ASSUME Shape, TInv,
           \/ \E S \in SUBSET Rules : HandleEvent(S) \/ SwapRules(S)
           \/ \E r \in Rules, k \in Kinds : HandleManualRun(r, k)
           \/ Fire /\ ~ Fires
           \/ Purge \/ Shutdown \/ Drained \/ Tick \/ UNCHANGED vars
    PROVE  TInv'
<1> USE DEF execVars, loopVars, cellVars, runVars, ruleVars
<1>1. LoopShape /\ RunShape /\ FramesShape /\ BranchShape /\ RegistryShape
      /\ ListShape /\ WaitShape /\ HistoryShape
  BY DEF Shape, TInv
<1>2. ASSUME UNCHANGED <<st, frames, branches, joined, waiters>>,
             RegistryShape', ListShape', HistoryShape'
      PROVE  TInv'
  <2>1. FramesShape'
    BY <1>1, <1>2, FramesKept
  <2>2. BranchShape' /\ WaitShape'
    BY <1>1, <1>2 DEF BranchShape, WaitShape
  <2>3. QED
    BY <1>2, <2>1, <2>2 DEF TInv
<1>3. ASSUME UNCHANGED <<registry, cut, paused>> PROVE RegistryShape'
  BY <1>1, <1>3 DEF RegistryShape
<1>4. ASSUME UNCHANGED history PROVE HistoryShape'
  BY <1>1, <1>4 DEF HistoryShape
<1>5. ASSUME UNCHANGED <<loaded, purgeDue>>, loop' \in LoopStates PROVE ListShape'
  BY <1>1, <1>5 DEF ListShape
<1>6. ASSUME batch # {}, NotFired, UNCHANGED <<loaded, purgeDue>>
      PROVE  ListShape' /\ HistoryShape'
  BY <1>1, <1>5, <1>6, NotFiredShape DEF LoopStates
<1>7. ASSUME UNCHANGED <<st, frames, branches, joined, registry, cut, paused,
                         waiters, loaded, purgeDue, history>>,
             loop' \in LoopStates
      PROVE  TInv'
  BY <1>2, <1>3, <1>4, <1>5, <1>7
<1>8. ASSUME UNCHANGED <<st, frames, branches, joined, registry, cut, paused,
                         waiters, loaded, purgeDue>>,
             batch # {}, NotFired
      PROVE  TInv'
  BY <1>2, <1>3, <1>6, <1>8
<1>9. ASSUME NEW S \in SUBSET Rules, HandleEvent(S) PROVE TInv'
  BY <1>1, <1>7, <1>9 DEF HandleEvent, ListShape
<1>10. ASSUME NEW S \in SUBSET Rules, SwapRules(S) PROVE TInv'
  <2>1. ListShape'
    BY <1>1, <1>10 DEF SwapRules, ListShape
  <2>2. QED
    BY <1>2, <1>3, <1>4, <1>10, <2>1 DEF SwapRules
<1>11. ASSUME NEW r \in Rules, NEW k \in Kinds, HandleManualRun(r, k) PROVE TInv'
  BY <1>1, <1>7, <1>11 DEF HandleManualRun, ListShape
<1>12. CASE FirePaused
  BY <1>8, <1>12 DEF FirePaused
<1>13. CASE FireCooldown
  BY <1>8, <1>13 DEF FireCooldown
<1>14. CASE FireBegins
  BY <1>7, <1>14 DEF FireBegins, LoopStates
<1>15. CASE RequiredExpressionFails
  <2>1. batch # {}
    BY <1>1, <1>15 DEF RequiredExpressionFails, LoopShape, InFire
  <2>2. RegistryShape'
    <3>1. CASE Cancel(OfRule(Firing))
      <4>1. OfRule(Firing) \subseteq registry
        BY DEF OfRule
      <4>2. QED
        BY <1>1, <1>15, <3>1, <4>1, CancelShape
           DEF RequiredExpressionFails, RegistryShape
    <3>2. CASE UNCHANGED <<registry, cut>>
      BY <1>3, <1>15, <3>2 DEF RequiredExpressionFails
    <3>3. QED
      BY <1>15, <3>1, <3>2 DEF RequiredExpressionFails
  <2>3. QED
    BY <1>2, <1>6, <1>15, <2>1, <2>2 DEF RequiredExpressionFails
<1>16. CASE TriggerGateFails
  BY <1>1, <1>8, <1>16 DEF TriggerGateFails, LoopShape, InFire
<1>17. CASE GatesPass
  BY <1>7, <1>17 DEF GatesPass, LoopStates
<1>18. CASE FireErrors
  BY <1>7, <1>18 DEF FireErrors, LoopStates
<1>19. CASE ModeSkips
  BY <1>1, <1>8, <1>19 DEF ModeSkips, TakeCell, LoopShape, InFire
<1>20. CASE ModeAllows
  <2>1. RegistryShape'
    <3>1. CASE Cancel(OfRule(Firing))
      <4>1. OfRule(Firing) \subseteq registry
        BY DEF OfRule
      <4>2. QED
        BY <1>1, <1>20, <3>1, <4>1, CancelShape DEF ModeAllows, RegistryShape
    <3>2. CASE UNCHANGED <<registry, cut>>
      BY <1>3, <1>20, <3>2 DEF ModeAllows
    <3>3. QED
      BY <1>20, <3>1, <3>2 DEF ModeAllows
  <2>2. ListShape' /\ HistoryShape'
    BY <1>4, <1>5, <1>20 DEF ModeAllows, LoopStates
  <2>3. QED
    BY <1>2, <1>20, <2>1, <2>2 DEF ModeAllows, TakeCell
<1>21. CASE ConditionsFail
  BY <1>1, <1>8, <1>21 DEF ConditionsFail, LoopShape, InFire
<1>22. CASE Purge
  <2>1. RegistryShape' /\ ListShape'
    BY <1>1, <1>22 DEF Purge, RegistryShape, ListShape
  <2>2. HistoryShape'
    <3>1. <<>> \in Seq(Outcomes) /\ Len(<<>>) = 0
      BY EmptySeq
    <3>2. QED
      BY <1>1, <1>22, <3>1, EngineAssumption DEF Purge, HistoryShape
  <2>3. QED
    BY <1>2, <1>22, <2>1, <2>2 DEF Purge
<1>23. CASE Shutdown
  BY <1>7, <1>23 DEF Shutdown, LoopStates
<1>24. CASE Drained
  BY <1>7, <1>24 DEF Drained, LoopStates
<1>25. CASE Tick
  BY <1>1, <1>7, <1>25 DEF Tick, ListShape
<1>26. CASE UNCHANGED vars
  BY <1>1, <1>7, <1>26 DEF vars, ListShape
<1>27. CASE Fire /\ ~ Fires
  BY <1>12, <1>13, <1>14, <1>15, <1>16, <1>17, <1>18, <1>19, <1>20, <1>21,
     <1>27 DEF Fire
<1>28. CASE \E S \in SUBSET Rules : HandleEvent(S) \/ SwapRules(S)
  BY <1>9, <1>10, <1>28
<1>29. CASE \E r \in Rules, k \in Kinds : HandleManualRun(r, k)
  BY <1>11, <1>29
<1>30. QED
  BY <1>22, <1>23, <1>24, <1>25, <1>26, <1>27, <1>28, <1>29

(* A run is spawned, with the list of its rule.                             *)
LEMMA FiresShape ==
    ASSUME Shape, TInv, Fires
    PROVE  TInv'
<1> DEFINE k   == nRuns + 1
           new == <<[rule |-> Firing, rest |-> Actions[Firing], flag |-> FALSE]>>
<1>1. LoopShape /\ RunShape /\ FramesShape /\ BranchShape /\ RegistryShape
      /\ ListShape /\ WaitShape /\ HistoryShape
  BY DEF Shape, TInv
<1>2. Firing \in Rules
  BY <1>1, FiringRule DEF Fires, LoopShape, InFire
<1>3. k \in Runs
  BY FiresEffect
<1>4. [rule |-> Firing, rest |-> Actions[Firing], flag |-> FALSE] \in Frame
  BY <1>2, ExecutorAssumption DEF Frame
<1>5. new \in Seq(Frame) /\ new # <<>>
  BY <1>4
<1>6. /\ frames' = [frames EXCEPT ![k] = new]
      /\ st' = [st EXCEPT ![k] =
                   IF RunMode[Firing] = "queued" THEN "spawned" ELSE "ready"]
  BY DEF Fires
<1>7. FramesShape'
  <2> HIDE DEF new, k
  <2>1. frames' \in [Runs -> Seq(Frame)] /\ frames'[k] = new
        /\ \A j \in Runs \ {k} : frames'[j] = frames[j] /\ st'[j] = st[j]
    BY <1>1, <1>3, <1>5, <1>6 DEF FramesShape, RunShape
  <2>2. st'[k] \notin Inside
    BY <1>1, <1>3, <1>6 DEF RunShape, Inside, Executing
  <2>3. QED
    BY <1>1, <1>3, <1>5, <2>1, <2>2, FramesReplaced
<1>8. BranchShape' /\ RegistryShape' /\ WaitShape' /\ HistoryShape'
  BY <1>1 DEF Fires, BranchShape, RegistryShape, WaitShape, HistoryShape
<1>9. ListShape'
  BY <1>1 DEF Fires, ListShape, LoopStates
<1>10. QED
  BY <1>7, <1>8, <1>9 DEF TInv
-----------------------------------------------------------------------------
(* The task around a run's actions: it joins and leaves the queue of its    *)
(* cell, and writes its line of history.                                    *)
LEMMA TaskStep ==
    ASSUME Shape, TInv, NEW i \in Runs,
           \/ AskTurn(i) \/ TakeTurn(i)
           \/ Record(i) \/ Uncount(i) \/ Land(i) \/ Close(i)
    PROVE  TInv'
<1> USE DEF loopVars, cellVars, runVars, ruleVars
<1>1. RunShape /\ FramesShape /\ BranchShape /\ RegistryShape
      /\ ListShape /\ WaitShape /\ HistoryShape
  BY DEF Shape, TInv
<1>2. run[i].rule \in Rules /\ run[i].cell \in Cells
  <2>1. st[i] # "none"
    BY DEF AskTurn, TakeTurn, Record, Uncount, Land, Close
  <2>2. i \in 1..nRuns
    BY <1>1, <2>1, ExecutorAssumption DEF RunShape, Runs
  <2>3. QED
    BY <1>1, <2>2, EngineAssumption DEF Shape, CellShape, RunShape, Cells
<1>3. UNCHANGED <<frames, branches, joined, registry, cut, paused, loaded,
                  purgeDue, loop>>
  BY DEF AskTurn, TakeTurn, Record, Uncount, Land, Close
<1>4. \E s \in {"queued", "ready", "recorded", "uncounted", "closing", "finished"} :
         /\ st' = [st EXCEPT ![i] = s]
         /\ s \in Listed => st[i] \in Listed
  BY DEF AskTurn, TakeTurn, Record, Uncount, Land, Close, Listed, Executing
<1>5. FramesShape'
  <2>1. PICK s \in {"queued", "ready", "recorded", "uncounted", "closing",
                    "finished"} :
           st' = [st EXCEPT ![i] = s] /\ (s \in Listed => st[i] \in Listed)
    BY <1>4
  <2>2. st'[i] = s /\ \A j \in Runs \ {i} : st'[j] = st[j]
    BY <1>1, <2>1 DEF RunShape
  <2>3. s \notin Inside
    BY DEF Inside, Executing
  <2>4. QED
    BY <1>1, <1>3, <2>1, <2>2, <2>3, FramesReplaced DEF FramesShape
<1>6. BranchShape' /\ RegistryShape' /\ ListShape'
  BY <1>1, <1>3 DEF BranchShape, RegistryShape, ListShape
<1>7. WaitShape'
  <2> DEFINE c == run[i].cell
  <2>1. waiters[c] \in Seq(Runs)
    BY <1>1, <1>2 DEF WaitShape
  <2>2. ASSUME NEW w \in Seq(Runs), waiters' = [waiters EXCEPT ![c] = w]
        PROVE  WaitShape'
    BY <1>1, <2>2 DEF WaitShape
  <2>3. CASE AskTurn(i)
    <3>1. Append(waiters[c], i) \in Seq(Runs)
      BY <2>1, AppendProperties
    <3>2. QED
      BY <2>2, <2>3, <3>1 DEF AskTurn
  <2>4. CASE TakeTurn(i)
    <3>1. waiters[c] # <<>> /\ waiters' = [waiters EXCEPT ![c] = Tail(waiters[c])]
      BY <2>4 DEF TakeTurn
    <3>2. Tail(waiters[c]) \in Seq(Runs)
      BY <2>1, <3>1, HeadTailProperties
    <3>3. QED
      BY <2>2, <3>1, <3>2
  <2>5. CASE UNCHANGED waiters
    BY <1>1, <2>5 DEF WaitShape
  <2>6. QED
    BY <2>3, <2>4, <2>5 DEF Record, Uncount, Land, Close
<1>8. HistoryShape'
  <2>1. CASE Record(i)
    <3>1. Push(run[i].rule, "Fired") /\ "Fired" \in Outcomes
      BY <2>1 DEF Record, Outcomes
    <3>2. QED
      BY <1>1, <1>2, <3>1, PushShape
  <2>2. CASE UNCHANGED history
    BY <1>1, <2>2 DEF HistoryShape
  <2>3. QED
    BY <2>1, <2>2 DEF AskTurn, TakeTurn, Uncount, Land, Close
<1>9. QED
  BY <1>5, <1>6, <1>7, <1>8 DEF TInv

(* A step of the executor.                                                  *)
LEMMA ExecTypes ==
    ASSUME Shape, TInv, NEW i \in Runs, ExecStep(i)
    PROVE  TInv'
<1>1. RunShape /\ FramesShape /\ BranchShape /\ RegistryShape
      /\ ListShape /\ WaitShape /\ HistoryShape
  BY DEF Shape, TInv
<1>2. ListShape' /\ WaitShape' /\ HistoryShape'
  BY <1>1, ExecEffect
     DEF loopVars, cellVars, ruleVars, ListShape, WaitShape, HistoryShape
<1>3. FramesShape' /\ BranchShape' /\ RegistryShape'
  <2>1. CASE RunStep(i) \/ EventComes(i)
    BY <1>1, <2>1, FramesExec, BranchesExec, RegistryExec
  <2>2. CASE BranchStep(i)
    <3>1. PICK b \in DOMAIN branches[i] :
             BranchActs(i, b) \/ BranchExits(i, b) \/ BranchWaitEnds(i, b)
      BY <2>2 DEF BranchStep
    <3>2. FramesShape'
      BY <1>1, <3>1, FramesBranch
    <3>3. BranchShape' /\ RegistryShape'
      BY <1>1, <3>1, BranchesBranch, RegistryBranch
    <3>4. QED
      BY <3>2, <3>3
  <2>3. QED
    BY <2>1, <2>2 DEF ExecStep, Execute
<1>4. QED
  BY <1>2, <1>3 DEF TInv

(* Every step keeps it.                                                     *)
LEMMA TInvStep ==
    ASSUME Shape, TInv, [Next]_vars
    PROVE  TInv'
<1>1. CASE \E S \in SUBSET Rules : HandleEvent(S) \/ SwapRules(S)
  BY <1>1, EventLoopStep
<1>2. CASE \E r \in Rules, k \in Kinds : HandleManualRun(r, k)
  BY <1>2, EventLoopStep
<1>3. CASE Fire
  BY <1>3, EventLoopStep, FiresShape
<1>4. CASE Purge \/ Shutdown \/ Drained \/ Tick \/ UNCHANGED vars
  BY <1>4, EventLoopStep
<1>5. ASSUME NEW i \in Runs,
             RunTask(i) \/ Execute(BranchStep(i)) \/ Execute(EventComes(i))
      PROVE  TInv'
  BY <1>5, TaskStep, ExecTypes DEF RunTask, ExecStep
<1>6. QED
  BY <1>1, <1>2, <1>3, <1>4, <1>5 DEF Next

-----------------------------------------------------------------------------
(* Every variable has its type in every state.  So RuleRuns.count and       *)
(* in_flight never go below zero, though every epilogue takes one off them, *)
(* and the fire history of a rule stays a ring of RingSize.  It rests on    *)
(* TInv: a run never takes a step from an empty list, whatever branches,    *)
(* errors and calls have done to it.                                        *)
THEOREM TypeCorrect == Spec => []TypeOK
<1>1. Init => TInv
  BY TInvInit
<1>2. IInv /\ TInv /\ [Next]_vars => TInv'
  BY TInvStep DEF IInv
<1>3. IInv /\ TInv => TypeOK
  <2> SUFFICES ASSUME IInv, TInv PROVE TypeOK
    OBVIOUS
  <2>1. Shape /\ CountsExact
    BY DEF IInv
  <2>2. inFlight \in Nat
    BY <2>1, RunsFinite, FS_CardinalityType DEF CountsExact, FlyingRuns
  <2>3. count \in [Cells -> Nat]
    <3>1. \A c \in Cells : count[c] \in Nat
      BY <2>1, CountsNat
    <3>2. QED
      BY <2>1, <3>1 DEF Shape, CellShape
  <2>4. /\ loaded \subseteq Rules /\ paused \subseteq Rules
        /\ frames \in [Runs -> Seq(Frame)]
        /\ branches \in [Runs -> Seq(Branch)] /\ joined \in [Runs -> Nat]
        /\ registry \subseteq Entry /\ cut \subseteq Waiter
        /\ loop \in LoopStates /\ purgeDue \in BOOLEAN
        /\ waiters \in [Cells -> Seq(Runs)]
        /\ history \in [Rules -> Seq(Outcomes)]
        /\ \A r \in Rules : Len(history[r]) <= RingSize
    BY DEF TInv, FramesShape, BranchShape, RegistryShape, ListShape, WaitShape,
           HistoryShape
  <2>5. /\ st \in [Runs -> RunStates] /\ exitFlag \in [Runs -> BOOLEAN]
        /\ batch \subseteq Rules /\ kind \in Kinds
        /\ lastFire \in [Rules -> Nat] /\ run \in [Runs -> RunRecord]
        /\ dropped \subseteq Rules /\ now \in Nat
    BY <2>1, EngineAssumption DEF Shape, LoopShape, RunShape, TimeShape
  <2>6. nCells \in 0..MaxCells /\ nRuns \in 0..MaxRuns
    BY <2>1 DEF Shape, CellShape, RunShape
  <2>7. /\ 0..MaxCells \subseteq Cells \cup {None}
        /\ 0..nCells \subseteq Cells \cup {None}
        /\ 0..MaxRuns \subseteq Runs \cup {None}
        /\ 0..nRuns \subseteq Runs \cup {None}
    BY <2>6, EngineAssumption, ExecutorAssumption DEF Cells, Runs, None
  <2>8. /\ firingCell \in Cells \cup {None} /\ nCells \in Cells \cup {None}
        /\ nRuns \in Runs \cup {None}
        /\ cellOf \in [Rules -> Cells \cup {None}]
        /\ latest \in [Cells -> Runs \cup {None}]
        /\ turn \in [Cells -> Runs \cup {None}]
    BY <2>1, <2>6, <2>7 DEF Shape, LoopShape, CellShape
  <2>9. QED
    BY <2>2, <2>3, <2>4, <2>5, <2>8 DEF TypeOK
<1>4. QED
  BY <1>1, <1>2, <1>3, Inductive, PTL DEF Spec

-----------------------------------------------------------------------------
(* The delay registry, in the terms of its waiters.                         *)

(* Every cancelable delay with no key of its own, in a branch too, is       *)
(* registered or has been signalled.                                        *)
Reachable ==
    \A w \in Waiter :
        InDelay(w) /\ DelayKey(w) = AutoKey =>
            w \in cut \/ \E e \in registry : e.waiter = w

EntriesRight ==
    \A e \in registry : InDelay(e.waiter) /\ e.key = DelayKey(e.waiter)
                                         /\ e.rule = DelayRule(e.waiter)
KeysOnce ==
    \A e, f \in registry :
        e.rule = f.rule /\ e.key = f.key /\ e.key # AutoKey => e = f

RegInv == EntriesRight /\ (\A w \in cut : InDelay(w)) /\ KeysOnce /\ Reachable

(* A run has branches only while it joins them or once an error has ended   *)
(* it, so no step makes others while one of them still waits: BeginParallel *)
(* starts from none and EndParallel drops only those that are over.         *)
BeforeBranches == {"none", "spawned", "queued", "ready", "acting", "delay",
                   "hold", "wait"}
BranchesOver ==
    /\ \A i \in Runs : st[i] \in BeforeBranches => branches[i] = <<>>
    /\ \A i \in Runs : st[i] = "join" =>
          \A b \in DOMAIN branches[i] :
              b <= joined[i] => branches[i][b].at \in {"ok", "err"}

(* A step that says nothing of waiter w's delay.                            *)
SameDelay(w) ==
    /\ InDelay(w)' <=> InDelay(w)
    /\ InDelay(w) => /\ DelayKey(w)' = DelayKey(w)
                     /\ DelayRule(w)' = DelayRule(w)

LEMMA RegInvExact ==
    ASSUME RegInv PROVE RegistryExact
<1>1. \A i \in Runs : st[i] = "delay" /\ Step(i).key = AutoKey =>
             \/ <<i, Main>> \in cut
             \/ \E e \in registry : e.waiter = <<i, Main>>
  <2> SUFFICES ASSUME NEW i \in Runs, st[i] = "delay", Step(i).key = AutoKey
               PROVE  \/ <<i, Main>> \in cut
                      \/ \E e \in registry : e.waiter = <<i, Main>>
    OBVIOUS
  <2> DEFINE w == <<i, Main>>
  <2>1. w \in Waiter /\ w[1] = i /\ w[2] = Main
    BY DEF Waiter, Main
  <2>2. InDelay(w) /\ DelayKey(w) = AutoKey
    BY <2>1 DEF InDelay, DelayKey
  <2>3. QED
    BY <2>1, <2>2 DEF RegInv, Reachable
<1>2. QED
  BY <1>1 DEF RegInv, EntriesRight, KeysOnce, RegistryExact

(* Entries leave the registry only together with their signal.              *)
LEMMA CancelKeepsReg ==
    ASSUME RegistryShape, RegInv, NEW es \in SUBSET registry, Cancel(es),
           \A w \in Waiter : SameDelay(w)
    PROVE  RegInv'
<1>1. registry' = registry \ es /\ cut' = cut \cup {e.waiter : e \in es}
  BY DEF Cancel
<1>2. \A e \in registry : e \in Entry /\ e.waiter \in Waiter
  BY DEF RegistryShape, Entry
<1>3. EntriesRight'
  <2> SUFFICES ASSUME NEW e \in registry'
               PROVE  InDelay(e.waiter)' /\ e.key = DelayKey(e.waiter)'
                                         /\ e.rule = DelayRule(e.waiter)'
    BY DEF EntriesRight
  <2>1. e \in registry
    BY <1>1
  <2>2. SameDelay(e.waiter)
    BY <1>2, <2>1
  <2>3. QED
    BY <2>1, <2>2 DEF SameDelay, RegInv, EntriesRight
<1>4. \A w \in cut' : InDelay(w)'
  <2> SUFFICES ASSUME NEW w \in cut' PROVE InDelay(w)'
    OBVIOUS
  <2>1. w \in Waiter /\ InDelay(w)
    BY <1>1, <1>2 DEF RegInv, EntriesRight, RegistryShape
  <2>2. SameDelay(w)
    BY <2>1
  <2>3. QED
    BY <2>1, <2>2 DEF SameDelay
<1>5. KeysOnce'
  BY <1>1 DEF RegInv, KeysOnce
<1>6. Reachable'
  <2> SUFFICES ASSUME NEW w \in Waiter, InDelay(w)', DelayKey(w)' = AutoKey
               PROVE  w \in cut' \/ \E e \in registry' : e.waiter = w
    BY DEF Reachable
  <2>1. InDelay(w) /\ DelayKey(w) = AutoKey
    BY DEF SameDelay
  <2>2. w \in cut \/ \E e \in registry : e.waiter = w
    BY <2>1 DEF RegInv, Reachable
  <2>3. QED
    BY <1>1, <2>2
<1>7. QED
  BY <1>3, <1>4, <1>5, <1>6 DEF RegInv

(* Nothing is cancelled.                                                    *)
LEMMA UntouchedReg ==
    ASSUME RegistryShape, RegInv, UNCHANGED <<registry, cut>>,
           \A w \in Waiter : SameDelay(w)
    PROVE  RegInv'
<1>1. Cancel({})
  BY DEF Cancel
<1>2. QED
  BY <1>1, CancelKeepsReg

(* A delay begins and is registered.                                        *)
LEMMA RegisterKeepsReg ==
    ASSUME RegistryShape, RegInv, NEW r, NEW k, NEW w \in Waiter,
           Register(r, k, w), UNCHANGED cut, ~ InDelay(w),
           InDelay(w)', DelayKey(w)' = k, DelayRule(w)' = r,
           \A v \in Waiter \ {w} : SameDelay(v)
    PROVE  RegInv'
<1> DEFINE new == [rule |-> r, key |-> k, waiter |-> w]
<1>1. registry' = (registry \ WithKey(r, k, w)) \cup {new}
  BY DEF Register
<1>2. new.rule = r /\ new.key = k /\ new.waiter = w
  OBVIOUS
<1> HIDE DEF new
<1>3. \A e \in registry : e.waiter \in Waiter \ {w}
  BY DEF RegistryShape, Entry, RegInv, EntriesRight
<1>4. EntriesRight'
  <2> SUFFICES ASSUME NEW e \in registry'
               PROVE  InDelay(e.waiter)' /\ e.key = DelayKey(e.waiter)'
                                         /\ e.rule = DelayRule(e.waiter)'
    BY DEF EntriesRight
  <2>1. CASE e = new
    BY <1>2, <2>1
  <2>2. CASE e \in registry
    <3>1. SameDelay(e.waiter)
      BY <1>3, <2>2
    <3>2. QED
      BY <2>2, <3>1 DEF SameDelay, RegInv, EntriesRight
  <2>3. QED
    BY <1>1, <2>1, <2>2
<1>5. \A v \in cut' : InDelay(v)'
  <2> SUFFICES ASSUME NEW v \in cut PROVE InDelay(v)'
    OBVIOUS
  <2>1. v \in Waiter \ {w} /\ InDelay(v)
    BY DEF RegInv, RegistryShape
  <2>2. SameDelay(v)
    BY <2>1
  <2>3. QED
    BY <2>1, <2>2 DEF SameDelay
<1>6. KeysOnce'
  <2> SUFFICES ASSUME NEW e \in registry', NEW f \in registry',
                      e.rule = f.rule, e.key = f.key, e.key # AutoKey
               PROVE  e = f
    BY DEF KeysOnce
  <2>1. \A g \in registry' :
           g = new \/ (g \in registry /\ g \notin WithKey(r, k, w))
    BY <1>1
  <2>2. \A g \in registry :
           g \in WithKey(r, k, w) <=>
              g.rule = r /\ g.key = k /\ (k = AutoKey => g.waiter = w)
    BY DEF WithKey
  <2>3. QED
    BY <1>2, <2>1, <2>2 DEF RegInv, KeysOnce
<1>7. Reachable'
  <2> SUFFICES ASSUME NEW v \in Waiter, InDelay(v)', DelayKey(v)' = AutoKey
               PROVE  v \in cut' \/ \E e \in registry' : e.waiter = v
    BY DEF Reachable
  <2>1. CASE v = w
    BY <1>1, <1>2, <2>1
  <2>2. CASE v # w
    <3>1. InDelay(v) /\ DelayKey(v) = AutoKey
      BY <2>2 DEF SameDelay
    <3>2. CASE v \in cut
      BY <3>2
    <3>3. ASSUME NEW e \in registry, e.waiter = v PROVE e \in registry'
      <4>1. e.key = AutoKey
        BY <3>1, <3>3 DEF RegInv, EntriesRight
      <4>2. e \notin WithKey(r, k, w)
        BY <2>2, <3>3, <4>1 DEF WithKey
      <4>3. QED
        BY <1>1, <4>2
    <3>4. QED
      BY <3>1, <3>2, <3>3 DEF RegInv, Reachable
  <2>3. QED
    BY <2>1, <2>2
<1>8. QED
  BY <1>4, <1>5, <1>6, <1>7 DEF RegInv

(* A delay ends and takes its key away.                                     *)
LEMMA UnregisterKeepsReg ==
    ASSUME RegistryShape, RegInv, NEW w \in Waiter,
           InDelay(w), Unregister(DelayRule(w), DelayKey(w), w), ~ InDelay(w)',
           \A v \in Waiter \ {w} : SameDelay(v)
    PROVE  RegInv'
<1> DEFINE gone == WithKey(DelayRule(w), DelayKey(w), w)
<1>1. registry' = registry \ gone /\ cut' = cut \ {w}
  BY DEF Unregister
<1>2. \A e \in registry :
         e \in gone <=> /\ e.rule = DelayRule(w) /\ e.key = DelayKey(w)
                        /\ (DelayKey(w) = AutoKey => e.waiter = w)
  BY DEF WithKey
<1> HIDE DEF gone
<1>3. \A e \in registry' : e \in registry /\ e.waiter \in Waiter \ {w}
  <2> SUFFICES ASSUME NEW e \in registry' PROVE e.waiter \in Waiter \ {w}
    BY <1>1
  <2>1. e \in registry /\ e \notin gone /\ e.waiter \in Waiter
    BY <1>1 DEF RegistryShape, Entry
  <2>2. e.waiter = w => e.rule = DelayRule(w) /\ e.key = DelayKey(w)
    BY <2>1 DEF RegInv, EntriesRight
  <2>3. QED
    BY <1>2, <2>1, <2>2
<1>4. EntriesRight'
  <2> SUFFICES ASSUME NEW e \in registry'
               PROVE  InDelay(e.waiter)' /\ e.key = DelayKey(e.waiter)'
                                         /\ e.rule = DelayRule(e.waiter)'
    BY DEF EntriesRight
  <2>1. SameDelay(e.waiter) /\ e \in registry
    BY <1>3
  <2>2. QED
    BY <2>1 DEF SameDelay, RegInv, EntriesRight
<1>5. \A v \in cut' : InDelay(v)'
  <2> SUFFICES ASSUME NEW v \in cut' PROVE InDelay(v)'
    OBVIOUS
  <2>1. v \in Waiter \ {w} /\ InDelay(v)
    BY <1>1 DEF RegInv, RegistryShape
  <2>2. SameDelay(v)
    BY <2>1
  <2>3. QED
    BY <2>1, <2>2 DEF SameDelay
<1>6. KeysOnce'
  BY <1>1 DEF RegInv, KeysOnce
<1>7. Reachable'
  <2> SUFFICES ASSUME NEW v \in Waiter, InDelay(v)', DelayKey(v)' = AutoKey
               PROVE  v \in cut' \/ \E e \in registry' : e.waiter = v
    BY DEF Reachable
  <2>1. v # w
    OBVIOUS
  <2>2. InDelay(v) /\ DelayKey(v) = AutoKey
    BY <2>1 DEF SameDelay
  <2>3. CASE v \in cut
    BY <1>1, <2>1, <2>3
  <2>4. ASSUME NEW e \in registry, e.waiter = v PROVE e \in registry'
    <3>1. e.key = AutoKey
      BY <2>2, <2>4 DEF RegInv, EntriesRight
    <3>2. QED
      BY <1>1, <1>2, <2>1, <2>4, <3>1
  <2>5. QED
    BY <2>2, <2>3, <2>4 DEF RegInv, Reachable
<1>8. QED
  BY <1>4, <1>5, <1>6, <1>7 DEF RegInv

(* Whatever a step that takes no time cancels, it signals.                  *)
LEMMA InstantKeepsReg ==
    ASSUME RegistryShape, RegInv, NEW s, NEW r, Instant(s, r),
           \A w \in Waiter : SameDelay(w)
    PROVE  RegInv'
<1>1. CASE UNCHANGED <<registry, cut>>
  BY <1>1, UntouchedReg
<1>2. ASSUME NEW es, es \subseteq registry, Cancel(es) PROVE RegInv'
  BY <1>2, CancelKeepsReg
<1>3. CASE Cancel({e \in OfRule(r) : e.key = s.key})
  BY <1>2, <1>3 DEF OfRule
<1>4. CASE Cancel(OfRule(r)) \/ Cancel(OfRule(s.rule))
  BY <1>2, <1>4 DEF OfRule
<1>5. QED
  BY <1>1, <1>3, <1>4 DEF Instant

(* A step of a run that is in no delay of its own, before it and after it,  *)
(* and has no branch in one if its branches change.                         *)
LEMMA QuietRun ==
    ASSUME BranchShape, BranchShape', NEW i \in Runs,
           \A j \in Runs \ {i} : /\ frames'[j] = frames[j]
                                 /\ st'[j] = st[j]
                                 /\ branches'[j] = branches[j],
           st[i] # "delay", st'[i] # "delay",
           \/ branches'[i] = branches[i]
           \/ /\ \A b \in DOMAIN branches[i] : branches[i][b].at # "delay"
              /\ \A b \in DOMAIN branches'[i] : branches'[i][b].at # "delay"
    PROVE  \A w \in Waiter : SameDelay(w)
<1> SUFFICES ASSUME NEW w \in Waiter PROVE SameDelay(w)
  OBVIOUS
<1>1. w[1] \in Runs /\ w[2] \in Nat
  BY DEF Waiter
<1>2. Main \notin DOMAIN branches[w[1]] /\ Main \notin DOMAIN branches'[w[1]]
  <2>1. branches[w[1]] \in Seq(Branch) /\ branches'[w[1]] \in Seq(Branch)
    BY <1>1 DEF BranchShape
  <2>2. \A q \in Seq(Branch) : 0 \notin DOMAIN q
    OBVIOUS
  <2>3. QED
    BY <2>1, <2>2 DEF Main
<1>3. CASE w[1] # i
  BY <1>1, <1>3 DEF SameDelay, InDelay, DelayKey, DelayRule, Top, Step
<1>4. CASE w[1] = i
  BY <1>1, <1>2, <1>4 DEF SameDelay, InDelay, DelayKey, DelayRule
<1>5. QED
  BY <1>3, <1>4

(* What a step of a run's own task may touch.                               *)
LEMMA RunLocal ==
    ASSUME RunShape, FramesShape, BranchShape, NEW i \in Runs,
           RunStep(i) \/ EventComes(i)
    PROVE  \A j \in Runs \ {i} : /\ frames'[j] = frames[j]
                                 /\ st'[j] = st[j]
                                 /\ branches'[j] = branches[j]
<1> USE DEF RunShape, FramesShape, BranchShape
<1>1. \/ frames' = frames \/ \E f : frames' = [frames EXCEPT ![i] = f]
  BY DEF RunStep, EventComes, BeginStep, EndList, Perform, Fail, ExitRule,
         RaiseFlag, RunRuleActions, BlockRound, BlockOver, BeginDelay, EndDelay,
         BeginWait, EndWait, BeginParallel, Join, EndParallel, Advanced, WithTop
<1>2. \/ st' = st \/ \E s : st' = [st EXCEPT ![i] = s]
  BY DEF RunStep, EventComes, BeginStep, EndList, Perform, Fail, ExitRule,
         RunRuleActions, BlockRound, BlockOver, BeginDelay, EndDelay,
         BeginWait, EndWait, BeginParallel, Join, EndParallel
<1>3. \/ branches' = branches \/ \E s : branches' = [branches EXCEPT ![i] = s]
  BY DEF RunStep, EventComes, BeginStep, EndList, Perform, Fail, ExitRule,
         RunRuleActions, BlockRound, BlockOver, BeginDelay, EndDelay,
         BeginWait, EndWait, BeginParallel, Join, EndParallel
<1>4. QED
  BY <1>1, <1>2, <1>3

(* The registry through the steps of a run's own task.                      *)
LEMMA RegExec ==
    ASSUME RunShape, FramesShape, BranchShape, RegistryShape, RegInv,
           BranchesOver, NEW i \in Runs, RunStep(i) \/ EventComes(i)
    PROVE  RegInv'
<1>0. BranchShape'
  BY BranchesExec
<1>1. \A j \in Runs \ {i} : /\ frames'[j] = frames[j]
                            /\ st'[j] = st[j]
                            /\ branches'[j] = branches[j]
  BY RunLocal
<1>2. ASSUME st[i] # "delay", st'[i] # "delay", UNCHANGED branches
      PROVE  \A w \in Waiter : SameDelay(w)
  BY <1>0, <1>1, <1>2, QuietRun
<1>3. ASSUME st[i] # "delay", st'[i] # "delay",
             UNCHANGED <<branches, registry, cut>>
      PROVE  RegInv'
  BY <1>2, <1>3, UntouchedReg
<1> DEFINE me == <<i, Main>>
<1>4. me \in Waiter /\ me[1] = i /\ me[2] = Main
  BY DEF Waiter, Main
<1>5. \A b \in Nat : Main \notin DOMAIN branches[i]
  BY DEF BranchShape, Main
<1>6. ASSUME UNCHANGED branches PROVE \A w \in Waiter \ {me} : SameDelay(w)
  <2> SUFFICES ASSUME NEW w \in Waiter \ {me} PROVE SameDelay(w)
    OBVIOUS
  <2>1. w[1] \in Runs /\ w[2] \in Nat /\ w = <<w[1], w[2]>>
    BY DEF Waiter
  <2>2. CASE w[1] # i
    BY <1>1, <2>1, <2>2 DEF SameDelay, InDelay, DelayKey, DelayRule, Top, Step
  <2>3. CASE w[1] = i
    <3>1. w[2] # Main
      BY <2>1, <2>3
    <3>2. QED
      BY <1>6, <2>1, <2>3, <3>1 DEF SameDelay, InDelay, DelayKey, DelayRule
  <2>4. QED
    BY <2>2, <2>3
<1> USE DEF RunShape, RunStates
<1>7. CASE BeginStep(i)
  BY <1>3, <1>7 DEF BeginStep
<1>8. CASE EndList(i)
  BY <1>3, <1>8 DEF EndList
<1>9. CASE Perform(i)
  <2>1. st[i] # "delay" /\ st'[i] # "delay" /\ UNCHANGED branches
    BY <1>9 DEF Perform
  <2>2. Instant(Step(i), Top(i).rule)
    BY <1>9 DEF Perform
  <2>3. QED
    BY <1>2, <2>1, <2>2, InstantKeepsReg
<1>10. CASE Fail(i)
  BY <1>3, <1>10 DEF Fail
<1>11. CASE ExitRule(i)
  BY <1>3, <1>11 DEF ExitRule
<1>12. CASE RunRuleActions(i)
  BY <1>3, <1>12 DEF RunRuleActions
<1>13. CASE BlockRound(i)
  BY <1>3, <1>13 DEF BlockRound
<1>14. CASE BlockOver(i)
  BY <1>3, <1>14 DEF BlockOver
<1>15. CASE BeginDelay(i)
  <2>1. /\ st[i] = "acting" /\ st'[i] = "delay"
        /\ Register(Top(i).rule, Step(i).key, me)
        /\ UNCHANGED <<frames, branches, cut>>
    BY <1>15 DEF BeginDelay
  <2>2. ~ InDelay(me) /\ InDelay(me)'
    BY <1>4, <1>5, <2>1 DEF InDelay
  <2>3. DelayKey(me)' = Step(i).key /\ DelayRule(me)' = Top(i).rule
    BY <1>4, <2>1 DEF DelayKey, DelayRule, Step, Top
  <2>4. \A w \in Waiter \ {me} : SameDelay(w)
    BY <1>6, <2>1
  <2>5. PICK r, k : r = Top(i).rule /\ k = Step(i).key
    OBVIOUS
  <2>6. Register(r, k, me)
    BY <2>1, <2>5
  <2>7. DelayKey(me)' = k /\ DelayRule(me)' = r
    BY <2>3, <2>5
  <2>8. QED
    <3> HIDE DEF me
    <3> QED  BY <1>4, <2>1, <2>2, <2>4, <2>6, <2>7, RegisterKeepsReg
<1>16. CASE EndDelay(i)
  <2>1. /\ st[i] = "delay" /\ st'[i] = "ready"
        /\ Unregister(Top(i).rule, Step(i).key, me)
        /\ UNCHANGED branches
    BY <1>16 DEF EndDelay
  <2>2. InDelay(me) /\ ~ InDelay(me)'
    BY <1>4, <1>5, <2>1 DEF InDelay
  <2>3. DelayKey(me) = Step(i).key /\ DelayRule(me) = Top(i).rule
    BY <1>4 DEF DelayKey, DelayRule
  <2>4. Unregister(DelayRule(me), DelayKey(me), me)
    BY <2>1, <2>3
  <2>5. \A w \in Waiter \ {me} : SameDelay(w)
    BY <1>6, <2>1
  <2>6. QED
    <3> HIDE DEF me
    <3> QED  BY <1>4, <2>2, <2>4, <2>5, UnregisterKeepsReg
<1>17. CASE BeginWait(i)
  BY <1>3, <1>17 DEF BeginWait, Waits
<1>18. ASSUME NEW k \in {"hold", "wait"}, EndWait(i, k) PROVE RegInv'
  BY <1>3, <1>18 DEF EndWait
<1>19. CASE BeginParallel(i)
  <2>1. branches[i] = <<>>
    BY <1>19 DEF BeginParallel, BranchesOver, BeforeBranches
  <2>2. \A b \in DOMAIN branches[i] : branches[i][b].at # "delay"
    BY <2>1
  <2>3. branches'[i] = [b \in 1..Len(Step(i).branches) |->
               [rule |-> Top(i).rule,
                step |-> Step(i).branches[b], at |-> "acting"]]
    BY <1>19 DEF BeginParallel, BranchShape
  <2>4. \A b \in DOMAIN branches'[i] : branches'[i][b].at # "delay"
    BY <2>3
  <2>5. st[i] # "delay" /\ st'[i] # "delay" /\ UNCHANGED <<registry, cut>>
    BY <1>19 DEF BeginParallel
  <2>6. \A w \in Waiter : SameDelay(w)
    BY <1>0, <1>1, <2>2, <2>4, <2>5, QuietRun
  <2>7. QED
    BY <2>5, <2>6, UntouchedReg
<1>20. CASE Join(i)
  BY <1>3, <1>20 DEF Join
<1>21. CASE EndParallel(i)
  <2>1. st[i] = "join" /\ joined[i] = Len(branches[i])
    BY <1>21 DEF EndParallel
  <2>2. \A b \in DOMAIN branches[i] : branches[i][b].at # "delay"
    <3>1. \A b \in DOMAIN branches[i] : b <= joined[i]
      BY <2>1 DEF BranchShape
    <3>2. QED
      BY <2>1, <3>1 DEF BranchesOver
  <2>3. branches'[i] = <<>>
    BY <1>21 DEF EndParallel, BranchShape
  <2>4. \A b \in DOMAIN branches'[i] : branches'[i][b].at # "delay"
    BY <2>3
  <2>5. st[i] # "delay" /\ st'[i] # "delay" /\ UNCHANGED <<registry, cut>>
    BY <1>21 DEF EndParallel
  <2>6. \A w \in Waiter : SameDelay(w)
    BY <1>0, <1>1, <2>2, <2>4, <2>5, QuietRun
  <2>7. QED
    BY <2>5, <2>6, UntouchedReg
<1>22. QED
  BY <1>7, <1>8, <1>9, <1>10, <1>11, <1>12, <1>13, <1>14, <1>15, <1>16, <1>17,
     <1>18, <1>19, <1>20, <1>21 DEF RunStep, EventComes

(* The step of one branch, seen from the waiters.                           *)
LEMMA BranchLocal ==
    ASSUME RunShape, BranchShape, NEW i \in Runs, NEW b \in DOMAIN branches[i],
           NEW to, MoveBranch(i, b, to), UNCHANGED st,
           \A j \in Runs : st[j] = "delay" => frames'[j] = frames[j]
    PROVE  /\ <<i, b>> \in Waiter
           /\ \A w \in Waiter \ {<<i, b>>} : SameDelay(w)
           /\ InDelay(<<i, b>>) <=> branches[i][b].at = "delay"
           /\ InDelay(<<i, b>>)' <=> to = "delay"
           /\ DelayKey(<<i, b>>) = branches[i][b].step.key
           /\ DelayKey(<<i, b>>)' = branches[i][b].step.key
           /\ DelayRule(<<i, b>>) = branches[i][b].rule
           /\ DelayRule(<<i, b>>)' = branches[i][b].rule
<1> DEFINE me == <<i, b>>
           new == [branches[i][b] EXCEPT !.at = to]
<1>1. b \in Nat /\ b # Main /\ branches[i][b] \in Branch
  BY BranchIn DEF Main
<1>2. me \in Waiter /\ me[1] = i /\ me[2] = b
  BY <1>1 DEF Waiter
<1>3. new.at = to /\ new.step = branches[i][b].step
      /\ new.rule = branches[i][b].rule
  BY <1>1 DEF Branch
<1>4. branches' = [branches EXCEPT ![i] = [branches[i] EXCEPT ![b] = new]]
  BY DEF MoveBranch, BranchShape
<1> HIDE DEF new
<1>5. \A j \in Runs : /\ DOMAIN branches'[j] = DOMAIN branches[j]
                      /\ j # i => branches'[j] = branches[j]
  BY <1>4 DEF BranchShape
<1>6. \A c \in DOMAIN branches[i] :
         branches'[i][c] = IF c = b THEN new ELSE branches[i][c]
  BY <1>4 DEF BranchShape
<1>7. \A w \in Waiter \ {me} : SameDelay(w)
  <2> SUFFICES ASSUME NEW w \in Waiter \ {me} PROVE SameDelay(w)
    OBVIOUS
  <2>1. w[1] \in Runs /\ w[2] \in Nat /\ w = <<w[1], w[2]>>
    BY DEF Waiter
  <2>2. w[1] = i => w[2] # b
    BY <2>1
  <2>3. /\ DOMAIN branches'[w[1]] = DOMAIN branches[w[1]]
        /\ w[2] \in DOMAIN branches[w[1]] =>
              branches'[w[1]][w[2]] = branches[w[1]][w[2]]
    BY <1>5, <1>6, <2>1, <2>2
  <2>4. Main \notin DOMAIN branches[w[1]]
    <3>1. branches[w[1]] \in Seq(Branch)
      BY <2>1 DEF BranchShape
    <3>2. QED
      BY <3>1 DEF Main
  <2>5. InDelay(w)' <=> InDelay(w)
    BY <2>3 DEF InDelay
  <2>6. CASE w[2] = Main
    BY <2>1, <2>4, <2>5, <2>6
       DEF SameDelay, InDelay, DelayKey, DelayRule, Top, Step
  <2>7. CASE w[2] # Main
    BY <2>3, <2>5, <2>7 DEF SameDelay, InDelay, DelayKey, DelayRule
  <2>8. QED
    BY <2>6, <2>7
<1>8. QED
  BY <1>1, <1>2, <1>3, <1>5, <1>6, <1>7 DEF InDelay, DelayKey, DelayRule

(* The registry through the steps of a branch.                              *)
LEMMA RegBranch ==
    ASSUME RunShape, FramesShape, BranchShape, RegistryShape, RegInv,
           NEW i \in Runs, NEW b \in DOMAIN branches[i],
           BranchActs(i, b) \/ BranchExits(i, b) \/ BranchWaitEnds(i, b)
    PROVE  RegInv'
<1> DEFINE me == <<i, b>>
<1>1. UNCHANGED st
  BY DEF BranchActs, BranchExits, BranchWaitEnds
<1>2. \A j \in Runs : st[j] = "delay" => frames'[j] = frames[j]
  <2>1. \/ UNCHANGED frames
        \/ st[i] = "join" /\ \E f : frames' = [frames EXCEPT ![i] = f]
    BY DEF BranchActs, BranchExits, BranchWaitEnds, RaiseFlag, WithTop
  <2>2. QED
    BY <2>1 DEF FramesShape
<1>3. ASSUME NEW to, MoveBranch(i, b, to)
      PROVE  /\ me \in Waiter
             /\ \A w \in Waiter \ {me} : SameDelay(w)
             /\ InDelay(me) <=> branches[i][b].at = "delay"
             /\ InDelay(me)' <=> to = "delay"
             /\ DelayKey(me) = branches[i][b].step.key
             /\ DelayKey(me)' = branches[i][b].step.key
             /\ DelayRule(me) = branches[i][b].rule
             /\ DelayRule(me)' = branches[i][b].rule
  BY <1>1, <1>2, <1>3, BranchLocal
<1> HIDE DEF me
<1>4. ASSUME NEW to, MoveBranch(i, b, to), to # "delay",
             branches[i][b].at # "delay"
      PROVE  \A w \in Waiter : SameDelay(w)
  <2>1. SameDelay(me)
    BY <1>3, <1>4 DEF SameDelay
  <2>2. QED
    BY <1>3, <1>4, <2>1
<1>5. CASE BranchActs(i, b)
  <2>1. branches[i][b].at = "acting"
    BY <1>5 DEF BranchActs
  <2>2. PICK s, r : s = branches[i][b].step /\ r = branches[i][b].rule
    OBVIOUS
  <2>3. CASE Instant(s, r) /\ MoveBranch(i, b, "ok")
    BY <1>4, <2>1, <2>3, InstantKeepsReg
  <2>4. CASE MoveBranch(i, b, "err") /\ UNCHANGED <<registry, cut>>
    BY <1>4, <2>1, <2>4, UntouchedReg
  <2>5. CASE Register(r, s.key, me) /\ MoveBranch(i, b, "delay") /\ UNCHANGED cut
    <3>1. /\ me \in Waiter /\ ~ InDelay(me) /\ InDelay(me)'
          /\ DelayKey(me)' = s.key /\ DelayRule(me)' = r
          /\ \A w \in Waiter \ {me} : SameDelay(w)
      BY <1>3, <2>1, <2>2, <2>5
    <3>2. QED
      BY <2>5, <3>1, RegisterKeepsReg
  <2>6. CASE Waits(s) /\ MoveBranch(i, b, s.op) /\ UNCHANGED <<registry, cut>>
    BY <1>4, <2>1, <2>6, UntouchedReg DEF Waits
  <2>7. QED
    BY <1>5, <2>2, <2>3, <2>4, <2>5, <2>6 DEF BranchActs, me
<1>6. CASE BranchExits(i, b)
  BY <1>4, <1>6, UntouchedReg DEF BranchExits
<1>7. CASE BranchWaitEnds(i, b)
  <2>1. MoveBranch(i, b, "ok")
    BY <1>7 DEF BranchWaitEnds
  <2>2. CASE branches[i][b].at = "delay"
    <3>1. Unregister(DelayRule(me), DelayKey(me), me)
      BY <1>3, <1>7, <2>1, <2>2 DEF BranchWaitEnds, me
    <3>2. /\ me \in Waiter /\ InDelay(me) /\ ~ InDelay(me)'
          /\ \A w \in Waiter \ {me} : SameDelay(w)
      BY <1>3, <2>1, <2>2
    <3>3. QED
      BY <3>1, <3>2, UnregisterKeepsReg
  <2>3. CASE branches[i][b].at # "delay"
    BY <1>4, <1>7, <2>1, <2>3, UntouchedReg DEF BranchWaitEnds
  <2>4. QED
    BY <2>2, <2>3
<1>8. QED
  BY <1>5, <1>6, <1>7

-----------------------------------------------------------------------------
(* A run begins its Parallel with no branches and joins them in order.      *)
LEMMA OverExec ==
    ASSUME RunShape, FramesShape, BranchShape, BranchesOver, NEW i \in Runs,
           RunStep(i) \/ EventComes(i)
    PROVE  BranchesOver'
<1> USE DEF RunShape, RunStates, BeforeBranches
<1>1. \A j \in Runs \ {i} : /\ frames'[j] = frames[j]
                            /\ st'[j] = st[j]
                            /\ branches'[j] = branches[j]
  BY RunLocal
<1>2. \A j \in Runs \ {i} : joined'[j] = joined[j]
  BY DEF BranchShape, RunStep, EventComes, BeginStep, EndList, Perform, Fail,
         ExitRule, RunRuleActions, BlockRound, BlockOver, BeginDelay, EndDelay,
         BeginWait, EndWait, BeginParallel, Join, EndParallel
<1>3. ASSUME st'[i] \in BeforeBranches => branches'[i] = <<>>,
             st'[i] = "join" =>
                \A b \in DOMAIN branches'[i] :
                   b <= joined'[i] => branches'[i][b].at \in {"ok", "err"}
      PROVE  BranchesOver'
  <2>1. ASSUME NEW j \in Runs, st'[j] \in BeforeBranches
        PROVE  branches'[j] = <<>>
    BY <1>1, <1>3, <2>1 DEF BranchesOver
  <2>2. ASSUME NEW j \in Runs, st'[j] = "join",
               NEW b \in DOMAIN branches'[j], b <= joined'[j]
        PROVE  branches'[j][b].at \in {"ok", "err"}
    BY <1>1, <1>2, <1>3, <2>2 DEF BranchesOver
  <2>3. QED
    BY <2>1, <2>2 DEF BranchesOver
<1>4. CASE BeginParallel(i)
  <2>1. branches'[i] = [b \in 1..Len(Step(i).branches) |->
               [rule |-> Top(i).rule,
                step |-> Step(i).branches[b], at |-> "acting"]]
        /\ joined'[i] = 0 /\ st'[i] = "join"
    BY <1>4 DEF BeginParallel, BranchShape
  <2>2. \A b \in DOMAIN branches'[i] : ~ (b <= joined'[i])
    <3>1. BranchShape'
      BY <1>4, BranchesExec
    <3>2. branches'[i] \in Seq(Branch)
      BY <3>1 DEF BranchShape
    <3>3. \A b \in DOMAIN branches'[i] : b \in Nat /\ b > 0
      BY <3>2
    <3>4. QED
      BY <2>1, <3>3
  <2>3. QED
    BY <1>3, <2>1, <2>2
<1>5. CASE EndParallel(i)
  <2>1. st'[i] = "ready" /\ branches'[i] = <<>>
    BY <1>5 DEF EndParallel, BranchShape
  <2>2. QED
    BY <1>3, <2>1
<1>6. CASE Join(i)
  <2>1. /\ st[i] = "join" /\ st'[i] \in {"join", "ended"}
        /\ branches' = branches /\ joined'[i] = joined[i] + 1
        /\ branches[i][joined[i] + 1].at \in {"ok", "err"}
        /\ joined[i] \in Nat
    BY <1>6 DEF Join, BranchShape
  <2>2. ASSUME NEW b \in DOMAIN branches'[i], b <= joined'[i]
        PROVE  branches'[i][b].at \in {"ok", "err"}
    <3>1. b \in Nat /\ b \in DOMAIN branches[i]
      BY <2>1, <2>2 DEF BranchShape
    <3>2. b <= joined[i] \/ b = joined[i] + 1
      BY <2>1, <2>2, <3>1
    <3>3. QED
      BY <2>1, <3>1, <3>2 DEF BranchesOver
  <2>3. QED
    BY <1>3, <2>1, <2>2
<1>7. CASE /\ UNCHANGED branches /\ st'[i] # "join"
           /\ st[i] \in BeforeBranches
  BY <1>3, <1>7 DEF BranchesOver
<1>8. CASE /\ UNCHANGED branches /\ st'[i] = "ended"
  BY <1>3, <1>8
<1>9. CASE EndList(i) \/ Fail(i)
  BY <1>7, <1>8, <1>9 DEF EndList, Fail
<1>10. CASE \/ BeginStep(i) \/ Perform(i) \/ ExitRule(i) \/ RunRuleActions(i)
            \/ BlockRound(i) \/ BlockOver(i)
  BY <1>7, <1>10
     DEF BeginStep, Perform, ExitRule, RunRuleActions, BlockRound, BlockOver
<1>11. CASE BeginDelay(i) \/ EndDelay(i) \/ BeginWait(i)
  BY <1>7, <1>11 DEF BeginDelay, EndDelay, BeginWait, Waits
<1>12. ASSUME NEW k \in {"hold", "wait"}, EndWait(i, k) PROVE BranchesOver'
  BY <1>7, <1>12 DEF EndWait
<1>13. QED
  BY <1>4, <1>5, <1>6, <1>9, <1>10, <1>11, <1>12 DEF RunStep, EventComes

(* A branch that is over stays so.                                          *)
LEMMA OverBranch ==
    ASSUME BranchShape, BranchesOver, NEW i \in Runs,
           NEW b \in DOMAIN branches[i],
           BranchActs(i, b) \/ BranchExits(i, b) \/ BranchWaitEnds(i, b)
    PROVE  BranchesOver'
<1>1. UNCHANGED <<st, joined>>
  BY DEF BranchActs, BranchExits, BranchWaitEnds
<1>2. branches[i][b].at \notin {"ok", "err"}
  BY DEF BranchActs, BranchExits, BranchWaitEnds
<1>3. \E to : branches' = [branches EXCEPT ![i][b].at = to]
  BY DEF BranchActs, BranchExits, BranchWaitEnds, MoveBranch
<1>4. \A j \in Runs : /\ DOMAIN branches'[j] = DOMAIN branches[j]
                      /\ \A c \in DOMAIN branches[j] :
                            branches'[j][c] = branches[j][c] \/ (j = i /\ c = b)
  <2>1. PICK new : branches' = [branches EXCEPT ![i] =
                                  [branches[i] EXCEPT ![b] = new]]
    BY <1>3 DEF BranchShape
  <2>2. ASSUME NEW j \in Runs
        PROVE  branches'[j] = IF j = i THEN [branches[i] EXCEPT ![b] = new]
                                       ELSE branches[j]
    BY <2>1 DEF BranchShape
  <2>3. QED
    BY <2>2
<1>5. ASSUME NEW j \in Runs, st[j] \in BeforeBranches
      PROVE  branches'[j] = <<>>
  <2>1. branches[j] = <<>>
    BY <1>5 DEF BranchesOver
  <2>2. j # i
    BY <2>1
  <2>3. QED
    BY <1>3, <2>1, <2>2 DEF BranchShape
<1>6. ASSUME NEW j \in Runs, st[j] = "join",
             NEW c \in DOMAIN branches'[j], c <= joined[j]
      PROVE  branches'[j][c].at \in {"ok", "err"}
  BY <1>2, <1>4, <1>6 DEF BranchesOver
<1>7. QED
  BY <1>1, <1>5, <1>6 DEF BranchesOver

-----------------------------------------------------------------------------
RegistryInv == RegInv /\ BranchesOver

(* A step that moves no run and no branch, and cancels some entries or none. *)
LEMMA EngineKeepsReg ==
    ASSUME RegistryShape, RegistryInv, UNCHANGED <<st, frames, branches, joined>>,
           \/ UNCHANGED <<registry, cut>>
           \/ \E es \in SUBSET registry : Cancel(es)
    PROVE  RegistryInv'
<1>1. \A w \in Waiter : SameDelay(w)
  BY DEF SameDelay, InDelay, DelayKey, DelayRule, Top, Step
<1>2. RegInv'
  BY <1>1, UntouchedReg, CancelKeepsReg DEF RegistryInv
<1>3. BranchesOver'
  BY DEF RegistryInv, BranchesOver
<1>4. QED
  BY <1>2, <1>3 DEF RegistryInv

(* A step that moves a run before its actions or after them.                *)
LEMMA EpilogueKeepsReg ==
    ASSUME RunShape, BranchShape, RegistryShape, RegistryInv, NEW i \in Runs,
           NEW s \in RunStates \ {"delay", "join"}, st' = [st EXCEPT ![i] = s],
           st[i] \notin {"delay", "join"},
           s \in BeforeBranches => st[i] \in BeforeBranches,
           UNCHANGED <<branches, joined, registry, cut>>,
           \A j \in Runs \ {i} : frames'[j] = frames[j]
    PROVE  RegistryInv'
<1>1. st'[i] = s /\ \A j \in Runs \ {i} : st'[j] = st[j]
  BY DEF RunShape
<1>2. BranchShape'
  BY DEF BranchShape
<1>3. \A w \in Waiter : SameDelay(w)
  BY <1>1, <1>2, QuietRun
<1>4. RegInv'
  BY <1>3, UntouchedReg DEF RegistryInv
<1>5. BranchesOver'
  BY <1>1 DEF RegistryInv, BranchesOver
<1>6. QED
  BY <1>4, <1>5 DEF RegistryInv

LEMMA RegistryInvStep ==
    ASSUME IInv, TInv, RegistryInv, [Next]_vars
    PROVE  RegistryInv'
<1>1. /\ Shape /\ LoopShape /\ RunShape
      /\ FramesShape /\ BranchShape /\ RegistryShape /\ RegInv /\ BranchesOver
  BY DEF IInv, Shape, TInv, RegistryInv
<1> USE DEF execVars
<1>2. ASSUME NEW S \in SUBSET Rules, HandleEvent(S) \/ SwapRules(S)
      PROVE  RegistryInv'
  BY <1>1, <1>2, EngineKeepsReg DEF HandleEvent, SwapRules
<1>3. ASSUME NEW r \in Rules, NEW k \in Kinds, HandleManualRun(r, k)
      PROVE  RegistryInv'
  BY <1>1, <1>3, EngineKeepsReg DEF HandleManualRun
<1>4. CASE \/ FirePaused \/ FireCooldown \/ FireBegins \/ TriggerGateFails
           \/ GatesPass \/ FireErrors \/ ModeSkips \/ ConditionsFail
  BY <1>1, <1>4, EngineKeepsReg
     DEF FirePaused, FireCooldown, FireBegins, TriggerGateFails, GatesPass,
         FireErrors, ModeSkips, ConditionsFail
<1>5. CASE RequiredExpressionFails \/ ModeAllows
  <2>1. OfRule(Firing) \in SUBSET registry
    BY DEF OfRule
  <2>2. /\ UNCHANGED <<st, frames, branches, joined>>
        /\ \/ UNCHANGED <<registry, cut>>
           \/ Cancel(OfRule(Firing))
    BY <1>5 DEF RequiredExpressionFails, ModeAllows
  <2>3. QED
    BY <1>1, <2>1, <2>2, EngineKeepsReg
<1>6. CASE Fires
  <2> DEFINE i == nRuns + 1
  <2>1. i \in Runs /\ st[i] = "none"
    BY <1>1, <1>6, NewRun
  <2>2. PICK s \in {"spawned", "ready"} : st' = [st EXCEPT ![i] = s]
    BY <1>6 DEF Fires
  <2>3. UNCHANGED <<branches, joined, registry, cut>>
    BY <1>6 DEF Fires
  <2>4. \A j \in Runs \ {i} : frames'[j] = frames[j]
    BY <1>1, <1>6 DEF Fires, FramesShape
  <2>5. QED
    <3> HIDE DEF i
    <3> QED
      BY <1>1, <2>1, <2>2, <2>3, <2>4, EpilogueKeepsReg
         DEF RunStates, BeforeBranches
<1>7. CASE Purge \/ Shutdown \/ Drained \/ Tick \/ UNCHANGED vars
  BY <1>1, <1>7, EngineKeepsReg DEF Purge, Shutdown, Drained, Tick, vars
<1>8. ASSUME NEW i \in Runs,
             \/ AskTurn(i) \/ TakeTurn(i)
             \/ Record(i) \/ Uncount(i) \/ Land(i) \/ Close(i)
      PROVE  RegistryInv'
  <2>1. UNCHANGED <<frames, branches, joined, registry, cut>>
    BY <1>8 DEF AskTurn, TakeTurn, Record, Uncount, Land, Close
  <2>2. \E s \in RunStates \ {"delay", "join"} :
           /\ st' = [st EXCEPT ![i] = s]
           /\ s \in BeforeBranches => st[i] \in BeforeBranches
    BY <1>8 DEF AskTurn, TakeTurn, Record, Uncount, Land, Close, RunStates,
                BeforeBranches
  <2>3. st[i] \notin {"delay", "join"}
    BY <1>8 DEF AskTurn, TakeTurn, Record, Uncount, Land, Close
  <2>4. QED
    BY <1>1, <2>1, <2>2, <2>3, EpilogueKeepsReg
<1>9. ASSUME NEW i \in Runs, ExecStep(i) PROVE RegistryInv'
  <2>1. CASE RunStep(i) \/ EventComes(i)
    BY <1>1, <2>1, RegExec, OverExec DEF RegistryInv
  <2>2. CASE BranchStep(i)
    <3>1. PICK b \in DOMAIN branches[i] :
             BranchActs(i, b) \/ BranchExits(i, b) \/ BranchWaitEnds(i, b)
      BY <2>2 DEF BranchStep
    <3>2. QED
      BY <1>1, <3>1, RegBranch, OverBranch DEF RegistryInv
  <2>3. QED
    BY <1>9, <2>1, <2>2 DEF ExecStep, Execute
<1>10. QED
  BY <1>2, <1>3, <1>4, <1>5, <1>6, <1>7, <1>8, <1>9
     DEF Next, Fire, RunTask, ExecStep

LEMMA RegistryInvInit == Init => RegistryInv
<1> SUFFICES ASSUME Init PROVE RegistryInv
  OBVIOUS
<1>1. \A w \in Waiter : ~ InDelay(w)
  <2> SUFFICES ASSUME NEW w \in Waiter PROVE ~ InDelay(w)
    OBVIOUS
  <2>1. w[1] \in Runs
    BY DEF Waiter
  <2>2. st[w[1]] = "none" /\ branches[w[1]] = <<>>
    BY <2>1 DEF Init, ExecInit
  <2>3. DOMAIN branches[w[1]] = {}
    BY <2>2
  <2>4. QED
    BY <2>2, <2>3 DEF InDelay
<1>2. registry = {} /\ cut = {}
  BY DEF Init, ExecInit
<1>3. RegInv
  BY <1>1, <1>2 DEF RegInv, EntriesRight, KeysOnce, Reachable
<1>4. BranchesOver
  BY DEF Init, ExecInit, BranchesOver
<1>5. QED
  BY <1>3, <1>4 DEF RegistryInv

(* The delay registry is exact in every state, for any rules and action     *)
(* lists: no entry outlives its delay, no key is held twice, and a delay    *)
(* without a key of its own is registered until it is signalled, whichever  *)
(* runs, branches and firings cancel, restart, fail or end meanwhile.  It   *)
(* rests on BranchesOver: the tasks an error leaves behind keep their place *)
(* among the waiters, since their run begins no other Parallel.             *)
THEOREM RegistryCorrect == Spec => []RegistryExact
<1>1. Init => TInv /\ RegistryInv
  BY TInvInit, RegistryInvInit
<1>2. IInv /\ TInv /\ RegistryInv /\ [Next]_vars => TInv' /\ RegistryInv'
  BY TInvStep, RegistryInvStep DEF IInv
<1>3. RegistryInv => RegistryExact
  BY RegInvExact DEF RegistryInv
<1>4. QED
  BY <1>1, <1>2, <1>3, Inductive, PTL DEF Spec
=============================================================================
