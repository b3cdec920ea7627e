------------------------- MODULE TimerManagerProofs -------------------------
(***************************************************************************)
(* What holds of a timer device for any lengths, tasks and numbers of       *)
(* commands and crashes: the three safety properties of TimerManager, from  *)
(* one inductive invariant.                                                 *)
(***************************************************************************)
EXTENDS TimerManager, TLAPS

-----------------------------------------------------------------------------
(* The inductive invariant.                                                 *)

(* A paused timer has no more left than its length: what keeps an extension *)
(* of it in range, and a resumed one as far into its length as it was.      *)
PausedFits(r) == r.state = "paused" => r.remaining <= r.duration

(* Only the task of the handle, a live one, has a sender that is still      *)
(* there, whatever it is doing.  OneArmed says it of the tasks that sleep.  *)
OneOpen == \A t \in Tasks : task[t].open => handle.task = t /\ Live(t)

(* A process that is down has no task, and owes nothing.                    *)
DownIsClear ==
    ~ up => ~ mgr.busy /\ \A t \in Tasks : task[t] = Dead

(* As long as no command came while a task was finishing, a task without    *)
(* its sender sleeps, and not to its end: it can only hang up.              *)
ClosedSleeps ==
    \A t \in Tasks :
        Live(t) /\ ~ task[t].open => task[t].pc = "sleeping" /\ task[t].left > 0

(* A command in hand has taken the sender of every task away, and owes a    *)
(* task exactly when it owes a running record, of the length left by it.    *)
OwesRight ==
    mgr.busy =>
        /\ \A t \in Tasks : ~ task[t].open
        /\ mgr.record.state = "running" <=> mgr.left > 0
        /\ ~ stretched /\ mgr.left > 0 => mgr.left = Remaining(mgr.record)

(* Between commands the record and the task tell the same story.            *)
Agreed ==
    up /\ ~ mgr.busy =>
        /\ store.state = "running" =>
               \E t \in Tasks : /\ task[t].open
                                /\ task[t].pc \in {"sleeping", "firing"}
        /\ \A t \in Tasks : task[t].open =>
               /\ task[t].pc \in {"sleeping", "firing"} => store.state = "running"
               /\ task[t].pc \in {"resetting", "removing"}
                      => store.state = "finished"
               /\ task[t].pc = "sleeping" /\ ~ stretched
                      => task[t].left = Remaining(store)

TimerInv ==
    /\ TypeOK
    /\ PausedFits(store) /\ PausedFits(mgr.record)
    /\ OneOpen
    /\ DownIsClear
    /\ ~ raced => ClosedSleeps /\ OwesRight /\ Agreed

-----------------------------------------------------------------------------
(* The operators.                                                           *)

(* saturating_sub gives no more than the length.                            *)
LEMMA RemainingFits ==
    ASSUME NEW r \in Record
    PROVE  Remaining(r) \in Secs /\ Remaining(r) <= r.duration
BY TimerAssumption DEF Record, Secs, Remaining

LEMMA ConstantsFit ==
    /\ Blank \in Record /\ Dead \in Task /\ NoHandle \in [task : Tasks \cup {NoTask}, length : Secs]
    /\ AtRest \in [busy : BOOLEAN, record : Record, left : Secs, length : Secs]
    /\ PausedFits(Blank)
<1>1. 0 \in Secs
    BY TimerAssumption DEF Secs
<1>2. Blank \in Record
    BY <1>1 DEF Blank, Record, States
<1>3. Dead \in Task
    BY <1>1, <1>2 DEF Dead, Task
<1>4. NoHandle \in [task : Tasks \cup {NoTask}, length : Secs]
    BY <1>1 DEF NoHandle
<1>5. AtRest \in [busy : BOOLEAN, record : Record, left : Secs, length : Secs]
    BY <1>1, <1>2 DEF AtRest
<1>6. PausedFits(Blank)
    BY DEF PausedFits, Blank
<1> QED
    BY <1>2, <1>3, <1>4, <1>5, <1>6

(* Taking the handle's sender away leaves every task as far as it was, and  *)
(* none with a sender.                                                      *)
LEMMA HangupClears ==
    ASSUME TypeOK, OneOpen
    PROVE  /\ Hangup \in [Tasks -> Task]
           /\ \A t \in Tasks : /\ ~ Hangup[t].open
                               /\ Hangup[t].pc = task[t].pc
                               /\ Hangup[t].left = task[t].left
<1>1. ASSUME NEW t \in Tasks
      PROVE  /\ Hangup[t] \in Task
             /\ ~ Hangup[t].open
             /\ Hangup[t].pc = task[t].pc
             /\ Hangup[t].left = task[t].left
    <2>1. Hangup[t] = IF t = handle.task THEN [task[t] EXCEPT !.open = FALSE]
                                         ELSE task[t]
        BY DEF Hangup
    <2>2. task[t] \in Task
        BY DEF TypeOK
    <2>3. CASE t = handle.task
        BY <2>1, <2>2, <2>3 DEF Task
    <2>4. CASE t # handle.task
        BY <2>1, <2>2, <2>4 DEF OneOpen, Task
    <2> QED
        BY <2>3, <2>4
<1>2. Hangup = [t \in Tasks |-> Hangup[t]]
    BY DEF Hangup
<1> QED
    BY <1>1, <1>2

(* A task spawned among tasks without a sender is the only one with one,    *)
(* and the one of the handle.                                               *)
LEMMA SpawnArms ==
    ASSUME TypeOK,
           NEW ts \in [Tasks -> Task], \A t \in Tasks : ~ ts[t].open,
           NEW left \in Secs, NEW length \in Secs, NEW repeat \in BOOLEAN,
           Spawn(ts, left, length, repeat)
    PROVE  \E t \in Tasks :
              /\ ~ Live(t)
              /\ task' \in [Tasks -> Task]
              /\ handle' \in [task : Tasks \cup {NoTask}, length : Secs]
              /\ handle'.task = t
              /\ task'[t].open /\ task'[t].pc = "sleeping" /\ task'[t].left = left
              /\ \A u \in Tasks \ {t} : task'[u] = ts[u] /\ ~ task'[u].open
<1>1. PICK t \in Tasks :
        /\ ~ Live(t)
        /\ task' = [ts EXCEPT ![t] =
              [pc |-> "sleeping", left |-> left, length |-> length,
               repeat |-> repeat, open |-> TRUE, copy |-> Blank]]
        /\ handle' = [task |-> t, length |-> length]
    BY DEF Spawn
<1> DEFINE new == [pc |-> "sleeping", left |-> left, length |-> length,
                   repeat |-> repeat, open |-> TRUE, copy |-> Blank]
<1>2. new \in Task
    BY ConstantsFit DEF Task
<1>3. \A u \in Tasks : task'[u] = IF u = t THEN new ELSE ts[u]
    BY <1>1
<1>4. new.open /\ new.pc = "sleeping" /\ new.left = left
    OBVIOUS
<1> HIDE DEF new
<1>5. task' = [u \in Tasks |-> task'[u]]
    BY <1>1
<1>6. task' \in [Tasks -> Task]
    BY <1>2, <1>3, <1>5
<1> QED
    BY <1>1, <1>3, <1>4, <1>6

-----------------------------------------------------------------------------
(* The commands.                                                            *)

Owed == [busy : BOOLEAN, record : Record, left : Secs, length : Secs]

(* What every command does before its own part.                             *)
LEMMA AcceptFits ==
    ASSUME TypeOK, NEW cmd, Accept(cmd)
    PROVE  /\ up /\ up' /\ ~ mgr.busy
           /\ store' = store /\ crashes' = crashes
           /\ raced' \in BOOLEAN /\ cmds' \in 0..MaxCmds
           /\ ~ raced' => /\ ~ raced
                          /\ \A t \in Tasks : ~ Finishing(t) /\ ~ Due(t)
<1>1. cmds' \in 0..MaxCmds
    BY TimerAssumption DEF TypeOK, Accept
<1>2. raced' = (raced \/ \E t \in Tasks : Finishing(t) \/ Due(t))
    BY DEF Accept
<1>3. raced' \in BOOLEAN
    BY <1>2
<1>4. ~ raced' => ~ raced /\ \A t \in Tasks : ~ Finishing(t) /\ ~ Due(t)
    BY <1>2
<1> QED
    BY <1>1, <1>3, <1>4 DEF Accept

(* A command that no task's finishing meets finds the open tasks asleep,    *)
(* with time left, and the record running.                                  *)
LEMMA OpenAtCommand ==
    ASSUME TimerInv, NEW cmd, Accept(cmd), ~ raced',
           NEW t \in Tasks, task[t].open
    PROVE  /\ task[t].pc = "sleeping" /\ task[t].left > 0
           /\ store.state = "running"
           /\ ~ stretched => task[t].left = Remaining(store)
<1>1. task[t] \in Task
    BY DEF TimerInv, TypeOK
<1>2. /\ up /\ ~ mgr.busy /\ ~ raced
      /\ ~ Finishing(t) /\ ~ Due(t)
    BY AcceptFits DEF TimerInv
<1>3. Agreed /\ OneOpen /\ ClosedSleeps
    BY <1>2 DEF TimerInv
<1>4. task[t].pc # "none"
    BY <1>3 DEF OneOpen, Live
<1> QED
    BY <1>1, <1>2, <1>3, <1>4 DEF Finishing, Due, Agreed, Task, Secs

(* A command in hand keeps the invariant when what it owes is right.        *)
LEMMA OwingKeeps ==
    ASSUME TimerInv, NEW cmd, Accept(cmd),
           mgr' \in Owed, mgr'.busy, PausedFits(mgr'.record),
           task' \in [Tasks -> Task], handle' \in [task : Tasks \cup {NoTask}, length : Secs],
           stretched' \in BOOLEAN,
           OneOpen',
           \A t \in Tasks : task'[t].pc = task[t].pc /\ task'[t].left = task[t].left,
           ~ raced' => \A t \in Tasks : ~ task'[t].open,
           mgr'.record.state = "running" <=> mgr'.left > 0,
           ~ raced' /\ ~ stretched' /\ mgr'.left > 0
               => mgr'.left = Remaining(mgr.record)'
    PROVE  TimerInv'
<1>1. /\ up /\ up' /\ ~ mgr.busy
      /\ store' = store /\ crashes' = crashes
      /\ raced' \in BOOLEAN /\ cmds' \in 0..MaxCmds
      /\ ~ raced' => ~ raced /\ \A t \in Tasks : ~ Finishing(t) /\ ~ Due(t)
    BY AcceptFits DEF TimerInv
<1>2. TypeOK'
    BY <1>1 DEF TimerInv, TypeOK, Owed
<1>3. PausedFits(store)' /\ PausedFits(mgr.record)'
    BY <1>1 DEF TimerInv, PausedFits
<1>4. DownIsClear'
    BY <1>1 DEF DownIsClear
<1>5. ASSUME ~ raced'
      PROVE  ClosedSleeps' /\ OwesRight' /\ Agreed'
    <2>1. ClosedSleeps'
        <3> SUFFICES ASSUME NEW t \in Tasks, task'[t].pc # "none"
                     PROVE  task'[t].pc = "sleeping" /\ task'[t].left > 0
            BY DEF ClosedSleeps, Live
        <3>1. task[t] \in Task
            BY DEF TimerInv, TypeOK
        <3> QED
            BY <1>1, <1>5, <3>1 DEF Finishing, Due, Task, Secs
    <2>2. OwesRight'
        BY <1>5 DEF OwesRight
    <2>3. Agreed'
        BY DEF Agreed
    <2> QED
        BY <2>1, <2>2, <2>3
<1> QED
    BY <1>2, <1>3, <1>4, <1>5 DEF TimerInv

(* The commands that cancel the task first.                                 *)
LEMMA CancellingKeeps ==
    ASSUME TimerInv, NEW cmd, Accept(cmd), CancelTask,
           mgr' \in Owed, mgr'.busy, PausedFits(mgr'.record),
           stretched' \in BOOLEAN,
           mgr'.record.state = "running" <=> mgr'.left > 0,
           ~ raced' /\ ~ stretched' /\ mgr'.left > 0
               => mgr'.left = Remaining(mgr.record)'
    PROVE  TimerInv'
<1>1. task' = Hangup /\ handle' = NoHandle
    BY DEF CancelTask
<1>2. /\ task' \in [Tasks -> Task]
      /\ \A t \in Tasks : /\ ~ task'[t].open
                          /\ task'[t].pc = task[t].pc /\ task'[t].left = task[t].left
    BY <1>1, HangupClears DEF TimerInv
<1>3. OneOpen'
    BY <1>2 DEF OneOpen
<1> QED
    BY <1>1, <1>2, <1>3, OwingKeeps, ConstantsFit

(* Resume and the extension of a paused timer leave task and handle alone:  *)
(* paused, there is no task to cancel.                                      *)
LEMMA PausedKeeps ==
    ASSUME TimerInv, NEW cmd, Accept(cmd), UNCHANGED <<task, handle, stretched>>,
           store.state = "paused",
           mgr' \in Owed, mgr'.busy, PausedFits(mgr'.record),
           mgr'.record.state = "running" <=> mgr'.left > 0,
           mgr'.left > 0 => mgr'.left = Remaining(mgr.record)'
    PROVE  TimerInv'
<1>1. ~ raced' => \A t \in Tasks : ~ task'[t].open
    BY OpenAtCommand
<1>2. OneOpen'
    BY DEF OneOpen, TimerInv, Live
<1> QED
    BY <1>1, <1>2, OwingKeeps DEF TimerInv, TypeOK

(* Owe gives a mgr of its type.                                             *)
LEMMA OweFits ==
    ASSUME NEW rec \in Record, NEW left \in Secs, NEW length \in Secs,
           Owe(rec, left, length)
    PROVE  /\ mgr' \in Owed /\ mgr'.busy
           /\ mgr'.record = rec /\ mgr'.left = left
BY DEF Owe, Owed

LEMMA StartKeeps ==
    ASSUME TimerInv, NEW d \in Lengths, NEW repeat \in BOOLEAN, Start(d, repeat)
    PROVE  TimerInv'
<1> DEFINE rec == [store EXCEPT !.state = "running", !.age = 0, !.duration = d,
                                !.remaining = d, !.repeat = repeat]
<1>1. store \in Record /\ d \in Secs /\ d > 0 /\ 0 \in Secs
    BY TimerAssumption DEF TimerInv, TypeOK, Secs
<1>2. rec \in Record /\ rec.state = "running" /\ rec.duration = d /\ rec.age = 0
    BY <1>1 DEF Record, States
<1>3. Owe(rec, d, d)
    BY DEF Start
<1> HIDE DEF rec
<1>4. mgr' \in Owed /\ mgr'.busy /\ mgr'.record = rec /\ mgr'.left = d
    BY <1>1, <1>2, <1>3, OweFits
<1>5. mgr'.left = Remaining(mgr.record)'
    BY <1>1, <1>2, <1>4 DEF Remaining, Secs
<1>6. PausedFits(mgr'.record)
    BY <1>2, <1>4 DEF PausedFits
<1> QED
    BY <1>1, <1>2, <1>4, <1>5, <1>6, CancellingKeeps DEF Start

LEMMA PauseKeeps ==
    ASSUME TimerInv, Pause
    PROVE  TimerInv'
<1> DEFINE rec == [store EXCEPT !.state = "paused", !.remaining = Remaining(store)]
<1>1. store \in Record /\ 0 \in Secs /\ stretched' \in BOOLEAN
    BY TimerAssumption DEF TimerInv, TypeOK, Secs, Pause
<1>2. /\ rec \in Record /\ rec.state = "paused"
      /\ rec.remaining = Remaining(store) /\ rec.duration = store.duration
    BY <1>1, RemainingFits DEF Record, States
<1>3. Owe(rec, 0, 0)
    BY DEF Pause
<1> HIDE DEF rec
<1>4. mgr' \in Owed /\ mgr'.busy /\ mgr'.record = rec /\ mgr'.left = 0
    BY <1>1, <1>2, <1>3, OweFits
<1>5. PausedFits(mgr'.record)
    BY <1>1, <1>2, <1>4, RemainingFits DEF PausedFits
<1> QED
    BY <1>1, <1>2, <1>4, <1>5, CancellingKeeps DEF Pause

LEMMA CancelKeeps ==
    ASSUME TimerInv, Cancel
    PROVE  TimerInv'
<1> DEFINE rec == [store EXCEPT !.state = "cancelled"]
<1>1. store \in Record /\ 0 \in Secs /\ stretched' \in BOOLEAN
    BY TimerAssumption DEF TimerInv, TypeOK, Secs, Cancel
<1>2. rec \in Record /\ rec.state = "cancelled"
    BY <1>1 DEF Record, States
<1>3. Owe(rec, 0, 0)
    BY DEF Cancel
<1> HIDE DEF rec
<1>4. mgr' \in Owed /\ mgr'.busy /\ mgr'.record = rec /\ mgr'.left = 0
    BY <1>1, <1>2, <1>3, OweFits
<1>5. PausedFits(mgr'.record)
    BY <1>2, <1>4 DEF PausedFits
<1> QED
    BY <1>1, <1>2, <1>4, <1>5, CancellingKeeps DEF Cancel

(* A restart that does not stretch runs the length of the record.           *)
LEMMA RestartKeeps ==
    ASSUME TimerInv, Restart
    PROVE  TimerInv'
<1> DEFINE d == IF handle = NoHandle THEN store.duration ELSE handle.length
           rec == [store EXCEPT !.state = "running", !.age = 0, !.remaining = d]
<1>1. store \in Record /\ 0 \in Secs
    BY TimerAssumption DEF TimerInv, TypeOK, Secs
<1>2. d \in Secs
    <2>1. store.duration \in Secs /\ handle.length \in Secs
        BY DEF TimerInv, TypeOK, Record
    <2> QED
        BY <2>1
<1>3. d > 0 /\ Owe(rec, d, d) /\ stretched' = (stretched \/ d # store.duration)
    BY DEF Restart
<1> HIDE DEF d
<1>4. /\ rec \in Record /\ rec.state = "running" /\ rec.age = 0
      /\ rec.duration = store.duration
    BY <1>1, <1>2 DEF Record, States
<1> HIDE DEF rec
<1>5. mgr' \in Owed /\ mgr'.busy /\ mgr'.record = rec /\ mgr'.left = d
    BY <1>1, <1>2, <1>3, <1>4, OweFits
<1>6. ~ stretched' => mgr'.left = Remaining(mgr.record)'
    <2>1. ~ stretched' => d = store.duration
        BY <1>3, Zenon
    <2> QED
        BY <1>2, <1>3, <1>4, <1>5, <2>1 DEF Remaining, Secs
<1>7. PausedFits(mgr'.record)
    BY <1>4, <1>5 DEF PausedFits
<1>8. stretched' \in BOOLEAN
    BY <1>3
<1>9. mgr'.record.state = "running" <=> mgr'.left > 0
    BY <1>3, <1>4, <1>5
<1> QED
    BY <1>5, <1>6, <1>7, <1>8, <1>9, CancellingKeeps DEF Restart

(* An extension finds, unless raced, a task that sleeps for what the record *)
(* leaves, and it is not zero: the record is not past its length.           *)
LEMMA ExtendRunningKeeps ==
    ASSUME TimerInv, NEW more \in Lengths, ExtendRunning(more)
    PROVE  TimerInv'
<1> DEFINE left == Remaining(store) + more
           its  == IF handle = NoHandle THEN store.duration ELSE handle.length
           rec  == [store EXCEPT !.duration = @ + more, !.remaining = left]
<1>1. /\ store \in Record /\ more \in Nat /\ more > 0 /\ stretched' \in BOOLEAN
      /\ store.duration \in Secs /\ store.age \in Secs
    BY TimerAssumption DEF TimerInv, TypeOK, Secs, ExtendRunning, Record
<1>2. store.state = "running" /\ store.duration + more <= MaxSecs /\ Owe(rec, left, its)
    BY DEF ExtendRunning
<1>3. left \in Secs /\ left > 0 /\ store.duration + more \in Secs
    BY <1>1, <1>2, RemainingFits, TimerAssumption DEF Secs
<1>4. its \in Secs
    BY <1>1 DEF TimerInv, TypeOK
<1> HIDE DEF left, its
<1>5. /\ rec \in Record /\ rec.state = "running" /\ rec.age = store.age
      /\ rec.duration = store.duration + more
    BY <1>1, <1>2, <1>3 DEF Record, States
<1> HIDE DEF rec
<1>6. mgr' \in Owed /\ mgr'.busy /\ mgr'.record = rec /\ mgr'.left = left
    BY <1>2, <1>3, <1>4, <1>5, OweFits
<1>7. ASSUME ~ raced', ~ stretched'
      PROVE  mgr'.left = Remaining(mgr.record)'
    <2>1. ~ stretched /\ Accept("extend")
        BY <1>7 DEF ExtendRunning
    <2>2. Agreed /\ up /\ ~ mgr.busy
        BY <1>7, <2>1, AcceptFits DEF TimerInv
    <2>3. PICK t \in Tasks : task[t].open
        BY <1>2, <2>2 DEF Agreed
    <2>4. Remaining(store) > 0
        BY <1>7, <2>1, <2>3, OpenAtCommand
    <2>5. store.age < store.duration
        BY <1>1, <2>4 DEF Remaining, Secs
    <2> QED
        BY <1>1, <1>5, <1>6, <2>5 DEF Remaining, Secs, left
<1>8. PausedFits(mgr'.record)
    BY <1>5, <1>6 DEF PausedFits
<1> QED
    BY <1>1, <1>3, <1>5, <1>6, <1>7, <1>8, CancellingKeeps DEF ExtendRunning

LEMMA ExtendPausedKeeps ==
    ASSUME TimerInv, NEW more \in Lengths, ExtendPaused(more)
    PROVE  TimerInv'
<1> DEFINE rec == [store EXCEPT !.duration = @ + more, !.remaining = @ + more]
<1>1. /\ store \in Record /\ more \in Nat /\ 0 \in Secs
      /\ store.duration \in Secs /\ store.remaining \in Secs
    BY TimerAssumption DEF TimerInv, TypeOK, Secs, ExtendPaused, Record
<1>2. store.state = "paused" /\ store.duration + more <= MaxSecs /\ Owe(rec, 0, 0)
    BY DEF ExtendPaused
<1>3. store.remaining <= store.duration
    BY <1>2 DEF TimerInv, PausedFits
<1>4. store.duration + more \in Secs /\ store.remaining + more \in Secs
    BY <1>1, <1>2, <1>3, TimerAssumption DEF Secs
<1>5. /\ rec \in Record /\ rec.state = "paused"
      /\ rec.duration = store.duration + more /\ rec.remaining = store.remaining + more
    BY <1>1, <1>2, <1>4 DEF Record, States
<1> HIDE DEF rec
<1>6. mgr' \in Owed /\ mgr'.busy /\ mgr'.record = rec /\ mgr'.left = 0
    BY <1>1, <1>2, <1>5, OweFits
<1>7. PausedFits(mgr'.record)
    BY <1>1, <1>3, <1>5, <1>6 DEF PausedFits, Secs
<1> QED
    BY <1>2, <1>5, <1>6, <1>7, PausedKeeps DEF ExtendPaused

LEMMA ResumeKeeps ==
    ASSUME TimerInv, Resume
    PROVE  TimerInv'
<1>1. /\ store \in Record /\ 0 \in Secs /\ store.state = "paused"
      /\ store.duration \in Secs /\ store.remaining \in Secs
      /\ store.remaining <= store.duration
    BY TimerAssumption DEF TimerInv, TypeOK, Secs, Resume, Record, PausedFits
<1>2. CASE store.remaining > 0
    <2> DEFINE since == IF store.remaining >= store.duration THEN 0
                        ELSE store.duration - store.remaining
               rec == [store EXCEPT !.state = "running", !.age = since]
    <2>1. Owe(rec, store.remaining, store.duration)
        BY <1>2 DEF Resume
    <2>2. since \in Secs /\ since = store.duration - store.remaining
        BY <1>1, TimerAssumption DEF Secs
    <2> HIDE DEF since
    <2>3. /\ rec \in Record /\ rec.state = "running" /\ rec.age = since
          /\ rec.duration = store.duration
        BY <1>1, <2>2 DEF Record, States
    <2> HIDE DEF rec
    <2>4. mgr' \in Owed /\ mgr'.busy /\ mgr'.record = rec /\ mgr'.left = store.remaining
        BY <1>1, <2>1, <2>3, OweFits
    <2>5. mgr'.left = Remaining(mgr.record)'
        BY <1>1, <1>2, <2>2, <2>3, <2>4 DEF Remaining, Secs
    <2>6. PausedFits(mgr'.record)
        BY <2>3, <2>4 DEF PausedFits
    <2> QED
        BY <1>1, <1>2, <2>3, <2>4, <2>5, <2>6, PausedKeeps DEF Resume
<1>3. CASE ~ (store.remaining > 0)
    <2> DEFINE rec == [store EXCEPT !.state = "finished"]
    <2>1. Owe(rec, 0, 0)
        BY <1>3 DEF Resume
    <2>2. rec \in Record /\ rec.state = "finished"
        BY <1>1 DEF Record, States
    <2> HIDE DEF rec
    <2>3. mgr' \in Owed /\ mgr'.busy /\ mgr'.record = rec /\ mgr'.left = 0
        BY <1>1, <2>1, <2>2, OweFits
    <2>4. PausedFits(mgr'.record)
        BY <2>2, <2>3 DEF PausedFits
    <2> QED
        BY <1>1, <2>2, <2>3, <2>4, PausedKeeps DEF Resume
<1> QED
    BY <1>2, <1>3

(* The rest of a command.                                                   *)
LEMMA FinishKeeps ==
    ASSUME TimerInv, Finish
    PROVE  TimerInv'
<1>1. /\ mgr \in Owed /\ mgr.busy /\ up /\ up'
      /\ store' = mgr.record /\ mgr' = AtRest /\ mgr' \in Owed /\ ~ mgr'.busy
      /\ UNCHANGED <<raced, stretched, cmds, crashes>>
    BY ConstantsFit DEF Finish, TimerInv, TypeOK, Owed, AtRest
<1>2. PausedFits(store)' /\ PausedFits(mgr.record)'
    BY <1>1, ConstantsFit DEF TimerInv, PausedFits, AtRest
<1>3. CASE mgr.left > 0
    <2>1. /\ mgr.left \in Secs /\ mgr.length \in Secs /\ mgr.record.repeat \in BOOLEAN
          /\ mgr.record \in Record
        BY <1>1 DEF Owed, Record
    <2>2. /\ Hangup \in [Tasks -> Task]
          /\ \A t \in Tasks : /\ ~ Hangup[t].open
                              /\ Hangup[t].pc = task[t].pc
                              /\ Hangup[t].left = task[t].left
        BY HangupClears DEF TimerInv
    <2>3. Spawn(Hangup, mgr.left, mgr.length, mgr.record.repeat)
        BY <1>3 DEF Finish
    <2>4. PICK t \in Tasks :
              /\ ~ Live(t)
              /\ task' \in [Tasks -> Task]
              /\ handle' \in [task : Tasks \cup {NoTask}, length : Secs]
              /\ handle'.task = t
              /\ task'[t].open /\ task'[t].pc = "sleeping" /\ task'[t].left = mgr.left
              /\ \A u \in Tasks \ {t} : task'[u] = Hangup[u] /\ ~ task'[u].open
        <3>1. PICK ts \in [Tasks -> Task], left \in Secs, length \in Secs,
                   repeat \in BOOLEAN :
                 /\ ts = Hangup /\ left = mgr.left
                 /\ length = mgr.length /\ repeat = mgr.record.repeat
            BY <2>1, <2>2
        <3>2. Spawn(ts, left, length, repeat)
            BY <2>3, <3>1 DEF Spawn
        <3>3. TypeOK /\ \A t \in Tasks : ~ ts[t].open
            BY <2>2, <3>1 DEF TimerInv
        <3> QED
            BY <3>1, <3>2, <3>3, SpawnArms
    <2>5. TypeOK'
        BY <1>1, <2>1, <2>4 DEF TimerInv, TypeOK, Owed
    <2>6. OneOpen'
        BY <2>4 DEF OneOpen, Live
    <2>7. ASSUME ~ raced
          PROVE  ClosedSleeps' /\ OwesRight' /\ Agreed'
        <3>1. ClosedSleeps /\ OwesRight
            BY <2>7 DEF TimerInv
        <3>2. ClosedSleeps'
            BY <1>1, <2>2, <2>4, <3>1 DEF ClosedSleeps, OwesRight, Live
        <3>3. mgr.record.state = "running" /\ (~ stretched => mgr.left = Remaining(mgr.record))
            BY <1>1, <1>3, <3>1 DEF OwesRight
        <3>4. ~ stretched' => mgr.left = Remaining(store)'
            BY <1>1, <3>3 DEF Remaining
        <3>5. Agreed'
            BY <1>1, <2>4, <3>3, <3>4 DEF Agreed
        <3> QED
            BY <1>1, <3>2, <3>5 DEF OwesRight
    <2> QED
        BY <1>1, <1>2, <2>5, <2>6, <2>7 DEF TimerInv, DownIsClear
<1>4. CASE ~ (mgr.left > 0)
    <2>1. UNCHANGED <<task, handle>>
        BY <1>4 DEF Finish
    <2>2. TypeOK' /\ OneOpen'
        BY <1>1, <2>1 DEF TimerInv, TypeOK, Owed, OneOpen, Live
    <2>3. ASSUME ~ raced
          PROVE  ClosedSleeps' /\ OwesRight' /\ Agreed'
        <3>1. ClosedSleeps /\ OwesRight
            BY <2>3 DEF TimerInv
        <3>2. ClosedSleeps'
            BY <2>1, <3>1 DEF ClosedSleeps, Live
        <3>3. Agreed'
            BY <1>1, <1>4, <2>1, <3>1 DEF Agreed, OwesRight
        <3> QED
            BY <1>1, <3>2, <3>3 DEF OwesRight
    <2> QED
        BY <1>1, <1>2, <2>2, <2>3 DEF TimerInv, DownIsClear
<1> QED
    BY <1>3, <1>4

-----------------------------------------------------------------------------
(* The timer task.                                                          *)

(* A task that is in the middle of something, or due, has, unless raced,    *)
(* its sender, no command in hand, and is the only one with a sender.       *)
LEMMA MovingIsOpen ==
    ASSUME TimerInv, ~ raced, NEW t \in Tasks, Finishing(t) \/ Due(t)
    PROVE  /\ task[t].open /\ ~ mgr.busy
           /\ \A u \in Tasks : task[u].open => u = t
<1>1. ClosedSleeps /\ OwesRight /\ OneOpen
    BY DEF TimerInv
<1>2. task[t].open
    BY <1>1 DEF ClosedSleeps, Live, Finishing, Due
<1> QED
    BY <1>1, <1>2 DEF OwesRight, OneOpen

(* A task that does anything runs in a process that is up.                  *)
LEMMA LiveIsUp ==
    ASSUME TimerInv, NEW t \in Tasks, Live(t)
    PROVE  up
BY DEF TimerInv, DownIsClear, Live, Dead

LEMMA WakeKeeps ==
    ASSUME TimerInv, NEW t \in Tasks, Wake(t)
    PROVE  TimerInv'
<1> DEFINE new == [task[t] EXCEPT !.pc = "firing", !.copy = store]
<1>1. /\ Due(t) /\ UNCHANGED <<store, up, mgr, handle, raced, stretched, cmds, crashes>>
      /\ task' = [task EXCEPT ![t].pc = "firing", ![t].copy = store]
    BY DEF Wake
<1>2. task \in [Tasks -> Task] /\ store \in Record
    BY DEF TimerInv, TypeOK
<1>3. task' = [task EXCEPT ![t] = new]
    BY <1>1, <1>2
<1>4. new \in Task /\ new.pc = "firing" /\ new.open = task[t].open
    BY <1>2 DEF Task
<1> HIDE DEF new
<1>5. \A u \in Tasks : task'[u] = IF u = t THEN new ELSE task[u]
    BY <1>2, <1>3
<1>6. TypeOK'
    BY <1>1, <1>2, <1>3, <1>4 DEF TimerInv, TypeOK
<1>7. up
    BY <1>1, LiveIsUp DEF Due, Live
<1>8. OneOpen'
    BY <1>1, <1>4, <1>5 DEF TimerInv, OneOpen, Live, Due
<1>9. ASSUME ~ raced
      PROVE  ClosedSleeps' /\ OwesRight' /\ Agreed'
    <2>1. task[t].open /\ ~ mgr.busy /\ \A u \in Tasks : task[u].open => u = t
        BY <1>1, <1>9, MovingIsOpen
    <2>2. ClosedSleeps /\ Agreed
        BY <1>9 DEF TimerInv
    <2>3. ClosedSleeps'
        BY <1>4, <1>5, <2>1, <2>2 DEF ClosedSleeps, Live
    <2>4. store.state = "running"
        BY <1>1, <1>7, <2>1, <2>2 DEF Agreed, Due
    <2>5. Agreed'
        BY <1>1, <1>4, <1>5, <2>1, <2>4 DEF Agreed
    <2> QED
        BY <1>1, <2>1, <2>3, <2>5 DEF OwesRight
<1>10. PausedFits(store)' /\ PausedFits(mgr.record)'
    BY <1>1 DEF TimerInv, PausedFits
<1> QED
    BY <1>1, <1>6, <1>7, <1>8, <1>9, <1>10 DEF TimerInv, DownIsClear

LEMMA HungUpKeeps ==
    ASSUME TimerInv, NEW t \in Tasks, HungUp(t)
    PROVE  TimerInv'
<1>1. /\ task[t].pc = "sleeping" /\ ~ task[t].open
      /\ UNCHANGED <<store, up, mgr, handle, raced, stretched, cmds, crashes>>
      /\ task' = [task EXCEPT ![t] = Dead]
    BY DEF HungUp
<1>2. task \in [Tasks -> Task]
    BY DEF TimerInv, TypeOK
<1>3. Dead \in Task /\ Dead.pc = "none" /\ ~ Dead.open
    BY ConstantsFit DEF Dead
<1>4. \A u \in Tasks : task'[u] = IF u = t THEN Dead ELSE task[u]
    BY <1>1, <1>2
<1>5. TypeOK'
    BY <1>1, <1>2, <1>3 DEF TimerInv, TypeOK
<1>6. up
    BY <1>1, LiveIsUp DEF Live
<1>7. OneOpen'
    BY <1>1, <1>3, <1>4 DEF TimerInv, OneOpen, Live
<1>8. ASSUME ~ raced
      PROVE  ClosedSleeps' /\ OwesRight' /\ Agreed'
    <2>1. ClosedSleeps /\ Agreed /\ OwesRight
        BY <1>8 DEF TimerInv
    <2>2. ClosedSleeps'
        BY <1>3, <1>4, <2>1 DEF ClosedSleeps, Live
    <2>3. OwesRight'
        <3>1. Remaining(mgr.record)' = Remaining(mgr.record)
            BY <1>1 DEF Remaining
        <3> QED
            BY <1>1, <1>3, <1>4, <2>1, <3>1 DEF OwesRight
    <2>4. Agreed'
        <3>1. Remaining(store)' = Remaining(store)
            BY <1>1 DEF Remaining
        <3> QED
            BY <1>1, <1>3, <1>4, <2>1, <3>1 DEF Agreed
    <2> QED
        BY <2>2, <2>3, <2>4
<1>9. PausedFits(store)' /\ PausedFits(mgr.record)'
    BY <1>1 DEF TimerInv, PausedFits
<1> QED
    BY <1>1, <1>5, <1>6, <1>7, <1>8, <1>9 DEF TimerInv, DownIsClear

LEMMA FireTimerKeeps ==
    ASSUME TimerInv, NEW t \in Tasks, FireTimer(t)
    PROVE  TimerInv'
<1> DEFINE over == [task[t].copy EXCEPT !.state = "finished", !.remaining = 0]
           next == IF task[t].repeat THEN "resetting" ELSE "removing"
           kept == IF task[t].repeat THEN over ELSE Blank
           new  == [task[t] EXCEPT !.pc = next, !.copy = kept]
<1>1. /\ task[t].pc = "firing"
      /\ UNCHANGED <<up, mgr, handle, raced, stretched, cmds, crashes>>
      /\ store' = over
      /\ task' = [task EXCEPT ![t].pc = next, ![t].copy = kept]
    BY DEF FireTimer
<1>2. task \in [Tasks -> Task] /\ task[t] \in Task /\ task[t].copy \in Record /\ 0 \in Secs
    BY TimerAssumption DEF TimerInv, TypeOK, Task, Secs
<1>3. over \in Record /\ over.state = "finished"
    BY <1>2 DEF Record, States
<1> HIDE DEF over
<1>4. kept \in Record /\ next \in {"resetting", "removing"}
    BY <1>3, ConstantsFit
<1> HIDE DEF next, kept
<1>5. task' = [task EXCEPT ![t] = new]
    BY <1>1, <1>2
<1>6. new \in Task /\ new.pc = next /\ new.open = task[t].open
    BY <1>2, <1>4 DEF Task
<1> HIDE DEF new
<1>7. \A u \in Tasks : task'[u] = IF u = t THEN new ELSE task[u]
    BY <1>2, <1>5
<1>8. TypeOK'
    BY <1>1, <1>2, <1>3, <1>5, <1>6 DEF TimerInv, TypeOK
<1>9. up
    BY <1>1, LiveIsUp DEF Live
<1>10. OneOpen'
    BY <1>1, <1>4, <1>6, <1>7 DEF TimerInv, OneOpen, Live
<1>11. ASSUME ~ raced
       PROVE  ClosedSleeps' /\ OwesRight' /\ Agreed'
    <2>1. task[t].open /\ ~ mgr.busy /\ \A u \in Tasks : task[u].open => u = t
        BY <1>1, <1>11, MovingIsOpen DEF Finishing
    <2>2. ClosedSleeps
        BY <1>11 DEF TimerInv
    <2>3. ClosedSleeps'
        <3>1. task'[t].open /\ \A u \in Tasks \ {t} : task'[u] = task[u]
            BY <1>6, <1>7, <2>1
        <3> QED
            BY <2>2, <3>1 DEF ClosedSleeps, Live
    <2>4. Agreed'
        BY <1>1, <1>3, <1>4, <1>6, <1>7, <2>1 DEF Agreed
    <2> QED
        BY <1>1, <2>1, <2>3, <2>4 DEF OwesRight
<1>12. PausedFits(store)' /\ PausedFits(mgr.record)'
    BY <1>1, <1>3 DEF TimerInv, PausedFits
<1> QED
    BY <1>1, <1>8, <1>9, <1>10, <1>11, <1>12 DEF TimerInv, DownIsClear

(* A repeating timer starts again with its record set to its own length.    *)
LEMMA ResetForRepeatKeeps ==
    ASSUME TimerInv, NEW t \in Tasks, ResetForRepeat(t)
    PROVE  TimerInv'
<1> DEFINE len  == task[t].length
           back == [task[t].copy EXCEPT !.state = "running", !.age = 0,
                                        !.remaining = len, !.duration = len]
           new  == [task[t] EXCEPT !.pc = "sleeping", !.left = len, !.copy = Blank]
<1>1. /\ task[t].pc = "resetting"
      /\ UNCHANGED <<up, mgr, handle, raced, stretched, cmds, crashes>>
      /\ store' = back
      /\ task' = [task EXCEPT ![t].pc = "sleeping", ![t].left = len, ![t].copy = Blank]
    BY DEF ResetForRepeat
<1>2. /\ task \in [Tasks -> Task] /\ task[t] \in Task /\ task[t].copy \in Record
      /\ 0 \in Secs /\ len \in Secs
    BY TimerAssumption DEF TimerInv, TypeOK, Task, Secs
<1>3. task' = [task EXCEPT ![t] = new]
    BY <1>1, <1>2
<1> HIDE DEF len
<1>4. back \in Record /\ back.state = "running" /\ back.age = 0 /\ back.duration = len
    BY <1>2 DEF Record, States
<1>5. new \in Task /\ new.pc = "sleeping" /\ new.open = task[t].open /\ new.left = len
    BY <1>2, ConstantsFit DEF Task
<1> HIDE DEF back, new
<1>6. \A u \in Tasks : task'[u] = IF u = t THEN new ELSE task[u]
    BY <1>2, <1>3
<1>7. TypeOK'
    BY <1>1, <1>2, <1>3, <1>4, <1>5 DEF TimerInv, TypeOK
<1>8. up
    BY <1>1, LiveIsUp DEF Live
<1>9. OneOpen'
    BY <1>1, <1>5, <1>6 DEF TimerInv, OneOpen, Live
<1>10. ASSUME ~ raced
       PROVE  ClosedSleeps' /\ OwesRight' /\ Agreed'
    <2>1. task[t].open /\ ~ mgr.busy /\ \A u \in Tasks : task[u].open => u = t
        BY <1>1, <1>10, MovingIsOpen DEF Finishing
    <2>2. ClosedSleeps
        BY <1>10 DEF TimerInv
    <2>3. ClosedSleeps'
        BY <1>5, <1>6, <2>1, <2>2 DEF ClosedSleeps, Live
    <2>4. Remaining(store)' = len
        BY <1>1, <1>2, <1>4 DEF Remaining, Secs
    <2>5. Agreed'
        BY <1>1, <1>4, <1>5, <1>6, <2>1, <2>4 DEF Agreed
    <2> QED
        BY <1>1, <2>1, <2>3, <2>5 DEF OwesRight
<1>11. PausedFits(store)' /\ PausedFits(mgr.record)'
    BY <1>1, <1>4 DEF TimerInv, PausedFits
<1> QED
    BY <1>1, <1>7, <1>8, <1>9, <1>10, <1>11 DEF TimerInv, DownIsClear

LEMMA RemoveHandleKeeps ==
    ASSUME TimerInv, NEW t \in Tasks, RemoveHandle(t)
    PROVE  TimerInv'
<1>1. /\ task[t].pc = "removing" /\ handle' = NoHandle
      /\ UNCHANGED <<store, up, mgr, raced, stretched, cmds, crashes>>
      /\ task' = [Hangup EXCEPT ![t] = Dead]
    BY DEF RemoveHandle
<1>2. /\ Hangup \in [Tasks -> Task]
      /\ \A u \in Tasks : /\ ~ Hangup[u].open
                          /\ Hangup[u].pc = task[u].pc
                          /\ Hangup[u].left = task[u].left
    BY HangupClears DEF TimerInv
<1>3. Dead \in Task /\ Dead.pc = "none" /\ ~ Dead.open
    BY ConstantsFit DEF Dead
<1>4. \A u \in Tasks : task'[u] = IF u = t THEN Dead ELSE Hangup[u]
    BY <1>1, <1>2
<1>5. \A u \in Tasks : ~ task'[u].open
    BY <1>2, <1>3, <1>4
<1>6. TypeOK'
    BY <1>1, <1>2, <1>3, ConstantsFit DEF TimerInv, TypeOK
<1>7. up
    BY <1>1, LiveIsUp DEF Live
<1>8. OneOpen'
    BY <1>5 DEF OneOpen
<1>9. ASSUME ~ raced
      PROVE  ClosedSleeps' /\ OwesRight' /\ Agreed'
    <2>1. task[t].open /\ ~ mgr.busy /\ \A u \in Tasks : task[u].open => u = t
        BY <1>1, <1>9, MovingIsOpen DEF Finishing
    <2>2. ClosedSleeps /\ Agreed
        BY <1>9 DEF TimerInv
    <2>3. ClosedSleeps'
        BY <1>2, <1>3, <1>4, <2>1, <2>2 DEF ClosedSleeps, Live
    <2>4. store.state = "finished"
        BY <1>1, <1>7, <2>1, <2>2 DEF Agreed
    <2>5. Agreed'
        BY <1>1, <1>5, <2>4 DEF Agreed
    <2> QED
        BY <1>1, <2>1, <2>3, <2>5 DEF OwesRight
<1>10. PausedFits(store)' /\ PausedFits(mgr.record)'
    BY <1>1 DEF TimerInv, PausedFits
<1> QED
    BY <1>1, <1>6, <1>7, <1>8, <1>9, <1>10 DEF TimerInv, DownIsClear

-----------------------------------------------------------------------------
(* The process and the clock.                                               *)

LEMMA CrashKeeps ==
    ASSUME TimerInv, Crash
    PROVE  TimerInv'
<1>1. /\ up' = FALSE /\ mgr' = AtRest /\ handle' = NoHandle
      /\ task' = [t \in Tasks |-> Dead]
      /\ UNCHANGED <<store, raced, stretched, cmds>>
    BY DEF Crash
<1>2. crashes' \in 0..MaxCrashes
    BY TimerAssumption DEF Crash, TimerInv, TypeOK
<1>3. TypeOK'
    BY <1>1, <1>2, ConstantsFit DEF TimerInv, TypeOK
<1>4. \A t \in Tasks : task'[t] = Dead /\ ~ task'[t].open /\ task'[t].pc = "none"
    BY <1>1 DEF Dead
<1>5. PausedFits(store)' /\ PausedFits(mgr.record)' /\ ~ mgr'.busy
    BY <1>1, ConstantsFit DEF TimerInv, PausedFits, AtRest
<1>6. OneOpen' /\ DownIsClear'
    BY <1>1, <1>4, <1>5 DEF OneOpen, DownIsClear
<1>7. ClosedSleeps' /\ OwesRight' /\ Agreed'
    BY <1>1, <1>4, <1>5 DEF ClosedSleeps, OwesRight, Agreed, Live
<1> QED
    BY <1>3, <1>5, <1>6, <1>7 DEF TimerInv

(* reconstruct_timers leaves no running record without a task.              *)
LEMMA ReconstructKeeps ==
    ASSUME TimerInv, Reconstruct
    PROVE  TimerInv'
<1>1. /\ ~ up /\ up' /\ up' = TRUE /\ UNCHANGED <<mgr, raced, stretched, cmds, crashes>>
    BY DEF Reconstruct
<1>2. /\ ~ mgr.busy
      /\ \A t \in Tasks : task[t] = Dead /\ ~ task[t].open /\ task[t].pc = "none"
    <2>1. ~ Dead.open /\ Dead.pc = "none"
        BY DEF Dead
    <2> QED
        BY <1>1, <2>1 DEF TimerInv, DownIsClear
<1>3. store \in Record /\ task \in [Tasks -> Task] /\ store.repeat \in BOOLEAN
      /\ store.duration \in Secs /\ Remaining(store) \in Secs
    BY RemainingFits DEF TimerInv, TypeOK, Record
<1>4. CASE store.state = "running" /\ Remaining(store) > 0
    <2>1. Spawn(task, Remaining(store), store.duration, store.repeat) /\ UNCHANGED store
        BY <1>4 DEF Reconstruct
    <2>2. PICK t \in Tasks :
              /\ task' \in [Tasks -> Task]
              /\ handle' \in [task : Tasks \cup {NoTask}, length : Secs]
              /\ handle'.task = t
              /\ task'[t].open /\ task'[t].pc = "sleeping"
              /\ task'[t].left = Remaining(store)
              /\ \A u \in Tasks \ {t} : task'[u] = task[u] /\ ~ task'[u].open
        <3>1. PICK ts \in [Tasks -> Task], left \in Secs, length \in Secs,
                   repeat \in BOOLEAN :
                 /\ ts = task /\ left = Remaining(store)
                 /\ length = store.duration /\ repeat = store.repeat
            BY <1>3
        <3>2. Spawn(ts, left, length, repeat)
            BY <2>1, <3>1 DEF Spawn
        <3>3. TypeOK /\ \A t \in Tasks : ~ ts[t].open
            BY <1>2, <3>1 DEF TimerInv
        <3> QED
            BY <3>1, <3>2, <3>3, SpawnArms
    <2>3. TypeOK'
        BY <1>1, <2>1, <2>2 DEF TimerInv, TypeOK
    <2>4. OneOpen'
        BY <2>2 DEF OneOpen, Live
    <2>5. ClosedSleeps'
        BY <1>2, <2>2 DEF ClosedSleeps, Live
    <2>6. Agreed'
        <3>1. Remaining(store)' = Remaining(store)
            BY <2>1 DEF Remaining
        <3> QED
            BY <1>4, <2>1, <2>2, <3>1 DEF Agreed
    <2>7. PausedFits(store)' /\ PausedFits(mgr.record)'
        BY <1>1, <2>1 DEF TimerInv, PausedFits
    <2> QED
        BY <1>1, <1>2, <2>3, <2>4, <2>5, <2>6, <2>7 DEF TimerInv, DownIsClear, OwesRight
<1>5. CASE ~ (store.state = "running" /\ Remaining(store) > 0)
    <2>1. UNCHANGED <<task, handle>>
        BY <1>5 DEF Reconstruct
    <2>2. store' = IF store.state = "running"
                     THEN [store EXCEPT !.state = "finished"] ELSE store
        BY <1>5 DEF Reconstruct
    <2>3. store' \in Record /\ store'.state # "running" /\ PausedFits(store)'
        BY <1>3, <2>2 DEF Record, States, PausedFits, TimerInv
    <2>4. TypeOK' /\ PausedFits(mgr.record)'
        BY <1>1, <2>1, <2>3 DEF TimerInv, TypeOK, PausedFits
    <2>5. OneOpen' /\ ClosedSleeps' /\ Agreed'
        BY <1>2, <2>1, <2>3 DEF OneOpen, ClosedSleeps, Agreed, Live
    <2> QED
        BY <1>1, <1>2, <2>3, <2>4, <2>5 DEF TimerInv, DownIsClear, OwesRight
<1> QED
    BY <1>4, <1>5

(* The record grows older by the second that the task has less to sleep.    *)
LEMMA TickKeeps ==
    ASSUME TimerInv, Tick
    PROVE  TimerInv'
<1>1. /\ ~ mgr.busy /\ UNCHANGED <<up, mgr, handle, raced, stretched, cmds, crashes>>
      /\ \A t \in Tasks : Live(t) => Asleep(t) /\ ~ Due(t)
      /\ store' = [store EXCEPT !.age = IF @ < MaxSecs THEN @ + 1 ELSE @]
      /\ task' = [t \in Tasks |-> [task[t] EXCEPT !.left = IF @ > 0 THEN @ - 1 ELSE 0]]
    BY DEF Tick
<1>2. store \in Record /\ task \in [Tasks -> Task] /\ store.age \in Secs /\ store.duration \in Secs
    BY DEF TimerInv, TypeOK, Record
<1>3. /\ store' \in Record /\ store'.state = store.state
      /\ store'.duration = store.duration /\ store'.remaining = store.remaining
      /\ store'.age = IF store.age < MaxSecs THEN store.age + 1 ELSE store.age
    <2>1. (IF store.age < MaxSecs THEN store.age + 1 ELSE store.age) \in Secs
        BY <1>2, TimerAssumption DEF Secs
    <2> QED
        BY <1>1, <1>2, <2>1 DEF Record
<1>4. ASSUME NEW t \in Tasks
      PROVE  /\ task'[t] \in Task
             /\ task'[t].pc = task[t].pc /\ task'[t].open = task[t].open
             /\ task'[t].left = IF task[t].left > 0 THEN task[t].left - 1 ELSE 0
             /\ task[t] = Dead => task'[t] = Dead
    <2> DEFINE less == IF task[t].left > 0 THEN task[t].left - 1 ELSE 0
    <2>1. task'[t] = [task[t] EXCEPT !.left = less] /\ task[t] \in Task
        BY <1>1, <1>2
    <2>2. less \in Secs
        <3>1. task[t].left \in Secs
            BY <2>1 DEF Task
        <3> QED
            BY <3>1, TimerAssumption DEF Secs
    <2>3. task[t] = Dead => less = 0
        BY DEF Dead
    <2> HIDE DEF less
    <2>4. task'[t] \in Task
        BY <2>1, <2>2 DEF Task
    <2>5. /\ task'[t].pc = task[t].pc /\ task'[t].open = task[t].open
          /\ task'[t].left = less
        BY <2>1 DEF Task
    <2>6. task[t] = Dead => task'[t] = Dead
        <3> SUFFICES ASSUME task[t] = Dead
                     PROVE  task'[t] = Dead
            OBVIOUS
        <3>1. task'[t] = [Dead EXCEPT !.left = 0]
            BY <2>1, <2>3
        <3> QED
            BY <3>1 DEF Dead
    <2> QED
        BY <2>4, <2>5, <2>6 DEF less
<1>5. task' \in [Tasks -> Task]
    <2>1. task' = [t \in Tasks |-> task'[t]]
        BY <1>1
    <2> QED
        BY <1>4, <2>1
<1>6. TypeOK'
    BY <1>1, <1>3, <1>5 DEF TimerInv, TypeOK
<1>7. OneOpen' /\ DownIsClear'
    BY <1>1, <1>4 DEF TimerInv, OneOpen, DownIsClear, Live
<1>8. PausedFits(store)' /\ PausedFits(mgr.record)'
    BY <1>1, <1>3 DEF TimerInv, PausedFits
<1>9. ASSUME ~ raced
      PROVE  ClosedSleeps' /\ OwesRight' /\ Agreed'
    <2>1. ClosedSleeps'
        BY <1>1, <1>4 DEF ClosedSleeps, Live, Asleep
    <2>2. OwesRight'
        BY <1>1 DEF OwesRight
    <2>3. Agreed /\ OneOpen
        BY <1>9 DEF TimerInv
    <2>4. ASSUME up, ~ stretched, NEW t \in Tasks, task[t].open, task[t].pc = "sleeping"
          PROVE  task'[t].left = Remaining(store)'
        <3>1. task[t].left = Remaining(store)
            BY <1>1, <2>3, <2>4 DEF Agreed
        <3>2. task[t].left \in Nat /\ task[t].left > 0
            BY <1>1, <1>2, <2>4 DEF Live, Due, Task, Secs
        <3>3. store.age < store.duration
            BY <1>2, <3>1, <3>2 DEF Remaining, Secs
        <3>4. Remaining(store) = store.duration - store.age
            BY <1>2, <3>3 DEF Remaining, Secs
        <3>5. store'.age = store.age + 1 /\ store'.duration = store.duration
            BY <1>2, <1>3, <3>3, TimerAssumption DEF Secs
        <3>6. task'[t].left = task[t].left - 1
            BY <1>4, <3>2
        <3>7. Remaining(store)' = IF store'.age >= store'.duration THEN 0
                                  ELSE store'.duration - store'.age
            BY DEF Remaining
        <3> QED
            BY <1>2, <3>1, <3>3, <3>4, <3>5, <3>6, <3>7 DEF Secs
    <2>5. Agreed'
        <3> SUFFICES ASSUME up
                     PROVE  Agreed'
            BY <1>1 DEF Agreed
        <3>1. store'.state = "running" =>
                \E t \in Tasks : task'[t].open /\ task'[t].pc \in {"sleeping", "firing"}
            <4> SUFFICES ASSUME store.state = "running"
                         PROVE  \E t \in Tasks : /\ task'[t].open
                                                  /\ task'[t].pc \in {"sleeping", "firing"}
                BY <1>3
            <4>1. PICK t \in Tasks : task[t].open /\ task[t].pc \in {"sleeping", "firing"}
                BY <1>1, <2>3 DEF Agreed
            <4> QED
                BY <1>4, <4>1
        <3>2. ASSUME NEW t \in Tasks, task'[t].open
              PROVE  /\ task'[t].pc \in {"sleeping", "firing"} => store'.state = "running"
                     /\ task'[t].pc \in {"resetting", "removing"} => store'.state = "finished"
                     /\ task'[t].pc = "sleeping" /\ ~ stretched'
                            => task'[t].left = Remaining(store)'
            <4>1. task[t].open /\ task'[t].pc = task[t].pc /\ stretched' = stretched
                BY <1>1, <1>4, <3>2
            <4>2. /\ task[t].pc \in {"sleeping", "firing"} => store.state = "running"
                  /\ task[t].pc \in {"resetting", "removing"} => store.state = "finished"
                BY <1>1, <2>3, <4>1 DEF Agreed
            <4> QED
                BY <1>3, <2>4, <4>1, <4>2
        <3> QED
            BY <3>1, <3>2 DEF Agreed
    <2> QED
        BY <2>1, <2>2, <2>5
<1> QED
    BY <1>1, <1>6, <1>7, <1>8, <1>9 DEF TimerInv

-----------------------------------------------------------------------------
LEMMA TimerInit == Init => TimerInv
<1> SUFFICES ASSUME Init PROVE TimerInv
    OBVIOUS
<1>1. TypeOK
    <2>1. cmds \in 0..MaxCmds /\ crashes \in 0..MaxCrashes
        BY TimerAssumption DEF Init
    <2> QED
        BY <2>1, ConstantsFit DEF Init, TypeOK
<1>2. \A t \in Tasks : task[t] = Dead /\ ~ task[t].open /\ task[t].pc = "none"
    BY DEF Init, Dead
<1>3. up /\ ~ mgr.busy /\ store.state = "idle" /\ mgr.record = Blank /\ store = Blank
    BY DEF Init, AtRest, Blank
<1> QED
    BY <1>1, <1>2, <1>3, ConstantsFit
    DEF TimerInv, OneOpen, DownIsClear, ClosedSleeps, OwesRight, Agreed, Live

LEMMA TimerStep == TimerInv /\ [Next]_vars => TimerInv'
<1> SUFFICES ASSUME TimerInv, [Next]_vars
             PROVE  TimerInv'
    OBVIOUS
<1>1. CASE Command
    BY <1>1, StartKeeps, ExtendRunningKeeps, ExtendPausedKeeps, PauseKeeps,
       ResumeKeeps, CancelKeeps, RestartKeeps DEF Command
<1>2. CASE Finish
    BY <1>2, FinishKeeps
<1>3. ASSUME NEW t \in Tasks, TaskStep(t)
      PROVE  TimerInv'
    BY <1>3, WakeKeeps, HungUpKeeps, FireTimerKeeps, ResetForRepeatKeeps,
       RemoveHandleKeeps DEF TaskStep
<1>4. CASE Crash
    BY <1>4, CrashKeeps
<1>5. CASE Reconstruct
    BY <1>5, ReconstructKeeps
<1>6. CASE Tick
    BY <1>6, TickKeeps
<1>7. CASE UNCHANGED vars
    <2>1. Remaining(store)' = Remaining(store) /\ Remaining(mgr.record)' = Remaining(mgr.record)
        BY <1>7 DEF vars, Remaining
    <2>2. TypeOK' /\ PausedFits(store)' /\ PausedFits(mgr.record)' /\ OneOpen' /\ DownIsClear'
        BY <1>7 DEF vars, TimerInv, TypeOK, PausedFits, OneOpen, DownIsClear, Live
    <2>3. ~ raced' => ClosedSleeps' /\ OwesRight' /\ Agreed'
        BY <1>7, <2>1 DEF vars, TimerInv, ClosedSleeps, OwesRight, Agreed, Live
    <2> QED
        BY <2>2, <2>3 DEF TimerInv
<1> QED
    BY <1>1, <1>2, <1>3, <1>4, <1>5, <1>6, <1>7 DEF Next

LEMMA TimerInvariant == Spec => []TimerInv
BY TimerInit, TimerStep, PTL DEF Spec

(* Every variable keeps its type: no saturating subtraction, extension of a *)
(* running or of a paused timer, or write-back of an old copy takes a       *)
(* length, an age or a remainder out of range.                              *)
THEOREM TimerTypes == Spec => []TypeOK
<1>1. TimerInv => TypeOK
    BY DEF TimerInv
<1> QED
    BY TimerInvariant, <1>1, PTL

(* Of the tasks that handle_command, spawn_timer_task and                   *)
(* reconstruct_timers leave behind, at most the one in `handles` can still  *)
(* sleep to its end: any number of starts, resumes and extensions arm one.  *)
THEOREM OneTaskArmed == Spec => []OneArmed
<1>1. TimerInv => OneArmed
    BY DEF TimerInv, OneOpen, OneArmed, Asleep
<1> QED
    BY TimerInvariant, <1>1, PTL

(* A record that says "running" has a task that will finish it, whatever    *)
(* commands, crashes and reconstructions came before, unless a command met  *)
(* a task while it was finishing.                                           *)
THEOREM RunningIsKept == Spec => []RunningHasTask
<1>1. TimerInv => RunningHasTask
    <2> SUFFICES ASSUME TimerInv, Settled, ~ raced, store.state = "running"
                 PROVE  \E t \in Tasks : Asleep(t)
        BY DEF RunningHasTask
    <2>1. Agreed /\ up /\ ~ mgr.busy /\ \A t \in Tasks : ~ Finishing(t)
        BY DEF TimerInv, Settled
    <2>2. PICK t \in Tasks : task[t].open /\ task[t].pc \in {"sleeping", "firing"}
        BY <2>1 DEF Agreed
    <2>3. Asleep(t)
        BY <2>1, <2>2 DEF Finishing, Asleep
    <2> QED
        BY <2>3
<1> QED
    BY TimerInvariant, <1>1, PTL

(* What remains by the record, by which a pause, an extension and a         *)
(* reconstruction go, is what the task has still to sleep, unless raced, or *)
(* after a restart of an extended timer.                                    *)
THEOREM RemainderIsRight == Spec => []RemainingAgrees
<1>1. TimerInv => RemainingAgrees
    BY DEF TimerInv, RemainingAgrees, Settled, Agreed, Asleep
<1> QED
    BY TimerInvariant, <1>1, PTL
=============================================================================
