---------------------------- MODULE TimerManager ----------------------------
(***************************************************************************)
(* One timer device of crates/hc-core/src/timer_manager.rs: the manager's   *)
(* loop that carries out commands one at a time, the task that sleeps until *)
(* the timer is due, and the device record that both of them read, change   *)
(* and write back.                                                          *)
(*                                                                         *)
(* Time is kept relative: a record holds the seconds since its started_at,  *)
(* capped at MaxSecs (nothing reads further back than the longest length),  *)
(* and a task the seconds it has still to sleep.  The few store calls of a  *)
(* handler take no whole second, and a task that can move is polled within  *)
(* one: Tick waits for them.                                                *)
(***************************************************************************)
EXTENDS Naturals, FiniteSets

CONSTANTS
    Lengths,    \* the duration_secs that commands carry
    Commands,   \* the commands that are sent
    Tasks,      \* the task identities; a task that is over frees its own
    NoTask,     \* no task
    MaxSecs,    \* bound: the longest duration_secs
    MaxCmds,    \* bound: the number of commands
    MaxCrashes  \* bound: the number of process restarts

AllCommands == {"start", "pause", "resume", "cancel", "restart", "extend"}

ASSUME TimerAssumption ==
    /\ NoTask \notin Tasks
    /\ MaxSecs \in Nat
    /\ Lengths \subseteq 1..MaxSecs
    /\ Commands \subseteq AllCommands
    /\ MaxCmds \in Nat
    /\ MaxCrashes \in Nat

VARIABLES
    store,   \* the device's attributes
    up,      \* whether the process runs
    mgr,     \* the write and the spawn that the command in hand still owes
    handle,  \* handles[device_id]: the task, and the length it was given
    task,    \* the timer tasks
    raced,   \* history variable: a command came while a task was finishing
    stretched, \* history variable: an extended timer has been restarted
    cmds, crashes

vars == <<store, up, mgr, handle, task, raced, stretched, cmds, crashes>>

Secs   == 0..MaxSecs
States == {"idle", "running", "paused", "finished", "cancelled"}
Record == [state : States, duration : Secs, age : Secs, remaining : Secs,
           repeat : BOOLEAN]

(* A task sleeps; writes "finished" over the record it has read; and then,  *)
(* if it repeats, writes "running" over the one it reads next, or else      *)
(* removes the handle.                                                      *)
Task == [pc : {"none", "sleeping", "firing", "resetting", "removing"},
         left : Secs, length : Secs, repeat : BOOLEAN, open : BOOLEAN,
         copy : Record]

Blank == [state |-> "idle", duration |-> 0, age |-> 0, remaining |-> 0,
          repeat |-> FALSE]
Dead  == [pc |-> "none", left |-> 0, length |-> 0, repeat |-> FALSE,
          open |-> FALSE, copy |-> Blank]
NoHandle == [task |-> NoTask, length |-> 0]
AtRest   == [busy |-> FALSE, record |-> Blank, left |-> 0, length |-> 0]

Live(t)      == task[t].pc # "none"
Finishing(t) == task[t].pc \in {"firing", "resetting", "removing"}
Asleep(t)    == task[t].pc = "sleeping" /\ task[t].open
Due(t)       == task[t].pc = "sleeping" /\ task[t].left = 0

-----------------------------------------------------------------------------
(* duration.saturating_sub(elapsed)                                         *)
Remaining(s) == IF s.age >= s.duration THEN 0 ELSE s.duration - s.age

(* Mutant: the sender outlives the handle.                                  *)
HangupUnheard == task

(* The handle leaves the map: its sender is used, or dropped, and the task  *)
(* of it, asleep, will see that.                                            *)
Hangup == [t \in Tasks |->
    IF t = handle.task THEN [task[t] EXCEPT !.open = FALSE] ELSE task[t]]

(* spawn_timer_task, into the task functions ts.                            *)
Spawn(ts, left, length, repeat) ==
    \E t \in Tasks :
        /\ ~ Live(t)
        /\ task' = [ts EXCEPT ![t] =
              [pc |-> "sleeping", left |-> left, length |-> length,
               repeat |-> repeat, open |-> TRUE, copy |-> Blank]]
        /\ handle' = [task |-> t, length |-> length]

(* A command has been read and its task cancelled; what it owes is record   *)
(* rec and, if left > 0, a task.                                            *)
Owe(rec, left, length) ==
    mgr' = [busy |-> TRUE, record |-> rec, left |-> left, length |-> length]

Accept(cmd) ==
    /\ up /\ ~ mgr.busy
    /\ cmd \in Commands
    /\ cmds < MaxCmds
    /\ cmds' = cmds + 1
    /\ raced' = (raced \/ \E t \in Tasks : Finishing(t) \/ Due(t))
    /\ UNCHANGED <<store, up, crashes>>

CancelTask == task' = Hangup /\ handle' = NoHandle

Start(d, repeat) ==
    /\ Accept("start")
    /\ CancelTask
    /\ stretched' = FALSE
    /\ Owe([store EXCEPT !.state = "running", !.age = 0, !.duration = d,
                         !.remaining = d, !.repeat = repeat], d, d)

Pause ==
    /\ Accept("pause")
    /\ handle # NoHandle
    /\ CancelTask
    /\ Owe([store EXCEPT !.state = "paused", !.remaining = Remaining(store)],
           0, 0)
    /\ UNCHANGED stretched

(* Mutant: a resumed timer counts its length from the start.                *)
ResumeAfresh ==
    /\ Accept("resume")
    /\ store.state = "paused"
    /\ IF store.remaining > 0
         THEN Owe([store EXCEPT !.state = "running", !.age = 0],
                  store.remaining, store.duration)
         ELSE Owe([store EXCEPT !.state = "finished"], 0, 0)
    /\ UNCHANGED <<task, handle, stretched>>

(* Resume goes back to being as far into its length as it was.              *)
Resume ==
    /\ Accept("resume")
    /\ store.state = "paused"
    /\ IF store.remaining > 0
         THEN Owe([store EXCEPT !.state = "running",
                      !.age = IF store.remaining >= store.duration THEN 0
                              ELSE store.duration - store.remaining],
                  store.remaining, store.duration)
         ELSE Owe([store EXCEPT !.state = "finished"], 0, 0)
    /\ UNCHANGED <<task, handle, stretched>>

ExtendRunning(more) ==
    /\ Accept("extend")
    /\ store.state = "running"
    /\ store.duration + more <= MaxSecs
    /\ CancelTask
    /\ LET left == Remaining(store) + more
           its  == IF handle = NoHandle THEN store.duration ELSE handle.length
       IN  Owe([store EXCEPT !.duration = @ + more, !.remaining = left],
               left, its)
    /\ UNCHANGED stretched

ExtendPaused(more) ==
    /\ Accept("extend")
    /\ store.state = "paused"
    /\ store.duration + more <= MaxSecs
    /\ Owe([store EXCEPT !.duration = @ + more, !.remaining = @ + more], 0, 0)
    /\ UNCHANGED <<task, handle, stretched>>

Cancel ==
    /\ Accept("cancel")
    /\ CancelTask
    /\ Owe([store EXCEPT !.state = "cancelled"], 0, 0)
    /\ UNCHANGED stretched

(* Restart takes the length of the handle, or else the record's.            *)
Restart ==
    /\ Accept("restart")
    /\ LET d == IF handle = NoHandle THEN store.duration ELSE handle.length IN
         /\ d > 0
         /\ stretched' = (stretched \/ d # store.duration)
         /\ Owe([store EXCEPT !.state = "running", !.age = 0, !.remaining = d],
                d, d)
    /\ CancelTask

(* The rest of the command: the record is written, the task spawned.        *)
Finish ==
    /\ up /\ mgr.busy
    /\ store' = mgr.record
    /\ mgr' = AtRest
    /\ IF mgr.left > 0
         THEN Spawn(Hangup, mgr.left, mgr.length, mgr.record.repeat)
         ELSE UNCHANGED <<task, handle>>
    /\ UNCHANGED <<up, raced, stretched, cmds, crashes>>

-----------------------------------------------------------------------------
(* The timer task.                                                          *)

(* Its time has come, and it has read the record; a sender that is gone     *)
(* does not keep select! from taking this branch.                           *)
Wake(t) ==
    /\ Due(t)
    /\ task' = [task EXCEPT ![t].pc = "firing", ![t].copy = store]
    /\ UNCHANGED <<store, up, mgr, handle, raced, stretched, cmds, crashes>>

HungUp(t) ==
    /\ task[t].pc = "sleeping" /\ ~ task[t].open
    /\ task' = [task EXCEPT ![t] = Dead]
    /\ UNCHANGED <<store, up, mgr, handle, raced, stretched, cmds, crashes>>

FireTimer(t) ==
    /\ task[t].pc = "firing"
    /\ store' = [task[t].copy EXCEPT !.state = "finished", !.remaining = 0]
    /\ task' = [task EXCEPT
                   ![t].pc = IF task[t].repeat THEN "resetting" ELSE "removing",
                   ![t].copy = IF task[t].repeat THEN store' ELSE Blank]
    /\ UNCHANGED <<up, mgr, handle, raced, stretched, cmds, crashes>>

ResetForRepeat(t) ==
    /\ task[t].pc = "resetting"
    /\ store' = [task[t].copy EXCEPT !.state = "running", !.age = 0,
                    !.remaining = task[t].length, !.duration = task[t].length]
    /\ task' = [task EXCEPT ![t].pc = "sleeping", ![t].left = task[t].length,
                            ![t].copy = Blank]
    /\ UNCHANGED <<up, mgr, handle, raced, stretched, cmds, crashes>>

(* Whatever handle is there is removed.                                     *)
RemoveHandle(t) ==
    /\ task[t].pc = "removing"
    /\ task' = [Hangup EXCEPT ![t] = Dead]
    /\ handle' = NoHandle
    /\ UNCHANGED <<store, up, mgr, raced, stretched, cmds, crashes>>

-----------------------------------------------------------------------------
Crash ==
    /\ up
    /\ crashes < MaxCrashes
    /\ crashes' = crashes + 1
    /\ up' = FALSE
    /\ mgr' = AtRest
    /\ handle' = NoHandle
    /\ task' = [t \in Tasks |-> Dead]
    /\ UNCHANGED <<store, raced, stretched, cmds>>

(* Mutant: only what is over is put right.                                  *)
ReconstructFinishedOnly ==
    /\ ~ up
    /\ up' = TRUE
    /\ store' = IF store.state = "running" /\ Remaining(store) = 0
                  THEN [store EXCEPT !.state = "finished"] ELSE store
    /\ UNCHANGED <<task, handle, mgr, raced, stretched, cmds, crashes>>

(* reconstruct_timers                                                       *)
Reconstruct ==
    /\ ~ up
    /\ up' = TRUE
    /\ IF store.state = "running" /\ Remaining(store) > 0
         THEN /\ Spawn(task, Remaining(store), store.duration, store.repeat)
              /\ UNCHANGED store
         ELSE /\ store' = IF store.state = "running"
                            THEN [store EXCEPT !.state = "finished"] ELSE store
              /\ UNCHANGED <<task, handle>>
    /\ UNCHANGED <<mgr, raced, stretched, cmds, crashes>>

Tick ==
    /\ ~ mgr.busy
    /\ \A t \in Tasks : Live(t) => Asleep(t) /\ ~ Due(t)
    /\ store' = [store EXCEPT !.age = IF @ < MaxSecs THEN @ + 1 ELSE @]
    /\ task' = [t \in Tasks |->
           [task[t] EXCEPT !.left = IF @ > 0 THEN @ - 1 ELSE 0]]
    /\ UNCHANGED <<up, mgr, handle, raced, stretched, cmds, crashes>>

-----------------------------------------------------------------------------
Init ==
    /\ store = Blank
    /\ up = TRUE
    /\ mgr = AtRest
    /\ handle = NoHandle
    /\ task = [t \in Tasks |-> Dead]
    /\ raced = FALSE
    /\ stretched = FALSE
    /\ cmds = 0
    /\ crashes = 0

Command ==
    \/ \E d \in Lengths, repeat \in BOOLEAN : Start(d, repeat)
    \/ \E more \in Lengths : ExtendRunning(more) \/ ExtendPaused(more)
    \/ Pause \/ Resume \/ Cancel \/ Restart

TaskStep(t) ==
    \/ Wake(t) \/ HungUp(t) \/ FireTimer(t) \/ ResetForRepeat(t)
    \/ RemoveHandle(t)

Next ==
    \/ Command \/ Finish
    \/ \E t \in Tasks : TaskStep(t)
    \/ Crash \/ Reconstruct
    \/ Tick

Spec == Init /\ [][Next]_vars

(* Time passes, tasks that can run do, a command begun is carried through,  *)
(* and the process is started again.                                        *)
FairSpec ==
    /\ Spec
    /\ WF_vars(Tick) /\ WF_vars(Finish) /\ WF_vars(Reconstruct)
    /\ \A t \in Tasks : WF_vars(TaskStep(t))

-----------------------------------------------------------------------------
(* Properties.                                                              *)

(* Every variable has its type; no length, age or remainder leaves          *)
(* 0..MaxSecs, by a saturating subtraction or an extension.                 *)
TypeOK ==
    /\ store \in Record
    /\ up \in BOOLEAN
    /\ mgr \in [busy : BOOLEAN, record : Record, left : Secs, length : Secs]
    /\ handle \in [task : Tasks \cup {NoTask}, length : Secs]
    /\ task \in [Tasks -> Task]
    /\ raced \in BOOLEAN
    /\ stretched \in BOOLEAN
    /\ cmds \in 0..MaxCmds
    /\ crashes \in 0..MaxCrashes

Settled == up /\ ~ mgr.busy /\ \A t \in Tasks : ~ Finishing(t)

(* No two tasks can finish the timer: a task that no command has cancelled  *)
(* is the one of the handle, whatever was started, resumed or extended.     *)
OneArmed ==
    \A t \in Tasks :
        Asleep(t) => handle.task = t

(* A timer that says it is running has a task that will finish it, after    *)
(* any commands, crashes and restarts, as long as no command came in the    *)
(* moment that a task was finishing.                                        *)
RunningHasTask ==
    Settled /\ ~ raced /\ store.state = "running" =>
        \E t \in Tasks : Asleep(t)

(* What is left by the record, which a pause, an extend and a process       *)
(* restart go by, is what the task has still to sleep, after any commands   *)
(* but a restart of an extended timer, which runs its old length under the  *)
(* extended one of the record.                                              *)
RemainingAgrees ==
    Settled /\ ~ raced /\ ~ stretched /\ store.state = "running" =>
        \A t \in Tasks :
            Asleep(t)
                => task[t].left = Remaining(store)

(* A running timer does not run for ever.                                   *)
RunningEnds ==
    store.state = "running" /\ ~ raced ~> store.state # "running" \/ raced
=============================================================================
