-------------------------- MODULE PluginSupervisor --------------------------
(***************************************************************************)
(* One locally launched plugin: its supervisor task in                      *)
(* homecore/src/plugin_manager.rs, the process it keeps alive, and the      *)
(* status in the plugin's record, which three parties write: the            *)
(* supervisor, the registry listener that mirrors bus events into the       *)
(* record, and the sweep for heartbeats that stay away (crates/hc-api).     *)
(***************************************************************************)
EXTENDS Naturals, Sequences

CONSTANTS
    Enabled,     \* whether the plugin is enabled at boot
    Commands,    \* the PluginCommands that are sent
    ChannelSize, \* the capacity of the command channel
    BusSize,     \* the capacity of the event bus
    MinBackoff, MaxBackoff,
    MaxCmds,     \* bound: the number of commands sent
    MaxCrashes   \* bound: the number of failed launches and exits

AllCommands == {"start", "stop", "restart"}

ASSUME SupervisorAssumption ==
    /\ Enabled \in BOOLEAN
    /\ Commands \subseteq AllCommands
    /\ ChannelSize \in Nat \ {0}
    /\ BusSize \in Nat \ {0}
    /\ MinBackoff \in Nat \ {0}
    /\ MaxBackoff \in Nat
    /\ MinBackoff <= MaxBackoff
    /\ MaxCmds \in Nat /\ MaxCrashes \in Nat

VARIABLES
    sup,        \* where the supervisor is
    alive,      \* whether the child it holds is alive
    orphans,    \* children it has let go of that are alive
    backoff,    \* backoff_secs
    channel,    \* the commands it has not taken yet
    shutdown,   \* the shutdown signal
    status,     \* PluginRecord.status
    managed,    \* a heartbeat has come: supports_management
    bus,        \* the events the registry listener has not taken yet
    sent, crashes,
    doubled     \* history: the Starts that found a living child

supVars == <<sup, alive, orphans, backoff, channel, doubled>>
vars == <<supVars, shutdown, status, managed, bus, sent, crashes>>

SupStates == {"waiting", "launch", "running", "backoff", "gone"}
Statuses  == {"starting", "active", "offline", "stopped"}
Events    == {"registered", "heartbeat", "offline"}

(* A broadcast that is full forgets its oldest event.                       *)
After(e) == Append(IF Len(bus) = BusSize THEN Tail(bus) ELSE bus, e)

(* set_status: no event when nothing changes; going offline is announced    *)
(* twice, and the listener takes the second.                                *)
SetStatus(s) ==
    /\ status' = s
    /\ bus' = IF s = "offline" /\ status # "offline" THEN After("offline") ELSE bus

Doubled(b) == IF 2 * b > MaxBackoff THEN MaxBackoff ELSE 2 * b
Crashed == crashes < MaxCrashes /\ crashes' = crashes + 1

(* A Child that goes out of scope is not killed: its process lives on with  *)
(* nobody to watch it.                                                      *)
DropChild ==
    /\ orphans' = IF alive THEN orphans + 1 ELSE orphans
    /\ alive' = FALSE

-----------------------------------------------------------------------------
Send(c) ==
    /\ sent < MaxCmds
    /\ Len(channel) < ChannelSize
    /\ sup # "gone"
    /\ channel' = Append(channel, c)
    /\ sent' = sent + 1
    /\ UNCHANGED <<sup, alive, orphans, backoff, shutdown, status,
                   managed, bus, crashes, doubled>>

Take(c) ==
    /\ channel # <<>>
    /\ Head(channel) = c
    /\ channel' = Tail(channel)
    /\ UNCHANGED <<shutdown, managed, sent, crashes>>

(* Not enabled, or stopped: only Start and Restart go on.                   *)
TakeWhileStopped(c) ==
    /\ sup = "waiting"
    /\ Take(c)
    /\ IF c = "stop" THEN UNCHANGED <<sup, backoff>>
                     ELSE sup' = "launch" /\ backoff' = MinBackoff
    /\ UNCHANGED <<alive, orphans, status, bus, doubled>>

Launch ==
    /\ sup = "launch" /\ ~ shutdown
    /\ sup' = "running"
    /\ alive' = TRUE
    /\ SetStatus("starting")
    /\ UNCHANGED <<orphans, backoff, channel, shutdown, managed, sent,
                   crashes, doubled>>

(* spawn() fails: "starting" and then "offline".                            *)
LaunchFails ==
    /\ sup = "launch" /\ ~ shutdown
    /\ Crashed
    /\ sup' = "backoff"
    /\ status' = "offline"
    /\ bus' = After("offline")
    /\ backoff' = Doubled(backoff)
    /\ UNCHANGED <<alive, orphans, channel, shutdown, managed, sent, doubled>>

ChildExits ==
    /\ alive
    /\ Crashed
    /\ alive' = FALSE
    /\ UNCHANGED <<sup, orphans, backoff, channel, shutdown, status,
                   managed, bus, sent, doubled>>

(* A process that nobody watches any more ends by itself.                   *)
OrphanExits ==
    /\ orphans > 0
    /\ Crashed
    /\ orphans' = orphans - 1
    /\ UNCHANGED <<sup, alive, backoff, channel, shutdown, status,
                   managed, bus, sent, doubled>>

(* The end of a run that nobody stopped: back off, less after a run of      *)
(* HEALTHY_UPTIME than after a short one.                                   *)
RunOver(healthy, before) ==
    /\ sup' = "backoff"
    /\ SetStatus("offline")
    /\ backoff' = IF healthy THEN MinBackoff ELSE Doubled(before)

NoticeExit(healthy) ==
    /\ sup = "running" /\ ~ alive
    /\ RunOver(healthy, backoff)
    /\ UNCHANGED <<alive, orphans, channel, shutdown, managed, sent,
                   crashes, doubled>>

TakeStop ==
    /\ sup = "running"
    /\ Take("stop")
    /\ sup' = "waiting"
    /\ alive' = FALSE
    /\ SetStatus("stopped")
    /\ UNCHANGED <<orphans, backoff, doubled>>

(* Mutant: Restart forgets to kill the child.                               *)
TakeRestartUnkilled(healthy) ==
    /\ sup = "running"
    /\ Take("restart")
    /\ DropChild
    /\ RunOver(healthy, MinBackoff)
    /\ UNCHANGED doubled

TakeRestart(healthy) ==
    /\ sup = "running"
    /\ Take("restart")
    /\ alive' = FALSE
    /\ RunOver(healthy, MinBackoff)
    /\ UNCHANGED <<orphans, doubled>>

(* Start while running goes round the loop: the child is dropped as it is,  *)
(* and another launched.                                                    *)
TakeStart ==
    /\ sup = "running"
    /\ Take("start")
    /\ sup' = "launch"
    /\ DropChild
    /\ doubled' = IF alive THEN doubled + 1 ELSE doubled
    /\ UNCHANGED <<backoff, status, bus>>

(* The backoff ends by itself or by a command, whichever command it is.     *)
BackoffOver ==
    /\ sup = "backoff"
    /\ sup' = "launch"
    /\ UNCHANGED <<alive, orphans, backoff, channel, shutdown, status,
                   managed, bus, sent, crashes, doubled>>

TakeInBackoff(c) ==
    /\ sup = "backoff"
    /\ channel # <<>> /\ Head(channel) = c
    /\ channel' = Tail(channel)
    /\ sup' = "launch"
    /\ UNCHANGED <<alive, orphans, backoff, shutdown, status, managed, bus,
                   sent, crashes, doubled>>

(* Mutant: the shutdown branch returns without killing the child.           *)
TakeShutdownUnkilled ==
    /\ shutdown
    /\ sup # "gone"
    /\ sup' = "gone"
    /\ SetStatus(IF sup = "running" THEN "stopped" ELSE status)
    /\ UNCHANGED <<alive, orphans, backoff, channel, shutdown, managed,
                   sent, crashes, doubled>>

(* Every wait of the supervisor ends by the shutdown signal, and it looks   *)
(* at it before a launch: five branches that differ only in the child there *)
(* is to kill.  The branches for a closed channel are never taken, for the  *)
(* senders stay in the map of commands for as long as homeCore runs.        *)
TakeShutdown ==
    /\ shutdown
    /\ sup # "gone"
    /\ sup' = "gone"
    /\ alive' = FALSE
    /\ SetStatus(IF sup = "running" THEN "stopped" ELSE status)
    /\ UNCHANGED <<orphans, backoff, channel, shutdown, managed, sent,
                   crashes, doubled>>

-----------------------------------------------------------------------------
(* The plugin's messages, by way of the broker and the bus; the listener;   *)
(* the sweep.  A child that was let go of speaks under the same name.       *)
PluginSays(e) ==
    /\ alive \/ orphans > 0
    /\ e # "offline"
    /\ bus' = After(e)
    /\ UNCHANGED <<supVars, shutdown, status, managed, sent, crashes>>

(* Mutant: a heartbeat does not bring a plugin back from "offline".         *)
ListenerOneWay ==
    /\ bus # <<>>
    /\ bus' = Tail(bus)
    /\ LET e == Head(bus) IN
         /\ managed' = (managed \/ e = "heartbeat")
         /\ status' = IF e = "registered" THEN "active"
                      ELSE IF e = "offline" THEN "offline"
                      ELSE IF status = "starting" THEN "active" ELSE status
    /\ UNCHANGED <<supVars, shutdown, sent, crashes>>

Listener ==
    /\ bus # <<>>
    /\ bus' = Tail(bus)
    /\ LET e == Head(bus) IN
         /\ managed' = (managed \/ e = "heartbeat")
         /\ status' = CASE e = "registered" -> "active"
                        [] e = "offline"    -> "offline"
                        [] e = "heartbeat"  ->
                             IF status \in {"offline", "starting"}
                               THEN "active" ELSE status
    /\ UNCHANGED <<supVars, shutdown, sent, crashes>>

(* No heartbeat for 90 seconds: none is under way.                          *)
Sweep ==
    /\ managed
    /\ status \notin {"stopped", "offline"}
    /\ \A n \in 1..Len(bus) : bus[n] # "heartbeat"
    /\ Crashed
    /\ SetStatus("offline")
    /\ UNCHANGED <<supVars, shutdown, managed, sent>>

Shutdown ==
    /\ ~ shutdown
    /\ shutdown' = TRUE
    /\ UNCHANGED <<supVars, status, managed, bus, sent, crashes>>

-----------------------------------------------------------------------------
Init ==
    /\ sup = IF Enabled THEN "launch" ELSE "waiting"
    /\ alive = FALSE
    /\ orphans = 0
    /\ backoff = MinBackoff
    /\ channel = <<>>
    /\ shutdown = FALSE
    /\ status = "stopped"
    /\ managed = FALSE
    /\ bus = <<>>
    /\ sent = 0
    /\ crashes = 0
    /\ doubled = 0

(* What the supervisor does without being told to.                          *)
Supervise ==
    \/ Launch \/ LaunchFails \/ BackoffOver
    \/ \E healthy \in BOOLEAN : NoticeExit(healthy)

TakeCommand ==
    \/ \E c \in AllCommands : TakeWhileStopped(c) \/ TakeInBackoff(c)
    \/ TakeStop \/ TakeStart
    \/ \E healthy \in BOOLEAN : TakeRestart(healthy)

Next ==
    \/ \E c \in Commands : Send(c)
    \/ Supervise \/ TakeCommand \/ TakeShutdown
    \/ ChildExits \/ OrphanExits
    \/ \E e \in Events : PluginSays(e)
    \/ Listener \/ Sweep
    \/ Shutdown

Spec == Init /\ [][Next]_vars

(* The runtime polls the supervisor and the listener; a plugin of the SDK   *)
(* goes on sending heartbeats for as long as it lives.                      *)
FairSpec ==
    /\ Spec
    /\ WF_vars(Supervise) /\ WF_vars(TakeCommand) /\ WF_vars(TakeShutdown)
    /\ WF_vars(Listener) /\ WF_vars(PluginSays("heartbeat"))

-----------------------------------------------------------------------------
(* Properties.                                                              *)

(* Every variable has its type; backoff_secs stays within its limits, the   *)
(* channel and the bus within their capacity.                               *)
TypeOK ==
    /\ sup \in SupStates
    /\ alive \in BOOLEAN
    /\ orphans \in Nat
    /\ backoff \in MinBackoff..MaxBackoff
    /\ channel \in Seq(AllCommands) /\ Len(channel) <= ChannelSize
    /\ shutdown \in BOOLEAN
    /\ status \in Statuses
    /\ managed \in BOOLEAN
    /\ bus \in Seq(Events) /\ Len(bus) <= BusSize
    /\ sent \in 0..MaxCmds
    /\ crashes \in 0..MaxCrashes
    /\ doubled \in Nat

(* The child of the supervisor lives only while it is watched, and of the   *)
(* processes that live unwatched there is at most one for each Start that   *)
(* found the plugin running: no stop, restart, exit, failed launch or       *)
(* shutdown leaves one behind.  (The Start does, though its branch says     *)
(* "Already running" and means to ignore it.)                               *)
NoStrayProcess == (alive => sup = "running") /\ orphans <= doubled

(* Once shutdown is asked for, the supervisor goes, and the child it holds  *)
(* with it.                                                                 *)
ShutdownCompletes == shutdown ~> sup = "gone" /\ ~ alive

(* A plugin that runs and sends heartbeats is shown as active some day,     *)
(* whatever late "offline" events and sweeps come in between.               *)
RunningShowsActive ==
    sup = "running" ~> status = "active" \/ sup # "running" \/ ~ alive
=============================================================================
