----------------------- MODULE PluginSupervisorProofs -----------------------
(***************************************************************************)
(* What holds of the plugin supervisor for every capacity of the command    *)
(* channel and of the bus, every pair of backoff limits and every number of *)
(* commands and crashes.                                                    *)
(***************************************************************************)
EXTENDS PluginSupervisor, SequenceTheorems, TLAPS

-----------------------------------------------------------------------------
(* The backoff never leaves its limits by being doubled.                    *)
LEMMA DoubledFits ==
    ASSUME NEW b \in MinBackoff..MaxBackoff
    PROVE  Doubled(b) \in MinBackoff..MaxBackoff
BY SupervisorAssumption DEF Doubled

(* An event goes into a bus, full or not, within its capacity.              *)
LEMMA AfterFits ==
    ASSUME bus \in Seq(Events), Len(bus) <= BusSize, NEW e \in Events
    PROVE  After(e) \in Seq(Events) /\ Len(After(e)) <= BusSize
<1> DEFINE kept == IF Len(bus) = BusSize THEN Tail(bus) ELSE bus
<1>1. BusSize \in Nat \ {0} /\ Len(bus) \in Nat
    BY SupervisorAssumption
<1>2. kept \in Seq(Events) /\ Len(kept) < BusSize
    <2>1. CASE Len(bus) = BusSize
        <3>1. bus # <<>>
            BY <1>1, <2>1
        <3>2. Tail(bus) \in Seq(Events) /\ Len(Tail(bus)) = Len(bus) - 1
            BY <3>1
        <3> QED
            BY <1>1, <2>1, <3>2
    <2>2. CASE Len(bus) # BusSize
        BY <1>1, <2>2
    <2> QED
        BY <2>1, <2>2
<1>3. Append(kept, e) \in Seq(Events) /\ Len(Append(kept, e)) = Len(kept) + 1
    BY <1>2
<1> QED
    BY <1>1, <1>2, <1>3 DEF After

(* set_status leaves a status and a bus of their type.                      *)
LEMMA SetStatusFits ==
    ASSUME TypeOK, NEW s \in Statuses, SetStatus(s)
    PROVE  /\ status' \in Statuses
           /\ bus' \in Seq(Events) /\ Len(bus') <= BusSize
<1>1. "offline" \in Events
    BY DEF Events
<1>2. After("offline") \in Seq(Events) /\ Len(After("offline")) <= BusSize
    BY <1>1, AfterFits DEF TypeOK
<1> QED
    BY <1>2 DEF SetStatus, TypeOK

(* What is left of the channel when a command has been taken.               *)
LEMMA TakenFits ==
    ASSUME TypeOK, channel # <<>>, channel' = Tail(channel)
    PROVE  channel' \in Seq(AllCommands) /\ Len(channel') <= ChannelSize
<1>1. Tail(channel) \in Seq(AllCommands) /\ Len(Tail(channel)) = Len(channel) - 1
    BY DEF TypeOK
<1>2. Len(channel) \in Nat
    BY DEF TypeOK
<1> QED
    BY <1>1, <1>2, SupervisorAssumption DEF TypeOK

(* One more crash or exit stays within the bound.                           *)
LEMMA CrashedFits ==
    ASSUME TypeOK, Crashed
    PROVE  crashes' \in 0..MaxCrashes
BY SupervisorAssumption DEF TypeOK, Crashed

-----------------------------------------------------------------------------
(* Types and the child together: the whole inductive invariant.  Launch     *)
(* alone gives the supervisor a child, and does so on its way to "running"; *)
(* every way out of "running" is without one, killed or, by a Start, let    *)
(* go of and counted.                                                       *)
SupInv == TypeOK /\ NoStrayProcess

LEMMA SupInit == Init => SupInv
<1> SUFFICES ASSUME Init PROVE SupInv
    OBVIOUS
<1>1. TypeOK
    <2>1. <<>> \in Seq(Events) /\ <<>> \in Seq(AllCommands) /\ Len(<<>>) = 0
        OBVIOUS
    <2>2. bus \in Seq(Events) /\ Len(bus) <= BusSize
        BY <2>1, SupervisorAssumption DEF Init
    <2>3. channel \in Seq(AllCommands) /\ Len(channel) <= ChannelSize
        BY <2>1, SupervisorAssumption DEF Init
    <2>4. /\ orphans \in Nat /\ doubled \in Nat /\ sent \in 0..MaxCmds
          /\ crashes \in 0..MaxCrashes /\ backoff \in MinBackoff..MaxBackoff
        BY SupervisorAssumption DEF Init
    <2>5. /\ sup \in SupStates /\ alive \in BOOLEAN /\ shutdown \in BOOLEAN
          /\ managed \in BOOLEAN /\ status \in Statuses
        BY DEF Init, SupStates, Statuses
    <2> QED
        BY <2>2, <2>3, <2>4, <2>5 DEF TypeOK
<1>2. NoStrayProcess
    BY DEF Init, NoStrayProcess
<1> QED
    BY <1>1, <1>2 DEF SupInv

LEMMA SupStep == SupInv /\ [Next]_vars => SupInv'
<1> SUFFICES ASSUME SupInv, [Next]_vars
             PROVE  SupInv'
    OBVIOUS
<1>0. TypeOK /\ NoStrayProcess
    BY DEF SupInv
<1> USE SupervisorAssumption
<1>1. ASSUME NEW c \in Commands, Send(c)
      PROVE  SupInv'
    <2>1. channel' \in Seq(AllCommands) /\ Len(channel') <= ChannelSize
        <3>1. c \in AllCommands /\ channel \in Seq(AllCommands)
            BY <1>0 DEF TypeOK
        <3>2. channel' \in Seq(AllCommands) /\ Len(channel') = Len(channel) + 1
            BY <1>1, <3>1 DEF Send
        <3> QED
            BY <1>0, <1>1, <3>2 DEF Send, TypeOK
    <2>2. sent' \in 0..MaxCmds
        BY <1>0, <1>1 DEF Send, TypeOK
    <2> QED
        BY <1>0, <1>1, <2>1, <2>2 DEF Send, SupInv, TypeOK, NoStrayProcess
<1>2. CASE Launch
    <2>1. status' \in Statuses /\ bus' \in Seq(Events) /\ Len(bus') <= BusSize
        BY <1>0, <1>2, SetStatusFits DEF Launch, Statuses
    <2> QED
        BY <1>0, <1>2, <2>1 DEF Launch, SupInv, TypeOK, NoStrayProcess, SupStates
<1>3. CASE LaunchFails
    <2>1. bus' \in Seq(Events) /\ Len(bus') <= BusSize
        BY <1>0, <1>3, AfterFits DEF LaunchFails, Events, TypeOK
    <2>2. crashes' \in 0..MaxCrashes
        BY <1>0, <1>3, CrashedFits DEF LaunchFails
    <2>3. backoff' \in MinBackoff..MaxBackoff
        BY <1>0, <1>3, DoubledFits DEF LaunchFails, TypeOK
    <2>4. NoStrayProcess'
        BY <1>0, <1>3 DEF LaunchFails, NoStrayProcess
    <2> QED
        BY <1>0, <1>3, <2>1, <2>2, <2>3, <2>4
        DEF LaunchFails, SupInv, TypeOK, SupStates, Statuses
<1>4. CASE BackoffOver
    BY <1>0, <1>4 DEF BackoffOver, SupInv, TypeOK, NoStrayProcess, SupStates
<1>5. ASSUME NEW healthy \in BOOLEAN, NoticeExit(healthy)
      PROVE  SupInv'
    <2>1. status' \in Statuses /\ bus' \in Seq(Events) /\ Len(bus') <= BusSize
        BY <1>0, <1>5, SetStatusFits DEF NoticeExit, RunOver, Statuses
    <2>2. backoff' \in MinBackoff..MaxBackoff
        BY <1>0, <1>5, DoubledFits DEF NoticeExit, RunOver, TypeOK
    <2> QED
        BY <1>0, <1>5, <2>1, <2>2
        DEF NoticeExit, RunOver, SupInv, TypeOK, NoStrayProcess, SupStates
<1>6. ASSUME NEW c \in AllCommands, TakeWhileStopped(c)
      PROVE  SupInv'
    <2>1. channel' \in Seq(AllCommands) /\ Len(channel') <= ChannelSize
        BY <1>0, <1>6, TakenFits DEF TakeWhileStopped, Take
    <2>2. sup' \in SupStates /\ backoff' \in MinBackoff..MaxBackoff
        BY <1>0, <1>6 DEF TakeWhileStopped, TypeOK, SupStates
    <2>3. NoStrayProcess'
        BY <1>0, <1>6 DEF TakeWhileStopped, NoStrayProcess
    <2> QED
        BY <1>0, <1>6, <2>1, <2>2, <2>3 DEF TakeWhileStopped, Take, SupInv, TypeOK
<1>7. ASSUME NEW c \in AllCommands, TakeInBackoff(c)
      PROVE  SupInv'
    <2>1. channel' \in Seq(AllCommands) /\ Len(channel') <= ChannelSize
        BY <1>0, <1>7, TakenFits DEF TakeInBackoff
    <2> QED
        BY <1>0, <1>7, <2>1
        DEF TakeInBackoff, SupInv, TypeOK, NoStrayProcess, SupStates
<1>8. CASE TakeStop
    <2>1. channel' \in Seq(AllCommands) /\ Len(channel') <= ChannelSize
        BY <1>0, <1>8, TakenFits DEF TakeStop, Take
    <2>2. status' \in Statuses /\ bus' \in Seq(Events) /\ Len(bus') <= BusSize
        BY <1>0, <1>8, SetStatusFits DEF TakeStop, Statuses
    <2> QED
        BY <1>0, <1>8, <2>1, <2>2
        DEF TakeStop, Take, SupInv, TypeOK, NoStrayProcess, SupStates
<1>9. CASE TakeStart
    <2>1. channel' \in Seq(AllCommands) /\ Len(channel') <= ChannelSize
        BY <1>0, <1>9, TakenFits DEF TakeStart, Take
    <2>2. orphans' \in Nat /\ doubled' \in Nat /\ orphans' <= doubled'
        <3>1. CASE alive
            BY <1>0, <1>9, <3>1 DEF TakeStart, DropChild, TypeOK, NoStrayProcess
        <3>2. CASE ~ alive
            BY <1>0, <1>9, <3>2 DEF TakeStart, DropChild, TypeOK, NoStrayProcess
        <3> QED
            BY <3>1, <3>2
    <2>3. sup' = "launch" /\ alive' = FALSE
        BY <1>9 DEF TakeStart, DropChild
    <2> QED
        BY <1>0, <1>9, <2>1, <2>2, <2>3
        DEF TakeStart, Take, SupInv, TypeOK, NoStrayProcess, SupStates
<1>10. ASSUME NEW healthy \in BOOLEAN, TakeRestart(healthy)
       PROVE  SupInv'
    <2>1. channel' \in Seq(AllCommands) /\ Len(channel') <= ChannelSize
        BY <1>0, <1>10, TakenFits DEF TakeRestart, Take
    <2>2. status' \in Statuses /\ bus' \in Seq(Events) /\ Len(bus') <= BusSize
        BY <1>0, <1>10, SetStatusFits DEF TakeRestart, RunOver, Statuses
    <2>3. backoff' \in MinBackoff..MaxBackoff
        BY <1>0, <1>10, DoubledFits DEF TakeRestart, RunOver, TypeOK
    <2> QED
        BY <1>0, <1>10, <2>1, <2>2, <2>3
        DEF TakeRestart, RunOver, Take, SupInv, TypeOK, NoStrayProcess, SupStates
<1>11. CASE TakeShutdown
    <2>1. (IF sup = "running" THEN "stopped" ELSE status) \in Statuses
        BY <1>0 DEF TypeOK, Statuses
    <2>2. status' \in Statuses /\ bus' \in Seq(Events) /\ Len(bus') <= BusSize
        BY <1>0, <1>11, <2>1, SetStatusFits DEF TakeShutdown
    <2> QED
        BY <1>0, <1>11, <2>2
        DEF TakeShutdown, SupInv, TypeOK, NoStrayProcess, SupStates
<1>12. CASE ChildExits
    <2>1. crashes' \in 0..MaxCrashes
        BY <1>0, <1>12, CrashedFits DEF ChildExits
    <2> QED
        BY <1>0, <1>12, <2>1 DEF ChildExits, SupInv, TypeOK, NoStrayProcess
<1>18. CASE OrphanExits
    <2>1. crashes' \in 0..MaxCrashes
        BY <1>0, <1>18, CrashedFits DEF OrphanExits
    <2>2. orphans' \in Nat /\ orphans' <= doubled
        BY <1>0, <1>18 DEF OrphanExits, TypeOK, NoStrayProcess
    <2> QED
        BY <1>0, <1>18, <2>1, <2>2 DEF OrphanExits, SupInv, TypeOK, NoStrayProcess
<1>13. ASSUME NEW e \in Events, PluginSays(e)
       PROVE  SupInv'
    <2>1. bus' \in Seq(Events) /\ Len(bus') <= BusSize
        BY <1>0, <1>13, AfterFits DEF PluginSays, TypeOK
    <2> QED
        BY <1>0, <1>13, <2>1 DEF PluginSays, supVars, SupInv, TypeOK, NoStrayProcess
<1>14. CASE Listener
    <2>1. Head(bus) \in Events
        BY <1>0, <1>14 DEF Listener, TypeOK
    <2>2. bus' \in Seq(Events) /\ Len(bus') <= BusSize
        <3>1. Tail(bus) \in Seq(Events) /\ Len(Tail(bus)) = Len(bus) - 1
            BY <1>0, <1>14 DEF Listener, TypeOK
        <3> QED
            BY <1>0, <1>14, <3>1 DEF Listener, TypeOK
    <2>3. status' \in Statuses /\ managed' \in BOOLEAN
        BY <1>0, <1>14, <2>1 DEF Listener, TypeOK, Events, Statuses
    <2> QED
        BY <1>0, <1>14, <2>2, <2>3 DEF Listener, supVars, SupInv, TypeOK, NoStrayProcess
<1>15. CASE Sweep
    <2>1. status' \in Statuses /\ bus' \in Seq(Events) /\ Len(bus') <= BusSize
        BY <1>0, <1>15, SetStatusFits DEF Sweep, Statuses
    <2>2. crashes' \in 0..MaxCrashes
        BY <1>0, <1>15, CrashedFits DEF Sweep
    <2> QED
        BY <1>0, <1>15, <2>1, <2>2 DEF Sweep, supVars, SupInv, TypeOK, NoStrayProcess
<1>16. CASE Shutdown
    BY <1>0, <1>16 DEF Shutdown, supVars, SupInv, TypeOK, NoStrayProcess
<1>17. CASE UNCHANGED vars
    BY <1>0, <1>17 DEF vars, supVars, SupInv, TypeOK, NoStrayProcess
<1> QED
    BY <1>1, <1>2, <1>3, <1>4, <1>5, <1>6, <1>7, <1>8, <1>9, <1>10, <1>11,
       <1>12, <1>13, <1>14, <1>15, <1>16, <1>17, <1>18
    DEF Next, Supervise, TakeCommand

(* The types hold, and with them the limits of backoff_secs under every     *)
(* doubling and reset, and the capacities of the channel and of the bus.    *)
THEOREM SupervisorTypes == Spec => []TypeOK
<1>1. SupInv => TypeOK
    BY DEF SupInv
<1> QED
    BY SupInit, SupStep, <1>1, PTL DEF Spec

(* The supervisor of supervise() holds a living child only while it         *)
(* watches it, and leaves none behind but by a Start that found it running: *)
(* no stop, restart, shutdown, failed launch or exit does.                  *)
THEOREM NoStrays == Spec => []NoStrayProcess
<1>1. SupInv => NoStrayProcess
    BY DEF SupInv
<1> QED
    BY SupInit, SupStep, <1>1, PTL DEF Spec
=============================================================================
