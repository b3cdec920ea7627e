---------------------------- MODULE ModeManager ----------------------------
(***************************************************************************)
(* The mode manager of crates/hc-core/src/mode_manager.rs: solar modes that *)
(* follow the sun, manual modes that follow commands, and modes.toml, which *)
(* the manager's loop, the API handlers of crates/hc-api/src/handlers.rs    *)
(* and people all read and write whole.                                     *)
(*                                                                         *)
(* A list of modes is a function from their ids to their configuration.     *)
(* The day has DayLen moments; a transition is due at one of them.  A write *)
(* of the file truncates it and then fills it (std::fs::write).             *)
(***************************************************************************)
EXTENDS Naturals, FiniteSets, Functions

CONSTANTS
    ModeIds,       \* the modes there may be
    Night, Day,    \* mode_night and mode_day
    NoMode,        \* no mode
    DayLen, Sunrise, Sunset,
    Offsets,       \* on_offset_minutes and off_offset_minutes, in moments
    MaxApiCalls,   \* bound: POST and DELETE /modes
    MaxModeCmds,   \* bound: commands to modes
    MaxEdits,      \* bound: edits of the file by hand that do not parse
    MaxModeCrashes \* bound: process restarts

Builtins  == {Night, Day}
ManualIds == ModeIds \ Builtins
Moments   == 0..(DayLen - 1)

ASSUME ModeAssumption ==
    /\ Builtins \subseteq ModeIds /\ Night # Day /\ NoMode \notin ModeIds
    /\ DayLen \in Nat \ {0} /\ Sunrise \in Moments /\ Sunset \in Moments
    /\ Offsets \subseteq Nat /\ 0 \in Offsets
    /\ MaxApiCalls \in Nat /\ MaxModeCmds \in Nat
    /\ MaxEdits \in Nat /\ MaxModeCrashes \in Nat

VARIABLES
    clock,     \* the moment of the day
    mgr,       \* what the manager's loop does
    modes,     \* the list in its memory
    toGo,      \* moments until the transition it sleeps for
    owed,      \* the mode whose offset it is writing, or NoMode
    device,    \* the on attribute of the mode devices in the store
    file,      \* modes.toml: [list, ok]; ok when it parses
    watched,   \* ModeWatcher is at work
    notice,    \* it has something to say
    api,       \* the API call in hand
    unseen,    \* history variable: the file changed with nobody watching
    missed,    \* history variable: a transition came while the loop was busy
    apiCalls, modeCmds, edits, modeCrashes

loopVarsM == <<mgr, modes, toGo, owed, missed>>
fileVars  == <<file, notice, unseen>>
modeVars  == <<loopVarsM, fileVars, clock, device, watched, api,
               apiCalls, modeCmds, edits, modeCrashes>>

Solar(on, off) == [kind |-> "solar", on |-> on, off |-> off]
Manual         == [kind |-> "manual", on |-> 0, off |-> 0]
Configs == [kind : {"solar", "manual"}, on : Offsets, off : Offsets]
Lists   == UNION {[ids -> Configs] : ids \in SUBSET ModeIds}
NoList  == [m \in {} |-> Manual]
Defaults == [m \in Builtins |-> Solar(0, 0)]

Ids(list)     == DOMAIN list
SolarIn(list) == {m \in Ids(list) : list[m].kind = "solar"}

-----------------------------------------------------------------------------
(* The sun.                                                                 *)

OnAt(m, c)  == ((IF m = Night THEN Sunset ELSE Sunrise) + c.on) % DayLen
OffAt(m, c) == ((IF m = Night THEN Sunrise ELSE Sunset) + c.off) % DayLen

(* Mutant: the window that goes over midnight is not told apart.            *)
SolarModeIsOnByDay(m, c, t) == t >= OnAt(m, c) /\ t < OffAt(m, c)

SolarModeIsOn(m, c, t) ==
    IF OnAt(m, c) > OffAt(m, c) THEN t >= OnAt(m, c) \/ t < OffAt(m, c)
                                ELSE t >= OnAt(m, c) /\ t < OffAt(m, c)

(* The moments until the next transition of any solar mode, later than now. *)
(* Without one the loop wakes every hour; a day stands for it.              *)
NextSolarTransition(list, t) ==
    LET steps == {n \in 1..DayLen : \E m \in SolarIn(list) :
                     (t + n) % DayLen \in {OnAt(m, list[m]), OffAt(m, list[m])}}
    IN  IF steps = {} THEN DayLen ELSE CHOOSE n \in steps : \A k \in steps : n <= k

-----------------------------------------------------------------------------
(* The devices.                                                             *)

Absent == "absent"
OnOff(b) == IF b THEN "on" ELSE "off"

(* apply_initial_states: the solar modes by the sun, and the manual modes   *)
(* that have no device yet.                                                 *)
Applied(list) == [m \in ModeIds |->
    IF m \in SolarIn(list) THEN OnOff(SolarModeIsOn(m, list[m], clock))
    ELSE IF m \in Ids(list) /\ device[m] = Absent THEN "off"
    ELSE device[m]]

(* handle_reload: removed modes lose their device, new and changed ones are *)
(* worked out; a new manual mode starts off, a changed one stays as it is.  *)
Reloaded(old, new) == [m \in ModeIds |->
    IF m \in Ids(old) \ Ids(new) THEN Absent
    ELSE IF m \notin Ids(new) THEN device[m]
    ELSE IF m \in Ids(old) /\ old[m] = new[m] THEN device[m]
    ELSE IF m \in SolarIn(new) THEN OnOff(SolarModeIsOn(m, new[m], clock))
    ELSE IF m \in Ids(old) /\ device[m] # Absent THEN device[m] ELSE "off"]

-----------------------------------------------------------------------------
(* The file.                                                                *)

(* load_modes, and unwrap_or_default.                                       *)
LoadedOrEmpty == IF file.ok THEN file.list ELSE NoList

(* Mutant: the watcher tells of new files only, not of changed ones.        *)
NoticedCreate == UNCHANGED notice /\ unseen' = (unseen \/ ~ watched)

Noticed == notice' = (notice \/ watched) /\ unseen' = (unseen \/ ~ watched)

(* A write empties the file, and then fills it.                             *)
Truncate   == file' = [list |-> NoList, ok |-> TRUE] /\ Noticed
Fill(list) == file' = [list |-> list, ok |-> TRUE] /\ Noticed

-----------------------------------------------------------------------------
(* The manager's loop.                                                      *)

(* The loop comes round, and works out its sleep again.  A transition that  *)
(* has become due meanwhile is not later than now.                          *)
Round(list) ==
    /\ mgr' = "idle"
    /\ toGo' = NextSolarTransition(list, clock)
    /\ missed' = (missed \/ toGo = 0)

(* ensure_default_modes and load_modes, before the start-up delay.          *)
ModeStart ==
    LET list == [m \in Ids(LoadedOrEmpty) \cup Builtins |->
                    IF m \in Ids(LoadedOrEmpty) THEN LoadedOrEmpty[m]
                                                ELSE Defaults[m]]
    IN  /\ mgr = "down"
        /\ file' = IF list = LoadedOrEmpty THEN file ELSE [list |-> list, ok |-> TRUE]
        /\ modes' = list
        /\ mgr' = "starting"
        /\ unseen' = FALSE
        /\ UNCHANGED <<clock, toGo, owed, missed, device, watched, notice, api,
                       apiCalls, modeCmds, edits, modeCrashes>>

(* The delay is over: the states are set, and the watcher is started.       *)
ModeReady ==
    /\ mgr = "starting"
    /\ device' = Applied(modes)
    /\ watched' = TRUE
    /\ mgr' = "idle"
    /\ toGo' = NextSolarTransition(modes, clock)
    /\ missed' = FALSE
    /\ UNCHANGED <<clock, modes, owed, fileVars, api,
                   apiCalls, modeCmds, edits, modeCrashes>>

(* Mutant: only the transition that was waited for is applied.              *)
WakeFlips ==
    /\ mgr = "idle" /\ toGo = 0
    /\ \E m \in SolarIn(modes) :
        /\ clock \in {OnAt(m, modes[m]), OffAt(m, modes[m])}
        /\ device' = [device EXCEPT ![m] = OnOff(SolarModeIsOn(m, modes[m], clock))]
    /\ toGo' = NextSolarTransition(modes, clock)
    /\ missed' = FALSE
    /\ UNCHANGED <<clock, mgr, modes, owed, fileVars, watched, api,
                   apiCalls, modeCmds, edits, modeCrashes>>

(* The sleep is over: the mode is flipped, and then all of them are set by  *)
(* the sun, the flipped one included.                                       *)
SolarWake ==
    /\ mgr = "idle" /\ toGo = 0
    /\ device' = Applied(modes)
    /\ toGo' = NextSolarTransition(modes, clock)
    /\ missed' = FALSE
    /\ UNCHANGED <<clock, mgr, modes, owed, fileVars, watched, api,
                   apiCalls, modeCmds, edits, modeCrashes>>

(* Any other message of the bus, taken as the sleep ends.                   *)
OtherMessage ==
    /\ mgr = "idle" /\ toGo = 0
    /\ Round(modes)
    /\ UNCHANGED <<clock, modes, owed, device, fileVars, watched, api,
                   apiCalls, modeCmds, edits, modeCrashes>>

(* The watcher has something: 200 ms for its neighbours.                    *)
ReloadDue ==
    /\ mgr = "idle" /\ notice
    /\ mgr' = "settling"
    /\ UNCHANGED <<clock, modes, toGo, owed, missed, device, fileVars, watched,
                   api, apiCalls, modeCmds, edits, modeCrashes>>

(* A file that does not parse leaves everything as it is.                   *)
Reload ==
    /\ mgr = "settling"
    /\ notice' = FALSE
    /\ IF file.ok THEN /\ device' = Reloaded(modes, file.list)
                       /\ modes' = file.list
                  ELSE UNCHANGED <<device, modes>>
    /\ Round(modes')
    /\ UNCHANGED <<clock, owed, file, unseen, watched, api,
                   apiCalls, modeCmds, edits, modeCrashes>>

Command ==
    /\ mgr = "idle"
    /\ modeCmds < MaxModeCmds
    /\ modeCmds' = modeCmds + 1

ManualCommand(m, on) ==
    /\ Command
    /\ m \in Ids(modes) \ SolarIn(modes)
    /\ device' = [device EXCEPT ![m] = OnOff(on)]
    /\ Round(modes)
    /\ UNCHANGED <<clock, modes, owed, fileVars, watched, api, apiCalls, edits,
                   modeCrashes>>

(* An offset is changed in memory, and the whole list is written.           *)
OffsetCommand(m, c) ==
    /\ Command
    /\ m \in SolarIn(modes)
    /\ c.kind = "solar" /\ (c.on = modes[m].on) # (c.off = modes[m].off)
    /\ modes' = [modes EXCEPT ![m] = c]
    /\ Truncate
    /\ owed' = m
    /\ mgr' = "writing"
    /\ UNCHANGED <<clock, toGo, missed, device, watched, api, apiCalls, edits,
                   modeCrashes>>

OffsetWritten ==
    /\ mgr = "writing"
    /\ Fill(modes)
    /\ device' = [device EXCEPT ![owed] =
                      OnOff(SolarModeIsOn(owed, modes[owed], clock))]
    /\ owed' = NoMode
    /\ Round(modes)
    /\ UNCHANGED <<clock, modes, watched, api, apiCalls, modeCmds, edits,
                   modeCrashes>>

-----------------------------------------------------------------------------
(* The API: append_mode and remove_mode, each a load and a write.           *)

NoCall == [op |-> "none", mode |-> NoMode, list |-> NoList]

ApiLoads(op, m) ==
    /\ api = NoCall /\ mgr # "down"
    /\ apiCalls < MaxApiCalls
    /\ apiCalls' = apiCalls + 1
    /\ m \in ManualIds
    /\ (op = "create") = (m \notin Ids(LoadedOrEmpty))
    /\ op \in {"create", "delete"}
    /\ api' = [op |-> op, mode |-> m, list |-> LoadedOrEmpty]
    /\ UNCHANGED <<loopVarsM, fileVars, clock, device, watched, modeCmds, edits,
                   modeCrashes>>

Edited(call) ==
    IF call.op = "create"
    THEN [m \in Ids(call.list) \cup {call.mode} |->
             IF m \in Ids(call.list) THEN call.list[m] ELSE Manual]
    ELSE Restrict(call.list, Ids(call.list) \ {call.mode})

ApiTruncates ==
    /\ api.op \in {"create", "delete"}
    /\ Truncate
    /\ api' = [api EXCEPT !.op = IF @ = "create" THEN "creating" ELSE "deleting",
                          !.list = Edited(api)]
    /\ UNCHANGED <<loopVarsM, clock, device, watched, apiCalls, modeCmds, edits,
                   modeCrashes>>

ApiFills ==
    /\ api.op \in {"creating", "deleting"}
    /\ Fill(api.list)
    /\ api' = IF api.op = "creating" THEN NoCall
              ELSE [api EXCEPT !.op = "dropping", !.list = NoList]
    /\ UNCHANGED <<loopVarsM, clock, device, watched, apiCalls, modeCmds, edits,
                   modeCrashes>>

ApiDropsDevice ==
    /\ api.op = "dropping"
    /\ device' = [device EXCEPT ![api.mode] = Absent]
    /\ api' = NoCall
    /\ UNCHANGED <<loopVarsM, fileVars, clock, watched, apiCalls, modeCmds,
                   edits, modeCrashes>>

(* A person edits the file, and it does not parse; and mends it.            *)
HandEdit ==
    /\ file.ok /\ edits < MaxEdits
    /\ mgr # "writing" /\ api.op \notin {"creating", "deleting"}
    /\ edits' = edits + 1
    /\ file' = [file EXCEPT !.ok = FALSE]
    /\ Noticed
    /\ UNCHANGED <<loopVarsM, clock, device, watched, api,
                   apiCalls, modeCmds, modeCrashes>>

HandMend ==
    /\ ~ file.ok
    /\ file' = [file EXCEPT !.ok = TRUE]
    /\ Noticed
    /\ UNCHANGED <<loopVarsM, clock, device, watched, api,
                   apiCalls, modeCmds, edits, modeCrashes>>

(* The process stops wherever it is; the file and the devices stay.         *)
ModeCrash ==
    /\ mgr # "down"
    /\ modeCrashes < MaxModeCrashes
    /\ modeCrashes' = modeCrashes + 1
    /\ mgr' = "down"
    /\ modes' = NoList /\ owed' = NoMode /\ toGo' = 0
    /\ watched' = FALSE /\ notice' = FALSE
    /\ api' = NoCall
    /\ UNCHANGED <<clock, missed, device, file, unseen, apiCalls,
                   modeCmds, edits>>

(* The loop's own steps take no moment; only one that settles, writes or    *)
(* waits for plugins can be overtaken by one.                               *)
MomentPasses ==
    /\ mgr \in {"down", "starting"} \/ toGo > 0
    /\ clock' = (clock + 1) % DayLen
    /\ toGo' = IF toGo > 0 THEN toGo - 1 ELSE 0
    /\ UNCHANGED <<mgr, modes, owed, missed, device, fileVars, watched, api,
                   apiCalls, modeCmds, edits, modeCrashes>>

-----------------------------------------------------------------------------
(* A first start: no file yet, or one with a manual mode in it.             *)
ModeInit ==
    /\ clock \in Moments
    /\ mgr = "down" /\ modes = NoList /\ toGo = 0 /\ owed = NoMode
    /\ device = [m \in ModeIds |-> Absent]
    /\ \E list \in {NoList, [m \in ManualIds |-> Manual]} :
        file = [list |-> list, ok |-> TRUE]
    /\ watched = FALSE /\ notice = FALSE /\ api = NoCall
    /\ unseen = FALSE /\ missed = FALSE
    /\ apiCalls = 0 /\ modeCmds = 0 /\ edits = 0 /\ modeCrashes = 0

ModeLoop == ModeStart \/ ModeReady \/ Reload \/ OffsetWritten

ModeNext ==
    \/ ModeLoop \/ SolarWake \/ OtherMessage \/ ReloadDue
    \/ \E m \in ModeIds : \/ \E on \in BOOLEAN : ManualCommand(m, on)
                          \/ \E c \in Configs : OffsetCommand(m, c)
                          \/ \E op \in {"create", "delete"} : ApiLoads(op, m)
    \/ ApiTruncates \/ ApiFills \/ ApiDropsDevice
    \/ HandEdit \/ HandMend \/ ModeCrash \/ MomentPasses

(* The loop runs, a request once begun goes on, time passes, and a person   *)
(* who broke the file mends it.  Nothing makes the messages that steal a    *)
(* transition stop or come.                                                 *)
ModeFairness ==
    /\ WF_modeVars(ModeLoop) /\ WF_modeVars(ReloadDue)
    /\ WF_modeVars(ApiTruncates \/ ApiFills \/ ApiDropsDevice)
    /\ WF_modeVars(HandMend)
    /\ SF_modeVars(SolarWake) /\ WF_modeVars(MomentPasses)

ModeSpec == ModeInit /\ [][ModeNext]_modeVars /\ ModeFairness

-----------------------------------------------------------------------------
(* Properties.                                                              *)

ModeTypeOK ==
    /\ clock \in Moments
    /\ mgr \in {"down", "starting", "idle", "settling", "writing"}
    /\ modes \in Lists /\ toGo \in 0..DayLen
    /\ owed \in ModeIds \cup {NoMode} /\ (owed # NoMode <=> mgr = "writing")
    /\ device \in [ModeIds -> {"on", "off", Absent}]
    /\ file \in [list : Lists, ok : BOOLEAN]
    /\ api \in [op : {"none", "create", "delete", "creating", "deleting", "dropping"},
                mode : ModeIds \cup {NoMode}, list : Lists]
    /\ {watched, notice, unseen, missed} \subseteq BOOLEAN
    /\ apiCalls \in 0..MaxApiCalls /\ modeCmds \in 0..MaxModeCmds
    /\ edits \in 0..MaxEdits /\ modeCrashes \in 0..MaxModeCrashes

(* The sun's word on a mode, apart from how the code works it out: of its   *)
(* two transitions the one to on came last.                                 *)
SunSays(m, c, t) ==
    \E n \in Moments :
        /\ (t + DayLen - n) % DayLen = OnAt(m, c)
        /\ \A k \in 0..n : (t + DayLen - k) % DayLen # OffAt(m, c)

AllRight == \A m \in SolarIn(modes) : device[m] = OnOff(SunSays(m, modes[m], clock))

(* Between its steps, every solar mode is on exactly when the sun says so,  *)
(* both modes of a shared transition included, until the next transition is *)
(* due, unless a transition came while the loop was busy.                   *)
SolarRight == mgr = "idle" /\ toGo > 0 /\ ~ missed => AllRight

(* A missed transition does not stay missed: whatever offsets, reloads and  *)
(* restarts there were, the solar modes are right again and again.          *)
SolarHeals == []<>(mgr = "idle" /\ AllRight)

(* Once people are quiet, the manager's list is the file's and every mode   *)
(* has a device, unless the file changed while the watcher was not there.   *)
ModesSettle ==
    <>[](unseen \/ (modes = file.list /\ \A m \in Ids(modes) : device[m] # Absent))
=============================================================================
