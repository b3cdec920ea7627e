------------------------------ MODULE RunModes ------------------------------
(***************************************************************************)
(* What the run modes of crates/hc-types/src/rule.rs promise of the runs    *)
(* that share a cell, with nothing of how the engine keeps it: no counters, *)
(* no flags of the newest run, no permits.  A cell stands for a rule from   *)
(* one reload that drops it to the next.  RuleEngine implements this.       *)
(***************************************************************************)
EXTENDS Naturals, FiniteSets

CONSTANTS Rules, Cells, Runs, RunMode, MaxQueue

VARIABLES
    phase,   \* "none", "waiting" for its turn, "active", "over"
    rule,    \* the rule of each run
    cell,    \* the cell of each run
    stopped  \* the runs that have been told to stop

modeVars == <<phase, rule, cell, stopped>>

Unfinished(c) == {i \in Runs : phase[i] \in {"waiting", "active"} /\ cell[i] = c}

(* RunMode::Single skips a firing while a run goes on; Queued takes up to   *)
(* max_queue; Restart has told the others to stop; Parallel starts always.  *)
MayStart(r, c) ==
    /\ RunMode[r] = "single"  => Unfinished(c) = {}
    /\ RunMode[r] = "queued"  => Cardinality(Unfinished(c)) < MaxQueue[r]
    /\ RunMode[r] = "restart" => Unfinished(c) \subseteq stopped

Start(i, r, c) ==
    /\ phase[i] = "none"
    /\ MayStart(r, c)
    /\ phase' = [phase EXCEPT ![i] = IF RunMode[r] = "queued" THEN "waiting"
                                                               ELSE "active"]
    /\ rule' = [rule EXCEPT ![i] = r]
    /\ cell' = [cell EXCEPT ![i] = c]
    /\ stopped' = stopped

(* Queued: one at a time.                                                   *)
Begin(i) ==
    /\ phase[i] = "waiting"
    /\ \A j \in Runs : phase[j] = "active" => cell[j] # cell[i]
    /\ phase' = [phase EXCEPT ![i] = "active"]
    /\ UNCHANGED <<rule, cell, stopped>>

Stop(S) ==
    /\ stopped' = stopped \cup S
    /\ UNCHANGED <<phase, rule, cell>>

Finish(i) ==
    /\ phase[i] = "active"
    /\ phase' = [phase EXCEPT ![i] = "over"]
    /\ UNCHANGED <<rule, cell, stopped>>

ModesInit ==
    /\ phase = [i \in Runs |-> "none"]
    /\ rule = [i \in Runs |-> 0]
    /\ cell = [i \in Runs |-> 0]
    /\ stopped = {}

ModesNext ==
    \/ \E i \in Runs : \/ \E r \in Rules, c \in Cells : Start(i, r, c)
                       \/ Begin(i) \/ Finish(i)
    \/ \E S \in SUBSET Runs : Stop(S)

ModesSpec == ModesInit /\ [][ModesNext]_modeVars
=============================================================================
