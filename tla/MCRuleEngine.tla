---------------------------- MODULE MCRuleEngine ----------------------------
(* Instances of the rule engine for model checking.                         *)
EXTENDS RuleEngine

CONSTANTS r1, r2

Both == {r1, r2}
One  == {r1}

Act == [op |-> "act"]
Delay(k) == [op |-> "delay", key |-> k]
Op(o) == [op |-> o]
Par(bs) == [op |-> "parallel", branches |-> bs]
Block(ss, n) == [op |-> "block", body |-> ss, times |-> n]
On(o, r) == [op |-> o, rule |-> r]

Zero == [r \in Rules |-> 0]
Two  == [r \in Rules |-> 2]
InOrder == [r \in Rules |-> IF r = r1 THEN 1 ELSE 2]

Every(x) == [r \in Rules |-> x]
Single    == Every("single")
Restart   == Every("restart")
Queued    == Every("queued")
Cooldown2 == Every(2)

(* Action lists.                                                            *)
Do == Every(<<Act, Op("hold")>>)
(* r1 delays in three ways and cancels by key; r2 cancels r1's delays.      *)
Cancelling ==
    [r \in Rules |->
        IF r = r1 THEN <<Par(<<Delay("auto"), Delay("k"),
                               [op |-> "cancelKey", key |-> "k"]>>),
                         Delay("auto"), Op("cancelAll")>>
                  ELSE <<On("cancelRule", r1), Op("wait"), On("pause", r1)>>]
(* A rule that loops and runs its own list again, until the depth is        *)
(* reached, then exits from a branch.                                       *)
Calling == Every(<<Block(<<On("resume", r1)>>, 2), On("call", r1),
                   Par(<<Op("exit")>>)>>)
=============================================================================
