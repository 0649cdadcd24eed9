------------------------------- MODULE MCRuns -------------------------------
(***************************************************************************)
(* Small instances of RobotRuns: the planner is the one of module Planner  *)
(* on a robot with an input bin, one or two destination bins and an        *)
(* unrecognized bin.                                                       *)
(***************************************************************************)
EXTENDS RunInvariant, TLC

CONSTANTS c1, c2, r1, r2, u1, w1, w2, printA, printB

MCOwner == [r \in Runs |-> u1]
MCBins == {1, 2, 3, 9}
MCStartBin == [c \in Cards |-> 1]
MCPrintOf == [c \in Cards |-> IF c = c1 THEN printA ELSE printB]

P == INSTANCE Planner

ByName == <<[op |-> "alphabetical", enabled |-> TRUE, order |-> 0,
             deep |-> TRUE, split |-> FALSE]>>
Named(n) == [name |-> n, oracle |-> n, print |-> n]

(* Bin 2 takes all cards; bins 1 and 3 are free for staging.               *)
Robot == [bins |-> <<2, 3, 1>>, capacity |-> 2 :> 2 @@ 3 :> 1,
          input |-> 1, unrecognized |-> 9,
          spec |-> ByName,
          attrs |-> [c \in Cards |-> Named(IF c = c1 THEN 1 ELSE 2)],
          identified |-> Cards,
          pinned |-> [c \in Cards |-> None]]

MCPlans == {<<S, P!GeneratePlan(Robot, S)>> : S \in SUBSET Cards}
MCPlan(S) == (CHOOSE entry \in MCPlans : entry[1] = S)[2]

(* A robot without capacity for two cards: their plan is infeasible.       *)
TightRobot == [Robot EXCEPT !.capacity = 2 :> 1]
MCTightPlans == {<<S, P!GeneratePlan(TightRobot, S)>> : S \in SUBSET Cards}
MCTightPlan(S) == (CHOOSE entry \in MCTightPlans : entry[1] = S)[2]

WorkerSymmetry == Permutations(Workers)

=============================================================================
