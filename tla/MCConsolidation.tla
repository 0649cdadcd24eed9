-------------------------- MODULE MCConsolidation --------------------------
(***************************************************************************)
(* A small instance of Consolidation: two runs share a collection and a    *)
(* print, a third belongs to another collection.                           *)
(***************************************************************************)
EXTENDS Consolidation, TLC

CONSTANTS w1, w2, c1, c2, c3, r1, r2, r3, k1, k2, printA, printB

MCPrintOf == [c \in Cards |-> IF c = c3 THEN printB ELSE printA]
MCCollectionOf == [r \in Runs |-> IF r = r3 THEN k2 ELSE k1]

WorkerSymmetry == Permutations(Workers)

=============================================================================
