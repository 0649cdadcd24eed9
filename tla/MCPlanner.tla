----------------------------- MODULE MCPlanner -----------------------------
(***************************************************************************)
(* Bounded inputs for BinStacks: three cards, three bins, bin 9 for the    *)
(* unrecognized cards; cards 1 and 3 carry one print, and attributes that  *)
(* some operators tell apart and others do not: the first specification    *)
(* does not tell them apart at all.                                        *)
(***************************************************************************)
EXTENDS BinStacks, TLC

CONSTANTS BinOrders, Capacities

MCCards == 1..3

Op(op, order, deep, split) ==
  [op |-> op, enabled |-> TRUE, order |-> order, deep |-> deep, split |-> split]
Off(o) == [o EXCEPT !.enabled = FALSE]

(* The specifications of the tests and of the documents, and two that the  *)
(* split rule refuses.                                                     *)
MCSpecs == {
  <<Op("color", 2, FALSE, FALSE), Op("rarity", 1, FALSE, TRUE)>>,
  <<Op("set", 1, FALSE, TRUE), Op("mana_value", 1, FALSE, TRUE),
    Off(Op("rarity", 0, FALSE, FALSE))>>,
  <<Op("alphabetical", 2, FALSE, FALSE), Op("color_identity", 1, TRUE, TRUE)>>,
  <<Op("alphabetical", 1, TRUE, FALSE), Op("user_value_tier", 0, FALSE, TRUE)>>,
  <<Op("rarity", 2, FALSE, TRUE), Op("mana_value", 1, FALSE, FALSE)>>,
  <<Op("alphabetical", 1, FALSE, TRUE)>> }

Card(name, letter, colors, land, rarity, set, mana) ==
  [name |-> name, letter |-> letter, colors |-> colors, identity |-> colors,
   land |-> land, rarity |-> rarity, set |-> set, mana |-> mana,
   tier |-> mana, oracle |-> letter, print |-> letter]

MCAttrs == <<Card(4, 2, {"W", "U"}, FALSE, "rare", 2, 3),
             Card(1, 26, {}, TRUE, "special", 1, 2),
             Card(3, 2, {"W", "G"}, FALSE, "rare", 1, 1)>>

MCPins == {p \in [1..3 -> {None, 1, 2, 9}] : p[2] # 9 /\ p[3] \in {None, 2}}

MCConfigs ==
  {[bins |-> bs, capacity |-> cap, input |-> 1, unrecognized |-> 9,
    spec |-> spec, attrs |-> MCAttrs, identified |-> ids, pinned |-> pin] :
     bs \in BinOrders, cap \in Capacities, spec \in MCSpecs,
     ids \in {1..3, {1, 3}, {}}, pin \in MCPins}

(* Bin 3 has no capacity and is free for staging.                          *)
StagedOrders == {<<1, 2, 3>>, <<3, 2, 1, 9>>}
StagedCapacities == {c @@ 9 :> 3 : c \in [{1, 2} -> 0..3]}

(* Every bin may be a destination, as in tests/test_planner_phase4.py.     *)
FullOrders == {<<1, 2>>}
FullCapacities == [{1, 2} -> 1..2]

=============================================================================
