------------------------------ MODULE SortKey ------------------------------
(***************************************************************************)
(* The order of cards (shared/talence_shared/sort_spec.py and _card_key of *)
(* planner/plan.py) as pure operators.                                     *)
(*                                                                         *)
(* A sort specification is a sequence of operator configurations           *)
(*   [op, enabled, order, deep, split]                                     *)
(* and the attributes of a card are a record of numbers that order as the  *)
(* texts they stand for do: the normalized name and the bucket of its      *)
(* first letter, set code, oracle and print id, tier; colors are sets.     *)
(***************************************************************************)
EXTENDS Integers, Sequences, FiniteSets, SequencesExt, FiniteSetsExt

(* Mutant of EnabledInOrder: the operators apply as they are listed.       *)
AsListed(spec) == SelectSeq(spec, LAMBDA o : o.enabled)

(* sorted: the elements of S in the order R, a set of pairs.               *)
Sorted(S, R) ==
  CHOOSE s \in [1..Cardinality(S) -> S] :
    /\ IsInjective(s)
    /\ \A i, j \in DOMAIN s : i < j => <<s[i], s[j]>> \in R

(* The enabled operators by order; equal orders stay as listed.            *)
EnabledInOrder(spec) ==
  LET on == {i \in DOMAIN spec : spec[i].enabled}
      by == {p \in on \X on : \/ spec[p[1]].order < spec[p[2]].order
                             \/ /\ spec[p[1]].order = spec[p[2]].order
                                /\ p[1] < p[2]}
      enabled == Sorted(on, by)
  IN [k \in 1..Cardinality(on) |-> spec[enabled[k]]]

ColorBits == [W |-> 1, U |-> 2, B |-> 4, R |-> 8, G |-> 16]

Bits(colors) ==
  LET bit(c) == IF c \in colors THEN ColorBits[c] ELSE 0
  IN bit("W") + bit("U") + bit("B") + bit("R") + bit("G")

(* color_key: colorless, one color, several.                               *)
ColorKey(colors, deep) ==
  CASE colors = {} -> <<1, 0>>
    [] Cardinality(colors) = 1 -> <<2, Bits(colors)>>
    [] OTHER -> <<3, IF deep THEN Bits(colors) ELSE 0>>

Rarities == <<"common", "uncommon", "rare", "mythic">>

RarityRank(rarity) ==
  IF rarity \in Range(Rarities)
  THEN CHOOSE n \in 0..3 : Rarities[n + 1] = rarity ELSE 99

(* Operator configurations and attributes of cards.                        *)
Operators == {"color_identity", "color", "alphabetical", "rarity", "set",
              "mana_value", "user_value_tier"}

OperatorConfigs == [op : Operators, enabled : BOOLEAN, order : Int,
                    deep : BOOLEAN, split : BOOLEAN]

Colors == DOMAIN ColorBits

Attributes == [name : Int, letter : Int, colors : SUBSET Colors,
               identity : SUBSET Colors, land : BOOLEAN, rarity : STRING,
               set : Int, mana : Int, tier : Int, oracle : Int, print : Int]

(* What an operator adds to the key: one part, or two.                     *)
Parts(o, a) ==
  CASE o.op = "alphabetical" /\ o.deep -> <<<<a.name>>>>
    [] o.op = "alphabetical" /\ ~o.deep -> <<<<a.letter>>, <<a.name>>>>
    [] o.op = "color" /\ ~a.land -> <<ColorKey(a.colors, o.deep)>>
    [] o.op = "color_identity" /\ ~a.land -> <<ColorKey(a.identity, o.deep)>>
    [] o.op \in {"color", "color_identity"} /\ a.land -> <<<<0, 0>>>>
    [] o.op = "rarity" -> <<<<RarityRank(a.rarity)>>>>
    [] o.op = "set" -> <<<<a.set>>>>
    [] o.op = "mana_value" -> <<<<a.mana>>>>
    [] o.op = "user_value_tier" -> <<<<a.tier>>>>

(* build_composite_key, with the three ids at the end.                     *)
CompositeKey(spec, a, id) ==
  LET ops == EnabledInOrder(spec)
  IN FlattenSeq([k \in 1..Len(ops) |-> Parts(ops[k], a)])
     \o <<<<a.oracle>>, <<a.print>>, <<id>>>>

(* Python compares tuples element by element; a key is a tuple of tuples.  *)
Less(k, l) ==
  \E i \in DOMAIN k : (\A j \in 1..(i - 1) : k[j] = l[j]) /\ k[i] < l[i]

KeyLess(k, l) ==
  \E i \in DOMAIN k : (\A j \in 1..(i - 1) : k[j] = l[j]) /\ Less(k[i], l[i])

(* Mutant of SplitAllowed: any operator may be split.                      *)
SplitAnything(spec) == TRUE

(* validate_split_prefix_rule.                                             *)
SplitAllowed(spec) ==
  LET ops == EnabledInOrder(spec)
  IN \A i \in DOMAIN ops : ops[i].split =>
       /\ ops[i].op # "alphabetical"
       /\ \A j \in 1..(i - 1) : ops[j].split

=============================================================================
