------------------------------ MODULE BinStacks ------------------------------
(***************************************************************************)
(* A movement plan carried out by a robot whose bins are LIFO stacks       *)
(* (docs/canonical/architecture.md, section 2).  The planner is module     *)
(* Planner; the robot is external: the repository only logs its moves, and *)
(* says of an extraction that the robot finds the card by its id, of any   *)
(* other move only the bins.                                               *)
(***************************************************************************)
EXTENDS Planner

CONSTANTS Cards, Configs   \* Configs: the calls of generate_plan to try

BinSet(g) == Range(g.bins) \cup {g.input, g.unrecognized}

(* A call generate_plan can work on.  The ids of cards order as texts do;  *)
(* the sentinel of an extraction is not the id of a bin.                   *)
WellFormed(g) ==
  /\ g.bins \in Seq(Int) /\ IsInjective(g.bins)
  /\ g.capacity \in [DOMAIN g.capacity -> Int]
  /\ g.input \in Int /\ g.unrecognized \in Int
  /\ ExtractFrom \notin BinSet(g)
  /\ g.spec \in Seq(OperatorConfigs)
  /\ g.attrs \in [Cards -> Attributes]
  /\ g.identified \subseteq Cards
  /\ g.pinned \in [Cards -> Int \cup {None}]

ASSUME PlanningAssumption ==
  /\ IsFiniteSet(Cards) /\ Cards \subseteq Int
  /\ None \notin Int
  /\ \A g \in Configs : /\ WellFormed(g)
                        /\ Infeasible \notin [Provisionable(g) -> Seq(Cards)]

VARIABLES cfg, cards, dest,   \* the call; ordered_with_keys, dest_sequences
          moves, stacks, done

vars == <<cfg, cards, dest, moves, stacks, done>>

(* All cards were scanned into the input bin, top first, in some order.    *)
Scanned(g) ==
  [b \in BinSet(g) |-> IF b = g.input THEN SetToSeq(Cards) ELSE <<>>]

Init ==
  /\ cfg \in Configs
  /\ cards = Ordered(cfg, Cards)
  /\ dest = Provision(cfg, cards)
  /\ moves = <<>>
  /\ stacks = Scanned(cfg)
  /\ done = -1

(* POST plan; an infeasible plan ends the matter.                          *)
MakePlan ==
  /\ done = -1
  /\ MovesOf(cfg, dest) # Infeasible
  /\ moves' = MovesOf(cfg, dest)
  /\ done' = 0
  /\ UNCHANGED <<cfg, cards, dest, stacks>>

Push(b, c, st) == [st EXCEPT ![b] = <<c>> \o @]

(* Extraction: the robot digs the card out of the stack it is in.          *)
Extract ==
  /\ done \in 0..(Len(moves) - 1)
  /\ LET m == moves[done + 1] IN
        /\ m.from = ExtractFrom
        /\ \E b \in DOMAIN stacks : \E k \in DOMAIN stacks[b] :
             /\ stacks[b][k] = m.card
             /\ stacks' = Push(m.to, m.card,
                               [stacks EXCEPT ![b] = RemoveAt(@, k)])
  /\ done' = done + 1
  /\ UNCHANGED <<cfg, cards, dest, moves>>

(* Any other move takes what lies on top of the bin.                       *)
Transfer ==
  /\ done \in 0..(Len(moves) - 1)
  /\ LET m == moves[done + 1] IN
        /\ m.from # ExtractFrom
        /\ stacks[m.from] # <<>>
        /\ stacks' = Push(m.to, Head(stacks[m.from]),
                          [stacks EXCEPT ![m.from] = Tail(@)])
  /\ done' = done + 1
  /\ UNCHANGED <<cfg, cards, dest, moves>>

Next == MakePlan \/ Extract \/ Transfer

Spec == Init /\ [][Next]_vars

-----------------------------------------------------------------------------
(* The moves name cards and bins of the request, and the stacks hold cards *)
(* (generate_plan, and the robot that carries its moves out).              *)
TypeOK ==
  /\ cards \in Seq(Cards)
  /\ dest = Infeasible \/ dest \in [Provisionable(cfg) -> Seq(Cards)]
  /\ \A i \in DOMAIN moves :
       /\ moves[i].card \in Cards
       /\ moves[i].from \in BinSet(cfg) \cup {ExtractFrom}
       /\ moves[i].to \in BinSet(cfg)
  /\ stacks \in [BinSet(cfg) -> Seq(Cards)]
  /\ done \in -1..Len(moves)

(* An assignment of the identified cards to bins that respects capacities, *)
(* pins and the exclusion of the unrecognized bin.                         *)
Assignments ==
  {f \in [Range(cards) -> Provisionable(cfg)] :
     /\ \A c \in DOMAIN f : cfg.pinned[c] \in {None, f[c]}
     /\ \A b \in Provisionable(cfg) :
          Cardinality({c \in DOMAIN f : f[c] = b}) <= cfg.capacity[b]}

(* What was computed is looked at once, before the plan is made.           *)
Asked == done = -1

(* provision_bins finds an assignment whenever there is one: the greedy    *)
(* loop that keeps room for pinned cards never paints itself into a        *)
(* corner, so its "Unable to place" error cannot occur.                    *)
ProvisionComplete == Asked /\ Assignments # {} => dest # Infeasible

(* And what it finds is one: every identified card in exactly one bin,     *)
(* within the capacities, pinned cards in their bins.                      *)
ProvisionSound ==
  Asked /\ dest # Infeasible =>
    \E f \in Assignments :
      \A b \in DOMAIN dest :
        /\ Range(dest[b]) = {c \in DOMAIN f : f[c] = b}
        /\ Len(dest[b]) = Cardinality(Range(dest[b]))

EnabledAt(g) == {i \in DOMAIN g.spec : g.spec[i].enabled}

(* Card c comes before d: the first operator, by its order, that tells     *)
(* them apart says so.                                                     *)
Precedes(g, c, d) ==
  LET before(i, j) == \/ g.spec[i].order < g.spec[j].order
                      \/ g.spec[i].order = g.spec[j].order /\ i < j
      value(i, e) == Parts(g.spec[i], g.attrs[e])
  IN \E i \in EnabledAt(g) :
       /\ KeyLess(value(i, c), value(i, d))
       /\ \A j \in EnabledAt(g) : before(j, i) => value(j, c) = value(j, d)

(* No operator tells the cards apart.                                      *)
Tied(g, c, d) ==
  \A i \in EnabledAt(g) :
    Parts(g.spec[i], g.attrs[c]) = Parts(g.spec[i], g.attrs[d])

(* docs/canonical/operators.md, section 1.1, and architecture.md: sorting  *)
(* uses the aggregate key across enabled operators in order.  Read top to  *)
(* bottom, every bin is in that order, and without pins the bins one after *)
(* the other are the sorted cards.  Of cards that no operator tells apart  *)
(* nothing is said: there the code departs from section 4 of operators.md. *)
BinsSorted ==
  Asked /\ dest # Infeasible =>
    /\ \A b \in DOMAIN dest : \A i, j \in DOMAIN dest[b] :
         i < j => \/ Precedes(cfg, dest[b][i], dest[b][j])
                  \/ Tied(cfg, dest[b][i], dest[b][j])
    /\ (\A c \in Cards : cfg.pinned[c] = None) =>
         FlattenSeq([i \in DOMAIN cfg.bins |->
                       IF cfg.bins[i] \in DOMAIN dest
                       THEN dest[cfg.bins[i]] ELSE <<>>]) = cards

(* What the split operators say of card c.                                 *)
GroupOf(g, c) ==
  [i \in {j \in DOMAIN g.spec : g.spec[j].enabled /\ g.spec[j].split} |->
     Parts(g.spec[i], g.attrs[c])]

(* docs/canonical/operators.md, section 3.6: groups that share a bin stay  *)
(* contiguous in it, without interleaving.  The bins of a plan that was    *)
(* made keep every group of the split operators together, pins or not,     *)
(* because splitting is allowed only for a prefix of the operators         *)
(* (validate_split_prefix_rule).                                           *)
GroupsTogether ==
  done = 0 =>
    \A b \in DOMAIN dest : \A i, j, k \in DOMAIN dest[b] :
      i < j /\ j < k /\ GroupOf(cfg, dest[b][i]) = GroupOf(cfg, dest[b][k])
        => GroupOf(cfg, dest[b][j]) = GroupOf(cfg, dest[b][i])

(* A move out of the staging bin finds the planned card on top.            *)
TopIsPlannedCard ==
  done \in 0..(Len(moves) - 1) =>
    LET m == moves[done + 1]
    IN m.from # ExtractFrom =>
         stacks[m.from] # <<>> /\ Head(stacks[m.from]) = m.card

(* When the plan is carried out, the upper part of every destination bin   *)
(* is the sequence the plan announced.                                     *)
PlacedAsAnnounced ==
  done = Len(moves) =>
    \A b \in DOMAIN dest : IsPrefix(dest[b], stacks[b])

=============================================================================
