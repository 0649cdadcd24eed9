------------------------------- MODULE Planner -------------------------------
(***************************************************************************)
(* The movement planner (shared/talence_shared/planner/plan.py) as pure    *)
(* operators.  A configuration cfg stands for one call of generate_plan:   *)
(*   cfg.bins          all_bins, in the order of the request, no repeats   *)
(*   cfg.capacity      capacity_by_bin; a bin without an entry has none    *)
(*   cfg.input, cfg.unrecognized    the system bins                        *)
(*   cfg.spec, cfg.attrs    the sort specification, attributes of a card   *)
(*   cfg.identified    the set of identified cards                         *)
(*   cfg.pinned        attrs["pinned_bin"] of a card, None if it has none  *)
(* Sets of bins are gone through in the order of the request.              *)
(***************************************************************************)
EXTENDS SortKey

CONSTANTS None, Infeasible

(* The identified cards of S by composite key; the key ends with the       *)
(* instance id, so no two cards compare equal.                             *)
Ordered(cfg, S) ==
  LET cards == S \cap cfg.identified
      key == [c \in cards |-> CompositeKey(cfg.spec, cfg.attrs[c], c)]
  IN Sorted(cards, {p \in cards \X cards : KeyLess(key[p[1]], key[p[2]])})

(* The first bin of the request in B.                                      *)
First(cfg, B) == cfg.bins[Min({i \in DOMAIN cfg.bins : cfg.bins[i] \in B})]

Available(cfg) == Range(cfg.bins) \ {cfg.unrecognized}

CapacityOf(cfg, b) ==
  IF b \in DOMAIN cfg.capacity THEN cfg.capacity[b] ELSE 0

(* The bins provision_bins may fill.                                       *)
Provisionable(cfg) == {b \in Available(cfg) : CapacityOf(cfg, b) > 0}

TotalCapacity(cfg) ==
  LET sum[i \in 0..Len(cfg.bins)] ==
        IF i = 0 THEN 0
        ELSE sum[i - 1] + (IF cfg.bins[i] \in Provisionable(cfg)
                           THEN CapacityOf(cfg, cfg.bins[i]) ELSE 0)
  IN sum[Len(cfg.bins)]

(* How many of the cards after the i-th are pinned to bin b.               *)
PinnedAfter(cfg, cards, i, b) ==
  Cardinality({j \in (i + 1)..Len(cards) : cfg.pinned[cards[j]] = b})

(* The checks made before any card is placed.                              *)
CanProvision(cfg, cards) ==
  /\ TotalCapacity(cfg) >= Len(cards)
  /\ \A c \in Range(cards) : cfg.pinned[c] \in {None} \cup Provisionable(cfg)
  /\ \A b \in Provisionable(cfg) :
       PinnedAfter(cfg, cards, 0, b) <= CapacityOf(cfg, b)

(* Mutant of BinFor: no room is kept for the pinned cards to come.         *)
FirstBinWithRoom(cfg, cards, dest, i) ==
  LET pin == cfg.pinned[cards[i]]
      room(b) == CapacityOf(cfg, b) - Len(dest[b])
      fitting == {b \in Provisionable(cfg) : room(b) > 0}
  IN IF pin # None THEN IF room(pin) > 0 THEN pin ELSE None
     ELSE IF fitting = {} THEN None ELSE First(cfg, fitting)

(* Mutant of BinFor: off by one, `free < 0` for `free <= 0`.               *)
BinNotYetOverfull(cfg, cards, dest, i) ==
  IF cfg.pinned[cards[i]] # None THEN cfg.pinned[cards[i]]
  ELSE First(cfg, {b \in Provisionable(cfg) : Len(dest[b]) <= CapacityOf(cfg, b)})

(* Where the i-th card goes: to its pinned bin, or to the first bin that   *)
(* keeps room for the cards still to come that are pinned to it.  Without  *)
(* pins this fills the bins one after the other, which is also what the    *)
(* loop over split segments does: a segment starts in the bin where the    *)
(* one before it ended.                                                    *)
BinFor(cfg, cards, dest, i) ==
  LET pin == cfg.pinned[cards[i]]
      room(b) == CapacityOf(cfg, b) - Len(dest[b])
      fitting == {b \in Provisionable(cfg) :
                    /\ room(b) > 0
                    /\ room(b) - 1 >= PinnedAfter(cfg, cards, i, b)}
  IN IF pin # None THEN IF room(pin) > 0 THEN pin ELSE None
     ELSE IF fitting = {} THEN None ELSE First(cfg, fitting)

(* The i-th card is placed, or the request refused.                        *)
Place(cfg, cards, dest, i) ==
  LET b == BinFor(cfg, cards, dest, i)
  IN IF dest = Infeasible \/ b = None THEN Infeasible
     ELSE [dest EXCEPT ![b] = Append(@, cards[i])]

(* provision_bins: the final content of each bin, or Infeasible.           *)
Provision(cfg, cards) ==
  LET fill[i \in 0..Len(cards)] ==
        IF i = 0 THEN [b \in Provisionable(cfg) |-> <<>>]
        ELSE Place(cfg, cards, fill[i - 1], i)
  IN IF CanProvision(cfg, cards) THEN fill[Len(cards)] ELSE Infeasible

UsedBins(cfg, dest) == {b \in Provisionable(cfg) : dest[b] # <<>>}

(* Mutant of StagingBin: an index where a bin id is due.                   *)
StagingIndex(cfg, dest) == 0

(* The bin to stage on: the first no card ends in, else the input bin,     *)
(* whether or not cards end in it; None if that is the unrecognized bin.   *)
StagingBin(cfg, dest) ==
  LET unused == Available(cfg) \ UsedBins(cfg, dest)
  IN IF unused # {} THEN First(cfg, unused)
     ELSE IF cfg.input # cfg.unrecognized THEN cfg.input ELSE None

ExtractFrom == -1

(* Mutant of MovesInto: the dump is not reversed.                          *)
MovesUnreversed(b, final, stage) ==
  [i \in 1..Len(final) |-> [card |-> final[i], from |-> ExtractFrom, to |-> stage]]
  \o [i \in 1..Len(final) |-> [card |-> final[i], from |-> stage, to |-> b]]

(* Mutant of MovesInto: the extraction is reversed as well.                *)
MovesReversedTwice(b, final, stage) ==
  [i \in 1..Len(final) |->
     [card |-> Reverse(final)[i], from |-> ExtractFrom, to |-> stage]]
  \o [i \in 1..Len(final) |-> [card |-> final[i], from |-> stage, to |-> b]]

(* plan_moves_correctness_first for one bin: every card is extracted onto  *)
(* the staging bin, then the staging bin is dumped.                        *)
MovesInto(b, final, stage) ==
  [i \in 1..Len(final) |-> [card |-> final[i], from |-> ExtractFrom, to |-> stage]]
  \o [i \in 1..Len(final) |->
        [card |-> Reverse(final)[i], from |-> stage, to |-> b]]

(* What is left of generate_plan when the cards have been provisioned.     *)
MovesOf(cfg, dest) ==
  LET stage == StagingBin(cfg, dest)
      used == UsedBins(cfg, dest)
  IN IF ~SplitAllowed(cfg.spec) \/ dest = Infeasible THEN Infeasible
     ELSE IF used # {} /\ stage = None THEN Infeasible
     ELSE FlattenSeq([i \in DOMAIN cfg.bins |->
                        IF cfg.bins[i] \in used
                        THEN MovesInto(cfg.bins[i], dest[cfg.bins[i]], stage)
                        ELSE <<>>])

GeneratePlan(cfg, S) == MovesOf(cfg, Provision(cfg, Ordered(cfg, S)))

=============================================================================
