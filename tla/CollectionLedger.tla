-------------------------- MODULE CollectionLedger --------------------------
(***************************************************************************)
(* What the collection promises: cards arrive in runs, and the cards of a  *)
(* run are added to its collection in one step, at most once.              *)
(***************************************************************************)
EXTENDS Naturals, FiniteSets

CONSTANTS
  Cards, Runs, Collections, Prints,
  PrintOf,            \* PrintOf[c]: the print of card c
  CollectionOf,       \* CollectionOf[r]: the collection run r belongs to
  None

VARIABLES
  cardRun,            \* the run of a card, None before its arrival
  quantity,           \* copies of a print in a collection
  ledger              \* runs whose cards have been added

vars == <<cardRun, quantity, ledger>>

(* The copies of print p among the cards of run r.                         *)
Copies(r, p) == Cardinality({c \in Cards : cardRun[c] = r /\ PrintOf[c] = p})

Init ==
  /\ cardRun = [c \in Cards |-> None]
  /\ quantity = [k \in Collections |-> [p \in Prints |-> 0]]
  /\ ledger = {}

Arrive(c, r) ==
  /\ cardRun[c] = None
  /\ cardRun' = [cardRun EXCEPT ![c] = r]
  /\ UNCHANGED <<quantity, ledger>>

Consolidate(r) ==
  /\ r \notin ledger
  /\ ledger' = ledger \cup {r}
  /\ quantity' = [k \in Collections |-> [p \in Prints |->
                    IF k = CollectionOf[r] THEN quantity[k][p] + Copies(r, p)
                                           ELSE quantity[k][p]]]
  /\ UNCHANGED cardRun

Next == \E r \in Runs : Consolidate(r) \/ \E c \in Cards : Arrive(c, r)

Spec == Init /\ [][Next]_vars

=============================================================================
