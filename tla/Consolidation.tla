---------------------------- MODULE Consolidation ----------------------------
(***************************************************************************)
(* POST consolidate_collection: consolidate_run_into_collection of         *)
(* catalog/upsert.py, called by the threads of the pool while debug_add_   *)
(* card inserts cards, over one SQLite database.                           *)
(*                                                                         *)
(* The ledger is read outside any transaction.  The transaction then       *)
(* folds the cards into the collection with one statement and writes the   *)
(* ledger row with a second one; what the first wrote is the draft of its  *)
(* connection until the commit.  The primary key of the ledger refuses a   *)
(* second row for a run, and the handler rolls back.                       *)
(***************************************************************************)
EXTENDS Naturals, FiniteSets

CONSTANTS
  Workers,            \* threads of the pool
  Cards, Runs, Collections, Prints,
  PrintOf,            \* PrintOf[c]: run_cards.print_id
  CollectionOf,       \* CollectionOf[r]: runs.collection_id
  None,
  MaxCrashes          \* bound: restarts of the process

ASSUME LedgerAssumption ==
  /\ PrintOf \in [Cards -> Prints]
  /\ CollectionOf \in [Runs -> Collections]
  /\ None \notin Runs \cup Cards \cup Workers
  /\ IsFiniteSet(Cards)
  /\ MaxCrashes \in Nat

VARIABLES
  cardRun,            \* table run_cards
  quantity,           \* table collection_cards; no row is a quantity of 0
  ledger,             \* table collection_consolidations: its run ids
  thread,             \* the request a thread serves, and its draft
  lock,               \* the worker whose write transaction is open
  crashes

tables == <<cardRun, quantity, ledger>>
vars == <<tables, thread, lock, crashes>>

Quantities == [Collections -> [Prints -> Nat]]
NoDraft == [k \in Collections |-> [p \in Prints |-> 0]]
Idle == [pc |-> "idle", run |-> None, card |-> None, draft |-> NoDraft]

At(w, pc) == thread[w].pc = pc
Go(w, t) == thread' = [thread EXCEPT ![w] = t]

CardsOfPrint(r, p) == {c \in Cards : cardRun[c] = r /\ PrintOf[c] = p}

(* Mutant of Folded: the conflict clause takes excluded.quantity alone.    *)
Overwritten(r) ==
  [quantity EXCEPT ![CollectionOf[r]] =
     [p \in Prints |-> IF CardsOfPrint(r, p) = {} THEN @[p]
                       ELSE Cardinality(CardsOfPrint(r, p))]]

(* INSERT INTO collection_cards ... GROUP BY print_id ON CONFLICT.         *)
Folded(r) ==
  [quantity EXCEPT ![CollectionOf[r]] =
     [p \in Prints |-> @[p] + Cardinality(CardsOfPrint(r, p))]]

(* Mutant of CanWrite: a writer does not wait for the open transaction.    *)
NeverWaits(w) == TRUE

(* A writer waits until no other write transaction is open.                *)
CanWrite(w) == lock = None

-----------------------------------------------------------------------------
Init ==
  /\ cardRun = [c \in Cards |-> None]
  /\ quantity = NoDraft
  /\ ledger = {}
  /\ thread = [w \in Workers |-> Idle]
  /\ lock = None
  /\ crashes = 0

(* The answer is "not consolidated" if the run is in the ledger.           *)
CheckLedger(w, r) ==
  /\ At(w, "idle")
  /\ Go(w, IF r \in ledger THEN Idle ELSE [Idle EXCEPT !.pc = "fold", !.run = r])
  /\ UNCHANGED <<tables, lock, crashes>>

Fold(w) ==
  /\ At(w, "fold")
  /\ CanWrite(w)
  /\ lock' = w
  /\ Go(w, [thread[w] EXCEPT !.pc = "record", !.draft = Folded(thread[w].run)])
  /\ UNCHANGED <<tables, crashes>>

(* Mutant of KeyFree: INSERT OR REPLACE.                                   *)
AnyKey(r) == TRUE

(* The primary key of the ledger admits a row for run r.                   *)
KeyFree(r) == r \notin ledger

(* The ledger row is inserted and the transaction commits.                 *)
Record(w) ==
  /\ At(w, "record")
  /\ KeyFree(thread[w].run)
  /\ ledger' = ledger \cup {thread[w].run}
  /\ quantity' = thread[w].draft
  /\ lock' = None
  /\ Go(w, Idle)
  /\ UNCHANGED <<cardRun, crashes>>

(* The row is refused: the draft is rolled back, the request fails.        *)
RecordRefused(w) ==
  /\ At(w, "record")
  /\ ~KeyFree(thread[w].run)
  /\ lock' = None
  /\ Go(w, Idle)
  /\ UNCHANGED <<tables, crashes>>

(* debug_add_card, whose transaction stays open while a price is fetched.  *)
AddCard(w, r, c) ==
  /\ At(w, "idle")
  /\ CanWrite(w)
  /\ cardRun[c] = None
  /\ cardRun' = [cardRun EXCEPT ![c] = r]
  /\ UNCHANGED <<quantity, ledger, thread, lock, crashes>>

AddCardFetch(w, r, c) ==
  /\ At(w, "idle")
  /\ CanWrite(w)
  /\ cardRun[c] = None
  /\ lock' = w
  /\ Go(w, [Idle EXCEPT !.pc = "fetch", !.run = r, !.card = c])
  /\ UNCHANGED <<tables, crashes>>

AddCardPriced(w) ==
  /\ At(w, "fetch")
  /\ cardRun' = [cardRun EXCEPT ![thread[w].card] = thread[w].run]
  /\ lock' = None
  /\ Go(w, Idle)
  /\ UNCHANGED <<quantity, ledger, crashes>>

(* Five seconds have passed: "database is locked".                         *)
WriteTimesOut(w) ==
  /\ At(w, "fold")
  /\ ~CanWrite(w)
  /\ Go(w, Idle)
  /\ UNCHANGED <<tables, lock, crashes>>

(* Open transactions are lost with the process.                            *)
Crash ==
  /\ crashes < MaxCrashes                          \* bound
  /\ crashes' = crashes + 1
  /\ thread' = [w \in Workers |-> Idle]
  /\ lock' = None
  /\ UNCHANGED tables

Next ==
  \/ \E w \in Workers :
       \/ \E r \in Runs : \/ CheckLedger(w, r)
                          \/ \E c \in Cards : AddCard(w, r, c) \/ AddCardFetch(w, r, c)
       \/ Fold(w) \/ Record(w) \/ RecordRefused(w) \/ AddCardPriced(w)
       \/ WriteTimesOut(w)
  \/ Crash

Spec == Init /\ [][Next]_vars

-----------------------------------------------------------------------------
TypeOK ==
  /\ cardRun \in [Cards -> Runs \cup {None}]
  /\ quantity \in Quantities
  /\ ledger \in SUBSET Runs
  /\ thread \in [Workers -> [pc : {"idle", "fold", "record", "fetch"},
                             run : Runs \cup {None}, card : Cards \cup {None},
                             draft : Quantities]]
  /\ lock \in Workers \cup {None}
  /\ crashes \in Nat

(* A handler between its statements holds the lock, and until it commits   *)
(* nothing its draft was computed from changes: neither the cards of the   *)
(* run, nor the quantities of the collection.                              *)
DraftCurrent ==
  \A w \in Workers :
    /\ At(w, "fold") => thread[w].run \in Runs
    /\ At(w, "record") => /\ lock = w
                          /\ thread[w].run \in Runs
                          /\ thread[w].draft = Folded(thread[w].run)
    /\ At(w, "fetch") => /\ lock = w
                         /\ thread[w].run \in Runs /\ thread[w].card \in Cards
                         /\ cardRun[thread[w].card] = None

ConsolidationInv == TypeOK /\ DraftCurrent

(* The cards of print p that consolidated runs brought to collection k.    *)
Brought(k, p) ==
  {c \in Cards : /\ PrintOf[c] = p
                 /\ cardRun[c] \in ledger
                 /\ CollectionOf[cardRun[c]] = k}

(* Double consolidation never adds twice: a collection counts no more      *)
(* copies of a print than consolidated runs have cards of it, however      *)
(* calls for one run overlap, fail and are repeated                        *)
(* (docs/canonical/architecture.md, section 8).                            *)
NothingCountedTwice ==
  \A k \in Collections, p \in Prints :
    quantity[k][p] <= Cardinality(Brought(k, p))

(* The handler keeps the promise of CollectionLedger: seen through the     *)
(* committed tables, a call consolidates its run whole and in one step, or *)
(* does nothing.                                                           *)
Promise ==
  INSTANCE CollectionLedger WITH
    cardRun <- cardRun, quantity <- quantity, ledger <- ledger

KeepsPromise == Promise!Spec

=============================================================================
