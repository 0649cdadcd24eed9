------------------------ MODULE ConsolidationProofs ------------------------
(***************************************************************************)
(* Theorems about Consolidation: the handler keeps the promise of          *)
(* CollectionLedger, and no card is counted twice, for any number of       *)
(* threads, runs, collections and crashes.                                 *)
(***************************************************************************)
EXTENDS Consolidation, FiniteSetTheorems, TLAPS

(* A row of the thread table is what a step has put there.                 *)
LEMMA GoUpdates ==
  ASSUME TypeOK, NEW w \in Workers, NEW t, Go(w, t)
  PROVE  \A v \in Workers : thread'[v] = IF v = w THEN t ELSE thread[v]
BY DEF Go, TypeOK

(* The counts that a fold adds are natural numbers.                        *)
LEMMA CountsAreNat ==
  \A r, p : Cardinality(CardsOfPrint(r, p)) \in Nat
<1> SUFFICES ASSUME NEW r, NEW p
             PROVE  Cardinality(CardsOfPrint(r, p)) \in Nat
  OBVIOUS
<1>1. CardsOfPrint(r, p) \in SUBSET Cards
  BY DEF CardsOfPrint
<1> QED BY <1>1, LedgerAssumption, FS_Subset, FS_CardinalityType

(* A fold adds the copies of every print to the collection of the run and  *)
(* leaves the other collections alone.                                     *)
LEMMA FoldAdds ==
  ASSUME TypeOK, NEW r \in Runs
  PROVE  /\ Folded(r) \in Quantities
         /\ \A k \in Collections, p \in Prints :
              Folded(r)[k][p] = IF k = CollectionOf[r]
                                THEN quantity[k][p] + Cardinality(CardsOfPrint(r, p))
                                ELSE quantity[k][p]
<1>1. CollectionOf[r] \in Collections /\ quantity \in [Collections -> [Prints -> Nat]]
  BY LedgerAssumption DEF TypeOK, Quantities
<1> DEFINE row == [p \in Prints |-> quantity[CollectionOf[r]][p]
                                      + Cardinality(CardsOfPrint(r, p))]
<1>2. row \in [Prints -> Nat]
  BY <1>1, CountsAreNat
<1>3. Folded(r) = [quantity EXCEPT ![CollectionOf[r]] = row]
  BY DEF Folded
<1>r. \A p \in Prints : row[p] = quantity[CollectionOf[r]][p]
                                 + Cardinality(CardsOfPrint(r, p))
  OBVIOUS
<1> HIDE DEF row
<1>4. Folded(r) \in Quantities
  BY <1>1, <1>2, <1>3 DEF Quantities
<1>5. \A k \in Collections : Folded(r)[k] = IF k = CollectionOf[r] THEN row ELSE quantity[k]
  BY <1>1, <1>3
<1> QED BY <1>r, <1>4, <1>5

(* The idle thread and its draft are well typed.                           *)
LEMMA IdleType ==
  /\ NoDraft \in Quantities
  /\ Idle.pc = "idle" /\ Idle.run = None /\ Idle.card = None /\ Idle.draft = NoDraft
BY DEF Idle, NoDraft, Quantities

-----------------------------------------------------------------------------
LEMMA InitInv == Init => ConsolidationInv
<1> SUFFICES ASSUME Init PROVE ConsolidationInv
  OBVIOUS
<1>1. TypeOK
  BY IdleType DEF Init, TypeOK, Idle
<1>2. DraftCurrent
  BY IdleType DEF Init, DraftCurrent, At
<1> QED BY <1>1, <1>2 DEF ConsolidationInv

(* While a transaction is open nobody else writes, so that its draft stays *)
(* current; every step keeps the invariant.                                *)
LEMMA StepInv == ConsolidationInv /\ [Next]_vars => ConsolidationInv'
<1> SUFFICES ASSUME ConsolidationInv, [Next]_vars
             PROVE  ConsolidationInv'
  OBVIOUS
<1> USE DEF ConsolidationInv
<1> DEFINE Row == [pc : {"idle", "fold", "record", "fetch"},
                   run : Runs \cup {None}, card : Cards \cup {None},
                   draft : Quantities]
<1>0. Idle \in Row /\ thread \in [Workers -> Row]
  BY IdleType DEF Idle, TypeOK
<1>a. None \notin Workers
  BY LedgerAssumption
<1>1. ASSUME NEW w \in Workers, NEW r \in Runs, CheckLedger(w, r)
      PROVE  ConsolidationInv'
  <2> DEFINE t == IF r \in ledger THEN Idle ELSE [Idle EXCEPT !.pc = "fold", !.run = r]
  <2>1. t \in Row /\ (t.pc = "idle" \/ (t.pc = "fold" /\ t.run = r))
    BY <1>0, IdleType DEF Idle
  <2>2. \A v \in Workers : thread'[v] = IF v = w THEN t ELSE thread[v]
    BY <1>1, GoUpdates DEF CheckLedger
  <2>3. UNCHANGED <<cardRun, quantity, ledger, lock, crashes>>
    BY <1>1 DEF CheckLedger, tables
  <2>4. thread' \in [Workers -> Row]
    BY <1>0, <1>1, <2>1 DEF CheckLedger, Go
  <2> HIDE DEF t
  <2>5. TypeOK'
    BY <2>3, <2>4 DEF TypeOK
  <2>6. DraftCurrent'
    BY <2>1, <2>2, <2>3 DEF DraftCurrent, At, Folded, CardsOfPrint
  <2> QED BY <2>5, <2>6
<1>2. ASSUME NEW w \in Workers, Fold(w)
      PROVE  ConsolidationInv'
  <2> PICK r \in Runs : r = thread[w].run
    BY <1>2 DEF Fold, DraftCurrent, At
  <2> DEFINE t == [thread[w] EXCEPT !.pc = "record", !.draft = Folded(r)]
  <2>2. t \in Row /\ t.pc = "record" /\ t.run = r /\ t.draft = Folded(r)
    <3>1. thread[w] \in Row /\ Folded(r) \in Quantities
      BY <1>0, FoldAdds
    <3> QED BY <3>1
  <2>3. \A v \in Workers : thread'[v] = IF v = w THEN t ELSE thread[v]
    BY <1>2, GoUpdates DEF Fold
  <2>4. /\ UNCHANGED <<cardRun, quantity, ledger, crashes>>
        /\ lock = None /\ lock' = w
    BY <1>2 DEF Fold, tables, CanWrite
  <2>5. thread' \in [Workers -> Row]
    BY <1>0, <1>2, <2>2 DEF Fold, Go
  <2> HIDE DEF t
  <2>6. TypeOK'
    BY <2>4, <2>5 DEF TypeOK
  <2>7. Folded(r)' = Folded(r)
    BY <2>4 DEF Folded, CardsOfPrint
  <2>8. DraftCurrent'
    BY <1>a, <2>2, <2>3, <2>4, <2>7 DEF DraftCurrent, At
  <2> QED BY <2>6, <2>8
<1>3. ASSUME NEW w \in Workers, At(w, "record") \/ At(w, "fetch"),
             Go(w, Idle), lock' = None, crashes' = crashes,
             cardRun' \in [Cards -> Runs \cup {None}],
             quantity' \in Quantities, ledger' \in SUBSET Runs
      PROVE  ConsolidationInv'
  <2>1. lock = w
    BY <1>3 DEF DraftCurrent
  <2>2. \A v \in Workers : thread'[v] = IF v = w THEN Idle ELSE thread[v]
    BY <1>3, GoUpdates
  <2>3. thread' \in [Workers -> Row]
    BY <1>0, <1>3 DEF Go
  <2>4. TypeOK'
    BY <1>3, <2>3 DEF TypeOK
  <2>5. DraftCurrent'
    BY <2>1, <2>2, IdleType DEF DraftCurrent, At
  <2> QED BY <2>4, <2>5
<1>4. ASSUME NEW w \in Workers, Record(w)
      PROVE  ConsolidationInv'
  <2>1. thread[w].run \in Runs /\ thread[w].draft \in Quantities
    BY <1>0, <1>4 DEF Record, DraftCurrent, At
  <2> QED BY <1>3, <1>4, <2>1 DEF Record, TypeOK
<1>5. ASSUME NEW w \in Workers, RecordRefused(w)
      PROVE  ConsolidationInv'
  BY <1>3, <1>5 DEF RecordRefused, TypeOK, tables
<1>6. ASSUME NEW w \in Workers, AddCardPriced(w)
      PROVE  ConsolidationInv'
  <2>1. thread[w].run \in Runs /\ thread[w].card \in Cards
    BY <1>6 DEF AddCardPriced, DraftCurrent, At
  <2> QED BY <1>3, <1>6, <2>1 DEF AddCardPriced, TypeOK
<1>7. ASSUME NEW w \in Workers, NEW r \in Runs, NEW c \in Cards, AddCard(w, r, c)
      PROVE  ConsolidationInv'
  <2>1. TypeOK'
    BY <1>7 DEF AddCard, TypeOK
  <2>2. lock = None /\ UNCHANGED <<thread, lock>>
    BY <1>7 DEF AddCard, CanWrite
  <2>3. DraftCurrent'
    BY <1>a, <2>2 DEF DraftCurrent, At
  <2> QED BY <2>1, <2>3
<1>8. ASSUME NEW w \in Workers, NEW r \in Runs, NEW c \in Cards, AddCardFetch(w, r, c)
      PROVE  ConsolidationInv'
  <2> DEFINE t == [Idle EXCEPT !.pc = "fetch", !.run = r, !.card = c]
  <2>1. t \in Row /\ t.pc = "fetch" /\ t.run = r /\ t.card = c
    BY <1>0, IdleType DEF Idle
  <2>2. \A v \in Workers : thread'[v] = IF v = w THEN t ELSE thread[v]
    BY <1>8, GoUpdates DEF AddCardFetch
  <2>3. /\ UNCHANGED <<cardRun, quantity, ledger, crashes>>
        /\ lock = None /\ lock' = w /\ cardRun[c] = None
    BY <1>8 DEF AddCardFetch, tables, CanWrite
  <2>4. thread' \in [Workers -> Row]
    BY <1>0, <1>8, <2>1 DEF AddCardFetch, Go
  <2> HIDE DEF t
  <2>5. TypeOK'
    BY <2>3, <2>4 DEF TypeOK
  <2>6. DraftCurrent'
    BY <1>a, <2>1, <2>2, <2>3 DEF DraftCurrent, At, Folded, CardsOfPrint
  <2> QED BY <2>5, <2>6
<1>9. ASSUME NEW w \in Workers, WriteTimesOut(w)
      PROVE  ConsolidationInv'
  <2>1. \A v \in Workers : thread'[v] = IF v = w THEN Idle ELSE thread[v]
    BY <1>9, GoUpdates DEF WriteTimesOut
  <2>2. UNCHANGED <<cardRun, quantity, ledger, lock, crashes>>
    BY <1>9 DEF WriteTimesOut, tables
  <2>3. thread' \in [Workers -> Row]
    BY <1>0, <1>9 DEF WriteTimesOut, Go
  <2>4. TypeOK'
    BY <2>2, <2>3 DEF TypeOK
  <2>5. DraftCurrent'
    BY <2>1, <2>2, IdleType DEF DraftCurrent, At, Folded, CardsOfPrint
  <2> QED BY <2>4, <2>5
<1>10. ASSUME Crash
       PROVE  ConsolidationInv'
  <2>1. \A v \in Workers : thread'[v] = Idle
    BY <1>10 DEF Crash
  <2>2. TypeOK'
    BY <1>0, <1>10 DEF Crash, TypeOK, tables
  <2>3. DraftCurrent'
    BY <2>1, IdleType DEF DraftCurrent, At
  <2> QED BY <2>2, <2>3
<1>11. ASSUME UNCHANGED vars
       PROVE  ConsolidationInv'
  BY <1>11 DEF vars, tables, TypeOK, DraftCurrent, At, Folded, CardsOfPrint
<1> QED BY <1>1, <1>2, <1>4, <1>5, <1>6, <1>7, <1>8, <1>9, <1>10, <1>11 DEF Next

(* A draft is never stale: between its statements a handler holds the      *)
(* lock, and what its draft was computed from does not change.             *)
THEOREM DraftsCurrent == Spec => []ConsolidationInv
BY InitInv, StepInv, PTL DEF Spec

-----------------------------------------------------------------------------
(* Cardinality is the same operator on both sides.                         *)
LEMMA SameCopies ==
  ASSUME NEW r, NEW p
  PROVE  Promise!Copies(r, p) = Cardinality(CardsOfPrint(r, p))
<1>1. \A S : Promise!Cardinality(S) = Cardinality(S)
  BY DEF Promise!Cardinality, Cardinality
<1> QED BY <1>1 DEF Promise!Copies, CardsOfPrint

(* The promise starts as the handler does.                                 *)
LEMMA InitPromised == Init => Promise!Init
BY DEF Init, Promise!Init, NoDraft

(* A commit consolidates its run in one step of the promise, a new card    *)
(* arrives, and no other step is seen through the committed tables.        *)
LEMMA StepPromised ==
  ConsolidationInv /\ [Next]_vars => [Promise!Next]_(Promise!vars)
<1> SUFFICES ASSUME ConsolidationInv, [Next]_vars
             PROVE  [Promise!Next]_(Promise!vars)
  OBVIOUS
<1> USE DEF ConsolidationInv
<1>1. ASSUME NEW w \in Workers, Record(w)
      PROVE  Promise!Next
  <2> PICK r \in Runs : r = thread[w].run
    BY <1>1 DEF Record, DraftCurrent, At
  <2>1. /\ quantity' = Folded(r) /\ ledger' = ledger \cup {r}
        /\ r \notin ledger /\ cardRun' = cardRun
    BY <1>1 DEF Record, KeyFree, DraftCurrent, At
  <2>2. \A p : Promise!Copies(r, p) = Cardinality(CardsOfPrint(r, p))
    BY SameCopies
  <2>3. quantity' = [k \in Collections |-> [p \in Prints |->
                       IF k = CollectionOf[r]
                       THEN quantity[k][p] + Promise!Copies(r, p)
                       ELSE quantity[k][p]]]
    BY <2>1, <2>2, FoldAdds DEF Quantities
  <2>4. Promise!Consolidate(r)
    BY <2>1, <2>3 DEF Promise!Consolidate
  <2> QED BY <2>4 DEF Promise!Next
<1>2. ASSUME NEW w \in Workers, AddCardPriced(w)
      PROVE  Promise!Next
  <2> PICK r \in Runs, c \in Cards : r = thread[w].run /\ c = thread[w].card
    BY <1>2 DEF AddCardPriced, DraftCurrent, At
  <2>1. Promise!Arrive(c, r)
    BY <1>2 DEF AddCardPriced, DraftCurrent, At, Promise!Arrive
  <2> QED BY <2>1 DEF Promise!Next
<1>3. ASSUME NEW w \in Workers, NEW r \in Runs, NEW c \in Cards, AddCard(w, r, c)
      PROVE  Promise!Next
  <2>1. Promise!Arrive(c, r)
    BY <1>3 DEF AddCard, Promise!Arrive
  <2> QED BY <2>1 DEF Promise!Next
<1>4. ASSUME NEW w \in Workers,
             \/ \E r \in Runs : CheckLedger(w, r) \/ \E c \in Cards : AddCardFetch(w, r, c)
             \/ Fold(w) \/ RecordRefused(w) \/ WriteTimesOut(w)
      PROVE  UNCHANGED Promise!vars
  BY <1>4 DEF CheckLedger, AddCardFetch, Fold, RecordRefused, WriteTimesOut,
              tables, Promise!vars
<1>5. ASSUME Crash \/ UNCHANGED vars
      PROVE  UNCHANGED Promise!vars
  BY <1>5 DEF Crash, vars, tables, Promise!vars
<1> QED BY <1>1, <1>2, <1>3, <1>4, <1>5 DEF Next

(* consolidate_run_into_collection, for all its reads outside the          *)
(* transaction, is atomic and happens at most once for a run.              *)
THEOREM PromiseKept == Spec => KeepsPromise
<1>1. Spec => []ConsolidationInv
  BY DraftsCurrent
<1> QED BY <1>1, InitPromised, StepPromised, PTL DEF Spec, KeepsPromise, Promise!Spec

-----------------------------------------------------------------------------
(* Whatever keeps the promise counts no card twice.                        *)
LEMMA StepCounts ==
  ASSUME TypeOK, NothingCountedTwice, [Promise!Next]_(Promise!vars)
  PROVE  NothingCountedTwice'
<1> SUFFICES ASSUME NEW k \in Collections, NEW p \in Prints
             PROVE  quantity'[k][p] <= Cardinality(Brought(k, p)')
  BY DEF NothingCountedTwice
<1>0. /\ cardRun \in [Cards -> Runs \cup {None}] /\ None \notin ledger
      /\ quantity[k][p] \in Nat /\ quantity[k][p] <= Cardinality(Brought(k, p))
  BY LedgerAssumption DEF TypeOK, Quantities, NothingCountedTwice
<1>1. \A S \in SUBSET Cards : IsFiniteSet(S) /\ Cardinality(S) \in Nat
  BY LedgerAssumption, FS_Subset, FS_CardinalityType
<1>2. Brought(k, p) \in SUBSET Cards /\ Brought(k, p)' \in SUBSET Cards
  BY DEF Brought
<1>3. ASSUME Brought(k, p) \subseteq Brought(k, p)', quantity'[k][p] = quantity[k][p]
      PROVE  quantity'[k][p] <= Cardinality(Brought(k, p)')
  <2>1. Cardinality(Brought(k, p)) <= Cardinality(Brought(k, p)')
    BY <1>1, <1>2, <1>3, FS_Subset
  <2> QED BY <1>0, <1>1, <1>2, <1>3, <2>1
<1>4. ASSUME NEW r \in Runs, Promise!Consolidate(r)
      PROVE  quantity'[k][p] <= Cardinality(Brought(k, p)')
  <2> DEFINE new == CardsOfPrint(r, p)
  <2>1. /\ ledger' = ledger \cup {r} /\ r \notin ledger /\ cardRun' = cardRun
        /\ quantity'[k][p] = IF k = CollectionOf[r]
                             THEN quantity[k][p] + Cardinality(new)
                             ELSE quantity[k][p]
    BY <1>4, SameCopies DEF Promise!Consolidate
  <2>2. CASE k # CollectionOf[r]
    <3>1. Brought(k, p) \subseteq Brought(k, p)'
      BY <2>1 DEF Brought
    <3> QED BY <1>3, <2>1, <2>2, <3>1
  <2>3. CASE k = CollectionOf[r]
    <3>1. /\ new \in SUBSET Cards /\ Brought(k, p) \cap new = {}
          /\ Brought(k, p)' = Brought(k, p) \cup new
      BY <2>1, <2>3 DEF Brought, CardsOfPrint
    <3>2. Cardinality(Brought(k, p)')
            = Cardinality(Brought(k, p)) + Cardinality(new) - Cardinality({})
      BY <1>1, <1>2, <3>1, FS_Union
    <3> HIDE DEF new
    <3>3. /\ Cardinality({}) = 0 /\ Cardinality(new) \in Nat
          /\ Cardinality(Brought(k, p)) \in Nat
      BY <1>1, <1>2, <3>1, FS_EmptySet
    <3> QED BY <1>0, <2>1, <2>3, <3>2, <3>3
  <2> QED BY <2>2, <2>3
<1>5. ASSUME NEW r \in Runs, NEW c \in Cards, Promise!Arrive(c, r)
      PROVE  quantity'[k][p] <= Cardinality(Brought(k, p)')
  <2>1. /\ cardRun[c] \notin ledger /\ quantity' = quantity /\ ledger' = ledger
        /\ \A d \in Cards : d # c => cardRun'[d] = cardRun[d]
    BY <1>0, <1>5 DEF Promise!Arrive
  <2>2. Brought(k, p) \subseteq Brought(k, p)'
    BY <2>1 DEF Brought
  <2> QED BY <1>3, <2>1, <2>2
<1>6. ASSUME UNCHANGED Promise!vars
      PROVE  quantity'[k][p] <= Cardinality(Brought(k, p)')
  <2>1. quantity' = quantity /\ Brought(k, p)' = Brought(k, p)
    BY <1>6 DEF Promise!vars, Brought
  <2> QED BY <1>3, <2>1
<1> QED BY <1>4, <1>5, <1>6 DEF Promise!Next

LEMMA InitCounts == Init => NothingCountedTwice
<1> SUFFICES ASSUME Init, NEW k \in Collections, NEW p \in Prints
             PROVE  quantity[k][p] <= Cardinality(Brought(k, p))
  BY DEF NothingCountedTwice
<1>1. Brought(k, p) \in SUBSET Cards
  BY DEF Brought
<1>2. Cardinality(Brought(k, p)) \in Nat
  BY <1>1, LedgerAssumption, FS_Subset, FS_CardinalityType
<1> QED BY <1>2 DEF Init, NoDraft

(* Consolidating a run again never adds its cards again.                   *)
THEOREM CountedOnce == Spec => []NothingCountedTwice
<1>1. ConsolidationInv /\ NothingCountedTwice /\ [Next]_vars => NothingCountedTwice'
  BY StepPromised, StepCounts DEF ConsolidationInv
<1> QED BY <1>1, InitCounts, DraftsCurrent, PTL DEF Spec

=============================================================================
