---------------------------- MODULE PricingProofs ----------------------------
(***************************************************************************)
(* Theorems about the prices of a run: a snapshot is frozen, and no card   *)
(* is planned to move without a price in it, although cards arrive, prices *)
(* change and other handlers plan while a plan is computed.                *)
(***************************************************************************)
EXTENDS RunProofs, FiniteSetTheorems

(* The snapshot is written by the commit of a plan and by nothing else.    *)
LEMMA SnapshotWriter ==
  ASSUME [Next]_vars, ~(\E w \in Workers : PlanCommit(w))
  PROVE  snapshot' = snapshot
<1>1. ASSUME NEW w \in Workers, Request(w)
      PROVE  snapshot' = snapshot
  BY <1>1 DEF Request, CreateRead, SetStatusRead, AddCardRead, PlanRead,
              ExecuteRead, StopRead, FailRead, ResetRead, priceVars
<1>2. ASSUME NEW w \in Workers, Serve(w)
      PROVE  snapshot' = snapshot
  <2>1. ASSUME NEW pr \in Prints, PlanPriceFound(w, pr) \/ PlanPriceMissing(w, pr)
        PROVE  snapshot' = snapshot
    BY <2>1 DEF PlanPriceFound, PlanPriceMissing, priceVars
  <2>2. CASE \/ CreateInsert(w) \/ SetStatusWrite(w)
             \/ AddCardInsert(w) \/ AddCardFetch(w) \/ AddCardPriced(w)
             \/ PlanPrints(w) \/ PlanUpsert(w) \/ PlanRollback(w)
    BY <2>2 DEF CreateInsert, SetStatusWrite, AddCardInsert, AddCardFetch,
                AddCardPriced, PlanPrints, PlanUpsert, PlanRollback, priceVars
  <2>3. CASE \/ LoadPlan(w) \/ LoadMoves(w) \/ MoveCard(w) \/ SeeStop(w)
             \/ ExecStop(w) \/ CompleteRead(w) \/ LogError(w) \/ ExecFailRead(w)
    BY <2>3 DEF LoadPlan, LoadMoves, MoveCard, SeeStop, ExecStop, CompleteRead,
                LogError, ExecFailRead, priceVars
  <2>4. CASE \/ StopWrite(w) \/ StopRollback(w) \/ FailWrite(w) \/ ResetWrite(w)
             \/ WriteTimesOut(w)
    BY <2>4 DEF StopWrite, StopRollback, FailWrite, ResetWrite, WriteTimesOut,
                priceVars
  <2> QED BY <1>2, <2>1, <2>2, <2>3, <2>4 DEF Serve
<1>3. ASSUME NEW r \in FlaggedRuns, RequestStop(r)
      PROVE  snapshot' = snapshot
  BY <1>3 DEF RequestStop, priceVars
<1>4. ASSUME NEW pr \in RefreshedPrints, RefreshPrice(pr)
      PROVE  snapshot' = snapshot
  BY <1>4 DEF RefreshPrice
<1>5. CASE Crash
  BY <1>5 DEF Crash, priceVars
<1>6. CASE UNCHANGED vars
  BY <1>6 DEF vars, priceVars
<1> QED BY <1>1, <1>2, <1>3, <1>4, <1>5, <1>6 DEF Next

(* A commit keeps every row there is (Captured).                           *)
LEMMA CommitKeepsRows ==
  ASSUME TypeOK, NEW w \in Workers, PlanCommit(w), thread[w].run \in Runs,
         NEW r \in Runs, NEW pr \in Prints, snapshot[r][pr] # NoRow
  PROVE  snapshot'[r][pr] = snapshot[r][pr]
<1>1. snapshot' = [snapshot EXCEPT ![thread[w].run] = Captured(w, thread[w].run)]
  BY DEF PlanCommit
<1>2. snapshot \in [Runs -> [Prints -> Price \cup {NoRow}]]
  BY DEF TypeOK, TablesOK
<1>3. CASE r = thread[w].run
  <2>1. snapshot'[r] = Captured(w, r)
    BY <1>1, <1>2, <1>3
  <2> QED BY <2>1 DEF Captured
<1>4. CASE r # thread[w].run
  BY <1>1, <1>2, <1>4
<1> QED BY <1>3, <1>4

(* A row of a snapshot is never rewritten: not by a second plan, a reset,  *)
(* a refreshed price or another handler.                                   *)
THEOREM FrozenSnapshots == Spec => SnapshotFrozen
<1>1. ASSUME ExecutionInv, [Next]_vars
      PROVE  \A r \in Runs, pr \in Prints :
               snapshot[r][pr] # NoRow => snapshot'[r][pr] = snapshot[r][pr]
  <2>1. CASE \E w \in Workers : PlanCommit(w)
    <3>1. PICK w \in Workers : PlanCommit(w)
      BY <2>1
    <3>2. TypeOK /\ thread[w].run \in Runs
      BY <1>1, <3>1, ThreadFacts DEF ExecutionInv, PlanCommit, At, ThreadInStep
    <3> QED BY <3>1, <3>2, CommitKeepsRows
  <2>2. CASE ~(\E w \in Workers : PlanCommit(w))
    BY <1>1, <2>2, SnapshotWriter
  <2> QED BY <2>1, <2>2
<1> QED BY <1>1, Invariance, PTL DEF Spec, SnapshotFrozen

-----------------------------------------------------------------------------
(* The cards a handler works with.                                         *)

(* A card that has a run keeps it.                                         *)
CardsStay == \A c \in Cards : cardRun[c] # None => cardRun'[c] = cardRun[c]

(* Then no run loses a card, nor a print (CardsIn, PrintsIn).              *)
LEMMA CardsGrow ==
  ASSUME CardsStay, NEW r \in Runs
  PROVE  CardsIn(r) \subseteq CardsIn(r)' /\ PrintsIn(r) \subseteq PrintsIn(r)'
<1>1. r # None
  BY ConstantsAssumption
<1>2. CardsIn(r) \subseteq CardsIn(r)'
  BY <1>1 DEF CardsIn, CardsStay
<1> QED BY <1>2 DEF PrintsIn

(* A thread that goes on with the cards it has, or drops them.             *)
GoesOn(t, u) ==
  /\ Inserting(u) => Inserting(t) /\ u.cards = t.cards
  /\ Planning(u) => Planning(t) /\ u.cards = t.cards /\ u.run = t.run

(* Most steps leave the cards of every handler and of every run alone.     *)
LEMMA SameCards ==
  ASSUME ExecutionInv, CardsInv, UNCHANGED cardRun,
         \A v \in Workers : GoesOn(thread[v], thread'[v])
  PROVE  CardsInv'
<1>1. NewCardsUnowned'
  BY DEF CardsInv, NewCardsUnowned, GoesOn, Inserting
<1>2. PlannedCardsOwned'
  BY DEF CardsInv, PlannedCardsOwned, GoesOn, Planning, CardsIn
<1>3. OneCardEach'
  BY DEF CardsInv, OneCardEach, GoesOn, Inserting
<1> QED BY <1>1, <1>2, <1>3 DEF CardsInv

(* The same, for a step of one worker.                                     *)
LEMMA SameCardsOfOne ==
  ASSUME ExecutionInv, CardsInv, UNCHANGED cardRun, NEW w \in Workers, NEW u,
         Go(w, u), GoesOn(thread[w], u)
  PROVE  CardsInv'
<1>1. \A v \in Workers : GoesOn(thread[v], thread'[v])
  BY DEF Go, GoesOn, ExecutionInv, TypeOK
<1> QED BY <1>1, SameCards

LEMMA GoesOnTo ==
  ASSUME NEW t \in ThreadType,
         NEW pc \in Pc \ {"insert_card", "fetch_card", "plan_prints",
                          "plan_price", "plan_upsert", "plan_write"}
  PROVE  /\ GoesOn(t, [t EXCEPT !.pc = pc])
         /\ \A x : GoesOn(t, [t EXCEPT !.pc = pc, !.status = x])
         /\ \A x : GoesOn(t, [t EXCEPT !.pc = pc, !.step = x])
         /\ \A x : GoesOn(t, [t EXCEPT !.step = x])
         /\ \A x, y : GoesOn(t, [t EXCEPT !.pc = pc, !.plan = x, !.step = y])
BY DEF GoesOn, Inserting, Planning, ThreadType

(* Rows of run_cards are inserted for cards that had none.                 *)
LEMMA CardsArrive ==
  ASSUME ExecutionInv, CardsInv, NEW w \in Workers, Inserting(thread[w]),
         InsertCards(thread[w].run, thread[w].cards), Done(w)
  PROVE  CardsStay /\ CardsInv'
<1> DEFINE r == thread[w].run
           S == thread[w].cards
<1>1. \A c \in Cards : cardRun'[c] = IF c \in S THEN r ELSE cardRun[c]
  BY DEF InsertCards
<1>2. \A c \in S : cardRun[c] = None
  BY DEF CardsInv, NewCardsUnowned
<1>3. CardsStay
  BY <1>1, <1>2 DEF CardsStay
<1>4. \A v \in Workers : thread'[v] = IF v = w THEN Idle ELSE thread[v]
  BY DEF Done, Go, ExecutionInv, TypeOK
<1>5. ~Inserting(Idle) /\ ~Planning(Idle)
  BY DEF Idle, Inserting, Planning
<1>6. NewCardsUnowned'
  <2> SUFFICES ASSUME NEW v \in Workers, Inserting(thread[v])', NEW c \in thread'[v].cards
               PROVE  /\ cardRun'[c] = None
                      /\ \A u \in Workers \ {v} :
                           Inserting(thread[u])' => c \notin thread'[u].cards
    BY DEF NewCardsUnowned
  <2>1. v # w /\ thread'[v] = thread[v] /\ Inserting(thread[v])
    BY <1>4, <1>5 DEF Inserting
  <2>2. cardRun[c] = None /\ c \notin S /\ c \in Cards
    BY <2>1 DEF CardsInv, NewCardsUnowned, ExecutionInv, TypeOK, ThreadType
  <2>3. \A u \in Workers \ {v} : Inserting(thread[u]) => c \notin thread[u].cards
    BY <2>1 DEF CardsInv, NewCardsUnowned
  <2> QED BY <1>1, <1>4, <1>5, <2>2, <2>3 DEF Inserting
<1>7. PlannedCardsOwned'
  <2> SUFFICES ASSUME NEW v \in Workers, Planning(thread[v])'
               PROVE  (thread[v].cards \subseteq CardsIn(thread[v].run))'
    BY DEF PlannedCardsOwned
  <2>1. v # w /\ thread'[v] = thread[v] /\ Planning(thread[v])
    BY <1>4, <1>5 DEF Planning
  <2>2. PICK u : u = thread[v]
    OBVIOUS
  <2>3. u.run \in Runs /\ u.cards \subseteq CardsIn(u.run)
    BY <2>1, <2>2 DEF CardsInv, PlannedCardsOwned, Planning, ExecutionInv,
                      ThreadsInStep, ThreadInStep
  <2>4. u.cards \subseteq CardsIn(u.run)'
    BY <1>3, <2>3, CardsGrow
  <2> QED BY <2>1, <2>2, <2>4 DEF CardsIn
<1>8. OneCardEach'
  BY <1>4, <1>5 DEF CardsInv, OneCardEach, Inserting
<1> QED BY <1>3, <1>6, <1>7, <1>8 DEF CardsInv

(* What a handler knows of its cards stays true.                           *)
LEMMA CardsKept ==
  ASSUME ExecutionInv, CardsInv, [Next]_vars
  PROVE  CardsStay /\ CardsInv'
<1>0. \A u, v : GoesOn(u, u) /\ GoesOn(v, Idle)
  BY DEF GoesOn, Idle, Inserting, Planning
<1>1. ASSUME UNCHANGED cardRun, NEW w \in Workers, NEW u, Go(w, u), GoesOn(thread[w], u)
      PROVE  CardsStay /\ CardsInv'
  BY <1>1, SameCardsOfOne DEF CardsStay
<1>2. ASSUME UNCHANGED cardRun, UNCHANGED thread
      PROVE  CardsStay /\ CardsInv'
  BY <1>0, <1>2, SameCards DEF CardsStay
<1>3. ASSUME NEW w \in Workers, Request(w)
      PROVE  CardsStay /\ CardsInv'
  <2> PICK r \in Runs :
        \/ CreateRead(w, r)
        \/ \E next \in {"SCANNING", "HOLDING_READY"} : SetStatusRead(w, r, next)
        \/ \E c \in Cards : AddCardRead(w, r, c)
        \/ PlanRead(w, r)
        \/ ExecuteRead(w, r)
        \/ StopRead(w, r)
        \/ FailRead(w, r)
        \/ ResetRead(w, r)
    BY <1>3 DEF Request
  <2>0. cardRun' = cardRun
    BY DEF CreateRead, SetStatusRead, AddCardRead, PlanRead, ExecuteRead, StopRead,
           FailRead, ResetRead, cardVars
  <2>1. CASE \/ CreateRead(w, r)
             \/ \E next \in {"SCANNING", "HOLDING_READY"} : SetStatusRead(w, r, next)
             \/ ExecuteRead(w, r) \/ StopRead(w, r) \/ FailRead(w, r) \/ ResetRead(w, r)
    <3>1. \E u : Go(w, u) /\ ~Inserting(u) /\ ~Planning(u)
      <4> DEFINE Away(u) == ~Inserting(u) /\ ~Planning(u)
      <4>1. /\ Away([Idle EXCEPT !.pc = "insert_run", !.run = r])
            /\ \A x : Away([Idle EXCEPT !.pc = "set_status", !.run = r, !.status = x])
            /\ Away([Idle EXCEPT !.pc = "load_plan", !.run = r])
            /\ \A x, y, z : Away([Idle EXCEPT !.pc = "stop_write", !.run = r,
                                  !.status = x, !.plan = y, !.step = z])
            /\ Away([Idle EXCEPT !.pc = "fail_write", !.run = r])
            /\ Away([Idle EXCEPT !.pc = "reset_write", !.run = r])
        BY DEF Idle, Inserting, Planning
      <4>2. \E u : Go(w, u) /\ Away(u)
        <5> HIDE DEF Away
        <5>1. CASE CreateRead(w, r)
          BY <4>1, <5>1 DEF CreateRead
        <5>2. CASE \E next \in {"SCANNING", "HOLDING_READY"} : SetStatusRead(w, r, next)
          BY <4>1, <5>2 DEF SetStatusRead
        <5>3. CASE ExecuteRead(w, r)
          BY <4>1, <5>3 DEF ExecuteRead
        <5>4. CASE StopRead(w, r)
          BY <4>1, <5>4 DEF StopRead
        <5>5. CASE FailRead(w, r) \/ ResetRead(w, r)
          BY <4>1, <5>5 DEF FailRead, ResetRead
        <5> QED BY <2>1, <5>1, <5>2, <5>3, <5>4, <5>5
      <4> QED BY <4>2
    <3> QED BY <1>1, <2>0, <3>1 DEF GoesOn
  <2>2. ASSUME NEW c \in Cards, AddCardRead(w, r, c)
        PROVE  CardsStay /\ CardsInv'
    <3> DEFINE t == [Idle EXCEPT !.pc = "insert_card", !.run = r,
                                 !.status = status[r], !.cards = {c},
                                 !.print = PrintOf[c]]
    <3>1. \A v \in Workers : thread'[v] = IF v = w THEN t ELSE thread[v]
      BY <2>2 DEF AddCardRead, Go, ExecutionInv, TypeOK
    <3>2. t.cards = {c} /\ ~Planning(t) /\ cardRun[c] = None
      BY <2>2 DEF Idle, Planning, AddCardRead
    <3>3. \A v \in Workers : c \notin thread[v].cards
      BY <2>2 DEF AddCardRead
    <3> HIDE DEF t
    <3>4. NewCardsUnowned'
      <4> SUFFICES ASSUME NEW v \in Workers, Inserting(thread[v])',
                          NEW d \in thread'[v].cards
                   PROVE  /\ cardRun'[d] = None
                          /\ \A u \in Workers \ {v} :
                               Inserting(thread[u])' => d \notin thread'[u].cards
        BY DEF NewCardsUnowned
      <4>1. CASE v = w
        BY <2>0, <3>1, <3>2, <3>3, <4>1
      <4>2. CASE v # w
        BY <2>0, <3>1, <3>2, <3>3, <4>2 DEF CardsInv, NewCardsUnowned, Inserting
      <4> QED BY <4>1, <4>2
    <3>5. PlannedCardsOwned'
      BY <2>0, <3>1, <3>2 DEF CardsInv, PlannedCardsOwned, Planning, CardsIn
    <3>6. OneCardEach'
      BY <3>1, <3>2 DEF CardsInv, OneCardEach, Inserting
    <3> QED BY <2>0, <3>4, <3>5, <3>6 DEF CardsInv, CardsStay
  <2>3. CASE PlanRead(w, r)
    <3> DEFINE t == [Idle EXCEPT !.pc = "plan_prints", !.run = r,
                                 !.cards = CardsIn(r)]
    <3>1. \A v \in Workers : thread'[v] = IF v = w THEN t ELSE thread[v]
      BY <2>3 DEF PlanRead, Go, ExecutionInv, TypeOK
    <3>2. t.cards = CardsIn(r) /\ t.run = r /\ ~Inserting(t)
      BY DEF Idle, Inserting
    <3> HIDE DEF t
    <3>3. NewCardsUnowned'
      BY <2>0, <3>1, <3>2 DEF CardsInv, NewCardsUnowned, Inserting
    <3>4. PlannedCardsOwned'
      BY <2>0, <3>1, <3>2 DEF CardsInv, PlannedCardsOwned, Planning, CardsIn
    <3>5. OneCardEach'
      BY <3>1, <3>2 DEF CardsInv, OneCardEach, Inserting
    <3> QED BY <2>0, <3>3, <3>4, <3>5 DEF CardsInv, CardsStay
  <2> QED BY <2>1, <2>2, <2>3
<1>4. ASSUME NEW w \in Workers, Serve(w)
      PROVE  CardsStay /\ CardsInv'
  <2> DEFINE t == thread[w]
  <2>0. t \in ThreadType
    BY ThreadFacts
  <2>1. CASE AddCardInsert(w) \/ AddCardPriced(w)
    BY <2>1, CardsArrive DEF AddCardInsert, AddCardPriced, At, Inserting
  <2>2. CASE AddCardFetch(w)
    <3>1. GoesOn(t, [t EXCEPT !.pc = "fetch_card"])
      BY <2>0, <2>2 DEF AddCardFetch, At, GoesOn, Inserting, Planning, ThreadType
    <3> QED BY <1>1, <2>2, <3>1 DEF AddCardFetch, Goto, cardVars
  <2>3. CASE \/ CreateInsert(w) \/ PlanCommit(w) \/ PlanRollback(w) \/ StopWrite(w)
             \/ StopRollback(w) \/ FailWrite(w) \/ ResetWrite(w)
    <3>1. Done(w) /\ cardRun' = cardRun
      BY <2>3 DEF CreateInsert, PlanCommit, PlanRollback, StopWrite, StopRollback,
                  FailWrite, ResetWrite, cardVars
    <3> QED BY <1>0, <1>1, <3>1 DEF Done
  <2>4. CASE PlanPrints(w)
    <3> DEFINE todo == PrintsIn(t.run) \ BlankPrints
               pc == IF todo = {} THEN "plan_write" ELSE "plan_price"
               u == [t EXCEPT !.todo = todo, !.pc = pc]
    <3>1. Go(w, u) /\ t.pc = "plan_prints" /\ cardRun' = cardRun
      BY <2>4 DEF PlanPrints, At, cardVars
    <3>2. pc \in {"plan_write", "plan_price"}
      OBVIOUS
    <3> HIDE DEF todo, pc
    <3>3. GoesOn(t, u)
      BY <2>0, <3>1, <3>2 DEF GoesOn, Inserting, Planning, ThreadType
    <3> QED BY <1>1, <3>1, <3>3
  <2>5. ASSUME NEW pr \in Prints, t.pc \in {"plan_price", "plan_upsert"}, NEW x
        PROVE  GoesOn(t, Priced(t, pr)) /\ GoesOn(t, [Priced(t, pr) EXCEPT !.pending[pr] = x])
    <3> DEFINE todo == t.todo \ {pr}
               pc == IF todo = {} THEN "plan_write" ELSE "plan_price"
               u == [t EXCEPT !.todo = todo, !.print = None, !.pc = pc]
    <3>1. u = Priced(t, pr)
      BY DEF Priced
    <3>2. pc \in {"plan_write", "plan_price"}
      OBVIOUS
    <3> HIDE DEF todo, pc
    <3>3. GoesOn(t, u) /\ GoesOn(t, [u EXCEPT !.pending[pr] = x])
      BY <2>0, <2>5, <3>2 DEF GoesOn, Inserting, Planning, ThreadType
    <3> QED BY <3>1, <3>3
  <2>6. ASSUME NEW pr \in Prints, PlanPriceFound(w, pr)
        PROVE  CardsStay /\ CardsInv'
    <3>1. Go(w, Priced(t, pr)) /\ t.pc = "plan_price" /\ cardRun' = cardRun
      BY <2>6 DEF PlanPriceFound, At, cardVars
    <3> QED BY <1>1, <2>5, <3>1
  <2>7. ASSUME NEW pr \in Prints, PlanPriceMissing(w, pr)
        PROVE  CardsStay /\ CardsInv'
    <3>1. GoesOn(t, [t EXCEPT !.pc = "plan_upsert", !.print = pr])
      BY <2>0, <2>7 DEF PlanPriceMissing, At, GoesOn, Inserting, Planning, ThreadType
    <3> QED BY <1>1, <2>7, <3>1 DEF PlanPriceMissing, cardVars
  <2>8. CASE PlanUpsert(w)
    <3>1. PICK x \in Price : Go(w, [Priced(t, t.print) EXCEPT !.pending[t.print] = x])
      BY <2>8 DEF PlanUpsert
    <3>2. t.pc = "plan_upsert" /\ cardRun' = cardRun /\ t.print \in Prints
      BY <2>8, ThreadFacts DEF PlanUpsert, At, cardVars, ThreadInStep
    <3> QED BY <1>1, <2>5, <3>1, <3>2
  <2>9. CASE \/ SetStatusWrite(w) \/ LoadPlan(w) \/ LoadMoves(w) \/ MoveCard(w)
             \/ SeeStop(w) \/ ExecStop(w) \/ CompleteRead(w) \/ LogError(w)
             \/ ExecFailRead(w) \/ WriteTimesOut(w)
    <3>1. cardRun' = cardRun
      BY <2>9 DEF SetStatusWrite, LoadPlan, LoadMoves, MoveCard, SeeStop, ExecStop,
                  CompleteRead, LogError, ExecFailRead, WriteTimesOut, cardVars
    <3>2. \E u : Go(w, u) /\ GoesOn(t, u)
      <4>1. {"load_plan", "load_moves", "move", "complete", "set_status", "exec_stop",
             "log_error", "exec_fail_read", "fail_write"} \subseteq
              Pc \ {"insert_card", "fetch_card", "plan_prints",
                    "plan_price", "plan_upsert", "plan_write"}
        BY DEF Pc
      <4>2. CASE \/ SetStatusWrite(w) \/ SeeStop(w) \/ ExecStop(w) \/ LogError(w)
                 \/ ExecFailRead(w) \/ WriteTimesOut(w)
        BY <1>0, <2>0, <4>1, <4>2, GoesOnTo
           DEF SetStatusWrite, SeeStop, ExecStop, LogError, ExecFailRead,
               WriteTimesOut, Goto, Done
      <4>3. CASE LoadPlan(w)
        <5>1. CASE plans[t.run] = <<>>
          BY <1>0, <4>3, <5>1 DEF LoadPlan
        <5>2. CASE plans[t.run] # <<>>
          BY <2>0, <4>1, <4>3, <5>2, GoesOnTo DEF LoadPlan
        <5> QED BY <5>1, <5>2
      <4>4. CASE LoadMoves(w) \/ CompleteRead(w)
        BY <2>0, <4>1, <4>4, GoesOnTo DEF LoadMoves, CompleteRead
      <4>5. CASE MoveCard(w)
        BY <2>0, <4>1, <4>5, GoesOnTo DEF MoveCard
      <4> QED BY <2>9, <4>2, <4>3, <4>4, <4>5
    <3> QED BY <1>1, <3>1, <3>2
  <2> QED BY <1>4, <2>1, <2>2, <2>3, <2>4, <2>6, <2>7, <2>8, <2>9 DEF Serve
<1>5. CASE Crash
  BY <1>0, <1>5, SameCards DEF Crash, CardsStay, cardVars
<1>6. ASSUME NEW r \in FlaggedRuns, RequestStop(r)
      PROVE  CardsStay /\ CardsInv'
  BY <1>2, <1>6 DEF RequestStop, cardVars
<1>7. ASSUME NEW pr \in RefreshedPrints, RefreshPrice(pr)
      PROVE  CardsStay /\ CardsInv'
  BY <1>2, <1>7 DEF RefreshPrice, cardVars
<1>8. CASE UNCHANGED vars
  BY <1>2, <1>8 DEF vars, cardVars
<1> QED BY <1>3, <1>4, <1>5, <1>6, <1>7, <1>8 DEF Next

-----------------------------------------------------------------------------
(* Plans and prices.                                                       *)

(* Plans are committed by PlanCommit only.                                 *)
LEMMA PlansWriter ==
  ASSUME [Next]_vars, ~(\E w \in Workers : PlanCommit(w))
  PROVE  plans' = plans
<1>1. ASSUME NEW w \in Workers, Request(w)
      PROVE  plans' = plans
  BY <1>1 DEF Request, CreateRead, SetStatusRead, AddCardRead, PlanRead,
              ExecuteRead, StopRead, FailRead, ResetRead, planVars
<1>2. ASSUME NEW w \in Workers, Serve(w)
      PROVE  plans' = plans
  <2>1. ASSUME NEW pr \in Prints, PlanPriceFound(w, pr) \/ PlanPriceMissing(w, pr)
        PROVE  plans' = plans
    BY <2>1 DEF PlanPriceFound, PlanPriceMissing, planVars
  <2>2. CASE \/ CreateInsert(w) \/ SetStatusWrite(w)
             \/ AddCardInsert(w) \/ AddCardFetch(w) \/ AddCardPriced(w)
             \/ PlanPrints(w) \/ PlanUpsert(w) \/ PlanRollback(w)
    BY <2>2 DEF CreateInsert, SetStatusWrite, AddCardInsert, AddCardFetch,
                AddCardPriced, PlanPrints, PlanUpsert, PlanRollback, planVars
  <2>3. CASE \/ LoadPlan(w) \/ LoadMoves(w) \/ MoveCard(w) \/ SeeStop(w)
             \/ ExecStop(w) \/ CompleteRead(w) \/ LogError(w) \/ ExecFailRead(w)
    BY <2>3 DEF LoadPlan, LoadMoves, MoveCard, SeeStop, ExecStop, CompleteRead,
                LogError, ExecFailRead, planVars
  <2>4. CASE \/ StopWrite(w) \/ StopRollback(w) \/ FailWrite(w) \/ ResetWrite(w)
             \/ WriteTimesOut(w)
    BY <2>4 DEF StopWrite, StopRollback, FailWrite, ResetWrite, WriteTimesOut,
                planVars
  <2> QED BY <1>2, <2>1, <2>2, <2>3, <2>4 DEF Serve
<1>3. CASE Crash \/ UNCHANGED vars \/ (\E r \in FlaggedRuns : RequestStop(r))
           \/ (\E pr \in RefreshedPrints : RefreshPrice(pr))
  BY <1>3 DEF Crash, vars, RequestStop, RefreshPrice, planVars
<1> QED BY <1>1, <1>2, <1>3 DEF Next

(* A snapshot that counts as complete prices every print of its run: it    *)
(* has as many rows as the run has prints, and rows for no others.         *)
LEMMA CountedIsComplete ==
  ASSUME NEW r \in Runs, NEW snap \in [Prints -> Price \cup {NoRow}],
         SnapshotPrints(snap) \subseteq PrintsIn(r), SnapshotUsable(snap, r)
  PROVE  \A pr \in PrintsIn(r) : snap[pr] \in Amounts
<1>1. PrintsIn(r) \in SUBSET Prints
  BY ConstantsAssumption DEF PrintsIn, CardsIn
<1>2. IsFiniteSet(PrintsIn(r))
  BY <1>1, FinitePrints, FS_Subset
<1>3. /\ Cardinality(SnapshotPrints(snap)) \in Nat /\ Cardinality(PrintsIn(r)) \in Nat
      /\ Cardinality(SnapshotPrints(snap)) <= Cardinality(PrintsIn(r))
      /\ Cardinality(PrintsIn(r)) = Cardinality(SnapshotPrints(snap))
           => PrintsIn(r) = SnapshotPrints(snap)
  BY <1>2, FS_Subset, FS_CardinalityType
<1>4. PrintsIn(r) = SnapshotPrints(snap)
  BY <1>3 DEF SnapshotUsable
<1>5. ASSUME NEW pr \in PrintsIn(r)
      PROVE  snap[pr] \in Amounts
  <2>1. pr \in Prints /\ snap[pr] # NoRow
    BY <1>1, <1>4 DEF SnapshotPrints
  <2>2. snap[pr] # Null
    BY <2>1 DEF SnapshotUsable
  <2> QED BY <2>1, <2>2 DEF Price
<1> QED BY <1>5

(* The commit of a plan prices the cards it moves, also when more cards    *)
(* have arrived since the plan was computed.                               *)
LEMMA CommitPrices ==
  ASSUME ExecutionInv, PricingInv, CardsStay, NEW w \in Workers, PlanCommit(w)
  PROVE  SnapshotOfRun' /\ PlanPriced'
<1>a. PICK r : r = thread[w].run
  OBVIOUS
<1>b. PICK new : new = PlanOf(thread[w].cards)
  OBVIOUS
<1>c. PICK snap : snap = Captured(w, r)
  OBVIOUS
<1>0. /\ thread[w] \in ThreadType /\ r \in Runs /\ TypeOK /\ TablesOK
      /\ Planning(thread[w]) /\ thread[w].cards \subseteq CardsIn(r)
  BY <1>a, ThreadFacts DEF ExecutionInv, TypeOK, PlanCommit, At, ThreadInStep,
                           Planning, PricingInv, CardsInv, PlannedCardsOwned
<1>1. /\ plans' = [plans EXCEPT ![r] = Append(plans[r], new)]
      /\ snapshot' = [snapshot EXCEPT ![r] = snap]
      /\ cardRun' = cardRun
      /\ SnapshotUsable(snap, r)
      /\ new # Infeasible
  BY <1>a, <1>b, <1>c DEF PlanCommit, PlanAccepted, cardVars
<1>2. /\ new \in Seq(Move)
      /\ \A i \in DOMAIN new : new[i].card \in CardsIn(r)
  BY <1>b, <1>0, <1>1, PlannerAssumption DEF ThreadType
<1>3. snap \in [Prints -> Price \cup {NoRow}]
  <2>1. Visible(w) \in [Prints -> Price \cup {NoRow}]
    BY <1>0 DEF Visible, ThreadType, TablesOK
  <2> QED BY <1>c, <1>0, <2>1 DEF Captured, TablesOK
<1>4. SnapshotPrints(snap) \subseteq PrintsIn(r)
  <2>1. SnapshotPrints(snapshot[r]) \subseteq PrintsIn(r)
    BY <1>0 DEF PricingInv, SnapshotOfRun
  <2> QED BY <1>c, <2>1 DEF SnapshotPrints, Captured
<1>5. \A pr \in PrintsIn(r) : snap[pr] \in Amounts
  BY <1>0, <1>1, <1>3, <1>4, CountedIsComplete
<1>6. \A q \in Runs : /\ PrintsIn(q)' = PrintsIn(q)
                      /\ snapshot'[q] = IF q = r THEN snap ELSE snapshot[q]
  BY <1>0, <1>1 DEF PrintsIn, CardsIn, TablesOK
<1>7. SnapshotOfRun'
  BY <1>4, <1>6 DEF PricingInv, SnapshotOfRun, SnapshotPrints
<1>8. PlanPriced'
  <2> SUFFICES ASSUME NEW q \in Runs, NEW p \in DOMAIN plans'[q],
                      NEW i \in DOMAIN plans'[q][p]
               PROVE  snapshot'[q][PrintOf[plans'[q][p][i].card]] \in Amounts
    BY DEF PlanPriced
  <2>0. plans \in [Runs -> Seq(Seq(Move))]
    BY <1>0 DEF TypeOK
  <2>1. \/ /\ p \in DOMAIN plans[q] /\ plans'[q][p] = plans[q][p]
        \/ /\ q = r /\ plans'[q][p] = new
    BY <1>0, <1>1, <1>2, <2>0
  <2>2. CASE p \in DOMAIN plans[q] /\ plans'[q][p] = plans[q][p]
    <3> DEFINE pr == PrintOf[plans[q][p][i].card]
    <3>1. snapshot[q][pr] \in Amounts
      BY <2>2 DEF PricingInv, PlanPriced
    <3>2. pr \in Prints
      <4>1. plans[q][p] \in Seq(Move)
        BY <2>0, <2>2
      <4>2. i \in DOMAIN plans[q][p]
        BY <2>2
      <4>3. plans[q][p][i] \in Move
        BY <4>1, <4>2
      <4>4. plans[q][p][i].card \in Cards
        BY <4>3 DEF Move
      <4> QED BY <4>4, ConstantsAssumption
    <3>3. snapshot[q][pr] # NoRow
      BY <3>1, ConstantsAssumption DEF Price
    <3>4. snapshot'[q][pr] = snapshot[q][pr]
      BY <1>a, <1>0, <3>2, <3>3, CommitKeepsRows
    <3> QED BY <2>2, <3>1, <3>4
  <2>3. CASE q = r /\ plans'[q][p] = new
    <3>1. PrintOf[new[i].card] \in PrintsIn(r)
      BY <1>2, <2>3 DEF PrintsIn
    <3> QED BY <1>5, <1>6, <2>3, <3>1
  <2> QED BY <2>1, <2>2, <2>3
<1> QED BY <1>7, <1>8

(* Every reachable state: see PricingInv.                                  *)
THEOREM PricingInvariance == Spec => []PricingInv
<1>1. Init => PricingInv
  BY IdleThread, ConstantsAssumption
     DEF Init, Idle, PricingInv, CardsInv, NewCardsUnowned, OneCardEach, PlannedCardsOwned,
         Inserting, Planning, SnapshotOfRun, SnapshotPrints, NoPrices, PlanPriced
<1>2. ExecutionInv /\ PricingInv /\ [Next]_vars => PricingInv'
  <2> SUFFICES ASSUME ExecutionInv, PricingInv, [Next]_vars
               PROVE  PricingInv'
    OBVIOUS
  <2>1. CardsStay /\ CardsInv'
    BY CardsKept DEF PricingInv
  <2>2. CASE \E w \in Workers : PlanCommit(w)
    BY <2>1, <2>2, CommitPrices DEF PricingInv
  <2>3. CASE ~(\E w \in Workers : PlanCommit(w))
    <3>1. snapshot' = snapshot /\ plans' = plans
      BY <2>3, SnapshotWriter, PlansWriter
    <3>2. SnapshotOfRun'
      BY <2>1, <3>1, CardsGrow DEF PricingInv, SnapshotOfRun, SnapshotPrints
    <3>3. PlanPriced'
      BY <3>1 DEF PricingInv, PlanPriced
    <3> QED BY <2>1, <3>2, <3>3 DEF PricingInv
  <2> QED BY <2>2, <2>3
<1> QED BY <1>1, <1>2, Invariance, PTL DEF Spec

(* The print of every card a stored plan moves has a known price in the    *)
(* snapshot of its run.                                                    *)
THEOREM PlannedCardsPriced == Spec => []PlanPriced
<1>1. PricingInv => PlanPriced
  BY DEF PricingInv
<1> QED BY <1>1, PricingInvariance, PTL

=============================================================================
