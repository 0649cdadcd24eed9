------------------------------ MODULE RobotRuns ------------------------------
(***************************************************************************)
(* The robot runtime: the request handlers of robot/app/main.py that work  *)
(* on runs, the run service they call, and the price module, over one      *)
(* SQLite database.                                                        *)
(*                                                                         *)
(* FastAPI runs the handlers in a pool of threads.  Every handler opens a  *)
(* connection of its own, reads outside any transaction, and opens a write *)
(* transaction with its first INSERT or UPDATE; SQLite lets one connection *)
(* write at a time.  Hence the grain of the actions: one action for each   *)
(* read a handler bases a decision on, one for each write transaction, and *)
(* one for each network call made while a transaction is open (only then   *)
(* does `lock` name a worker between two actions).  A request that a read  *)
(* refuses changes nothing and is not an action.                           *)
(***************************************************************************)
EXTENDS Integers, Sequences, FiniteSets, RunLifecycle

CONSTANTS
  Workers,            \* threads of the pool
  Runs,               \* run ids; a run has a row once created
  Users, Owner,       \* Owner[r]: the user whose requests name run r
  Cards,              \* card instances (instance_id)
  StartBin, PrintOf,  \* request fields of a card: current_bin, print_id
  Bins,
  Prints,
  BlankPrints,        \* print ids that strip() to nothing: never priced
  Amounts,            \* known prices
  Null,               \* a price row whose two amounts are both NULL
  NoRow,              \* no price row
  None,
  Infeasible,
  PlanOf(_),          \* planner.plan.generate_plan on a set of cards
  FlaggedRuns,        \* runs whose stop flag, and prints whose price,
  RefreshedPrints,    \*   are changed from outside
  MaxEvents,          \* bound: executions and stops of a planned run
  MaxPlans,           \* bound: plans of a run
  MaxCrashes          \* bound: restarts of the process

ExtractBin == -1      \* from_bin sentinel of an extraction

Price == Amounts \cup {Null}
Move == [card : Cards, from : Bins \cup {ExtractBin}, to : Bins]

ASSUME ConstantsAssumption ==
  /\ Owner \in [Runs -> Users]
  /\ StartBin \in [Cards -> Bins]
  /\ PrintOf \in [Cards -> Prints]
  /\ Bins \subseteq Nat
  /\ BlankPrints \subseteq Prints
  /\ FlaggedRuns \subseteq Runs /\ RefreshedPrints \subseteq Prints
  /\ None \notin Workers \cup Runs \cup Bins \cup Prints
  /\ None \notin {"REQUESTED", "EXEC_ERROR"}
  /\ Null \notin Amounts
  /\ NoRow \notin Price
  /\ MaxEvents \in Nat /\ MaxPlans \in Nat /\ MaxCrashes \in Nat

ASSUME FinitePrints == IsFiniteSet(Prints)

(* A plan moves only the cards it was computed from.                       *)
ASSUME PlannerAssumption ==
  \A S \in SUBSET Cards :
    \/ PlanOf(S) = Infeasible
    \/ /\ PlanOf(S) # Infeasible
       /\ PlanOf(S) \in Seq(Move)
       /\ \A i \in DOMAIN PlanOf(S) : PlanOf(S)[i].card \in S

(* A move that names the bin it starts from takes a card that the last     *)
(* move of the card before it put there.                                   *)
Staged(plan) ==
  \A i \in DOMAIN plan : plan[i].from # ExtractBin =>
    \E j \in 1..(i - 1) :
      /\ plan[j].card = plan[i].card /\ plan[j].to = plan[i].from
      /\ \A k \in (j + 1)..(i - 1) : plan[k].card # plan[i].card

ASSUME StagingAssumption ==
  \A S \in SUBSET Cards : PlanOf(S) = Infeasible \/ Staged(PlanOf(S))

VARIABLES
  status, stopRequested, failedCode,  \* table runs
  cardRun, currentBin,                \* table run_cards
  plans,                              \* movement_plans with planned_moves
  events,                             \* move_events, per run, oldest first
  prices,                             \* prices_current
  snapshot,                           \* run_price_snapshots
  cache,                              \* _RUN_PRICE_CACHE: prints cached
  thread,                             \* what each worker is doing
  lock,                               \* worker inside a write transaction
  crashes

runVars == <<status, stopRequested, failedCode>>
cardVars == <<cardRun, currentBin>>
planVars == <<plans, events>>
priceVars == <<prices, snapshot>>
memVars == <<cache, lock>>
vars == <<runVars, cardVars, planVars, priceVars, memVars, thread, crashes>>

-----------------------------------------------------------------------------
(* Threads.  The record holds what a handler keeps in its local variables. *)

Pc == {"idle", "insert_run", "insert_card", "fetch_card", "set_status",
       "plan_prints", "plan_price", "plan_upsert", "plan_write",
       "load_plan", "load_moves", "move", "exec_stop", "complete",
       "log_error", "exec_fail_read", "fail_write", "stop_write",
       "reset_write"}

NoPrices == [pr \in Prints |-> NoRow]

Idle == [pc |-> "idle", run |-> None, status |-> "ABSENT", plan |-> 0,
         step |-> 0, cards |-> {}, print |-> None, todo |-> {},
         pending |-> NoPrices]

At(w, pc) == thread[w].pc = pc
Go(w, t) == thread' = [thread EXCEPT ![w] = t]
Goto(w, pc) == Go(w, [thread[w] EXCEPT !.pc = pc])
Done(w) == Go(w, Idle)

CanWrite(w) == lock \in {None, w}

-----------------------------------------------------------------------------
(* Queries.                                                                *)

CardsIn(r) == {c \in Cards : cardRun[c] = r}
PrintsIn(r) == {PrintOf[c] : c \in CardsIn(r)}

(* Plans of a run are numbered in the order of their created_at, so the    *)
(* latest one is the last.                                                 *)
LatestPlan(r) == Len(plans[r])

(* The steps of plan p that a log reports as done.                         *)
StepsDone(log, p) ==
  {log[i].step : i \in {j \in DOMAIN log : log[j].plan = p
                                          /\ log[j].status = "SUCCESS"}}

SuccessSteps(r, p) == StepsDone(events[r], p)

(* Mutant of LastSuccessStep: the filter on the status is lost, ERROR and  *)
(* STOPPED events count as progress.                                       *)
LastLoggedStep(r, p) ==
  LET steps == {events[r][i].step : i \in {j \in DOMAIN events[r] :
                                             events[r][j].plan = p}}
  IN IF steps = {} THEN -1
     ELSE CHOOSE s \in steps : \A u \in steps : u <= s

(* Mutant of LastSuccessStep: the filter on the plan is lost.              *)
LastSuccessOfRun(r, p) ==
  LET steps == UNION {SuccessSteps(r, q) : q \in 0..Len(plans[r])}
  IN IF steps = {} THEN -1
     ELSE CHOOSE s \in steps : \A u \in steps : u <= s

LastSuccessStep(r, p) ==
  LET steps == SuccessSteps(r, p)
  IN IF steps = {} THEN -1 ELSE CHOOSE s \in steps : \A u \in steps : u <= s

SnapshotPrints(snap) == {pr \in Prints : snap[pr] # NoRow}

HasCompleteSnapshot(r) ==
  Cardinality(SnapshotPrints(snapshot[r])) >= Cardinality(PrintsIn(r))

(* prices_current as the connection of worker w sees it: the table with    *)
(* the rows its own open transaction has written.                          *)
Visible(w) ==
  [pr \in Prints |-> IF thread[w].pending[pr] # NoRow
                     THEN thread[w].pending[pr] ELSE prices[pr]]

Event(p, step, st) == [plan |-> p, step |-> step, status |-> st]

-----------------------------------------------------------------------------
Init ==
  /\ status = [r \in Runs |-> "ABSENT"]
  /\ stopRequested = [r \in Runs |-> FALSE]
  /\ failedCode = [r \in Runs |-> None]
  /\ cardRun = [c \in Cards |-> None]
  /\ currentBin = [c \in Cards |-> None]
  /\ plans = [r \in Runs |-> <<>>]
  /\ events = [r \in Runs |-> <<>>]
  /\ prices = NoPrices
  /\ snapshot = [r \in Runs |-> NoPrices]
  /\ cache = [r \in Runs |-> {}]
  /\ thread = [w \in Workers |-> Idle]
  /\ lock = None
  /\ crashes = 0

-----------------------------------------------------------------------------
(* POST /runs/create_local: assert_no_active_run, then the insert.         *)

CreateRead(w, r) ==
  /\ At(w, "idle")
  /\ status[r] = "ABSENT"
  /\ \A v \in Workers : thread[v].run # r          \* the id is a fresh uuid
  /\ \A q \in Runs : Owner[q] = Owner[r] => status[q] \notin Active
  /\ Go(w, [Idle EXCEPT !.pc = "insert_run", !.run = r])
  /\ UNCHANGED <<runVars, cardVars, planVars, priceVars, memVars, crashes>>

(* Mutant of FirstStatus: the status of the schema before milestone M1.    *)
OldFirstStatus == "CREATED"

FirstStatus == "IDLE"

CreateInsert(w) ==
  LET r == thread[w].run IN
  /\ At(w, "insert_run")
  /\ CanWrite(w)
  /\ status' = [status EXCEPT ![r] = FirstStatus]
  /\ cache' = [cache EXCEPT ![r] = {}]
  /\ Done(w)
  /\ UNCHANGED <<stopRequested, failedCode, cardVars, planVars, priceVars,
                 lock, crashes>>

-----------------------------------------------------------------------------
(* set_status: a SELECT that is checked, then an UPDATE that is not        *)
(* conditional on what was read.  POST start_scanning and holding_ready    *)
(* are nothing else; execute uses it to enter EXECUTING and COMPLETE.      *)

(* Mutant of SetStatusRead: assert_transition is not called.               *)
SetStatusUnchecked(w, r, next) ==
  /\ At(w, "idle")
  /\ status[r] # "ABSENT"
  /\ Go(w, [Idle EXCEPT !.pc = "set_status", !.run = r, !.status = next])
  /\ UNCHANGED <<runVars, cardVars, planVars, priceVars, memVars, crashes>>

SetStatusRead(w, r, next) ==
  /\ At(w, "idle")
  /\ CanTransition(status[r], next)
  /\ Go(w, [Idle EXCEPT !.pc = "set_status", !.run = r, !.status = next])
  /\ UNCHANGED <<runVars, cardVars, planVars, priceVars, memVars, crashes>>

SetStatusWrite(w) ==
  LET t == thread[w] IN
  /\ At(w, "set_status")
  /\ CanWrite(w)
  /\ status' = [status EXCEPT ![t.run] = t.status]
  /\ IF t.status = "EXECUTING" THEN Goto(w, "load_plan") ELSE Done(w)
  /\ UNCHANGED <<stopRequested, failedCode, cardVars, planVars, priceVars,
                 memVars, crashes>>

-----------------------------------------------------------------------------
(* POST debug_add_card: the status is read, the row is inserted, and while *)
(* the transaction is open the card of a SCANNING run is priced.           *)

AddCardRead(w, r, c) ==
  /\ At(w, "idle")
  /\ status[r] # "ABSENT"
  /\ cardRun[c] = None
  /\ \A v \in Workers : c \notin thread[v].cards   \* the id is a fresh uuid
  /\ Go(w, [Idle EXCEPT !.pc = "insert_card", !.run = r,
                        !.status = status[r], !.cards = {c},
                        !.print = PrintOf[c]])
  /\ UNCHANGED <<runVars, cardVars, planVars, priceVars, memVars, crashes>>

InsertCards(r, S) ==
  /\ cardRun' = [c \in Cards |-> IF c \in S THEN r ELSE cardRun[c]]
  /\ currentBin' = [c \in Cards |-> IF c \in S THEN StartBin[c]
                                                ELSE currentBin[c]]

(* The card needs no price, or ensure_price_for_run finds one at hand.     *)
AddCardInsert(w) ==
  LET t == thread[w]
      pricing == t.status = "SCANNING" /\ t.print \notin cache[t.run]
  IN
  /\ At(w, "insert_card")
  /\ CanWrite(w)
  /\ \/ /\ ~pricing \/ t.print \in BlankPrints
        /\ cache' = cache
     \/ /\ pricing
        /\ prices[t.print] # NoRow
        /\ cache' = [cache EXCEPT ![t.run] = @ \cup {t.print}]
  /\ InsertCards(t.run, t.cards)
  /\ Done(w)
  /\ UNCHANGED <<runVars, planVars, priceVars, lock, crashes>>

(* The price must be fetched: the transaction stays open meanwhile.        *)
AddCardFetch(w) ==
  LET t == thread[w] IN
  /\ At(w, "insert_card")
  /\ CanWrite(w)
  /\ t.status = "SCANNING"
  /\ t.print \notin cache[t.run] \cup BlankPrints
  /\ prices[t.print] = NoRow
  /\ lock' = w
  /\ Goto(w, "fetch_card")
  /\ UNCHANGED <<runVars, cardVars, planVars, priceVars, cache, crashes>>

AddCardPriced(w) ==
  LET t == thread[w] IN
  /\ At(w, "fetch_card")
  /\ \E p \in Price : prices' = [prices EXCEPT ![t.print] = p]
  /\ cache' = [cache EXCEPT ![t.run] = @ \cup {t.print}]
  /\ InsertCards(t.run, t.cards)
  /\ lock' = None
  /\ Done(w)
  /\ UNCHANGED <<runVars, planVars, snapshot, crashes>>

-----------------------------------------------------------------------------
(* POST plan.  The cards are read first, the prints to price in a second   *)
(* query; the prices come one by one; everything the handler writes, from  *)
(* the first fetched price to the status, is one transaction.              *)

PlanRead(w, r) ==
  /\ At(w, "idle")
  /\ status[r] # "ABSENT"
  /\ Len(plans[r]) < MaxPlans                      \* bound
  /\ Go(w, [Idle EXCEPT !.pc = "plan_prints", !.run = r,
                        !.cards = CardsIn(r)])
  /\ UNCHANGED <<runVars, cardVars, planVars, priceVars, memVars, crashes>>

PlanPrints(w) ==
  LET todo == PrintsIn(thread[w].run) \ BlankPrints IN
  /\ At(w, "plan_prints")
  /\ Go(w, [thread[w] EXCEPT !.todo = todo,
              !.pc = IF todo = {} THEN "plan_write" ELSE "plan_price"])
  /\ UNCHANGED <<runVars, cardVars, planVars, priceVars, memVars, crashes>>

(* The thread once print pr is dealt with.                                 *)
Priced(t, pr) ==
  [t EXCEPT !.todo = @ \ {pr},
            !.print = None,
            !.pc = IF t.todo \ {pr} = {} THEN "plan_write" ELSE "plan_price"]

(* Mutant of PlanPriceFound: a cached print is expected in the table, from *)
(* which a rollback may have taken its row, and waited for.                *)
PlanPriceAwaited(w, pr) ==
  LET t == thread[w] IN
  /\ At(w, "plan_price")
  /\ pr \in t.todo
  /\ Visible(w)[pr] # NoRow
  /\ cache' = [cache EXCEPT ![t.run] = @ \cup {pr}]
  /\ Go(w, Priced(t, pr))
  /\ UNCHANGED <<runVars, cardVars, planVars, priceVars, lock, crashes>>

(* ensure_price_for_run, print cached or in the table.                     *)
PlanPriceFound(w, pr) ==
  LET t == thread[w] IN
  /\ At(w, "plan_price")
  /\ pr \in t.todo
  /\ pr \in cache[t.run] \/ Visible(w)[pr] # NoRow
  /\ cache' = [cache EXCEPT ![t.run] = @ \cup {pr}]
  /\ Go(w, Priced(t, pr))
  /\ UNCHANGED <<runVars, cardVars, planVars, priceVars, lock, crashes>>

PlanPriceMissing(w, pr) ==
  LET t == thread[w] IN
  /\ At(w, "plan_price")
  /\ pr \in t.todo
  /\ pr \notin cache[t.run] /\ Visible(w)[pr] = NoRow
  /\ Go(w, [t EXCEPT !.pc = "plan_upsert", !.print = pr])
  /\ UNCHANGED <<runVars, cardVars, planVars, priceVars, memVars, crashes>>

(* The fetched price opens the transaction, and the cache, which is not    *)
(* part of the transaction, gets the print at once.                        *)
PlanUpsert(w) ==
  LET t == thread[w] IN
  /\ At(w, "plan_upsert")
  /\ CanWrite(w)
  /\ lock' = w
  /\ \E p \in Price :
       Go(w, [Priced(t, t.print) EXCEPT !.pending[t.print] = p])
  /\ cache' = [cache EXCEPT ![t.run] = @ \cup {t.print}]
  /\ UNCHANGED <<runVars, cardVars, planVars, priceVars, crashes>>

(* Mutant of Captured: ON CONFLICT DO UPDATE.                              *)
Recaptured(w, r) ==
  [pr \in Prints |-> IF pr \in PrintsIn(r) THEN Visible(w)[pr]
                                            ELSE snapshot[r][pr]]

(* capture_run_price_snapshot: rows that exist are kept.                   *)
Captured(w, r) ==
  [pr \in Prints |-> IF snapshot[r][pr] # NoRow \/ pr \notin PrintsIn(r)
                     THEN snapshot[r][pr] ELSE Visible(w)[pr]]

(* Mutant of SnapshotUsable: the count of NULL prices is not checked.      *)
SnapshotCounted(snap, r) ==
  Cardinality(SnapshotPrints(snap)) >= Cardinality(PrintsIn(r))

SnapshotUsable(snap, r) ==
  /\ Cardinality(SnapshotPrints(snap)) >= Cardinality(PrintsIn(r))
  /\ \A pr \in Prints : snap[pr] # Null

PlanAccepted(w) ==
  LET r == thread[w].run IN
  /\ PlanOf(thread[w].cards) # Infeasible
  /\ SnapshotUsable(Captured(w, r), r)
  /\ CanTransition(status[r], "PLANNED")

PlanCommit(w) ==
  LET r == thread[w].run IN
  /\ At(w, "plan_write")
  /\ CanWrite(w)
  /\ PlanAccepted(w)
  /\ plans' = [plans EXCEPT ![r] = Append(@, PlanOf(thread[w].cards))]
  /\ snapshot' = [snapshot EXCEPT ![r] = Captured(w, r)]
  /\ prices' = Visible(w)
  /\ status' = [status EXCEPT ![r] = "PLANNED"]
  /\ lock' = None
  /\ Done(w)
  /\ UNCHANGED <<stopRequested, failedCode, cardVars, events, cache, crashes>>

(* No plan, no usable snapshot or the wrong status: what the transaction   *)
(* wrote is rolled back, what it cached is not.                            *)
PlanRollback(w) ==
  /\ At(w, "plan_write")
  /\ \/ PlanOf(thread[w].cards) = Infeasible
     \/ CanWrite(w) /\ ~PlanAccepted(w)
  /\ lock' = IF lock = w THEN None ELSE lock
  /\ Done(w)
  /\ UNCHANGED <<runVars, cardVars, planVars, priceVars, cache, crashes>>

-----------------------------------------------------------------------------
(* POST execute.                                                           *)

(* Mutant of ExecuteRead: a PLANNED run is executed without set_status.    *)
ExecuteAtOnce(w, r) ==
  /\ At(w, "idle")
  /\ status[r] \in {"PLANNED", "EXECUTING"} /\ Len(events[r]) < MaxEvents
  /\ Go(w, [Idle EXCEPT !.pc = "load_plan", !.run = r])
  /\ UNCHANGED <<runVars, cardVars, planVars, priceVars, memVars, crashes>>

(* Mutant of ExecuteRead: an EXECUTING run is refused.                     *)
ExecutePlannedOnly(w, r) ==
  /\ At(w, "idle")
  /\ status[r] = "PLANNED" /\ Len(events[r]) < MaxEvents
  /\ Go(w, [Idle EXCEPT !.pc = "set_status", !.run = r, !.status = "EXECUTING"])
  /\ UNCHANGED <<runVars, cardVars, planVars, priceVars, memVars, crashes>>

(* A PLANNED run goes through set_status, an EXECUTING one is resumed.     *)
ExecuteRead(w, r) ==
  /\ At(w, "idle")
  /\ \/ /\ status[r] = "PLANNED"
        /\ Len(events[r]) < MaxEvents              \* bound
        /\ Go(w, [Idle EXCEPT !.pc = "set_status", !.run = r,
                              !.status = "EXECUTING"])
     \/ /\ status[r] = "EXECUTING"
        /\ Go(w, [Idle EXCEPT !.pc = "load_plan", !.run = r])
  /\ UNCHANGED <<runVars, cardVars, planVars, priceVars, memVars, crashes>>

(* Without a plan the handler answers 409; with one but no snapshot it     *)
(* takes the error path.                                                   *)
LoadPlan(w) ==
  LET r == thread[w].run IN
  /\ At(w, "load_plan")
  /\ Go(w, IF plans[r] = <<>> THEN Idle
           ELSE [thread[w] EXCEPT
                   !.pc = IF HasCompleteSnapshot(r) THEN "load_moves"
                                                    ELSE "log_error",
                   !.plan = LatestPlan(r),
                   !.step = -1])
  /\ UNCHANGED <<runVars, cardVars, planVars, priceVars, memVars, crashes>>

MovesOf(t) == plans[t.run][t.plan]

(* Mutant of FirstStep: every execution starts at the beginning.           *)
FromTheStart(r, p) == 0

(* Steps are numbered from 0: step s is element s + 1 of the plan.         *)
FirstStep(r, p) == LastSuccessStep(r, p) + 1

LoadMoves(w) ==
  LET t == thread[w]
      next == FirstStep(t.run, t.plan)
  IN
  /\ At(w, "load_moves")
  /\ Go(w, IF next < Len(MovesOf(t))
           THEN [t EXCEPT !.pc = "move", !.step = next]
           ELSE [t EXCEPT !.pc = "complete"])
  /\ UNCHANGED <<runVars, cardVars, planVars, priceVars, memVars, crashes>>

Append2(log, e, f) == Append(Append(log, e), f)

(* Mutant of BinAfter: the UPDATE of run_cards is forgotten.               *)
BinKept(m) == currentBin

BinAfter(m) == [currentBin EXCEPT ![m.card] = m.to]

(* One turn of the loop: the stop flag is clear, the move is logged and    *)
(* the card's bin updated in one transaction.                              *)
MoveCard(w) ==
  LET t == thread[w]
      m == MovesOf(t)[t.step + 1]
      r == t.run
  IN
  /\ At(w, "move")
  /\ ~stopRequested[r]
  /\ CanWrite(w)
  /\ events' = [events EXCEPT ![r] = Append(@, Event(t.plan, t.step, "SUCCESS"))]
  /\ currentBin' = BinAfter(m)
  /\ Go(w, IF t.step + 1 < Len(MovesOf(t)) THEN [t EXCEPT !.step = @ + 1]
                                           ELSE [t EXCEPT !.pc = "complete"])
  /\ UNCHANGED <<runVars, cardRun, plans, priceVars, memVars, crashes>>

SeeStop(w) ==
  /\ At(w, "move")
  /\ stopRequested[thread[w].run]
  /\ Goto(w, "exec_stop")
  /\ UNCHANGED <<runVars, cardVars, planVars, priceVars, memVars, crashes>>

(* The safe stop.  When set_status refuses, the error path commits the     *)
(* event and the cleared flag together with its own event.                 *)
ExecStop(w) ==
  LET t == thread[w]
      r == t.run
      stopped == Event(t.plan, t.step, "STOPPED")
  IN
  /\ At(w, "exec_stop")
  /\ CanWrite(w)
  /\ stopRequested' = [stopRequested EXCEPT ![r] = FALSE]
  /\ \/ /\ CanTransition(status[r], "PLANNED")
        /\ events' = [events EXCEPT ![r] = Append(@, stopped)]
        /\ status' = [status EXCEPT ![r] = "PLANNED"]
        /\ Done(w)
     \/ /\ ~CanTransition(status[r], "PLANNED")
        /\ events' = [events EXCEPT ![r] =
                        Append2(@, stopped, Event(t.plan, t.step, "ERROR"))]
        /\ status' = status
        /\ Goto(w, "exec_fail_read")
  /\ UNCHANGED <<failedCode, cardVars, plans, priceVars, memVars, crashes>>

CompleteRead(w) ==
  LET t == thread[w] IN
  /\ At(w, "complete")
  /\ Go(w, IF CanTransition(status[t.run], "COMPLETE")
           THEN [t EXCEPT !.pc = "set_status", !.status = "COMPLETE"]
           ELSE [t EXCEPT !.pc = "log_error"])
  /\ UNCHANGED <<runVars, cardVars, planVars, priceVars, memVars, crashes>>

(* The except clause of execute: the error is logged, then the run failed, *)
(* if its status allows; a failure of fail_run is swallowed.               *)
LogError(w) ==
  LET t == thread[w] IN
  /\ At(w, "log_error")
  /\ CanWrite(w)
  /\ events' = [events EXCEPT ![t.run] = Append(@, Event(t.plan, t.step, "ERROR"))]
  /\ Goto(w, "exec_fail_read")
  /\ UNCHANGED <<runVars, cardVars, plans, priceVars, memVars, crashes>>

ExecFailRead(w) ==
  /\ At(w, "exec_fail_read")
  /\ IF CanTransition(status[thread[w].run], "FAILED")
     THEN Goto(w, "fail_write") ELSE Done(w)
  /\ UNCHANGED <<runVars, cardVars, planVars, priceVars, memVars, crashes>>

-----------------------------------------------------------------------------
(* POST stop: checked against the status read first; the transaction logs  *)
(* the stop, clears the flag and, if the run was seen EXECUTING, plans it. *)

StopRead(w, r) ==
  /\ At(w, "idle")
  /\ status[r] \in {"EXECUTING", "PLANNED"}
  /\ status[r] = "PLANNED" => Len(events[r]) < MaxEvents       \* bound
  /\ plans[r] # <<>>
  /\ Go(w, [Idle EXCEPT !.pc = "stop_write", !.run = r, !.status = status[r],
                        !.plan = LatestPlan(r),
                        !.step = LastSuccessStep(r, LatestPlan(r)) + 1])
  /\ UNCHANGED <<runVars, cardVars, planVars, priceVars, memVars, crashes>>

StopRefused(w) == /\ thread[w].status = "EXECUTING"
                  /\ ~CanTransition(status[thread[w].run], "PLANNED")

StopWrite(w) ==
  LET t == thread[w]
      r == t.run
  IN
  /\ At(w, "stop_write")
  /\ CanWrite(w)
  /\ ~StopRefused(w)
  /\ events' = [events EXCEPT ![r] = Append(@, Event(t.plan, t.step, "STOPPED"))]
  /\ stopRequested' = [stopRequested EXCEPT ![r] = FALSE]
  /\ status' = IF t.status = "EXECUTING" THEN [status EXCEPT ![r] = "PLANNED"]
                                         ELSE status
  /\ Done(w)
  /\ UNCHANGED <<failedCode, cardVars, plans, priceVars, memVars, crashes>>

(* set_status raises inside the transaction, which is dropped whole.       *)
StopRollback(w) ==
  /\ At(w, "stop_write")
  /\ CanWrite(w)
  /\ StopRefused(w)
  /\ Done(w)
  /\ UNCHANGED <<runVars, cardVars, planVars, priceVars, memVars, crashes>>

-----------------------------------------------------------------------------
(* fail_run, for POST fail and for the error path of execute, and          *)
(* reset_failed_run.  Neither touches stop_requested.                      *)

FailRead(w, r) ==
  /\ At(w, "idle")
  /\ CanTransition(status[r], "FAILED")
  /\ Go(w, [Idle EXCEPT !.pc = "fail_write", !.run = r])
  /\ UNCHANGED <<runVars, cardVars, planVars, priceVars, memVars, crashes>>

(* A client may give a code, "REQUESTED" whatever its text, or none;       *)
(* execute gives its own, and is known by the plan it works on.            *)
CodesOf(t) == IF t.plan = 0 THEN {None, "REQUESTED"} ELSE {"EXEC_ERROR"}

FailWrite(w) ==
  LET t == thread[w] IN
  /\ At(w, "fail_write")
  /\ CanWrite(w)
  /\ status' = [status EXCEPT ![t.run] = "FAILED"]
  /\ \E code \in CodesOf(t) :
       failedCode' = [failedCode EXCEPT ![t.run] = code]
  /\ Done(w)
  /\ UNCHANGED <<stopRequested, cardVars, planVars, priceVars, memVars, crashes>>

ResetRead(w, r) ==
  /\ At(w, "idle")
  /\ CanResetFailed(status[r])
  /\ Go(w, [Idle EXCEPT !.pc = "reset_write", !.run = r])
  /\ UNCHANGED <<runVars, cardVars, planVars, priceVars, memVars, crashes>>

(* Mutant of CodeAfterReset: failed_code is not set to NULL.               *)
CodeKept(r) == failedCode[r]

CodeAfterReset(r) == None

ResetWrite(w) ==
  LET r == thread[w].run IN
  /\ At(w, "reset_write")
  /\ CanWrite(w)
  /\ status' = [status EXCEPT ![r] = "IDLE"]
  /\ failedCode' = [failedCode EXCEPT ![r] = CodeAfterReset(r)]
  /\ Done(w)
  /\ UNCHANGED <<stopRequested, cardVars, planVars, priceVars, memVars, crashes>>

-----------------------------------------------------------------------------
(* A writer waits at most the busy timeout of sqlite3.connect (5 s) for    *)
(* another connection's transaction, which may span a fetch of up to 30 s; *)
(* then its statement raises "database is locked".                         *)

(* Statements whose error sends execute to its except clause.              *)
Guarded(t) == \/ t.pc \in {"move", "exec_stop"}
              \/ t.pc = "set_status" /\ t.status = "COMPLETE"

(* Statements whose error ends the request, the write undone.              *)
Unguarded == {"insert_run", "insert_card", "set_status", "plan_upsert",
              "plan_write", "log_error", "fail_write", "stop_write",
              "reset_write"}

WriteTimesOut(w) ==
  LET t == thread[w] IN
  /\ ~CanWrite(w)
  /\ \/ /\ Guarded(t)
        /\ t.pc = "move" => ~stopRequested[t.run]
        /\ Goto(w, "log_error")
     \/ /\ t.pc \in Unguarded /\ ~Guarded(t)
        /\ Done(w)
  /\ UNCHANGED <<runVars, cardVars, planVars, priceVars, memVars, crashes>>

-----------------------------------------------------------------------------
(* The process dies: open transactions roll back, the price cache and the  *)
(* threads are gone.  startup_resume_detection only logs.                  *)
Crash ==
  /\ crashes < MaxCrashes                                      \* bound
  /\ crashes' = crashes + 1
  /\ thread' = [w \in Workers |-> Idle]
  /\ lock' = None
  /\ cache' = [r \in Runs |-> {}]
  /\ UNCHANGED <<runVars, cardVars, planVars, priceVars>>

(* External: nothing under robot/ raises the flag or rewrites a price; the *)
(* tests do both with an UPDATE from a connection of their own.            *)
RequestStop(r) ==
  /\ lock = None
  /\ status[r] # "ABSENT"
  /\ stopRequested' = [stopRequested EXCEPT ![r] = TRUE]
  /\ UNCHANGED <<status, failedCode, cardVars, planVars, priceVars, memVars,
                 thread, crashes>>

RefreshPrice(pr) ==
  /\ lock = None
  /\ prices[pr] # NoRow
  /\ \E p \in Price : prices' = [prices EXCEPT ![pr] = p]
  /\ UNCHANGED <<runVars, cardVars, planVars, snapshot, memVars, thread, crashes>>

-----------------------------------------------------------------------------
Request(w) ==
  \E r \in Runs :
    \/ CreateRead(w, r)
    \/ \E next \in {"SCANNING", "HOLDING_READY"} : SetStatusRead(w, r, next)
    \/ \E c \in Cards : AddCardRead(w, r, c)
    \/ PlanRead(w, r)
    \/ ExecuteRead(w, r)
    \/ StopRead(w, r)
    \/ FailRead(w, r)
    \/ ResetRead(w, r)

(* The steps of a request that is being served.                            *)
Serve(w) ==
  \/ CreateInsert(w)
  \/ SetStatusWrite(w)
  \/ AddCardInsert(w) \/ AddCardFetch(w) \/ AddCardPriced(w)
  \/ PlanPrints(w) \/ PlanUpsert(w) \/ PlanCommit(w) \/ PlanRollback(w)
  \/ \E pr \in Prints : PlanPriceFound(w, pr) \/ PlanPriceMissing(w, pr)
  \/ LoadPlan(w) \/ LoadMoves(w) \/ MoveCard(w) \/ SeeStop(w) \/ ExecStop(w)
  \/ CompleteRead(w) \/ LogError(w) \/ ExecFailRead(w)
  \/ StopWrite(w) \/ StopRollback(w)
  \/ FailWrite(w) \/ ResetWrite(w)
  \/ WriteTimesOut(w)

Next ==
  \/ \E w \in Workers : Request(w) \/ Serve(w)
  \/ Crash
  \/ \E r \in FlaggedRuns : RequestStop(r)
  \/ \E pr \in RefreshedPrints : RefreshPrice(pr)

Spec == Init /\ [][Next]_vars

(* The pool keeps running a thread until its handler returns: every read   *)
(* and write takes bounded time, every fetch has a timeout.  Nothing makes *)
(* a client send a request.                                                *)
Serving == \A w \in Workers : WF_vars(Serve(w))
FairSpec == Spec /\ Serving

(* Clients that do ask again for the execution of a run left EXECUTING, as *)
(* the startup warning of startup_resume_detection calls for.              *)
Resume(r) == \E w \in Workers : status[r] = "EXECUTING" /\ ExecuteRead(w, r)
RetrySpec == FairSpec /\ \A r \in Runs : SF_vars(Resume(r))

=============================================================================
