---------------------------- MODULE RunInvariant ----------------------------
(***************************************************************************)
(* The inductive invariant behind the safety properties of RunProperties:  *)
(* what every handler may rely on about the tables, given how far it got.  *)
(***************************************************************************)
EXTENDS RunProperties

(* The handler works on a stored plan.                                     *)
HasPlan(t) ==
  \/ t.pc \in {"load_moves", "move", "exec_stop", "complete", "log_error",
               "exec_fail_read", "stop_write"}
  \/ t.pc = "set_status" /\ t.status = "COMPLETE"

(* A busy handler names a run; one that prices a print, that print; one    *)
(* that works on a plan, a stored one; an executor about to make the move  *)
(* of a step, a step of that plan before which every step has succeeded.   *)
ThreadInStep(t) ==
  /\ t.pc # "idle" => t.run \in Runs
  /\ t.pc \in {"insert_card", "fetch_card", "plan_upsert"} => t.print \in Prints
  /\ HasPlan(t) => t.plan \in DOMAIN plans[t.run]
  /\ t.pc \in {"move", "exec_stop"} =>
       /\ t.step \in 0..(Len(plans[t.run][t.plan]) - 1)
       /\ 0..(t.step - 1) \subseteq SuccessSteps(t.run, t.plan)

ThreadsInStep == \A w \in Workers : ThreadInStep(thread[w])

(* Events report on stored plans.                                          *)
EventsOfPlans ==
  \A r \in Runs : \A i \in DOMAIN events[r] :
    events[r][i].plan \in DOMAIN plans[r]

(* What the executions of a run rely on.                                   *)
ExecutionInv == TypeOK /\ ThreadsInStep /\ EventsOfPlans /\ SuccessPrefix

-----------------------------------------------------------------------------
(* Pricing.                                                                *)

Inserting(t) == t.pc \in {"insert_card", "fetch_card"}
Planning(t) == t.pc \in {"plan_prints", "plan_price", "plan_upsert", "plan_write"}

(* A card on its way into the table is there for one handler only.         *)
NewCardsUnowned ==
  \A w \in Workers : Inserting(thread[w]) => \A c \in thread[w].cards :
    /\ cardRun[c] = None
    /\ \A v \in Workers \ {w} : Inserting(thread[v]) => c \notin thread[v].cards

(* A request brings one card.                                              *)
OneCardEach ==
  \A w \in Workers :
    Inserting(thread[w]) => \E c \in Cards : thread[w].cards = {c}

(* The cards a plan is computed from stay cards of the run.                *)
PlannedCardsOwned ==
  \A w \in Workers :
    Planning(thread[w]) => thread[w].cards \subseteq CardsIn(thread[w].run)

(* A snapshot prices no more than the prints of its run: with it, a count  *)
(* of rows tells whether every print has one (HasCompleteSnapshot).        *)
SnapshotOfRun == \A r \in Runs : SnapshotPrints(snapshot[r]) \subseteq PrintsIn(r)

CardsInv == NewCardsUnowned /\ OneCardEach /\ PlannedCardsOwned

(* What the pricing of a plan relies on.                                   *)
PricingInv == CardsInv /\ SnapshotOfRun /\ PlanPriced

-----------------------------------------------------------------------------
(* One request of a run at a time.                                         *)

(* No two handlers work on one run.  Handlers of other runs may go on, and *)
(* hold the database, meanwhile.                                           *)
OneRequestPerRun ==
  \A v, w \in Workers :
    thread[v].run = thread[w].run => v = w \/ thread[v].run = None

AllDone(r, p) == SuccessSteps(r, p) = 0..(Len(plans[r][p]) - 1)

(* The handler carries out the plan of a run.                              *)
Executing(t) ==
  \/ t.pc \in {"load_plan", "load_moves", "move", "exec_stop", "complete",
               "log_error", "exec_fail_read"}
  \/ t.pc = "set_status" /\ t.status = "COMPLETE"

(* What a handler has read of its run still holds when it writes.          *)
ReadHolds(t) ==
  LET r == t.run IN
  /\ t.pc = "insert_run" => status[r] = "ABSENT"
  /\ t.pc = "set_status" =>
       /\ t.status \in {"SCANNING", "HOLDING_READY", "EXECUTING", "COMPLETE"}
       /\ CanTransition(status[r], t.status)
  /\ Executing(t) => status[r] = "EXECUTING"
  /\ t.pc = "fail_write" => CanTransition(status[r], "FAILED")
  /\ t.pc = "stop_write" =>
       status[r] = t.status /\ t.status \in {"PLANNED", "EXECUTING"}
  /\ t.pc = "reset_write" => status[r] = "FAILED"

(* An executor works on the latest plan, of which exactly the steps before *)
(* its own are done; one that failed has logged its error.                 *)
ExecutorInStep(t) ==
  /\ Executing(t) /\ t.pc # "load_plan" => t.plan = LatestPlan(t.run)
  /\ t.pc \in {"move", "exec_stop"} =>
       SuccessSteps(t.run, t.plan) = 0..(t.step - 1)
  /\ t.pc = "complete" \/ (t.pc = "set_status" /\ t.status = "COMPLETE") =>
       AllDone(t.run, t.plan)
  /\ t.pc = "exec_fail_read" \/ (t.pc = "fail_write" /\ t.plan # 0) =>
       EndsInError(t.run)

(* A COMPLETE run has done all steps of its latest plan.                   *)
CompleteIsDone(r) ==
  status[r] = "COMPLETE" => plans[r] # <<>> /\ AllDone(r, LatestPlan(r))

Success(r, i) == events[r][i].status = "SUCCESS"

(* The moves of a run are logged plan by plan and step by step.            *)
LogInOrder(r) ==
  \A i, j \in DOMAIN events[r] : Success(r, i) /\ Success(r, j) /\ i < j =>
    \/ events[r][i].plan < events[r][j].plan
    \/ /\ events[r][i].plan = events[r][j].plan
       /\ events[r][i].step < events[r][j].step

(* What holds while no two requests of a run overlap.                      *)
SequentialInv ==
  /\ \A w \in Workers : ReadHolds(thread[w]) /\ ExecutorInStep(thread[w])
  /\ FailureExplained
  /\ \A r \in Runs : CompleteIsDone(r) /\ LogInOrder(r)

=============================================================================
