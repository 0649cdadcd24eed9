--------------------------- MODULE SequentialProofs ---------------------------
(***************************************************************************)
(* What the robot runtime guarantees as long as no two requests of a run   *)
(* overlap, for any number of runs, cards and threads: handlers of other   *)
(* runs interleave and time each other out, and restarts cut any of them   *)
(* off.                                                                    *)
(***************************************************************************)
EXTENDS ProgressProofs

(* What a step may change of the run q.                                    *)
SameRow(q) ==
  /\ status'[q] = status[q] /\ failedCode'[q] = failedCode[q]
  /\ plans'[q] = plans[q] /\ events'[q] = events[q]

RunInOrder(r) == CodeExplained(r) /\ CompleteIsDone(r) /\ LogInOrder(r)

LEMMA SequentialParts ==
  SequentialInv <=>
    /\ \A w \in Workers : ReadHolds(thread[w]) /\ ExecutorInStep(thread[w])
    /\ \A r \in Runs : RunInOrder(r)
BY DEF SequentialInv, RunInOrder, FailureExplained

(* A handler knows only of its own run.                                    *)
LEMMA RowsTell ==
  ASSUME NEW t, ReadHolds(t), ExecutorInStep(t), SameRow(t.run)
  PROVE  ReadHolds(t)' /\ ExecutorInStep(t)'
<1>1. ReadHolds(t)'
  BY DEF SameRow, ReadHolds, Executing
<1>2. \A p : /\ SuccessSteps(t.run, p)' = SuccessSteps(t.run, p)
             /\ AllDone(t.run, p)' <=> AllDone(t.run, p)
  BY DEF SameRow, AllDone, SuccessSteps, StepsDone
<1>3. LatestPlan(t.run)' = LatestPlan(t.run)
  BY DEF SameRow, LatestPlan
<1>4. EndsInError(t.run)' <=> EndsInError(t.run)
  BY DEF SameRow, EndsInError, LatestPlan
<1>5. ExecutorInStep(t)'
  BY <1>2, <1>3, <1>4 DEF ExecutorInStep, Executing
<1> QED BY <1>1, <1>5

LEMMA RowsKeepOrder ==
  ASSUME NEW r, RunInOrder(r), SameRow(r)
  PROVE  RunInOrder(r)'
<1>1. AllDone(r, LatestPlan(r))' <=> AllDone(r, LatestPlan(r))
  BY DEF SameRow, AllDone, LatestPlan, SuccessSteps, StepsDone
<1>2. CompleteIsDone(r)'
  BY <1>1 DEF SameRow, RunInOrder, CompleteIsDone
<1>3. LogInOrder(r)'
  BY DEF SameRow, RunInOrder, LogInOrder, Success
<1>4. CodeExplained(r)'
  BY DEF SameRow, RunInOrder, CodeExplained, EndsInError, LatestPlan
<1> QED BY <1>2, <1>3, <1>4 DEF RunInOrder

(* A handler at another place in the code, or none, knows nothing.         *)
Unconcerned == {"idle", "insert_card", "fetch_card", "plan_prints",
                "plan_price", "plan_upsert", "plan_write"}

LEMMA KnowsNothing ==
  ASSUME NEW t, t.pc \in Unconcerned
  PROVE  ReadHolds(t) /\ ExecutorInStep(t) /\ ReadHolds(t)' /\ ExecutorInStep(t)'
BY DEF Unconcerned, ReadHolds, ExecutorInStep, Executing

(* A step of one handler, which writes to its own run at most, leaves what *)
(* the others know alone.                                                  *)
LEMMA OneHandler ==
  ASSUME ExecutionInv, OneRequestPerRun, SequentialInv,
         NEW w \in Workers, NEW u, thread' = [thread EXCEPT ![w] = u],
         \A q \in Runs : SameRow(q) \/ q = thread[w].run,
         \A q \in Runs : ~SameRow(q) => RunInOrder(q)',
         ReadHolds(u)', ExecutorInStep(u)'
  PROVE  SequentialInv'
<1>1. ASSUME NEW v \in Workers
      PROVE  ReadHolds(thread[v])' /\ ExecutorInStep(thread[v])'
  <2>1. PICK t : t = thread'[v]
    OBVIOUS
  <2>2. ReadHolds(t)' /\ ExecutorInStep(t)'
    <3>1. CASE v = w
      <4>1. t = u
        BY <2>1, <3>1 DEF ExecutionInv, TypeOK
      <4> QED BY <4>1
    <3>2. CASE v # w
      <4>1. t = thread[v]
        BY <2>1, <3>2 DEF ExecutionInv, TypeOK
      <4>2. CASE t.pc = "idle"
        BY <4>2, KnowsNothing DEF Unconcerned
      <4>3. CASE t.pc # "idle"
        <5>1. t.run \in Runs /\ t.run # None
          BY <4>1, <4>3, ThreadFacts, ConstantsAssumption DEF ThreadInStep
        <5>2. SameRow(t.run)
          BY <3>2, <4>1, <5>1 DEF OneRequestPerRun
        <5>3. ReadHolds(t) /\ ExecutorInStep(t)
          BY <4>1 DEF SequentialInv
        <5> QED BY <5>2, <5>3, RowsTell
      <4> QED BY <4>2, <4>3
    <3> QED BY <3>1, <3>2
  <2> QED BY <2>1, <2>2 DEF ReadHolds, ExecutorInStep, Executing
<1>2. ASSUME NEW q \in Runs
      PROVE  RunInOrder(q)'
  BY SequentialParts, RowsKeepOrder
<1> QED BY <1>1, <1>2 DEF SequentialInv, RunInOrder, FailureExplained

(* In particular a step that writes to no run.                             *)
LEMMA ReadOnly ==
  ASSUME ExecutionInv, OneRequestPerRun, SequentialInv,
         NEW w \in Workers, NEW u, thread' = [thread EXCEPT ![w] = u],
         UNCHANGED <<status, failedCode, plans, events>>,
         ReadHolds(u), ExecutorInStep(u)
  PROVE  SequentialInv'
<1>1. \A q : SameRow(q)
  BY DEF SameRow
<1>2. ReadHolds(u)' /\ ExecutorInStep(u)'
  BY <1>1, RowsTell
<1> QED BY <1>1, <1>2, OneHandler

-----------------------------------------------------------------------------
(* The reads that accept a request.                                        *)

LEMMA RequestInOrder ==
  ASSUME ExecutionInv, OneRequestPerRun, SequentialInv, NEW w \in Workers, Request(w)
  PROVE  SequentialInv'
<1> USE DEF Go, runVars, planVars
<1> PICK r \in Runs :
      \/ CreateRead(w, r)
      \/ \E next \in {"SCANNING", "HOLDING_READY"} : SetStatusRead(w, r, next)
      \/ \E c \in Cards : AddCardRead(w, r, c)
      \/ PlanRead(w, r)
      \/ ExecuteRead(w, r)
      \/ StopRead(w, r)
      \/ FailRead(w, r)
      \/ ResetRead(w, r)
  BY DEF Request
<1>1. CASE CreateRead(w, r)
  <2> DEFINE t == [Idle EXCEPT !.pc = "insert_run", !.run = r]
  <2>1. ReadHolds(t) /\ ExecutorInStep(t)
    BY <1>1 DEF CreateRead, Idle, ReadHolds, ExecutorInStep, Executing
  <2> QED BY <1>1, <2>1, ReadOnly DEF CreateRead
<1>2. ASSUME NEW next \in {"SCANNING", "HOLDING_READY"}, SetStatusRead(w, r, next)
      PROVE  SequentialInv'
  <2> DEFINE t == [Idle EXCEPT !.pc = "set_status", !.run = r, !.status = next]
  <2>1. ReadHolds(t) /\ ExecutorInStep(t)
    BY <1>2 DEF SetStatusRead, Idle, ReadHolds, ExecutorInStep, Executing
  <2> QED BY <1>2, <2>1, ReadOnly DEF SetStatusRead
<1>3. ASSUME NEW c \in Cards, AddCardRead(w, r, c)
      PROVE  SequentialInv'
  <2> DEFINE t == [Idle EXCEPT !.pc = "insert_card", !.run = r,
                               !.status = status[r], !.cards = {c},
                               !.print = PrintOf[c]]
  <2>1. ReadHolds(t) /\ ExecutorInStep(t)
    BY DEF Idle, ReadHolds, ExecutorInStep, Executing
  <2> QED BY <1>3, <2>1, ReadOnly DEF AddCardRead
<1>4. CASE PlanRead(w, r)
  <2> DEFINE t == [Idle EXCEPT !.pc = "plan_prints", !.run = r,
                               !.cards = CardsIn(r)]
  <2>1. ReadHolds(t) /\ ExecutorInStep(t)
    BY DEF Idle, ReadHolds, ExecutorInStep, Executing
  <2> QED BY <1>4, <2>1, ReadOnly DEF PlanRead
<1>5. CASE ExecuteRead(w, r)
  <2> DEFINE t == [Idle EXCEPT !.pc = "set_status", !.run = r,
                               !.status = "EXECUTING"]
             u == [Idle EXCEPT !.pc = "load_plan", !.run = r]
  <2>1. CASE status[r] = "PLANNED" /\ thread' = [thread EXCEPT ![w] = t]
    <3>1. ReadHolds(t) /\ ExecutorInStep(t)
      BY <2>1 DEF Idle, ReadHolds, ExecutorInStep, Executing, CanTransition,
                  Transitions
    <3> QED BY <1>5, <2>1, <3>1, ReadOnly DEF ExecuteRead
  <2>2. CASE status[r] = "EXECUTING" /\ thread' = [thread EXCEPT ![w] = u]
    <3>1. ReadHolds(u) /\ ExecutorInStep(u)
      BY <2>2 DEF Idle, ReadHolds, ExecutorInStep, Executing
    <3> QED BY <1>5, <2>2, <3>1, ReadOnly DEF ExecuteRead
  <2> QED BY <1>5, <2>1, <2>2 DEF ExecuteRead
<1>6. CASE StopRead(w, r)
  <2> DEFINE t == [Idle EXCEPT !.pc = "stop_write", !.run = r,
                               !.status = status[r], !.plan = LatestPlan(r),
                               !.step = LastSuccessStep(r, LatestPlan(r)) + 1]
  <2>1. ReadHolds(t) /\ ExecutorInStep(t)
    BY <1>6 DEF StopRead, Idle, ReadHolds, ExecutorInStep, Executing
  <2> QED BY <1>6, <2>1, ReadOnly DEF StopRead
<1>7. CASE FailRead(w, r)
  <2> DEFINE t == [Idle EXCEPT !.pc = "fail_write", !.run = r]
  <2>1. ReadHolds(t) /\ ExecutorInStep(t)
    BY <1>7 DEF FailRead, Idle, ReadHolds, ExecutorInStep, Executing
  <2> QED BY <1>7, <2>1, ReadOnly DEF FailRead
<1>8. CASE ResetRead(w, r)
  <2> DEFINE t == [Idle EXCEPT !.pc = "reset_write", !.run = r]
  <2>1. ReadHolds(t) /\ ExecutorInStep(t)
    BY <1>8 DEF ResetRead, CanResetFailed, Idle, ReadHolds, ExecutorInStep, Executing
  <2> QED BY <1>8, <2>1, ReadOnly DEF ResetRead
<1> QED BY <1>1, <1>2, <1>3, <1>4, <1>5, <1>6, <1>7, <1>8

-----------------------------------------------------------------------------
(* The steps of a request that write to no run.                            *)

(* Requests that wait for nothing they have read: pricing and refusals.    *)
LEMMA PricingInOrder ==
  ASSUME ExecutionInv, OneRequestPerRun, SequentialInv, NEW w \in Workers,
         \/ AddCardInsert(w) \/ AddCardFetch(w) \/ AddCardPriced(w)
         \/ PlanPrints(w) \/ PlanUpsert(w) \/ PlanRollback(w)
         \/ \E pr \in Prints : PlanPriceFound(w, pr) \/ PlanPriceMissing(w, pr)
         \/ StopRollback(w)
  PROVE  SequentialInv'
<1>a. PICK t : t = thread[w]
  OBVIOUS
<1>1. ASSUME NEW u, u.pc \in Unconcerned, thread' = [thread EXCEPT ![w] = u]
      PROVE  SequentialInv'
  <2>1. UNCHANGED <<status, failedCode, plans, events>>
    BY DEF AddCardInsert, AddCardFetch, AddCardPriced, PlanPrints, PlanUpsert,
           PlanRollback, PlanPriceFound, PlanPriceMissing, StopRollback, runVars,
           planVars
  <2> QED BY <1>1, <2>1, KnowsNothing, ReadOnly
<1>2. CASE AddCardInsert(w) \/ AddCardPriced(w) \/ PlanRollback(w) \/ StopRollback(w)
  <2>1. Idle.pc \in Unconcerned
    BY DEF Idle, Unconcerned
  <2> QED BY <1>1, <1>2, <2>1
          DEF AddCardInsert, AddCardPriced, PlanRollback, StopRollback, Done, Go
<1>3. t \in ThreadType
  BY <1>a, ThreadFacts
<1>4. ASSUME NEW pr
      PROVE  Priced(t, pr).pc \in Unconcerned
  BY <1>3 DEF Priced, ThreadType, Unconcerned
<1>5. CASE AddCardFetch(w)
  <2>1. [t EXCEPT !.pc = "fetch_card"].pc \in Unconcerned
    BY <1>3 DEF ThreadType, Unconcerned
  <2> QED BY <1>a, <1>1, <1>5, <2>1 DEF AddCardFetch, Goto, Go
<1>6. CASE PlanPrints(w)
  <2> DEFINE todo == PrintsIn(t.run) \ BlankPrints
             u == [t EXCEPT !.todo = todo,
                            !.pc = IF todo = {} THEN "plan_write" ELSE "plan_price"]
  <2> HIDE DEF todo
  <2>1. u.pc \in Unconcerned
    BY <1>3 DEF ThreadType, Unconcerned
  <2>2. thread' = [thread EXCEPT ![w] = u]
    BY <1>a, <1>6 DEF PlanPrints, Go, todo
  <2> QED BY <1>1, <2>1, <2>2
<1>7. CASE PlanUpsert(w)
  <2>1. PICK p : thread' = [thread EXCEPT ![w] =
                              [Priced(t, t.print) EXCEPT !.pending[t.print] = p]]
    BY <1>a, <1>7 DEF PlanUpsert, Go
  <2>2. [Priced(t, t.print) EXCEPT !.pending[t.print] = p].pc \in Unconcerned
    BY <1>3 DEF Priced, ThreadType, Unconcerned
  <2> QED BY <1>1, <2>1, <2>2
<1>8. ASSUME NEW pr \in Prints, PlanPriceFound(w, pr) \/ PlanPriceMissing(w, pr)
      PROVE  SequentialInv'
  <2> DEFINE u == [t EXCEPT !.pc = "plan_upsert", !.print = pr]
  <2>1. u.pc \in Unconcerned
    BY <1>3 DEF ThreadType, Unconcerned
  <2>2. \/ thread' = [thread EXCEPT ![w] = Priced(t, pr)]
        \/ thread' = [thread EXCEPT ![w] = u]
    BY <1>a, <1>8 DEF PlanPriceFound, PlanPriceMissing, Go
  <2> QED BY <1>1, <1>4, <2>1, <2>2
<1> QED BY <1>2, <1>5, <1>6, <1>7, <1>8

(* The reads of an execution.                                              *)
LEMMA ExecutorReads ==
  ASSUME ExecutionInv, OneRequestPerRun, SequentialInv, NEW w \in Workers,
         \/ LoadPlan(w) \/ LoadMoves(w) \/ SeeStop(w) \/ CompleteRead(w)
         \/ ExecFailRead(w) \/ WriteTimesOut(w)
  PROVE  SequentialInv'
<1>a. PICK t : t = thread[w]
  OBVIOUS
<1>b. PICK r, p : r = t.run /\ p = t.plan
  OBVIOUS
<1>0. /\ t \in ThreadType /\ ThreadInStep(t) /\ ReadHolds(t) /\ ExecutorInStep(t)
      /\ ReadHolds(Idle) /\ ExecutorInStep(Idle)
      /\ UNCHANGED <<status, failedCode, plans, events>>
  BY <1>a, ThreadFacts, KnowsNothing
  DEF SequentialInv, Unconcerned, Idle, LoadPlan, LoadMoves, SeeStop,
      CompleteRead, ExecFailRead, WriteTimesOut, runVars, planVars
<1>1. CASE LoadPlan(w)
  <2> DEFINE pc == IF HasCompleteSnapshot(r) THEN "load_moves" ELSE "log_error"
             u == [t EXCEPT !.pc = pc, !.plan = LatestPlan(r), !.step = -1]
  <2>1. thread' = [thread EXCEPT ![w] = Idle] \/ thread' = [thread EXCEPT ![w] = u]
    BY <1>1, <1>a, <1>b DEF LoadPlan, Go
  <2>2. pc \in {"load_moves", "log_error"} /\ t.pc = "load_plan"
    BY <1>1, <1>a DEF LoadPlan, At
  <2> HIDE DEF pc
  <2>3. ReadHolds(u) /\ ExecutorInStep(u)
    BY <1>0, <1>b, <2>2 DEF ReadHolds, ExecutorInStep, Executing, ThreadType
  <2> QED BY <1>0, <2>1, <2>3, ReadOnly
<1>2. CASE LoadMoves(w)
  <2> DEFINE next == FirstStep(r, p)
             u == [t EXCEPT !.pc = "move", !.step = next]
             v == [t EXCEPT !.pc = "complete"]
  <2>1. t.pc = "load_moves" /\ r \in Runs /\ p \in DOMAIN plans[r]
    BY <1>0, <1>2, <1>a, <1>b DEF LoadMoves, At, ThreadInStep, HasPlan
  <2>2. PICK n \in 0..Len(plans[r][p]) :
          SuccessSteps(r, p) = 0..(n - 1) /\ LastSuccessStep(r, p) = n - 1
    BY <2>1, ResumePoint
  <2>3. n \in Nat /\ next = n /\ Len(plans[r][p]) \in Nat
    BY <2>1, <2>2 DEF FirstStep, ExecutionInv, TypeOK
  <2>4. CASE next < Len(plans[r][p])
    <3>1. thread' = [thread EXCEPT ![w] = u]
      BY <1>2, <1>a, <1>b, <2>4 DEF LoadMoves, Go, MovesOf
    <3> HIDE DEF next
    <3>2. ReadHolds(u) /\ ExecutorInStep(u)
      BY <1>0, <1>b, <2>1, <2>2, <2>3
         DEF ReadHolds, ExecutorInStep, Executing, ThreadType
    <3> QED BY <1>0, <3>1, <3>2, ReadOnly
  <2>5. CASE ~(next < Len(plans[r][p]))
    <3>1. thread' = [thread EXCEPT ![w] = v]
      BY <1>2, <1>a, <1>b, <2>5 DEF LoadMoves, Go, MovesOf
    <3>2. n = Len(plans[r][p])
      BY <2>2, <2>3, <2>5
    <3>3. AllDone(r, p)
      BY <2>2, <3>2 DEF AllDone
    <3>4. ReadHolds(v) /\ ExecutorInStep(v)
      BY <1>0, <1>b, <2>1, <3>3
         DEF ReadHolds, ExecutorInStep, Executing, ThreadType
    <3> QED BY <1>0, <3>1, <3>4, ReadOnly
  <2> QED BY <2>4, <2>5
<1>3. CASE SeeStop(w)
  <2> DEFINE u == [t EXCEPT !.pc = "exec_stop"]
  <2>1. t.pc = "move" /\ thread' = [thread EXCEPT ![w] = u]
    BY <1>3, <1>a DEF SeeStop, At, Goto, Go
  <2>2. ReadHolds(u) /\ ExecutorInStep(u)
    BY <1>0, <2>1 DEF ReadHolds, ExecutorInStep, Executing, ThreadType
  <2> QED BY <1>0, <2>1, <2>2, ReadOnly
<1>4. CASE CompleteRead(w)
  <2> DEFINE u == [t EXCEPT !.pc = "set_status", !.status = "COMPLETE"]
  <2>1. t.pc = "complete" /\ status[r] = "EXECUTING"
    BY <1>0, <1>4, <1>a, <1>b DEF CompleteRead, At, ReadHolds, Executing
  <2>2. CanTransition(status[r], "COMPLETE")
    BY <2>1 DEF CanTransition, Transitions
  <2>3. thread' = [thread EXCEPT ![w] = u]
    BY <1>4, <1>a, <1>b, <2>2 DEF CompleteRead, Go
  <2>4. ReadHolds(u) /\ ExecutorInStep(u)
    BY <1>0, <1>b, <2>1, <2>2 DEF ReadHolds, ExecutorInStep, Executing, ThreadType
  <2> QED BY <1>0, <2>3, <2>4, ReadOnly
<1>5. CASE ExecFailRead(w)
  <2> DEFINE u == [t EXCEPT !.pc = "fail_write"]
  <2>1. \/ thread' = [thread EXCEPT ![w] = Idle]
        \/ thread' = [thread EXCEPT ![w] = u] /\ CanTransition(status[r], "FAILED")
    BY <1>5, <1>a, <1>b DEF ExecFailRead, Goto, Done, Go
  <2>2. CanTransition(status[r], "FAILED") => ReadHolds(u) /\ ExecutorInStep(u)
    BY <1>0, <1>5, <1>a, <1>b DEF ExecFailRead, At, ReadHolds, ExecutorInStep, Executing, ThreadType
  <2> QED BY <1>0, <2>1, <2>2, ReadOnly
<1>6. CASE WriteTimesOut(w)
  <2> DEFINE u == [t EXCEPT !.pc = "log_error"]
  <2>1. \/ thread' = [thread EXCEPT ![w] = Idle]
        \/ thread' = [thread EXCEPT ![w] = u] /\ Guarded(t)
    BY <1>6, <1>a DEF WriteTimesOut, Goto, Done, Go
  <2>2. Guarded(t) => Executing(t) /\ t.pc # "load_plan"
    BY DEF Guarded, Executing
  <2>3. Guarded(t) => ReadHolds(u) /\ ExecutorInStep(u)
    BY <1>0, <2>2 DEF ReadHolds, ExecutorInStep, Executing, ThreadType
  <2> QED BY <1>0, <2>1, <2>3, ReadOnly
<1> QED BY <1>1, <1>2, <1>3, <1>4, <1>5, <1>6

-----------------------------------------------------------------------------
(* The writes.                                                             *)

(* What a handler that is about to write knows of its run.                 *)
LEMMA WriterFacts ==
  ASSUME ExecutionInv, SequentialInv, NEW w \in Workers, thread[w].pc # "idle"
  PROVE  /\ thread[w] \in ThreadType /\ thread[w].run \in Runs
         /\ ThreadInStep(thread[w])
         /\ ReadHolds(thread[w]) /\ ExecutorInStep(thread[w])
         /\ RunInOrder(thread[w].run)
         /\ status \in [Runs -> RunStatus \cup {"ABSENT"}]
         /\ failedCode \in [Runs -> {None, "REQUESTED", "EXEC_ERROR"}]
         /\ plans \in [Runs -> Seq(Seq(Move))] /\ events \in [Runs -> Seq(EventType)]
         /\ thread \in [Workers -> ThreadType]
<1>1. thread[w] \in ThreadType /\ ThreadInStep(thread[w])
  BY ThreadFacts
<1>2. thread[w].run \in Runs
  BY <1>1 DEF ThreadInStep
<1> QED BY <1>1, <1>2, SequentialParts DEF SequentialInv, ExecutionInv, TypeOK, TablesOK

(* A status write keeps the log: only COMPLETE says something about it.    *)
LEMMA StatusKeepsOrder ==
  ASSUME NEW r \in Runs, RunInOrder(r),
         plans'[r] = plans[r], events'[r] = events[r],
         failedCode'[r] # None => status'[r] = "FAILED",
         failedCode'[r] = "EXEC_ERROR" => EndsInError(r),
         status'[r] = "COMPLETE" => plans[r] # <<>> /\ AllDone(r, LatestPlan(r))
  PROVE  RunInOrder(r)'
<1>1. AllDone(r, LatestPlan(r))' <=> AllDone(r, LatestPlan(r))
  BY DEF AllDone, LatestPlan, SuccessSteps, StepsDone
<1>2. CompleteIsDone(r)'
  BY <1>1 DEF CompleteIsDone
<1>3. LogInOrder(r)'
  BY DEF RunInOrder, LogInOrder, Success
<1>4. CodeExplained(r)'
  BY DEF CodeExplained, EndsInError, LatestPlan
<1> QED BY <1>2, <1>3, <1>4 DEF RunInOrder

(* Only a FAILED run has a code.                                           *)
LEMMA NoCodeElse ==
  ASSUME NEW r, RunInOrder(r), status[r] # "FAILED"
  PROVE  failedCode[r] = None
BY DEF RunInOrder, CodeExplained

LEMMA StatusWritesInOrder ==
  ASSUME ExecutionInv, OneRequestPerRun, SequentialInv, NEW w \in Workers,
         \/ CreateInsert(w) \/ SetStatusWrite(w) \/ FailWrite(w) \/ ResetWrite(w)
         \/ PlanCommit(w)
  PROVE  SequentialInv'
<1>a. PICK t : t = thread[w]
  OBVIOUS
<1>b. PICK r, p : r = t.run /\ p = t.plan
  OBVIOUS
<1>0. /\ t \in ThreadType /\ r \in Runs /\ ThreadInStep(t)
      /\ ReadHolds(t) /\ ExecutorInStep(t) /\ RunInOrder(r)
      /\ status \in [Runs -> RunStatus \cup {"ABSENT"}]
      /\ failedCode \in [Runs -> {None, "REQUESTED", "EXEC_ERROR"}]
      /\ plans \in [Runs -> Seq(Seq(Move))]
  BY <1>a, <1>b, WriterFacts
  DEF CreateInsert, SetStatusWrite, FailWrite, ResetWrite, PlanCommit, At
<1>c. Idle.pc \in Unconcerned /\ events' = events
  BY DEF Idle, Unconcerned, CreateInsert, SetStatusWrite, FailWrite, ResetWrite,
         PlanCommit, planVars
<1>1. CASE CreateInsert(w)
  <2>1. /\ status' = [status EXCEPT ![r] = "IDLE"]
        /\ UNCHANGED <<failedCode, plans>>
        /\ thread' = [thread EXCEPT ![w] = Idle]
        /\ t.pc = "insert_run"
    BY <1>1, <1>a, <1>b DEF CreateInsert, FirstStatus, Done, Go, At, planVars
  <2>2. status[r] = "ABSENT"
    BY <1>0, <1>b, <2>1 DEF ReadHolds
  <2>3. RunInOrder(r)'
    BY <1>0, <1>c, <2>1, <2>2, StatusKeepsOrder, NoCodeElse, ConstantsAssumption
  <2>4. \A q \in Runs : SameRow(q) \/ q = r
    BY <1>0, <1>c, <2>1 DEF SameRow
  <2> QED BY <1>a, <1>b, <1>c, <2>1, <2>3, <2>4, KnowsNothing, OneHandler
<1>2. CASE SetStatusWrite(w)
  <2> DEFINE u == [t EXCEPT !.pc = "load_plan"]
  <2>1. /\ status' = [status EXCEPT ![r] = t.status]
        /\ UNCHANGED <<failedCode, plans>>
        /\ t.pc = "set_status"
        /\ IF t.status = "EXECUTING" THEN thread' = [thread EXCEPT ![w] = u]
                                     ELSE thread' = [thread EXCEPT ![w] = Idle]
    BY <1>2, <1>a, <1>b DEF SetStatusWrite, Done, Goto, Go, At, planVars
  <2>2. t.status # "FAILED" /\ status[r] # "FAILED"
    BY <1>0, <1>b, <2>1 DEF ReadHolds, CanTransition, Transitions
  <2>3. t.status = "COMPLETE" => plans[r] # <<>> /\ AllDone(r, LatestPlan(r))
    BY <1>0, <1>b, <2>1 DEF ExecutorInStep, Executing, ThreadInStep, HasPlan
  <2>4. RunInOrder(r)'
    BY <1>0, <1>c, <2>1, <2>2, <2>3, StatusKeepsOrder, NoCodeElse,
       ConstantsAssumption
  <2>5. \A q \in Runs : SameRow(q) \/ q = r
    BY <1>0, <1>c, <2>1 DEF SameRow
  <2>6. CASE t.status = "EXECUTING"
    <3>1. ReadHolds(u)' /\ ExecutorInStep(u)'
      BY <1>0, <1>b, <2>1, <2>6 DEF ReadHolds, ExecutorInStep, Executing, ThreadType
    <3> QED BY <1>a, <1>b, <2>1, <2>4, <2>5, <2>6, <3>1, OneHandler
  <2>7. CASE t.status # "EXECUTING"
    BY <1>a, <1>b, <1>c, <2>1, <2>4, <2>5, <2>7, KnowsNothing, OneHandler
  <2> QED BY <2>6, <2>7
<1>3. CASE FailWrite(w) \/ ResetWrite(w)
  <2>1. PICK code, next : /\ status' = [status EXCEPT ![r] = next]
                          /\ failedCode' = [failedCode EXCEPT ![r] = code]
                          /\ next \in {"FAILED", "IDLE"}
                          /\ code # None => next = "FAILED"
                          /\ code = "EXEC_ERROR" => EndsInError(r)
                          /\ plans' = plans
                          /\ thread' = [thread EXCEPT ![w] = Idle]
    <3>1. CASE FailWrite(w)
      <4>1. PICK code \in CodesOf(t) :
              failedCode' = [failedCode EXCEPT ![r] = code]
        BY <3>1, <1>a, <1>b DEF FailWrite
      <4>2. /\ status' = [status EXCEPT ![r] = "FAILED"]
            /\ plans' = plans /\ thread' = [thread EXCEPT ![w] = Idle]
            /\ t.pc = "fail_write"
        BY <3>1, <1>a, <1>b DEF FailWrite, Done, Go, planVars, At
      <4>3. code = "EXEC_ERROR" => t.plan # 0
        BY <4>1, ConstantsAssumption DEF CodesOf
      <4>4. code = "EXEC_ERROR" => EndsInError(r)
        BY <1>0, <1>b, <4>2, <4>3 DEF ExecutorInStep
      <4> QED BY <4>1, <4>2, <4>4
    <3>2. CASE ResetWrite(w)
      BY <3>2, <1>a, <1>b, ConstantsAssumption
      DEF ResetWrite, CodeAfterReset, Done, Go, planVars
    <3> QED BY <1>3, <3>1, <3>2
  <2>2. RunInOrder(r)'
    BY <1>0, <1>c, <2>1, StatusKeepsOrder
  <2>3. \A q \in Runs : SameRow(q) \/ q = r
    BY <1>0, <1>c, <2>1 DEF SameRow
  <2> QED BY <1>a, <1>b, <1>c, <2>1, <2>2, <2>3, KnowsNothing, OneHandler
<1>4. CASE PlanCommit(w)
  <2>1. /\ status' = [status EXCEPT ![r] = "PLANNED"]
        /\ failedCode' = failedCode
        /\ plans' = [plans EXCEPT ![r] = Append(plans[r], PlanOf(t.cards))]
        /\ thread' = [thread EXCEPT ![w] = Idle]
        /\ status[r] # "FAILED"
    BY <1>4, <1>a, <1>b
    DEF PlanCommit, PlanAccepted, CanTransition, Transitions, Done, Go
  <2>2. RunInOrder(r)'
    <3>1. status'[r] = "PLANNED"
      BY <1>0, <2>1
    <3>2. LogInOrder(r)'
      <4>1. LogInOrder(r) /\ events'[r] = events[r]
        BY <1>0, <1>c DEF RunInOrder
      <4> QED BY <4>1 DEF LogInOrder, Success
    <3>3. CodeExplained(r)'
      BY <1>0, <2>1, NoCodeElse, ConstantsAssumption DEF CodeExplained
    <3> QED BY <1>0, <2>1, <3>1, <3>2, <3>3 DEF RunInOrder, CompleteIsDone
  <2>3. \A q \in Runs : SameRow(q) \/ q = r
    BY <1>0, <1>c, <2>1 DEF SameRow
  <2> QED BY <1>a, <1>b, <1>c, <2>1, <2>2, <2>3, KnowsNothing, OneHandler
<1> QED BY <1>1, <1>2, <1>3, <1>4

(* Stops and errors are logged by the only handler of a run that is not    *)
(* finished, and count for nothing.                                        *)
LEMMA StopsInOrder ==
  ASSUME ExecutionInv, OneRequestPerRun, SequentialInv, NEW w \in Workers,
         ExecStop(w) \/ LogError(w) \/ StopWrite(w)
  PROVE  SequentialInv'
<1>a. PICK t : t = thread[w]
  OBVIOUS
<1>b. PICK r : r = t.run
  OBVIOUS
<1> DEFINE u == [t EXCEPT !.pc = "exec_fail_read"]
<1>0. /\ t \in ThreadType /\ r \in Runs /\ ThreadInStep(t)
      /\ ReadHolds(t) /\ ExecutorInStep(t) /\ RunInOrder(r)
      /\ status \in [Runs -> RunStatus \cup {"ABSENT"}]
      /\ events \in [Runs -> Seq(EventType)]
      /\ t.pc \in {"exec_stop", "log_error", "stop_write"}
  BY <1>a, <1>b, WriterFacts DEF ExecStop, LogError, StopWrite, At
<1>1. status[r] \in {"PLANNED", "EXECUTING"}
  BY <1>0, <1>b DEF ReadHolds, Executing
<1>2. UNCHANGED <<plans, failedCode>> /\ GoesOnWithout(events'[r], events[r])
  BY <1>0, NoSuccessLogged DEF ExecStop, LogError, StopWrite, runVars
<1>3. \/ /\ status' = [status EXCEPT ![r] = "PLANNED"]
         /\ thread' = [thread EXCEPT ![w] = Idle]
      \/ /\ status' = status
         /\ thread' = [thread EXCEPT ![w] = u] /\ t.pc = "log_error"
  <2>1. CASE ExecStop(w)
    <3>1. status[r] = "EXECUTING"
      BY <1>0, <1>a, <1>b, <2>1 DEF ReadHolds, Executing, ExecStop, At
    <3>2. CanTransition(status[r], "PLANNED")
      BY <3>1 DEF CanTransition, Transitions
    <3> QED BY <1>a, <1>b, <2>1, <3>2 DEF ExecStop, Done, Go
  <2>2. CASE LogError(w)
    BY <1>a, <1>b, <2>2 DEF LogError, Goto, Go, At, runVars
  <2>3. CASE StopWrite(w)
    <3>1. status[r] = t.status /\ t.status \in {"PLANNED", "EXECUTING"}
      BY <1>0, <1>a, <1>b, <2>3 DEF ReadHolds, StopWrite, At
    <3>2. thread' = [thread EXCEPT ![w] = Idle]
          /\ status' = IF t.status = "EXECUTING" THEN [status EXCEPT ![r] = "PLANNED"]
                                                 ELSE status
      BY <1>a, <1>b, <2>3 DEF StopWrite, Done, Go
    <3>3. t.status = "PLANNED" => status = [status EXCEPT ![r] = "PLANNED"]
      BY <1>0, <3>1
    <3> QED BY <3>1, <3>2, <3>3
  <2> QED BY <2>1, <2>2, <2>3
<1>4. status'[r] \in {"PLANNED", "EXECUTING"}
  BY <1>0, <1>1, <1>3
<1>5. RunInOrder(r)'
  <2>1. LogInOrder(r)'
    BY <1>0, <1>2 DEF GoesOnWithout, RunInOrder, LogInOrder, Success
  <2>2. CodeExplained(r)'
    BY <1>0, <1>1, <1>2, NoCodeElse, ConstantsAssumption DEF CodeExplained
  <2> QED BY <1>0, <1>1, <1>2, <1>4, <2>1, <2>2 DEF RunInOrder, CompleteIsDone
<1>6. \A q \in Runs : SameRow(q) \/ q = r
  <2>1. \A q \in Runs \ {r} : events'[q] = events[q]
    BY <1>0, <1>a, <1>b DEF ExecStop, LogError, StopWrite
  <2> QED BY <1>0, <1>2, <1>3, <2>1 DEF SameRow
<1>7. CASE thread' = [thread EXCEPT ![w] = Idle]
  <2>1. Idle.pc \in Unconcerned
    BY DEF Idle, Unconcerned
  <2> QED BY <1>a, <1>b, <1>5, <1>6, <1>7, <2>1, KnowsNothing, OneHandler
<1>8. CASE status' = status /\ thread' = [thread EXCEPT ![w] = u] /\ t.pc = "log_error"
  <2>1. LogError(w) \/ ExecStop(w)
    BY <1>0, <1>a, <1>8 DEF ExecStop, LogError, StopWrite, At
  <2>2. LogError(w)
    BY <1>0, <1>a, <1>8, <2>1 DEF ExecStop, At
  <2>3. EndsInError(r)'
    <3>0. PICK log \in Seq(EventType) : log = events[r]
      BY <1>0
    <3>1. PICK e : /\ e = Event(t.plan, t.step, "ERROR")
                   /\ events'[r] = Append(log, e)
      BY <1>0, <1>a, <1>b, <2>2, <3>0 DEF LogError
    <3>2. e.status = "ERROR" /\ e.plan = LatestPlan(r)
      BY <1>0, <1>b, <1>8, <3>1 DEF Event, ExecutorInStep, Executing
    <3>3. LatestPlan(r)' = LatestPlan(r)
      BY <1>2 DEF LatestPlan
    <3>4. PICK long : long = Append(log, e)
      OBVIOUS
    <3>5. long # <<>> /\ long[Len(long)] = e
      <4>1. PICK n \in Nat : n = Len(log)
        BY <3>0
      <4>2. Len(long) = n + 1 /\ long[n + 1] = e
        BY <3>0, <3>4, <4>1
      <4> QED BY <3>0, <3>4, <4>1, <4>2
    <3> QED BY <3>1, <3>2, <3>3, <3>4, <3>5 DEF EndsInError
  <2>4. ReadHolds(u)' /\ ExecutorInStep(u)'
    BY <1>0, <1>2, <1>8, <1>b, <2>3
    DEF ReadHolds, ExecutorInStep, Executing, ThreadType, LatestPlan
  <2> QED BY <1>a, <1>b, <1>5, <1>6, <1>8, <2>4, OneHandler
<1> QED BY <1>3, <1>7, <1>8

(* The next move of the latest plan is logged after all moves before it.   *)
LEMMA MoveInOrder ==
  ASSUME ExecutionInv, OneRequestPerRun, SequentialInv, NEW w \in Workers, MoveCard(w)
  PROVE  SequentialInv'
<1>a. PICK t : t = thread[w]
  OBVIOUS
<1>b. PICK r, p, s : r = t.run /\ p = t.plan /\ s = t.step
  OBVIOUS
<1> DEFINE next == [t EXCEPT !.step = s + 1]
           last == [t EXCEPT !.pc = "complete"]
<1>0. /\ t \in ThreadType /\ ReadHolds(t) /\ ExecutorInStep(t) /\ RunInOrder(r)
      /\ t.pc = "move" /\ UNCHANGED <<status, failedCode, plans>>
      /\ plans \in [Runs -> Seq(Seq(Move))]
  BY <1>a, <1>b, WriterFacts DEF MoveCard, At, runVars
<1>1. Logs(r, p, s) /\ MakesDone(r, p, s)
  BY <1>a, <1>b, MoveLogged
<1>2. /\ status[r] = "EXECUTING" /\ p = LatestPlan(r)
      /\ SuccessSteps(r, p) = 0..(s - 1)
  BY <1>0, <1>b DEF ReadHolds, ExecutorInStep, Executing
<1>3. /\ p \in Nat /\ s \in Nat /\ s < Len(plans[r][p]) /\ Len(plans[r][p]) \in Nat
      /\ r \in Runs
  BY <1>1 DEF Logs
<1>4. SuccessSteps(r, p)' = 0..s
  <2>1. SuccessSteps(r, p)' = StepsDone(events'[r], p)
    BY DEF SuccessSteps, StepsDone
  <2>2. StepsDone(events'[r], p) = StepsDone(events[r], p) \cup {s}
    BY <1>1 DEF MakesDone
  <2>3. (0..(s - 1)) \cup {s} = 0..s
    BY <1>3
  <2> QED BY <1>2, <2>1, <2>2, <2>3 DEF SuccessSteps
<1>5. LogInOrder(r)'
  <2>1. PICK log \in Seq(EventType), e \in EventType :
          /\ log = events[r] /\ events'[r] = Append(log, e)
          /\ e = Event(p, s, "SUCCESS")
    BY <1>1 DEF Logs
  <2>2. PICK n \in Nat : n = Len(log) /\ DOMAIN log = 1..n
    BY <2>1
  <2>3. PICK long : long = Append(log, e)
    OBVIOUS
  <2>4. /\ DOMAIN long = 1..(n + 1) /\ long[n + 1] = e
        /\ \A i \in 1..n : long[i] = log[i]
    BY <2>1, <2>2, <2>3
  <2>5. e.plan = p /\ e.step = s
    BY <2>1 DEF Event
  <2>6. ASSUME NEW i \in 1..n, log[i].status = "SUCCESS"
        PROVE  log[i].plan < p \/ (log[i].plan = p /\ log[i].step < s)
    <3>1. log[i].plan \in DOMAIN plans[r]
      BY <1>3, <2>1, <2>2 DEF ExecutionInv, EventsOfPlans
    <3>2. log[i].plan \in Nat /\ log[i].plan <= p
      BY <1>0, <1>2, <1>3, <3>1 DEF LatestPlan
    <3>3. log[i].plan = p => log[i].step \in 0..(s - 1)
      BY <1>2, <2>1, <2>2, <2>6 DEF SuccessSteps, StepsDone
    <3> QED BY <1>3, <3>2, <3>3
  <2>7. \A i, j \in 1..n : log[i].status = "SUCCESS" /\ log[j].status = "SUCCESS" /\ i < j =>
          \/ log[i].plan < log[j].plan
          \/ log[i].plan = log[j].plan /\ log[i].step < log[j].step
    <3>1. LogInOrder(r) /\ log = events[r] /\ DOMAIN events[r] = 1..n
      BY <1>0, <2>1, <2>2 DEF RunInOrder
    <3> QED BY <3>1 DEF LogInOrder, Success
  <2>8. \A i, j \in 1..(n + 1) :
          long[i].status = "SUCCESS" /\ long[j].status = "SUCCESS" /\ i < j =>
          \/ long[i].plan < long[j].plan
          \/ long[i].plan = long[j].plan /\ long[i].step < long[j].step
    <3> SUFFICES ASSUME NEW i \in 1..(n + 1), NEW j \in 1..(n + 1),
                        long[i].status = "SUCCESS", long[j].status = "SUCCESS", i < j
                 PROVE  \/ long[i].plan < long[j].plan
                        \/ long[i].plan = long[j].plan /\ long[i].step < long[j].step
      OBVIOUS
    <3>1. i \in 1..n /\ (j \in 1..n \/ j = n + 1)
      BY <2>2
    <3>2. CASE j \in 1..n
      BY <2>4, <2>7, <3>1, <3>2
    <3>3. CASE j = n + 1
      BY <2>4, <2>5, <2>6, <3>1, <3>3
    <3> QED BY <3>1, <3>2, <3>3
  <2>9. events'[r] = long
    BY <2>1, <2>3
  <2> QED BY <2>4, <2>8, <2>9 DEF LogInOrder, Success
<1>6. RunInOrder(r)'
  <2>1. CodeExplained(r)'
    BY <1>0, <1>2, NoCodeElse, ConstantsAssumption DEF CodeExplained
  <2> QED BY <1>0, <1>2, <1>5, <2>1 DEF RunInOrder, CompleteIsDone
<1>7. \A q \in Runs : SameRow(q) \/ q = r
  BY <1>0, <1>1 DEF SameRow, Logs
<1>8. CASE s + 1 < Len(plans[r][p])
  <2>1. thread' = [thread EXCEPT ![w] = next]
    BY <1>8, <1>a, <1>b DEF MoveCard, Go, MovesOf
  <2>2. (s + 1) - 1 = s
    BY <1>3
  <2>3. ReadHolds(next)' /\ ExecutorInStep(next)'
    BY <1>0, <1>2, <1>4, <1>b, <2>2
    DEF ReadHolds, ExecutorInStep, Executing, ThreadType, LatestPlan
  <2> QED BY <1>a, <1>b, <1>6, <1>7, <2>1, <2>3, OneHandler
<1>9. CASE ~(s + 1 < Len(plans[r][p]))
  <2>1. thread' = [thread EXCEPT ![w] = last]
    BY <1>9, <1>a, <1>b DEF MoveCard, Go, MovesOf
  <2>2. Len(plans[r][p]) - 1 = s
    BY <1>3, <1>9
  <2>3. AllDone(r, p)'
    BY <1>0, <1>4, <2>2 DEF AllDone
  <2>4. ReadHolds(last)' /\ ExecutorInStep(last)'
    BY <1>0, <1>2, <1>b, <2>3
    DEF ReadHolds, ExecutorInStep, Executing, ThreadType, LatestPlan
  <2> QED BY <1>a, <1>b, <1>6, <1>7, <2>1, <2>4, OneHandler
<1> QED BY <1>8, <1>9

(* A restart leaves no handler, and the tables.                            *)
LEMMA OthersInOrder ==
  ASSUME ExecutionInv, SequentialInv,
         \/ Crash
         \/ \E r \in FlaggedRuns : RequestStop(r)
         \/ \E pr \in RefreshedPrints : RefreshPrice(pr)
         \/ UNCHANGED vars
  PROVE  SequentialInv'
<1>1. \A q : SameRow(q)
  BY DEF Crash, RequestStop, RefreshPrice, vars, runVars, planVars, SameRow
<1>2. \A q \in Runs : RunInOrder(q)'
  BY <1>1, SequentialParts, RowsKeepOrder
<1>3. ASSUME NEW w \in Workers
      PROVE  ReadHolds(thread[w])' /\ ExecutorInStep(thread[w])'
  <2>1. PICK t : t = thread'[w]
    OBVIOUS
  <2>2. CASE t = Idle
    <3>1. t.pc \in Unconcerned
      BY <2>2 DEF Idle, Unconcerned
    <3>2. ReadHolds(t)' /\ ExecutorInStep(t)'
      BY <3>1, KnowsNothing
    <3> QED BY <2>1, <3>2 DEF ReadHolds, ExecutorInStep, Executing
  <2>3. CASE t = thread[w]
    <3>1. ReadHolds(t)' /\ ExecutorInStep(t)'
      BY <1>1, <2>3, RowsTell DEF SequentialInv
    <3> QED BY <2>1, <3>1 DEF ReadHolds, ExecutorInStep, Executing
  <2> QED BY <2>1, <2>2, <2>3 DEF Crash, RequestStop, RefreshPrice, vars
<1> QED BY <1>2, <1>3 DEF SequentialInv, RunInOrder, FailureExplained

-----------------------------------------------------------------------------
(* While no two requests of a run overlap, what a handler has read of its  *)
(* run holds until it writes, and the log of the run is in order.          *)
THEOREM SequentialInvariance == Spec /\ []OneRequestPerRun => []SequentialInv
<1>1. Init => SequentialInv
  <2> SUFFICES ASSUME Init PROVE SequentialInv
    OBVIOUS
  <2>1. Idle.pc \in Unconcerned
    BY DEF Idle, Unconcerned
  <2>2. \A w \in Workers : ReadHolds(thread[w]) /\ ExecutorInStep(thread[w])
    BY <2>1, KnowsNothing DEF Init
  <2>3. FailureExplained
    BY ConstantsAssumption DEF Init, FailureExplained, CodeExplained
  <2> QED BY <2>2, <2>3 DEF Init, SequentialInv, CompleteIsDone, LogInOrder
<1>2. ExecutionInv /\ OneRequestPerRun /\ SequentialInv /\ [Next]_vars => SequentialInv'
  <2> SUFFICES ASSUME ExecutionInv, OneRequestPerRun, SequentialInv, [Next]_vars
               PROVE  SequentialInv'
    OBVIOUS
  <2>1. ASSUME NEW w \in Workers, Request(w)
        PROVE  SequentialInv'
    BY <2>1, RequestInOrder
  <2>2. ASSUME NEW w \in Workers, Serve(w)
        PROVE  SequentialInv'
    BY <2>2, PricingInOrder, ExecutorReads, StatusWritesInOrder, StopsInOrder,
       MoveInOrder DEF Serve
  <2> QED BY <2>1, <2>2, OthersInOrder DEF Next
<1> QED BY <1>1, <1>2, Invariance, PTL DEF Spec

(* A failure code speaks of the failure its run is in: fail_run and        *)
(* reset_failed_run write status and code together, and between the error  *)
(* that execute logs and the code that it writes no other event and no     *)
(* other plan of the run comes in.                                         *)
THEOREM FailuresExplained == Spec /\ []OneRequestPerRun => []FailureExplained
<1>1. SequentialInv => FailureExplained
  BY DEF SequentialInv
<1> QED BY <1>1, SequentialInvariance, PTL

(* No step of a plan is logged as done twice, by whatever executions,      *)
(* stops, resumes and restarts follow one another.                         *)
THEOREM NoMoveTwice == Spec /\ []OneRequestPerRun => []EachMoveOnce
<1>1. ExecutionInv /\ SequentialInv => EachMoveOnce
  <2> SUFFICES ASSUME ExecutionInv, SequentialInv, NEW r \in Runs,
                      NEW i \in DOMAIN events[r], NEW j \in DOMAIN events[r],
                      Success(r, i), Success(r, j),
                      events[r][i].plan = events[r][j].plan,
                      events[r][i].step = events[r][j].step
               PROVE  i = j
    BY DEF EachMoveOnce, Success
  <2>1. events[r] \in Seq(EventType) /\ LogInOrder(r)
    BY DEF ExecutionInv, TypeOK, SequentialInv
  <2>2. /\ i \in Nat /\ j \in Nat /\ events[r][i].plan \in Int
        /\ events[r][i].step \in Int
    <3>1. PICK log \in Seq(EventType) : log = events[r]
      BY <2>1
    <3>2. log[i] \in EventType
      BY <3>1
    <3> QED BY <3>1, <3>2 DEF EventType
  <2>3. ~(i < j) /\ ~(j < i)
    BY <2>1, <2>2 DEF LogInOrder
  <2> QED BY <2>2, <2>3
<1> QED BY <1>1, Invariance, SequentialInvariance, PTL

(* The statuses are written by seven kinds of steps.                       *)
LEMMA StatusWriters ==
  ASSUME [Next]_vars,
         ~(\E w \in Workers :
             \/ CreateInsert(w) \/ SetStatusWrite(w) \/ FailWrite(w) \/ ResetWrite(w)
             \/ PlanCommit(w) \/ ExecStop(w) \/ StopWrite(w))
  PROVE  status' = status
<1>1. ASSUME NEW w \in Workers, Request(w)
      PROVE  status' = status
  BY <1>1 DEF Request, CreateRead, SetStatusRead, AddCardRead, PlanRead,
              ExecuteRead, StopRead, FailRead, ResetRead, runVars
<1>2. ASSUME NEW w \in Workers, Serve(w)
      PROVE  status' = status
  <2>1. ASSUME NEW pr \in Prints, PlanPriceFound(w, pr) \/ PlanPriceMissing(w, pr)
        PROVE  status' = status
    BY <2>1 DEF PlanPriceFound, PlanPriceMissing, runVars
  <2> QED BY <1>2, <2>1
          DEF Serve, AddCardInsert, AddCardFetch, AddCardPriced, PlanPrints,
              PlanUpsert, PlanRollback, LoadPlan, LoadMoves, MoveCard, SeeStop,
              CompleteRead, LogError, ExecFailRead, StopRollback, WriteTimesOut,
              runVars
<1>3. CASE Crash \/ (\E r \in FlaggedRuns : RequestStop(r))
           \/ (\E pr \in RefreshedPrints : RefreshPrice(pr)) \/ UNCHANGED vars
  BY <1>3 DEF Crash, RequestStop, RefreshPrice, vars, runVars
<1> QED BY <1>1, <1>2, <1>3 DEF Next

(* The lifecycle's edges, the creation of a run and the reset of a failed  *)
(* one.                                                                    *)
Legal(old, new) ==
  \/ CanTransition(old, new)
  \/ CanResetFailed(old) /\ new = "IDLE"
  \/ old = "ABSENT" /\ new = "IDLE"

LEMMA StatusStep ==
  ASSUME ExecutionInv, SequentialInv, NEW w \in Workers,
         \/ CreateInsert(w) \/ SetStatusWrite(w) \/ FailWrite(w) \/ ResetWrite(w)
         \/ PlanCommit(w) \/ ExecStop(w) \/ StopWrite(w),
         NEW q \in Runs, status'[q] # status[q]
  PROVE  Legal(status[q], status'[q])
<1>a. PICK t : t = thread[w]
  OBVIOUS
<1>b. PICK r : r = t.run
  OBVIOUS
<1>1. /\ r \in Runs /\ ReadHolds(t) /\ status \in [Runs -> RunStatus \cup {"ABSENT"}]
  BY <1>a, <1>b, WriterFacts
  DEF CreateInsert, SetStatusWrite, FailWrite, ResetWrite, PlanCommit, ExecStop,
      StopWrite, At
<1>2. PICK new : status' = [status EXCEPT ![r] = new] /\ Legal(status[r], new)
  <2>1. CASE CreateInsert(w)
    BY <1>a, <1>b, <1>1, <2>1 DEF CreateInsert, At, FirstStatus, ReadHolds, Legal
  <2>2. CASE SetStatusWrite(w)
    BY <1>a, <1>b, <1>1, <2>2 DEF SetStatusWrite, At, ReadHolds, Legal
  <2>3. CASE FailWrite(w)
    BY <1>a, <1>b, <1>1, <2>3 DEF FailWrite, At, ReadHolds, Legal
  <2>4. CASE ResetWrite(w)
    BY <1>a, <1>b, <1>1, <2>4 DEF ResetWrite, At, ReadHolds, Legal, CanResetFailed
  <2>5. CASE PlanCommit(w)
    BY <1>a, <1>b, <2>5 DEF PlanCommit, PlanAccepted, Legal
  <2>6. CASE ExecStop(w)
    <3>1. \/ /\ status' = [status EXCEPT ![r] = "PLANNED"]
             /\ CanTransition(status[r], "PLANNED")
          \/ status' = status
      BY <1>a, <1>b, <2>6 DEF ExecStop
    <3> QED BY <3>1 DEF Legal
  <2>7. CASE StopWrite(w)
    <3>1. t.status # "EXECUTING" => status' = status
      BY <1>a, <1>b, <2>7 DEF StopWrite
    <3>2. t.status = "EXECUTING" =>
            /\ status' = [status EXCEPT ![r] = "PLANNED"]
            /\ CanTransition(status[r], "PLANNED")
      BY <1>a, <1>b, <2>7 DEF StopWrite, StopRefused
    <3> QED BY <3>1, <3>2 DEF Legal
  <2> QED BY <2>1, <2>2, <2>3, <2>4, <2>5, <2>6, <2>7
<1> QED BY <1>1, <1>2

(* A status changes only along the lifecycle: what assert_transition was   *)
(* asked about is what the UPDATE overwrites.                              *)
THEOREM LifecycleKept == Spec /\ []OneRequestPerRun => LegalTransitions
<1>1. ExecutionInv /\ SequentialInv /\ [Next]_vars =>
        [\A r \in Runs : status'[r] # status[r] =>
           \/ CanTransition(status[r], status'[r])
           \/ CanResetFailed(status[r]) /\ status'[r] = "IDLE"
           \/ status[r] = "ABSENT" /\ status'[r] = "IDLE"]_vars
  BY StatusWriters, StatusStep DEF Legal
<1> QED BY <1>1, Invariance, SequentialInvariance, PTL DEF Spec, LegalTransitions

-----------------------------------------------------------------------------
(* What moves.                                                             *)

(* Only the loop of an execution moves a card, its own next one.           *)
LEMMA OnlyExecutionsMove ==
  ASSUME ExecutionInv, [Next]_vars, NEW r \in Runs, NEW i \in NewMotions(r)
  PROVE  \E w \in Workers :
           /\ MoveCard(w) /\ r = thread[w].run
           /\ events'[r][i] = Event(thread[w].plan, thread[w].step, "SUCCESS")
<1>1. ~(events'[r] = events[r])
  BY DEF NewMotions
<1>2. ASSUME NEW w \in Workers, MoveCard(w)
      PROVE  /\ r = thread[w].run
             /\ events'[r][i] = Event(thread[w].plan, thread[w].step, "SUCCESS")
  <2>1. PICK q, e : q = thread[w].run
                    /\ e = Event(thread[w].plan, thread[w].step, "SUCCESS")
    OBVIOUS
  <2>2. events \in [Runs -> Seq(EventType)]
        /\ events' = [events EXCEPT ![q] = Append(events[q], e)]
    BY <1>2, <2>1 DEF ExecutionInv, TypeOK, MoveCard
  <2>3. r = q
    BY <1>1, <2>2
  <2>4. PICK log \in Seq(EventType) : log = events[r]
    BY <2>2
  <2>5. events'[r] = Append(log, e)
    BY <2>2, <2>3, <2>4
  <2>6. DOMAIN Append(log, e) = 1..(Len(log) + 1) /\ DOMAIN log = 1..Len(log)
        /\ Len(log) \in Nat /\ Append(log, e)[Len(log) + 1] = e
    OBVIOUS
  <2>7. i = Len(log) + 1
    BY <2>4, <2>5, <2>6 DEF NewMotions
  <2> QED BY <2>1, <2>3, <2>5, <2>6, <2>7
<1>3. ASSUME NEW w \in Workers, ExecStop(w) \/ LogError(w) \/ StopWrite(w)
      PROVE  FALSE
  <2>1. GoesOnWithout(events'[r], events[r])
    BY <1>3, NoSuccessLogged
  <2> QED BY <2>1 DEF GoesOnWithout, NewMotions
<1>4. ASSUME NEW w \in Workers, AddCardInsert(w) \/ AddCardPriced(w) \/ PlanCommit(w)
      PROVE  FALSE
  BY <1>1, <1>4 DEF AddCardInsert, AddCardPriced, PlanCommit, planVars
<1> QED BY <1>1, <1>2, <1>3, <1>4, ProgressWriters

(* The robot moves a card only for the latest plan of an EXECUTING run:    *)
(* not after a stop, a failure, a reset or a new plan.                     *)
THEOREM NoMotionAfterStop == Spec /\ []OneRequestPerRun => MotionOnlyWhileExecuting
<1>1. ExecutionInv /\ SequentialInv /\ [Next]_vars =>
        [\A r \in Runs : \A i \in NewMotions(r) :
           status[r] = "EXECUTING" /\ events'[r][i].plan = LatestPlan(r)]_vars
  <2> SUFFICES ASSUME ExecutionInv, SequentialInv, [Next]_vars,
                      NEW r \in Runs, NEW i \in NewMotions(r)
               PROVE  status[r] = "EXECUTING" /\ events'[r][i].plan = LatestPlan(r)
    OBVIOUS
  <2>1. PICK w \in Workers :
          /\ MoveCard(w) /\ r = thread[w].run
          /\ events'[r][i] = Event(thread[w].plan, thread[w].step, "SUCCESS")
    BY OnlyExecutionsMove
  <2>2. /\ ReadHolds(thread[w]) /\ ExecutorInStep(thread[w])
        /\ thread[w].pc = "move"
    BY <2>1 DEF SequentialInv, MoveCard, At
  <2> QED BY <2>1, <2>2 DEF ReadHolds, ExecutorInStep, Executing, Event
<1> QED BY <1>1, Invariance, SequentialInvariance, PTL
        DEF Spec, MotionOnlyWhileExecuting

(* No move is ever repeated: the runtime implements MoveProgress without   *)
(* its Repeat.                                                             *)
THEOREM MovesOnceEach == Spec /\ []OneRequestPerRun => MovesOnce
<1>1. Init => Progress!Init
  BY DEF Init, Progress!Init
<1>2. ExecutionInv /\ PricingInv /\ SequentialInv /\ [Next]_vars
        => [Progress!Once]_(Progress!vars)
  <2> SUFFICES ASSUME ExecutionInv, PricingInv, SequentialInv, [Next]_vars
               PROVE  Progress!Once \/ UNCHANGED Progress!vars
    OBVIOUS
  <2>1. ASSUME NEW w \in Workers, MoveCard(w)
        PROVE  Progress!Once
    <3>1. SuccessSteps(thread[w].run, thread[w].plan) = 0..(thread[w].step - 1)
      BY <2>1 DEF SequentialInv, ExecutorInStep, MoveCard, At
    <3> QED BY <2>1, <3>1, MoveAdvances
  <2>2. ASSUME NEW w \in Workers, ExecStop(w) \/ LogError(w) \/ StopWrite(w)
        PROVE  UNCHANGED Progress!vars
    BY <2>2, NoSuccess
  <2>3. ASSUME NEW w \in Workers, AddCardInsert(w) \/ AddCardPriced(w)
        PROVE  Progress!Once
    BY <2>3, ArriveStep
  <2>4. ASSUME NEW w \in Workers, PlanCommit(w)
        PROVE  Progress!Once
    BY <2>4, PlanStep
  <2>5. CASE ~(\E w \in Workers :
                 \/ MoveCard(w) \/ ExecStop(w) \/ LogError(w) \/ StopWrite(w)
                 \/ AddCardInsert(w) \/ AddCardPriced(w) \/ PlanCommit(w))
    <3>1. UNCHANGED <<plans, events, cardRun, currentBin>>
      BY <2>5, ProgressWriters
    <3> QED BY <3>1, SameProgress DEF StepsOf
  <2> QED BY <2>1, <2>2, <2>3, <2>4, <2>5
<1> QED BY <1>1, <1>2, Invariance, PricingInvariance, SequentialInvariance, PTL
        DEF Spec, MovesOnce, Progress!OnceSpec

-----------------------------------------------------------------------------
(* Where the cards of a run are.                                           *)

(* A card lies where the last move of it that is done took it.             *)
LEMMA LastMoveTells ==
  ASSUME ExecutionInv, BinsInv, NEW r \in Runs, LogInOrder(r),
         NEW p \in DOMAIN plans[r], p = LatestPlan(r),
         NEW s \in 0..Len(plans[r][p]), SuccessSteps(r, p) = 0..(s - 1),
         NEW j \in 1..s,
         \A k \in (j + 1)..s : plans[r][p][k].card # plans[r][p][j].card
  PROVE  currentBin[plans[r][p][j].card] = plans[r][p][j].to
<1>1. PICK moves \in Seq(Move) : moves = plans[r][p]
  BY DEF ExecutionInv, TypeOK
<1>2. PICK c : c = moves[j].card
  OBVIOUS
<1>3. /\ Len(moves) \in Nat /\ s \in Nat /\ s <= Len(moves) /\ j \in Nat
      /\ j \in DOMAIN moves /\ (j - 1) + 1 = j /\ j - 1 \in 0..(s - 1)
  BY <1>1
<1>4. c \in Cards /\ cardRun[c] = r /\ r # None
  BY <1>1, <1>2, <1>3, ConstantsAssumption DEF BinsInv, MovesOwned
<1>5. PICK o \in DOMAIN events[r] :
        /\ events[r][o].plan = p /\ events[r][o].status = "SUCCESS"
        /\ events[r][o].step = j - 1
  BY <1>3 DEF SuccessSteps, StepsDone
<1>6. MoveOf(r, events[r][o]) = moves[j]
  BY <1>1, <1>3, <1>5 DEF MoveOf
<1>7. o \in Motions(r, c)
  BY <1>2, <1>5, <1>6 DEF Motions
<1>8. PICK i \in Motions(r, c) :
        /\ o <= i /\ currentBin[c] = MoveOf(r, events[r][i]).to
  BY <1>4, <1>7 DEF BinsInv, BinMatchesLog
<1>9. CASE i = o
  BY <1>1, <1>2, <1>6, <1>8, <1>9
<1>10. CASE i # o
  <2>1. /\ i \in DOMAIN events[r] /\ events[r][i].status = "SUCCESS"
        /\ MoveOf(r, events[r][i]).card = c
    BY DEF Motions
  <2>2. PICK log \in Seq(EventType) : log = events[r]
    BY DEF ExecutionInv, TypeOK
  <2>3. o < i
    BY <1>5, <1>8, <1>10, <2>1, <2>2
  <2>4. events[r][i].plan \in DOMAIN plans[r] /\ plans[r] \in Seq(Seq(Move))
    BY <2>1 DEF ExecutionInv, EventsOfPlans, TypeOK
  <2>5. ~(p < events[r][i].plan) /\ p \in Nat
    BY <2>4 DEF LatestPlan
  <2>6. p = events[r][i].plan /\ j - 1 < events[r][i].step
    BY <1>5, <2>1, <2>3, <2>5 DEF LogInOrder, Success
  <2>7. events[r][i].step \in 0..(s - 1)
    BY <2>1, <2>6 DEF SuccessSteps, StepsDone
  <2>8. events[r][i].step + 1 \in (j + 1)..s
    BY <1>3, <2>6, <2>7
  <2>9. moves[events[r][i].step + 1].card = c
    BY <1>1, <2>1, <2>6 DEF MoveOf
  <2> QED BY <1>1, <1>2, <2>8, <2>9
<1> QED BY <1>9, <1>10

(* A COMPLETE run has carried out its latest plan, and every card of it    *)
(* lies where the plan's last move for the card put it.                    *)
THEOREM CompleteRunsPlaced == Spec /\ []OneRequestPerRun => []CompleteMeansPlaced
<1>1. ExecutionInv /\ BinsInv /\ SequentialInv => CompleteMeansPlaced
  <2> SUFFICES ASSUME ExecutionInv, BinsInv, SequentialInv, NEW r \in Runs,
                      status[r] = "COMPLETE"
               PROVE  LET p == LatestPlan(r)
                          moves == plans[r][p]
                      IN /\ SuccessSteps(r, p) = 0..(Len(moves) - 1)
                         /\ \A i \in DOMAIN moves :
                              (\A j \in DOMAIN moves :
                                 moves[j].card = moves[i].card => j <= i)
                              => currentBin[moves[i].card] = moves[i].to
    BY DEF CompleteMeansPlaced
  <2>1. /\ LogInOrder(r) /\ plans[r] # <<>> /\ AllDone(r, LatestPlan(r))
        /\ TypeOK
    BY DEF SequentialInv, CompleteIsDone, ExecutionInv
  <2>2. PICK p \in DOMAIN plans[r] : p = LatestPlan(r)
    BY <2>1, LatestPlanExists
  <2>3. PICK moves \in Seq(Move) : moves = plans[r][p]
    BY DEF ExecutionInv, TypeOK
  <2>4. SuccessSteps(r, p) = 0..(Len(moves) - 1)
    BY <2>1, <2>2, <2>3 DEF AllDone
  <2>5. ASSUME NEW i \in DOMAIN moves,
               \A j \in DOMAIN moves : moves[j].card = moves[i].card => j <= i
        PROVE  currentBin[moves[i].card] = moves[i].to
    <3>1. Len(moves) \in 0..Len(moves) /\ i \in 1..Len(moves)
      OBVIOUS
    <3>2. \A k \in (i + 1)..Len(moves) : moves[k].card # moves[i].card
      BY <2>5
    <3> QED BY <2>1, <2>2, <2>3, <2>4, <3>1, <3>2, LastMoveTells
  <2> QED BY <2>2, <2>3, <2>4, <2>5
<1> QED BY <1>1, Invariance, BinsInvariance, SequentialInvariance, PTL

(* The stored plans come from the planner.                                 *)
PlansStaged == \A r \in Runs : \A p \in DOMAIN plans[r] : Staged(plans[r][p])

THEOREM PlansAreStaged == Spec => []PlansStaged
<1>1. Init => PlansStaged
  BY DEF Init, PlansStaged
<1>2. ExecutionInv /\ PlansStaged /\ [Next]_vars => PlansStaged'
  <2> SUFFICES ASSUME ExecutionInv, PlansStaged, [Next]_vars
               PROVE  PlansStaged'
    OBVIOUS
  <2>1. CASE plans' = plans
    BY <2>1 DEF PlansStaged
  <2>2. ASSUME NEW w \in Workers, PlanCommit(w)
        PROVE  PlansStaged'
    <3>1. PICK t \in ThreadType : t = thread[w]
      BY ThreadFacts
    <3>2. PICK r, new : r = t.run /\ new = PlanOf(t.cards)
      OBVIOUS
    <3>3. /\ plans \in [Runs -> Seq(Seq(Move))]
          /\ plans' = [plans EXCEPT ![r] = Append(plans[r], new)]
          /\ new # Infeasible
      BY <2>2, <3>1, <3>2 DEF PlanCommit, PlanAccepted, ExecutionInv, TypeOK
    <3>4. t.cards \in SUBSET Cards
      BY DEF ThreadType
    <3>5. Staged(new)
      BY <3>2, <3>3, <3>4, StagingAssumption
    <3>6. ASSUME NEW q \in Runs, NEW p \in DOMAIN plans'[q]
          PROVE  (p \in DOMAIN plans[q] /\ plans'[q][p] = plans[q][p])
                 \/ plans'[q][p] = new
      BY <3>3
    <3> QED BY <3>5, <3>6 DEF PlansStaged, Staged
  <2>3. ASSUME NEW w \in Workers,
               \/ MoveCard(w) \/ ExecStop(w) \/ LogError(w) \/ StopWrite(w)
               \/ AddCardInsert(w) \/ AddCardPriced(w)
        PROVE  plans' = plans
    BY <2>3 DEF MoveCard, ExecStop, LogError, StopWrite, AddCardInsert,
                AddCardPriced, planVars
  <2> QED BY <2>1, <2>2, <2>3, ProgressWriters
<1> QED BY <1>1, <1>2, Invariance, PTL DEF Spec

(* A card leaves the staging bin only when it is there, after stops,       *)
(* resumes, restarts and second plans: a move that names the bin it starts *)
(* from starts where current_bin says the card is.                         *)
THEOREM StagedCardsWait == Spec /\ []OneRequestPerRun => StagedCardsAreThere
<1>1. ExecutionInv /\ BinsInv /\ SequentialInv /\ PlansStaged /\ [Next]_vars =>
        [\A r \in Runs : \A i \in NewMotions(r) :
           LET m == MoveOf(r, events'[r][i])
           IN m.from # ExtractBin => currentBin[m.card] = m.from]_vars
  <2> SUFFICES ASSUME ExecutionInv, BinsInv, SequentialInv, PlansStaged, [Next]_vars,
                      NEW r \in Runs, NEW i \in NewMotions(r),
                      NEW m, m = MoveOf(r, events'[r][i]), m.from # ExtractBin
               PROVE  currentBin[m.card] = m.from
    OBVIOUS
  <2>1. PICK w \in Workers :
          /\ MoveCard(w) /\ r = thread[w].run
          /\ events'[r][i] = Event(thread[w].plan, thread[w].step, "SUCCESS")
    BY OnlyExecutionsMove
  <2>2. PICK p, s : p = thread[w].plan /\ s = thread[w].step
    OBVIOUS
  <2>3. Logs(r, p, s)
    BY <2>1, <2>2, MoveLogged
  <2>4. /\ p \in DOMAIN plans[r] /\ s \in Nat /\ s <= Len(plans[r][p])
        /\ plans[r][p] \in Seq(Move) /\ s + 1 \in DOMAIN plans[r][p]
    BY <2>3 DEF Logs
  <2>5. /\ p = LatestPlan(r) /\ SuccessSteps(r, p) = 0..(s - 1) /\ LogInOrder(r)
    BY <2>1, <2>2 DEF SequentialInv, ExecutorInStep, Executing, MoveCard, At
  <2>6. m = plans[r][p][s + 1]
    BY <2>1, <2>2 DEF MoveOf, Event
  <2>7. Staged(plans[r][p]) /\ (s + 1) - 1 = s
    BY <2>4 DEF PlansStaged
  <2>8. PICK j \in 1..s :
          /\ plans[r][p][j].card = m.card /\ plans[r][p][j].to = m.from
          /\ \A k \in (j + 1)..s : plans[r][p][k].card # m.card
    BY <2>4, <2>6, <2>7 DEF Staged
  <2>9. s \in 0..Len(plans[r][p])
    BY <2>4
  <2>10. currentBin[plans[r][p][j].card] = plans[r][p][j].to
    <3>1. \A k \in (j + 1)..s : plans[r][p][k].card # plans[r][p][j].card
      BY <2>8
    <3> QED BY <2>4, <2>5, <2>9, <3>1, LastMoveTells
  <2> QED BY <2>8, <2>10
<1> QED BY <1>1, Invariance, BinsInvariance, SequentialInvariance, PlansAreStaged, PTL
        DEF Spec, StagedCardsAreThere

=============================================================================
