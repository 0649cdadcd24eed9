------------------------------ MODULE RunProofs ------------------------------
(***************************************************************************)
(* Theorems about the robot runtime, for every number of threads, runs and *)
(* cards and for every planner that satisfies PlannerAssumption.           *)
(***************************************************************************)
EXTENDS RunInvariant, TLAPS

(* The log of a run and the steps it reports as done.                      *)

(* Appending an event adds its step to the steps of its plan if it is a    *)
(* SUCCESS, and changes no other plan's steps (StepsDone).                 *)
LEMMA StepsDoneAppend ==
  ASSUME NEW log \in Seq(EventType), NEW e \in EventType, NEW p
  PROVE  StepsDone(Append(log, e), p) =
           StepsDone(log, p) \cup
             (IF e.plan = p /\ e.status = "SUCCESS" THEN {e.step} ELSE {})
<1> DEFINE long == Append(log, e)
<1>1. /\ Len(log) \in Nat
      /\ DOMAIN log = 1..Len(log)
      /\ DOMAIN long = 1..(Len(log) + 1)
      /\ \A i \in 1..Len(log) : long[i] = log[i]
      /\ long[Len(log) + 1] = e
  OBVIOUS
<1>2. ASSUME NEW s \in StepsDone(long, p)
      PROVE  s \in StepsDone(log, p) \/ (e.plan = p /\ e.status = "SUCCESS" /\ s = e.step)
  <2>1. PICK i \in DOMAIN long : /\ long[i].plan = p
                                 /\ long[i].status = "SUCCESS"
                                 /\ s = long[i].step
    BY <1>2 DEF StepsDone
  <2>2. CASE i \in 1..Len(log)
    BY <1>1, <2>1, <2>2 DEF StepsDone
  <2>3. CASE i = Len(log) + 1
    BY <1>1, <2>1, <2>3
  <2> QED BY <1>1, <2>1, <2>2, <2>3
<1>3. ASSUME NEW s \in StepsDone(log, p)
      PROVE  s \in StepsDone(long, p)
  <2>1. PICK i \in DOMAIN log : /\ log[i].plan = p
                                /\ log[i].status = "SUCCESS"
                                /\ s = log[i].step
    BY <1>3 DEF StepsDone
  <2> QED BY <1>1, <2>1 DEF StepsDone
<1>4. ASSUME e.plan = p, e.status = "SUCCESS"
      PROVE  e.step \in StepsDone(long, p)
  BY <1>1, <1>4 DEF StepsDone
<1> QED BY <1>2, <1>3, <1>4

(* _last_success_step returns the last of the steps 0 .. n-1, and -1 when  *)
(* there is none (LastSuccessStep).                                        *)
LEMMA LastOfPrefix ==
  ASSUME NEW r, NEW p, NEW n \in Nat, SuccessSteps(r, p) = 0..(n - 1)
  PROVE  LastSuccessStep(r, p) = n - 1
<1>1. CASE n = 0
  BY <1>1 DEF LastSuccessStep
<1>2. CASE n # 0
  <2>1. n - 1 \in SuccessSteps(r, p) /\ \A u \in SuccessSteps(r, p) : u <= n - 1
    BY <1>2
  <2>2. \A s \in SuccessSteps(r, p) :
          (\A u \in SuccessSteps(r, p) : u <= s) => s = n - 1
    <3>1. \A s \in SuccessSteps(r, p) : s \in Int /\ s <= n - 1
      BY <1>2
    <3> QED BY <2>1, <3>1
  <2> QED BY <2>1, <2>2 DEF LastSuccessStep
<1> QED BY <1>1, <1>2

-----------------------------------------------------------------------------
(* Steps that leave plans and events alone.                                *)

(* Such a step keeps the invariant if the tables keep their types and the  *)
(* one thread it concerns goes where a handler may be.                     *)
LEMMA TableStep ==
  ASSUME ExecutionInv, NEW w \in Workers, NEW t \in ThreadType,
         ThreadInStep(t), thread' = [thread EXCEPT ![w] = t],
         UNCHANGED planVars, TablesOK'
  PROVE  ExecutionInv'
<1>1. TypeOK'
  BY DEF ExecutionInv, TypeOK, planVars
<1>2. ThreadsInStep'
  <2> SUFFICES ASSUME NEW v \in Workers
               PROVE  ThreadInStep(thread[v])'
    BY DEF ThreadsInStep
  <2>1. thread'[v] = IF v = w THEN t ELSE thread[v]
    BY DEF ExecutionInv, TypeOK
  <2>2. CASE v = w
    BY <2>1, <2>2 DEF ThreadInStep, HasPlan, SuccessSteps, planVars
  <2>3. CASE v # w
    BY <2>1, <2>3 DEF ExecutionInv, ThreadsInStep, ThreadInStep, HasPlan,
                      SuccessSteps, planVars
  <2> QED BY <2>2, <2>3
<1>3. EventsOfPlans' /\ SuccessPrefix'
  BY DEF ExecutionInv, EventsOfPlans, SuccessPrefix, SuccessSteps, planVars
<1> QED BY <1>1, <1>2, <1>3 DEF ExecutionInv

(* In particular a step that changes nothing but one thread.               *)
LEMMA LocalStep ==
  ASSUME ExecutionInv, NEW w \in Workers, NEW t \in ThreadType,
         ThreadInStep(t), thread' = [thread EXCEPT ![w] = t],
         UNCHANGED <<runVars, cardVars, planVars, priceVars, memVars, crashes>>
  PROVE  ExecutionInv'
<1>1. TablesOK'
  BY DEF ExecutionInv, TypeOK, TablesOK, runVars, cardVars, priceVars, memVars
<1> QED BY <1>1, TableStep

LEMMA IdleThread == Idle \in ThreadType /\ ThreadInStep(Idle)
  BY DEF Idle, ThreadType, Pc, NoPrices, ThreadInStep, HasPlan

(* Resumption in a state of the invariant: the steps done are 0 .. n-1 and *)
(* the last of them is n-1.                                                *)
LEMMA ResumePoint ==
  ASSUME ExecutionInv, NEW r \in Runs, NEW p \in DOMAIN plans[r]
  PROVE  \E n \in 0..Len(plans[r][p]) :
           SuccessSteps(r, p) = 0..(n - 1) /\ LastSuccessStep(r, p) = n - 1
<1>1. PICK n \in 0..Len(plans[r][p]) : SuccessSteps(r, p) = 0..(n - 1)
  BY DEF ExecutionInv, SuccessPrefix
<1>2. n \in Nat
  BY DEF ExecutionInv, TypeOK
<1> QED BY <1>1, <1>2, LastOfPrefix

(* A run that has a plan has a latest one.                                 *)
LEMMA LatestPlanExists ==
  ASSUME TypeOK, NEW r \in Runs, plans[r] # <<>>
  PROVE  LatestPlan(r) \in DOMAIN plans[r] /\ LatestPlan(r) \in Nat
<1>1. plans[r] \in Seq(Seq(Move))
  BY DEF TypeOK
<1> QED BY <1>1 DEF LatestPlan

(* The reads that accept a request.                                        *)
LEMMA RequestKeeps ==
  ASSUME ExecutionInv, NEW w \in Workers, Request(w)
  PROVE  ExecutionInv'
<1> PICK r \in Runs :
      \/ CreateRead(w, r)
      \/ \E next \in {"SCANNING", "HOLDING_READY"} : SetStatusRead(w, r, next)
      \/ \E c \in Cards : AddCardRead(w, r, c)
      \/ PlanRead(w, r)
      \/ ExecuteRead(w, r)
      \/ StopRead(w, r)
      \/ FailRead(w, r)
      \/ ResetRead(w, r)
  BY DEF Request
<1>1. CASE CreateRead(w, r)
  <2> DEFINE t == [Idle EXCEPT !.pc = "insert_run", !.run = r]
  <2>1. t \in ThreadType /\ ThreadInStep(t)
    BY IdleThread DEF Idle, ThreadType, Pc, NoPrices, ThreadInStep, HasPlan
  <2> QED BY <1>1, <2>1, LocalStep DEF CreateRead, Go
<1>2. ASSUME NEW next \in {"SCANNING", "HOLDING_READY"}, SetStatusRead(w, r, next)
      PROVE  ExecutionInv'
  <2> DEFINE t == [Idle EXCEPT !.pc = "set_status", !.run = r, !.status = next]
  <2>1. t \in ThreadType /\ ThreadInStep(t)
    BY IdleThread DEF Idle, ThreadType, Pc, NoPrices, ThreadInStep, HasPlan, RunStatus
  <2> QED BY <1>2, <2>1, LocalStep DEF SetStatusRead, Go
<1>3. ASSUME NEW c \in Cards, AddCardRead(w, r, c)
      PROVE  ExecutionInv'
  <2> DEFINE t == [Idle EXCEPT !.pc = "insert_card", !.run = r,
                               !.status = status[r], !.cards = {c},
                               !.print = PrintOf[c]]
  <2>1. status[r] \in RunStatus \cup {"ABSENT"} /\ PrintOf[c] \in Prints
    BY ConstantsAssumption DEF ExecutionInv, TypeOK, TablesOK
  <2>2. t \in ThreadType /\ ThreadInStep(t)
    BY <2>1, IdleThread DEF Idle, ThreadType, Pc, NoPrices, ThreadInStep, HasPlan
  <2> QED BY <1>3, <2>2, LocalStep DEF AddCardRead, Go
<1>4. CASE PlanRead(w, r)
  <2> DEFINE t == [Idle EXCEPT !.pc = "plan_prints", !.run = r,
                               !.cards = CardsIn(r)]
  <2>1. t \in ThreadType /\ ThreadInStep(t)
    BY IdleThread DEF Idle, ThreadType, Pc, NoPrices, ThreadInStep, HasPlan, CardsIn
  <2> QED BY <1>4, <2>1, LocalStep DEF PlanRead, Go
<1>5. CASE ExecuteRead(w, r)
  <2> DEFINE t == [Idle EXCEPT !.pc = "set_status", !.run = r,
                               !.status = "EXECUTING"]
             u == [Idle EXCEPT !.pc = "load_plan", !.run = r]
  <2>1. /\ t \in ThreadType /\ ThreadInStep(t)
        /\ u \in ThreadType /\ ThreadInStep(u)
    BY IdleThread DEF Idle, ThreadType, Pc, NoPrices, ThreadInStep, HasPlan, RunStatus
  <2>2. CASE thread' = [thread EXCEPT ![w] = t]
    BY <1>5, <2>1, <2>2, LocalStep DEF ExecuteRead
  <2>3. CASE thread' = [thread EXCEPT ![w] = u]
    BY <1>5, <2>1, <2>3, LocalStep DEF ExecuteRead
  <2> QED BY <1>5, <2>2, <2>3 DEF ExecuteRead, Go
<1>6. CASE StopRead(w, r)
  <2> DEFINE p == LatestPlan(r)
             t == [Idle EXCEPT !.pc = "stop_write", !.run = r,
                               !.status = status[r], !.plan = p,
                               !.step = LastSuccessStep(r, p) + 1]
  <2>1. p \in DOMAIN plans[r] /\ p \in Nat
    BY <1>6, LatestPlanExists DEF StopRead, ExecutionInv
  <2>2. LastSuccessStep(r, p) + 1 \in Int
    <3>1. PICK n \in 0..Len(plans[r][p]) : LastSuccessStep(r, p) = n - 1
      BY <2>1, ResumePoint
    <3> QED BY <3>1
  <2>3. t \in ThreadType /\ ThreadInStep(t)
    <3> HIDE DEF p
    <3> QED BY <1>6, <2>1, <2>2, IdleThread DEF StopRead, Idle, ThreadType, Pc,
               NoPrices, ThreadInStep, HasPlan, RunStatus
  <2> QED BY <1>6, <2>3, LocalStep DEF StopRead, Go
<1>7. CASE FailRead(w, r)
  <2> DEFINE t == [Idle EXCEPT !.pc = "fail_write", !.run = r]
  <2>1. t \in ThreadType /\ ThreadInStep(t)
    BY IdleThread DEF Idle, ThreadType, Pc, NoPrices, ThreadInStep, HasPlan
  <2> QED BY <1>7, <2>1, LocalStep DEF FailRead, Go
<1>8. CASE ResetRead(w, r)
  <2> DEFINE t == [Idle EXCEPT !.pc = "reset_write", !.run = r]
  <2>1. t \in ThreadType /\ ThreadInStep(t)
    BY IdleThread DEF Idle, ThreadType, Pc, NoPrices, ThreadInStep, HasPlan
  <2> QED BY <1>8, <2>1, LocalStep DEF ResetRead, Go
<1> QED BY <1>1, <1>2, <1>3, <1>4, <1>5, <1>6, <1>7, <1>8

-----------------------------------------------------------------------------
(* The steps of a request in service.                                      *)

LEMMA ThreadFacts ==
  ASSUME ExecutionInv, NEW w \in Workers
  PROVE  thread[w] \in ThreadType /\ ThreadInStep(thread[w])
BY DEF ExecutionInv, TypeOK, ThreadsInStep

(* The reads between two writes of a handler.                              *)
LEMMA ReadsKeep ==
  ASSUME ExecutionInv, NEW w \in Workers,
         \/ PlanPrints(w) \/ \E pr \in Prints : PlanPriceMissing(w, pr)
         \/ LoadPlan(w) \/ LoadMoves(w) \/ SeeStop(w) \/ CompleteRead(w)
         \/ ExecFailRead(w) \/ StopRollback(w) \/ WriteTimesOut(w)
  PROVE  ExecutionInv'
<1> DEFINE old == thread[w]
           r == old.run
<1>0. /\ old \in ThreadType /\ ThreadInStep(old)
      /\ Idle \in ThreadType /\ ThreadInStep(Idle)
  BY ThreadFacts, IdleThread
<1> HIDE DEF old
<1>1. CASE PlanPrints(w)
  <2> DEFINE todo == PrintsIn(r) \ BlankPrints
             pc == IF todo = {} THEN "plan_write" ELSE "plan_price"
             t == [old EXCEPT !.todo = todo, !.pc = pc]
  <2>1. todo \in SUBSET Prints /\ pc \in {"plan_write", "plan_price"}
    BY ConstantsAssumption DEF PrintsIn, CardsIn
  <2>3. thread' = [thread EXCEPT ![w] = t]
    BY <1>1 DEF PlanPrints, Go, old
  <2> HIDE DEF todo, pc
  <2>2. t \in ThreadType /\ ThreadInStep(t)
    BY <1>0, <1>1, <2>1 DEF PlanPrints, At, old, ThreadType, Pc, ThreadInStep, HasPlan
  <2> QED BY <1>1, <2>2, <2>3, LocalStep DEF PlanPrints
<1>2. ASSUME NEW pr \in Prints, PlanPriceMissing(w, pr)
      PROVE  ExecutionInv'
  <2> DEFINE t == [old EXCEPT !.pc = "plan_upsert", !.print = pr]
  <2>1. t \in ThreadType /\ ThreadInStep(t)
    BY <1>0, <1>2 DEF PlanPriceMissing, At, old, ThreadType, Pc, ThreadInStep, HasPlan
  <2> QED BY <1>2, <2>1, LocalStep DEF PlanPriceMissing, Go, old
<1>3. CASE LoadPlan(w)
  <2> DEFINE pc == IF HasCompleteSnapshot(r) THEN "load_moves" ELSE "log_error"
             p == LatestPlan(r)
             t == [old EXCEPT !.pc = pc, !.plan = p, !.step = -1]
  <2>1. r \in Runs
    BY <1>0, <1>3 DEF LoadPlan, At, old, ThreadInStep
  <2>2. CASE plans[r] = <<>>
    BY <1>0, <1>3, <2>2, LocalStep DEF LoadPlan, Go, old
  <2>3. CASE plans[r] # <<>>
    <3>1. p \in DOMAIN plans[r] /\ p \in Nat
      BY <2>1, <2>3, LatestPlanExists DEF ExecutionInv
    <3>2. pc \in {"load_moves", "log_error"}
      OBVIOUS
    <3>3. thread' = [thread EXCEPT ![w] = t]
      BY <1>3, <2>3 DEF LoadPlan, Go, old
    <3> HIDE DEF p, pc
    <3>4. -1 \in Int /\ pc \in Pc
      BY <3>2 DEF Pc
    <3>5. t \in ThreadType
      BY <1>0, <3>1, <3>4 DEF ThreadType
    <3>6. ThreadInStep(t)
      BY <1>0, <2>1, <3>1, <3>2 DEF ThreadType, ThreadInStep, HasPlan
    <3> QED BY <1>3, <3>3, <3>5, <3>6, LocalStep DEF LoadPlan
  <2> QED BY <2>2, <2>3
<1>4. CASE LoadMoves(w)
  <2> DEFINE p == old.plan
             next == FirstStep(r, p)
             t == [old EXCEPT !.pc = "move", !.step = next]
             u == [old EXCEPT !.pc = "complete"]
  <2>1. r \in Runs /\ p \in DOMAIN plans[r]
    BY <1>0, <1>4 DEF LoadMoves, At, old, ThreadInStep, HasPlan
  <2>2. PICK n \in 0..Len(plans[r][p]) :
          SuccessSteps(r, p) = 0..(n - 1) /\ LastSuccessStep(r, p) = n - 1
    BY <2>1, ResumePoint
  <2>3. next = n /\ n \in Nat
    BY <2>2 DEF FirstStep
  <2>4. u \in ThreadType /\ ThreadInStep(u)
    BY <1>0, <1>4 DEF LoadMoves, At, old, ThreadType, Pc, ThreadInStep, HasPlan
  <2>5. CASE next < Len(plans[r][p])
    <3>1. thread' = [thread EXCEPT ![w] = t]
      BY <1>4, <2>5 DEF LoadMoves, Go, old, MovesOf
    <3>2. /\ next \in 0..(Len(plans[r][p]) - 1)
          /\ 0..(next - 1) \subseteq SuccessSteps(r, p)
      BY <2>2, <2>3, <2>5
    <3> HIDE DEF next
    <3>3. t \in ThreadType
      <4>1. next \in Int
        BY <3>2
      <4> QED BY <1>0, <4>1 DEF ThreadType, Pc
    <3>4. ThreadInStep(t)
      BY <1>0, <2>1, <3>2 DEF ThreadType, ThreadInStep, HasPlan
    <3> QED BY <1>4, <3>1, <3>3, <3>4, LocalStep DEF LoadMoves
  <2>6. CASE ~(next < Len(plans[r][p]))
    <3>1. thread' = [thread EXCEPT ![w] = u]
      BY <1>4, <2>6 DEF LoadMoves, Go, old, MovesOf
    <3> QED BY <1>4, <3>1, <2>4, LocalStep DEF LoadMoves
  <2> QED BY <2>5, <2>6
<1>5. CASE SeeStop(w)
  <2> DEFINE t == [old EXCEPT !.pc = "exec_stop"]
  <2>1. t \in ThreadType /\ ThreadInStep(t)
    BY <1>0, <1>5 DEF SeeStop, At, old, ThreadType, Pc, ThreadInStep, HasPlan
  <2> QED BY <1>5, <2>1, LocalStep DEF SeeStop, Goto, Go, old
<1>6. CASE CompleteRead(w)
  <2> DEFINE t == [old EXCEPT !.pc = "set_status", !.status = "COMPLETE"]
             u == [old EXCEPT !.pc = "log_error"]
  <2>1. /\ t \in ThreadType /\ ThreadInStep(t)
        /\ u \in ThreadType /\ ThreadInStep(u)
    BY <1>0, <1>6 DEF CompleteRead, At, old, ThreadType, Pc, ThreadInStep,
                      HasPlan, RunStatus
  <2>2. thread' = [thread EXCEPT ![w] = t] \/ thread' = [thread EXCEPT ![w] = u]
    BY <1>6 DEF CompleteRead, Go, old
  <2> QED BY <1>6, <2>1, <2>2, LocalStep DEF CompleteRead
<1>7. CASE ExecFailRead(w)
  <2> DEFINE t == [old EXCEPT !.pc = "fail_write"]
  <2>1. t \in ThreadType /\ ThreadInStep(t)
    BY <1>0, <1>7 DEF ExecFailRead, At, old, ThreadType, Pc, ThreadInStep, HasPlan
  <2>2. thread' = [thread EXCEPT ![w] = t] \/ thread' = [thread EXCEPT ![w] = Idle]
    BY <1>7 DEF ExecFailRead, Goto, Done, Go, old
  <2> QED BY <1>0, <1>7, <2>1, <2>2, LocalStep DEF ExecFailRead
<1>8. CASE StopRollback(w)
  BY <1>0, <1>8, LocalStep DEF StopRollback, Done, Go
<1>9. CASE WriteTimesOut(w)
  <2> DEFINE t == [old EXCEPT !.pc = "log_error"]
  <2>1. CASE Guarded(old) /\ Goto(w, "log_error")
    <3>1. t \in ThreadType /\ ThreadInStep(t)
      BY <1>0, <2>1 DEF Guarded, ThreadType, Pc, ThreadInStep, HasPlan
    <3> QED BY <1>9, <2>1, <3>1, LocalStep DEF WriteTimesOut, Goto, Go, old
  <2>2. CASE Done(w)
    BY <1>0, <1>9, <2>2, LocalStep DEF WriteTimesOut, Done, Go
  <2> QED BY <1>9, <2>1, <2>2 DEF WriteTimesOut, old
<1> QED BY <1>1, <1>2, <1>3, <1>4, <1>5, <1>6, <1>7, <1>8, <1>9

-----------------------------------------------------------------------------
(* Steps that write to the log.                                            *)

(* A log of run r that the invariant allows.                               *)
LogOK(r, log) ==
  /\ log \in Seq(EventType)
  /\ \A i \in DOMAIN log : log[i].plan \in DOMAIN plans[r]
  /\ \A p \in DOMAIN plans[r] :
       \E n \in 0..Len(plans[r][p]) : StepsDone(log, p) = 0..(n - 1)

LEMMA LogsOK ==
  ASSUME ExecutionInv, NEW r \in Runs
  PROVE  LogOK(r, events[r])
BY DEF ExecutionInv, TypeOK, EventsOfPlans, SuccessPrefix, SuccessSteps, LogOK

(* A log stays good when an event on a stored plan is appended, a SUCCESS  *)
(* only for a step all of whose predecessors are done.                     *)
LEMMA AppendKeepsLog ==
  ASSUME TypeOK, NEW r \in Runs, NEW log, LogOK(r, log),
         NEW e \in EventType, e.plan \in DOMAIN plans[r],
         e.status = "SUCCESS" =>
           /\ e.step \in 0..(Len(plans[r][e.plan]) - 1)
           /\ 0..(e.step - 1) \subseteq StepsDone(log, e.plan)
  PROVE  LogOK(r, Append(log, e))
<1>1. log \in Seq(EventType) /\ Append(log, e) \in Seq(EventType)
  BY DEF LogOK
<1>2. \A i \in DOMAIN Append(log, e) : Append(log, e)[i].plan \in DOMAIN plans[r]
  BY <1>1 DEF LogOK
<1>3. ASSUME NEW p \in DOMAIN plans[r]
      PROVE  \E n \in 0..Len(plans[r][p]) : StepsDone(Append(log, e), p) = 0..(n - 1)
  <2>1. PICK n \in 0..Len(plans[r][p]) : StepsDone(log, p) = 0..(n - 1)
    BY DEF LogOK
  <2>2. plans[r][p] \in Seq(Move) /\ Len(plans[r][p]) \in Nat /\ n \in Nat
    BY DEF TypeOK
  <2>3. CASE e.plan = p /\ e.status = "SUCCESS"
    <3> DEFINE s == e.step
    <3>1. /\ s \in 0..(Len(plans[r][p]) - 1)
          /\ 0..(s - 1) \subseteq 0..(n - 1)
          /\ StepsDone(Append(log, e), p) = 0..(n - 1) \cup {s}
      BY <1>1, <2>1, <2>3, StepsDoneAppend
    <3> HIDE DEF s
    <3>2. s <= n
      <4> SUFFICES ASSUME s > n PROVE FALSE
        BY <2>2, <3>1
      <4>1. n \in 0..(s - 1) /\ n \notin 0..(n - 1)
        BY <2>2, <3>1
      <4> QED BY <3>1, <4>1
    <3>3. CASE s = n
      <4>1. 0..(n - 1) \cup {s} = 0..((n + 1) - 1) /\ n + 1 \in 0..Len(plans[r][p])
        BY <2>2, <3>1, <3>3
      <4> QED BY <3>1, <4>1
    <3>4. CASE s < n
      <4>1. 0..(n - 1) \cup {s} = 0..(n - 1)
        BY <2>2, <3>1, <3>4
      <4> QED BY <3>1, <4>1, <2>1
    <3> QED BY <2>2, <3>1, <3>2, <3>3, <3>4
  <2>4. CASE ~(e.plan = p /\ e.status = "SUCCESS")
    <3>1. StepsDone(Append(log, e), p) = StepsDone(log, p) \cup {}
      BY <1>1, <2>4, StepsDoneAppend
    <3>2. StepsDone(log, p) \cup {} = StepsDone(log, p)
      OBVIOUS
    <3> QED BY <2>1, <3>1, <3>2
  <2> QED BY <2>3, <2>4
<1> QED BY <1>1, <1>2, <1>3 DEF LogOK

(* A step that appends to the log of one run keeps the invariant if the    *)
(* log stays good and loses nothing.                                       *)
LEMMA LogStep ==
  ASSUME ExecutionInv, NEW w \in Workers, NEW t \in ThreadType,
         thread' = [thread EXCEPT ![w] = t], ThreadInStep(t)',
         plans' = plans, TablesOK',
         NEW r \in Runs, NEW log, LogOK(r, log),
         events' = [events EXCEPT ![r] = log],
         \A p : StepsDone(events[r], p) \subseteq StepsDone(log, p)
  PROVE  ExecutionInv'
<1>1. TypeOK'
  BY DEF ExecutionInv, TypeOK, LogOK
<1>2. \A q \in Runs : events'[q] = IF q = r THEN log ELSE events[q]
  BY DEF ExecutionInv, TypeOK
<1>3. EventsOfPlans'
  BY <1>2 DEF ExecutionInv, EventsOfPlans, LogOK
<1>4. SuccessPrefix'
  BY <1>2 DEF ExecutionInv, SuccessPrefix, SuccessSteps, LogOK
<1>5. ThreadsInStep'
  <2> SUFFICES ASSUME NEW v \in Workers
               PROVE  ThreadInStep(thread[v])'
    BY DEF ThreadsInStep
  <2>1. thread'[v] = IF v = w THEN t ELSE thread[v]
    BY DEF ExecutionInv, TypeOK
  <2>2. CASE v = w
    BY <2>1, <2>2 DEF ThreadInStep, HasPlan, SuccessSteps
  <2>3. CASE v # w
    <3> DEFINE u == thread[v]
    <3>1. ThreadInStep(u) /\ thread'[v] = u
      BY <2>1, <2>3 DEF ExecutionInv, ThreadsInStep
    <3>2. u.run \in Runs => SuccessSteps(u.run, u.plan) \subseteq
                              StepsDone(events'[u.run], u.plan)
      BY <1>2 DEF SuccessSteps
    <3> HIDE DEF u
    <3> QED BY <3>1, <3>2 DEF ThreadInStep, HasPlan, SuccessSteps
  <2> QED BY <2>2, <2>3
<1> QED BY <1>1, <1>3, <1>4, <1>5 DEF ExecutionInv

(* The write transactions that log.                                        *)
LEMMA LogWritesKeep ==
  ASSUME ExecutionInv, NEW w \in Workers,
         MoveCard(w) \/ ExecStop(w) \/ LogError(w) \/ StopWrite(w)
  PROVE  ExecutionInv'
<1>a. PICK old : old = thread[w]
  OBVIOUS
<1> DEFINE r == old.run
           p == old.plan
           s == old.step
<1>0. /\ old \in ThreadType /\ ThreadInStep(old)
      /\ Idle \in ThreadType /\ ThreadInStep(Idle)
      /\ old.pc \in {"move", "exec_stop", "log_error", "stop_write"}
      /\ TypeOK /\ TablesOK
  BY <1>a, ThreadFacts, IdleThread DEF MoveCard, ExecStop, LogError, StopWrite, At,
                                 ExecutionInv, TypeOK
<1>1. /\ r \in Runs /\ p \in DOMAIN plans[r] /\ p \in Nat \ {0} /\ s \in Int
      /\ plans[r][p] \in Seq(Move)
  BY <1>0 DEF ThreadInStep, HasPlan, ThreadType, TypeOK
<1>2. LogOK(r, events[r])
  BY <1>1, LogsOK
<1>3. \A st \in {"SUCCESS", "STOPPED", "ERROR"} :
        /\ Event(p, s, st) \in EventType
        /\ Event(p, s, st).plan = p /\ Event(p, s, st).step = s
        /\ Event(p, s, st).status = st
  BY <1>1 DEF Event, EventType
<1>4. ThreadInStep(Idle)'
  BY DEF Idle, ThreadInStep, HasPlan
<1> HIDE DEF r, p, s
<1>5. CASE MoveCard(w)
  <2> DEFINE m == plans[r][p][s + 1]
             e == Event(p, s, "SUCCESS")
             log == Append(events[r], e)
             t == [old EXCEPT !.step = s + 1]
             u == [old EXCEPT !.pc = "complete"]
  <2>1. /\ old.pc = "move"
        /\ s \in 0..(Len(plans[r][p]) - 1)
        /\ 0..(s - 1) \subseteq StepsDone(events[r], p)
    BY <1>a, <1>0, <1>5 DEF MoveCard, At, ThreadInStep, SuccessSteps, r, p, s
  <2>2. /\ m \in Move /\ m.card \in Cards /\ m.to \in Bins
    <3>1. s + 1 \in 1..Len(plans[r][p])
      BY <1>1, <2>1
    <3>2. m \in Move
      BY <1>1, <3>1
    <3> HIDE DEF m
    <3> QED BY <3>2 DEF Move
  <2>3. LogOK(r, log)
    BY <1>0, <1>1, <1>2, <1>3, <2>1, AppendKeepsLog
  <2>4. \A q : StepsDone(events[r], q) \subseteq StepsDone(log, q)
    BY <1>2, <1>3, StepsDoneAppend DEF LogOK
  <2>5. s \in StepsDone(log, p)
    BY <1>2, <1>3, StepsDoneAppend DEF LogOK
  <2>6. events' = [events EXCEPT ![r] = log]
    BY <1>a, <1>5 DEF MoveCard, r, p, s
  <2>7. events'[r] = log /\ plans' = plans
    BY <1>0, <1>1, <1>5, <2>6 DEF MoveCard, TypeOK
  <2>8. TablesOK'
    <3>1. currentBin' = [currentBin EXCEPT ![m.card] = m.to]
      BY <1>a, <1>5 DEF MoveCard, BinAfter, MovesOf, r, p, s
    <3> HIDE DEF m
    <3>2. currentBin' \in [Cards -> Bins \cup {None}]
      BY <1>0, <2>2, <3>1 DEF TablesOK
    <3> QED BY <1>0, <1>5, <3>2 DEF MoveCard, TablesOK, runVars, priceVars, memVars
  <2> HIDE DEF e, log, m
  <2>9. CASE s + 1 < Len(plans[r][p])
    <3>1. thread' = [thread EXCEPT ![w] = t]
      BY <1>a, <1>5, <2>9 DEF MoveCard, MovesOf, Go, r, p, s
    <3>2. t \in ThreadType
      BY <1>0, <1>1 DEF ThreadType
    <3>3. s + 1 \in 0..(Len(plans[r][p]) - 1)
      BY <2>1, <2>9
    <3>4. 0..((s + 1) - 1) \subseteq StepsDone(log, p)
      BY <1>1, <2>1, <2>4, <2>5
    <3>5. ThreadInStep(t)'
      BY <1>0, <1>1, <2>1, <2>7, <3>3, <3>4
         DEF ThreadInStep, HasPlan, SuccessSteps, ThreadType, r, p
    <3> QED BY <1>1, <2>3, <2>4, <2>6, <2>7, <2>8, <3>1, <3>2, <3>5, LogStep
  <2>10. CASE ~(s + 1 < Len(plans[r][p]))
    <3>1. thread' = [thread EXCEPT ![w] = u]
      BY <1>a, <1>5, <2>10 DEF MoveCard, MovesOf, Go, r, p, s
    <3>2. u \in ThreadType
      BY <1>0 DEF ThreadType, Pc
    <3>3. ThreadInStep(u)'
      BY <1>0, <1>1, <2>7 DEF ThreadInStep, HasPlan, ThreadType, r, p
    <3> QED BY <1>1, <2>3, <2>4, <2>6, <2>7, <2>8, <3>1, <3>2, <3>3, LogStep
  <2> QED BY <2>9, <2>10
<1>6. ASSUME NEW st \in {"STOPPED", "ERROR"}, NEW log, LogOK(r, log)
      PROVE  /\ LogOK(r, Append(log, Event(p, s, st)))
             /\ \A q : StepsDone(log, q) \subseteq
                         StepsDone(Append(log, Event(p, s, st)), q)
  <2> DEFINE e == Event(p, s, st)
  <2>1. e \in EventType /\ e.plan \in DOMAIN plans[r] /\ e.status # "SUCCESS"
    BY <1>1, <1>3
  <2>2. log \in Seq(EventType)
    BY <1>6 DEF LogOK
  <2> HIDE DEF e
  <2>3. LogOK(r, Append(log, e))
    BY <1>0, <1>1, <1>6, <2>1, AppendKeepsLog
  <2>4. \A q : StepsDone(log, q) \subseteq StepsDone(Append(log, e), q)
    BY <2>1, <2>2, StepsDoneAppend
  <2> QED BY <2>3, <2>4 DEF e
<1> DEFINE stopped == Event(p, s, "STOPPED")
           failed == Event(p, s, "ERROR")
           x == [old EXCEPT !.pc = "exec_fail_read"]
<1>7. LogOK(r, Append(events[r], stopped)) /\ LogOK(r, Append(events[r], failed))
  BY <1>2, <1>6
<1>8. LogOK(r, Append(Append(events[r], stopped), failed))
  BY <1>6, <1>7
<1>9. \A q : /\ StepsDone(events[r], q) \subseteq StepsDone(Append(events[r], stopped), q)
             /\ StepsDone(events[r], q) \subseteq StepsDone(Append(events[r], failed), q)
             /\ StepsDone(Append(events[r], stopped), q) \subseteq
                  StepsDone(Append(Append(events[r], stopped), failed), q)
  BY <1>2, <1>6, <1>7
<1>10. \A q : StepsDone(events[r], q) \subseteq
                StepsDone(Append(Append(events[r], stopped), failed), q)
  BY <1>9
<1>11. x \in ThreadType
  BY <1>0 DEF ThreadType, Pc
<1>12. plans' = plans => ThreadInStep(x)'
  BY <1>0, <1>1 DEF ThreadInStep, HasPlan, ThreadType, r, p
<1> HIDE DEF stopped, failed, x
<1>13. CASE ExecStop(w)
  <2>1. TablesOK' /\ plans' = plans
    BY <1>0, <1>13 DEF ExecStop, TablesOK, RunStatus, cardVars, priceVars, memVars
  <2>2. CASE /\ events' = [events EXCEPT ![r] = Append(events[r], stopped)]
             /\ thread' = [thread EXCEPT ![w] = Idle]
    BY <1>0, <1>1, <1>4, <1>7, <1>9, <2>1, <2>2, LogStep
  <2>3. CASE /\ events' = [events EXCEPT ![r] = Append(Append(events[r], stopped), failed)]
             /\ thread' = [thread EXCEPT ![w] = x]
    BY <1>0, <1>1, <1>8, <1>10, <1>11, <1>12, <2>1, <2>3, LogStep
  <2> QED BY <1>a, <1>13, <2>2, <2>3
          DEF ExecStop, Append2, Done, Goto, Go, r, p, s, stopped, failed, x
<1>14. CASE LogError(w)
  <2>1. TablesOK' /\ plans' = plans
    BY <1>0, <1>14 DEF LogError, TablesOK, runVars, cardVars, priceVars, memVars
  <2>2. /\ events' = [events EXCEPT ![r] = Append(events[r], failed)]
        /\ thread' = [thread EXCEPT ![w] = x]
    BY <1>a, <1>14 DEF LogError, Goto, Go, r, p, s, failed, x
  <2> QED BY <1>0, <1>1, <1>7, <1>9, <1>11, <1>12, <2>1, <2>2, LogStep
<1>15. CASE StopWrite(w)
  <2>1. TablesOK' /\ plans' = plans
    BY <1>0, <1>15 DEF StopWrite, TablesOK, RunStatus, cardVars, priceVars, memVars
  <2>2. /\ events' = [events EXCEPT ![r] = Append(events[r], stopped)]
        /\ thread' = [thread EXCEPT ![w] = Idle]
    BY <1>a, <1>15 DEF StopWrite, Done, Go, r, p, s, stopped
  <2> QED BY <1>0, <1>1, <1>4, <1>7, <1>9, <2>1, <2>2, LogStep
<1> QED BY <1>5, <1>13, <1>14, <1>15

-----------------------------------------------------------------------------
(* Write transactions that leave plans and log alone.                      *)

LEMMA TableWritesKeep ==
  ASSUME ExecutionInv, NEW w \in Workers,
         \/ CreateInsert(w) \/ SetStatusWrite(w)
         \/ AddCardInsert(w) \/ AddCardFetch(w) \/ AddCardPriced(w)
         \/ PlanUpsert(w) \/ PlanRollback(w)
         \/ \E pr \in Prints : PlanPriceFound(w, pr)
         \/ FailWrite(w) \/ ResetWrite(w)
  PROVE  ExecutionInv'
<1>a. PICK old : old = thread[w]
  OBVIOUS
<1>0. /\ old \in ThreadType /\ ThreadInStep(old)
      /\ Idle \in ThreadType /\ ThreadInStep(Idle)
      /\ TablesOK
  BY <1>a, ThreadFacts, IdleThread DEF ExecutionInv, TypeOK
<1> DEFINE r == old.run
           pr == old.print
<1>1. CASE CreateInsert(w)
  <2>1. TablesOK'
    BY <1>0, <1>1 DEF CreateInsert, FirstStatus, TablesOK, RunStatus, cardVars, priceVars
  <2> QED BY <1>0, <1>1, <2>1, TableStep DEF CreateInsert, Done, Go
<1>2. CASE SetStatusWrite(w)
  <2> DEFINE t == [old EXCEPT !.pc = "load_plan"]
  <2>1. old.status \in RunStatus \cup {"ABSENT"} /\ old.pc = "set_status"
    BY <1>a, <1>0, <1>2 DEF SetStatusWrite, At, ThreadType
  <2>2. TablesOK'
    BY <1>a, <1>0, <1>2, <2>1 DEF SetStatusWrite, TablesOK, cardVars, priceVars, memVars
  <2>3. t \in ThreadType /\ ThreadInStep(t)
    BY <1>0, <2>1 DEF ThreadType, Pc, ThreadInStep, HasPlan
  <2>4. thread' = [thread EXCEPT ![w] = t] \/ thread' = [thread EXCEPT ![w] = Idle]
    BY <1>a, <1>2 DEF SetStatusWrite, Goto, Done, Go
  <2> QED BY <1>0, <1>2, <2>2, <2>3, <2>4, TableStep DEF SetStatusWrite
<1>3. ASSUME InsertCards(r, old.cards), r \in Runs
      PROVE  /\ cardRun' \in [Cards -> Runs \cup {None}]
             /\ currentBin' \in [Cards -> Bins \cup {None}]
  BY <1>0, <1>3, ConstantsAssumption DEF InsertCards, TablesOK
<1>5. CASE AddCardInsert(w)
  <2>1. r \in Runs /\ pr \in Prints
    BY <1>a, <1>0, <1>5 DEF AddCardInsert, At, ThreadInStep
  <2>2. cache' \in [Runs -> SUBSET Prints]
    BY <1>a, <1>0, <1>5, <2>1 DEF AddCardInsert, TablesOK
  <2>3. InsertCards(r, old.cards)
    BY <1>a, <1>5 DEF AddCardInsert
  <2>4. TablesOK'
    BY <1>0, <1>3, <1>5, <2>1, <2>2, <2>3 DEF AddCardInsert, TablesOK, runVars, priceVars
  <2> QED BY <1>0, <1>5, <2>4, TableStep DEF AddCardInsert, Done, Go
<1>6. CASE AddCardFetch(w)
  <2> DEFINE t == [old EXCEPT !.pc = "fetch_card"]
  <2>1. t \in ThreadType /\ ThreadInStep(t)
    BY <1>a, <1>0, <1>6 DEF AddCardFetch, At, ThreadType, Pc, ThreadInStep, HasPlan
  <2>2. TablesOK'
    BY <1>0, <1>6 DEF AddCardFetch, TablesOK, runVars, cardVars, priceVars
  <2> QED BY <1>a, <1>6, <2>1, <2>2, TableStep DEF AddCardFetch, Goto, Go
<1>7. CASE AddCardPriced(w)
  <2>1. r \in Runs /\ pr \in Prints
    BY <1>a, <1>0, <1>7 DEF AddCardPriced, At, ThreadInStep
  <2>2. cache' \in [Runs -> SUBSET Prints]
    BY <1>a, <1>0, <1>7, <2>1 DEF AddCardPriced, TablesOK
  <2>3. prices' \in [Prints -> Price \cup {NoRow}]
    BY <1>a, <1>0, <1>7, <2>1 DEF AddCardPriced, TablesOK
  <2>4. InsertCards(r, old.cards)
    BY <1>a, <1>7 DEF AddCardPriced
  <2>5. TablesOK'
    BY <1>0, <1>3, <1>7, <2>1, <2>2, <2>3, <2>4 DEF AddCardPriced, TablesOK, runVars
  <2> QED BY <1>0, <1>7, <2>5, TableStep DEF AddCardPriced, Done, Go
<1>8. ASSUME NEW q \in Prints, NEW v \in Price \cup {NoRow}, old.pc \in {"plan_price", "plan_upsert"}
      PROVE  /\ Priced(old, q) \in ThreadType /\ ThreadInStep(Priced(old, q))
             /\ [Priced(old, q) EXCEPT !.pending[q] = v] \in ThreadType
             /\ ThreadInStep([Priced(old, q) EXCEPT !.pending[q] = v])
  <2> DEFINE todo == old.todo \ {q}
             pc == IF todo = {} THEN "plan_write" ELSE "plan_price"
             t == [old EXCEPT !.todo = todo, !.print = None, !.pc = pc]
             pending == [old.pending EXCEPT ![q] = v]
             u == [t EXCEPT !.pending = pending]
  <2>1. pc \in {"plan_write", "plan_price"} /\ todo \in SUBSET Prints
    BY <1>0 DEF ThreadType
  <2>2. pending \in [Prints -> Price \cup {NoRow}]
    BY <1>0, <1>8 DEF ThreadType
  <2>3. t = Priced(old, q) /\ t.pending = old.pending
    BY <1>0 DEF Priced, ThreadType
  <2> HIDE DEF pc, todo, pending
  <2>4. t \in ThreadType /\ u \in ThreadType
    BY <1>0, <2>1, <2>2 DEF ThreadType, Pc
  <2>5. ThreadInStep(t) /\ ThreadInStep(u)
    BY <1>0, <1>8, <2>1 DEF ThreadInStep, HasPlan, ThreadType
  <2>6. u = [Priced(old, q) EXCEPT !.pending[q] = v]
    BY <2>3 DEF pending
  <2> QED BY <2>3, <2>4, <2>5, <2>6
<1>9. CASE PlanUpsert(w)
  <2>1. r \in Runs /\ pr \in Prints /\ old.pc = "plan_upsert"
    BY <1>a, <1>0, <1>9 DEF PlanUpsert, At, ThreadInStep
  <2>2. cache' \in [Runs -> SUBSET Prints]
    BY <1>a, <1>0, <1>9, <2>1 DEF PlanUpsert, TablesOK
  <2>3. TablesOK'
    BY <1>0, <1>9, <2>2 DEF PlanUpsert, TablesOK, runVars, cardVars, priceVars
  <2>4. PICK v \in Price :
          thread' = [thread EXCEPT ![w] = [Priced(old, pr) EXCEPT !.pending[pr] = v]]
    BY <1>a, <1>9 DEF PlanUpsert, Go
  <2> QED BY <1>8, <1>9, <2>1, <2>3, <2>4, TableStep DEF PlanUpsert
<1>10. CASE PlanRollback(w)
  <2>1. TablesOK'
    BY <1>0, <1>10 DEF PlanRollback, TablesOK, runVars, cardVars, priceVars
  <2> QED BY <1>0, <1>10, <2>1, TableStep DEF PlanRollback, Done, Go
<1>11. ASSUME NEW q \in Prints, PlanPriceFound(w, q)
       PROVE  ExecutionInv'
  <2>1. r \in Runs /\ old.pc = "plan_price"
    BY <1>a, <1>0, <1>11 DEF PlanPriceFound, At, ThreadInStep
  <2>2. cache' \in [Runs -> SUBSET Prints]
    BY <1>a, <1>0, <1>11, <2>1 DEF PlanPriceFound, TablesOK
  <2>3. TablesOK'
    BY <1>0, <1>11, <2>2 DEF PlanPriceFound, TablesOK, runVars, cardVars, priceVars
  <2>4. thread' = [thread EXCEPT ![w] = Priced(old, q)]
    BY <1>a, <1>11 DEF PlanPriceFound, Go
  <2> QED BY <1>8, <1>11, <2>1, <2>3, <2>4, TableStep DEF PlanPriceFound
<1>12. CASE FailWrite(w)
  <2>1. CodesOf(thread[w]) \subseteq {None, "REQUESTED", "EXEC_ERROR"}
    BY DEF CodesOf
  <2>2. TablesOK'
    BY <1>0, <1>12, <2>1
    DEF FailWrite, TablesOK, RunStatus, cardVars, priceVars, memVars
  <2> QED BY <1>0, <1>12, <2>2, TableStep DEF FailWrite, Done, Go
<1>13. CASE ResetWrite(w)
  <2>1. TablesOK'
    BY <1>0, <1>13 DEF ResetWrite, CodeAfterReset, TablesOK, RunStatus, cardVars,
                       priceVars, memVars
  <2> QED BY <1>0, <1>13, <2>1, TableStep DEF ResetWrite, Done, Go
<1> QED BY <1>1, <1>2, <1>5, <1>6, <1>7, <1>9, <1>10, <1>11, <1>12, <1>13

-----------------------------------------------------------------------------
(* The commit of a plan: the new plan is the last one, nothing is logged   *)
(* for it yet, and the older plans keep their numbers.                     *)
LEMMA PlanCommitKeeps ==
  ASSUME ExecutionInv, NEW w \in Workers, PlanCommit(w)
  PROVE  ExecutionInv'
<1>a. PICK r : r = thread[w].run
  OBVIOUS
<1>b. PICK n : n = Len(plans[r])
  OBVIOUS
<1>c. PICK new : new = PlanOf(thread[w].cards)
  OBVIOUS
<1>0. /\ thread[w] \in ThreadType /\ ThreadInStep(thread[w])
      /\ Idle \in ThreadType /\ ThreadInStep(Idle)
      /\ TypeOK /\ TablesOK
  BY ThreadFacts, IdleThread DEF ExecutionInv, TypeOK
<1>1. r \in Runs /\ plans[r] \in Seq(Seq(Move)) /\ n \in Nat
  BY <1>a, <1>b, <1>0 DEF PlanCommit, At, ThreadInStep, TypeOK
<1>2. new \in Seq(Move)
  BY <1>c, <1>0, PlannerAssumption DEF PlanCommit, PlanAccepted, ThreadType
<1>3. /\ plans' = [plans EXCEPT ![r] = Append(plans[r], new)]
      /\ events' = events
      /\ thread' = [thread EXCEPT ![w] = Idle]
  BY <1>a, <1>c DEF PlanCommit, Done, Go
<1>4. TablesOK'
  <2>1. Visible(w) \in [Prints -> Price \cup {NoRow}]
    BY <1>0 DEF Visible, ThreadType, TablesOK
  <2>2. Captured(w, r) \in [Prints -> Price \cup {NoRow}]
    BY <1>0, <1>1, <2>1 DEF Captured, TablesOK
  <2>3. prices' = Visible(w) /\ snapshot' = [snapshot EXCEPT ![r] = Captured(w, r)]
    BY <1>a DEF PlanCommit
  <2>4. status' \in [Runs -> RunStatus \cup {"ABSENT"}]
    BY <1>0 DEF PlanCommit, TablesOK, RunStatus
  <2>5. prices' \in [Prints -> Price \cup {NoRow}]
    BY <2>1, <2>3
  <2>6. snapshot' \in [Runs -> [Prints -> Price \cup {NoRow}]]
    BY <1>0, <2>2, <2>3 DEF TablesOK
  <2> QED BY <1>0, <2>4, <2>5, <2>6 DEF PlanCommit, TablesOK, cardVars
<1>5. /\ \A q \in Runs \ {r} : plans'[q] = plans[q]
      /\ plans'[r] = Append(plans[r], new)
  BY <1>0, <1>1, <1>3 DEF TypeOK
<1>6. /\ DOMAIN plans[r] = 1..n /\ DOMAIN plans'[r] = 1..(n + 1)
      /\ \A p \in 1..n : plans'[r][p] = plans[r][p]
      /\ plans'[r][n + 1] = new
  BY <1>b, <1>1, <1>2, <1>5
<1>7. \A q \in Runs : \A p \in DOMAIN plans[q] :
        p \in DOMAIN plans'[q] /\ plans'[q][p] = plans[q][p]
  BY <1>1, <1>5, <1>6
<1>8. TypeOK'
  <2>1. plans' \in [Runs -> Seq(Seq(Move))]
    <3>1. Append(plans[r], new) \in Seq(Seq(Move))
      BY <1>1, <1>2
    <3> QED BY <1>0, <1>3, <3>1 DEF TypeOK
  <2>2. thread' \in [Workers -> ThreadType]
    BY <1>0, <1>3 DEF TypeOK
  <2> QED BY <1>0, <1>3, <1>4, <2>1, <2>2 DEF TypeOK
<1>9. ThreadsInStep'
  <2> SUFFICES ASSUME NEW v \in Workers
               PROVE  ThreadInStep(thread[v])'
    BY DEF ThreadsInStep
  <2>1. thread'[v] = IF v = w THEN Idle ELSE thread[v]
    BY <1>0, <1>3 DEF TypeOK
  <2>2. PICK u : u = thread'[v]
    OBVIOUS
  <2>3. ThreadInStep(u)
    BY <1>0, <2>1, <2>2 DEF ExecutionInv, ThreadsInStep
  <2>4. ThreadInStep(u)'
    <3>1. u.pc # "idle" => u.run \in Runs
      BY <2>3 DEF ThreadInStep
    <3>2. HasPlan(u) => /\ u.plan \in DOMAIN plans[u.run]
                        /\ u.plan \in DOMAIN plans'[u.run]
                        /\ plans'[u.run][u.plan] = plans[u.run][u.plan]
      BY <1>7, <2>3, <3>1 DEF ThreadInStep, HasPlan
    <3>3. SuccessSteps(u.run, u.plan)' = SuccessSteps(u.run, u.plan)
      BY <1>3 DEF SuccessSteps
    <3>4. u.pc \in {"move", "exec_stop"} => HasPlan(u)
      BY DEF HasPlan
    <3>5. HasPlan(u)' <=> HasPlan(u)
      BY DEF HasPlan
    <3>6. u.pc \in {"move", "exec_stop"} =>
            /\ u.step \in 0..(Len(plans[u.run][u.plan]) - 1)
            /\ 0..(u.step - 1) \subseteq SuccessSteps(u.run, u.plan)
      BY <2>3 DEF ThreadInStep
    <3>7. u.pc \in {"insert_card", "fetch_card", "plan_upsert"} => u.print \in Prints
      BY <2>3 DEF ThreadInStep
    <3> QED BY <3>1, <3>2, <3>3, <3>4, <3>5, <3>6, <3>7 DEF ThreadInStep
  <2> QED BY <2>2, <2>4 DEF ThreadInStep, HasPlan
<1>10. EventsOfPlans'
  BY <1>3, <1>7 DEF ExecutionInv, EventsOfPlans
<1>11. SuccessPrefix'
  <2>1. \A q, p : SuccessSteps(q, p)' = SuccessSteps(q, p)
    BY <1>3 DEF SuccessSteps
  <2>2. ASSUME NEW q \in Runs, NEW p \in DOMAIN plans[q]
        PROVE  \E m \in 0..Len(plans'[q][p]) : SuccessSteps(q, p)' = 0..(m - 1)
    BY <1>7, <2>1 DEF ExecutionInv, SuccessPrefix
  <2>3. SuccessSteps(r, n + 1) = {}
    <3>1. \A i \in DOMAIN events[r] : events[r][i].plan # n + 1
      BY <1>1, <1>6 DEF ExecutionInv, EventsOfPlans
    <3> QED BY <3>1 DEF SuccessSteps, StepsDone
  <2>4. \E m \in 0..Len(plans'[r][n + 1]) : SuccessSteps(r, n + 1)' = 0..(m - 1)
    <3>1. 0 \in 0..Len(plans'[r][n + 1]) /\ 0..(0 - 1) = {}
      BY <1>2, <1>6
    <3> QED BY <2>1, <2>3, <3>1
  <2>5. \A q \in Runs : \A p \in DOMAIN plans'[q] :
          p \in DOMAIN plans[q] \/ (q = r /\ p = n + 1)
    BY <1>1, <1>5, <1>6
  <2> QED BY <2>2, <2>4, <2>5 DEF SuccessPrefix
<1> QED BY <1>8, <1>9, <1>10, <1>11 DEF ExecutionInv

-----------------------------------------------------------------------------
(* The environment, the initial state and the invariant.                   *)

(* A restart of the process leaves the tables to the next one.             *)
LEMMA CrashKeeps ==
  ASSUME ExecutionInv, Crash
  PROVE  ExecutionInv'
<1>1. Idle \in ThreadType /\ ThreadInStep(Idle)
  BY IdleThread
<1>2. TablesOK'
  BY DEF Crash, ExecutionInv, TypeOK, TablesOK, runVars, cardVars, priceVars
<1>3. plans' = plans /\ events' = events /\ thread' = [w \in Workers |-> Idle]
  BY DEF Crash, planVars
<1>4. TypeOK'
  BY <1>1, <1>2, <1>3 DEF ExecutionInv, TypeOK
<1>5. ThreadsInStep'
  <2>1. ThreadInStep(Idle)'
    BY DEF Idle, ThreadInStep, HasPlan
  <2> QED BY <1>3, <2>1 DEF ThreadsInStep, ThreadInStep, HasPlan
<1>6. EventsOfPlans' /\ SuccessPrefix'
  BY <1>3 DEF ExecutionInv, EventsOfPlans, SuccessPrefix, SuccessSteps
<1> QED BY <1>4, <1>5, <1>6 DEF ExecutionInv

(* So does an update of a stop flag or of a price from outside.            *)
LEMMA OutsideKeeps ==
  ASSUME ExecutionInv,
         \/ \E r \in FlaggedRuns : RequestStop(r)
         \/ \E pr \in RefreshedPrints : RefreshPrice(pr)
         \/ UNCHANGED vars
  PROVE  ExecutionInv'
<1>1. TablesOK /\ FlaggedRuns \subseteq Runs /\ RefreshedPrints \subseteq Prints
  BY ConstantsAssumption DEF ExecutionInv, TypeOK
<1>2. plans' = plans /\ events' = events /\ thread' = thread
  BY DEF RequestStop, RefreshPrice, vars, planVars
<1>3. TablesOK'
  <2>1. ASSUME NEW r \in FlaggedRuns, RequestStop(r) PROVE TablesOK'
    BY <1>1, <2>1 DEF RequestStop, TablesOK, cardVars, priceVars, memVars
  <2>2. ASSUME NEW pr \in RefreshedPrints, RefreshPrice(pr) PROVE TablesOK'
    BY <1>1, <2>2 DEF RefreshPrice, TablesOK, runVars, cardVars, memVars
  <2>3. CASE UNCHANGED vars
    BY <1>1, <2>3 DEF vars, TablesOK, runVars, cardVars, priceVars, memVars
  <2> QED BY <2>1, <2>2, <2>3
<1>4. ThreadsInStep' /\ EventsOfPlans' /\ SuccessPrefix'
  BY <1>2 DEF ExecutionInv, ThreadsInStep, ThreadInStep, HasPlan, EventsOfPlans,
              SuccessPrefix, SuccessSteps
<1> QED BY <1>2, <1>3, <1>4 DEF ExecutionInv, TypeOK

LEMMA InitHolds == Init => ExecutionInv
<1> SUFFICES ASSUME Init PROVE ExecutionInv
  OBVIOUS
<1>1. TablesOK
  BY DEF Init, TablesOK, NoPrices
<1>2. TypeOK
  <2>1. \A S : <<>> \in Seq(S)
    OBVIOUS
  <2> QED BY <1>1, <2>1, IdleThread DEF Init, TypeOK
<1>3. ThreadsInStep
  BY IdleThread DEF Init, ThreadsInStep
<1>4. EventsOfPlans /\ SuccessPrefix
  BY DEF Init, EventsOfPlans, SuccessPrefix
<1> QED BY <1>2, <1>3, <1>4 DEF ExecutionInv

(* No step of any handler, of several of them in any interleaving, or of   *)
(* the environment breaks the invariant.                                   *)
LEMMA NextKeeps ==
  ASSUME ExecutionInv, [Next]_vars
  PROVE  ExecutionInv'
<1>1. ASSUME NEW w \in Workers, Serve(w)
      PROVE  ExecutionInv'
  <2>1. CASE PlanPrints(w) \/ (\E pr \in Prints : PlanPriceMissing(w, pr))
             \/ LoadPlan(w) \/ LoadMoves(w) \/ SeeStop(w) \/ CompleteRead(w)
             \/ ExecFailRead(w) \/ StopRollback(w) \/ WriteTimesOut(w)
    BY <2>1, ReadsKeep
  <2>2. CASE MoveCard(w) \/ ExecStop(w) \/ LogError(w) \/ StopWrite(w)
    BY <2>2, LogWritesKeep
  <2>3. CASE CreateInsert(w) \/ SetStatusWrite(w)
             \/ AddCardInsert(w) \/ AddCardFetch(w) \/ AddCardPriced(w)
             \/ PlanUpsert(w) \/ PlanRollback(w)
             \/ (\E pr \in Prints : PlanPriceFound(w, pr))
             \/ FailWrite(w) \/ ResetWrite(w)
    BY <2>3, TableWritesKeep
  <2>4. CASE PlanCommit(w)
    BY <2>4, PlanCommitKeeps
  <2> QED BY <1>1, <2>1, <2>2, <2>3, <2>4 DEF Serve
<1>2. ASSUME NEW w \in Workers, Request(w)
      PROVE  ExecutionInv'
  BY <1>2, RequestKeeps
<1> QED BY <1>1, <1>2, CrashKeeps, OutsideKeeps DEF Next

(* The invariant of the executions holds in every reachable state.         *)
THEOREM Invariance == Spec => []ExecutionInv
<1>1. Init => ExecutionInv
  BY InitHolds
<1>2. ExecutionInv /\ [Next]_vars => ExecutionInv'
  BY NextKeeps
<1> QED BY <1>1, <1>2, PTL DEF Spec

(* Tables and locals always have their types.                              *)
THEOREM TypeCorrect == Spec => []TypeOK
<1>1. ExecutionInv => TypeOK
  BY DEF ExecutionInv
<1> QED BY <1>1, Invariance, PTL

(* Resumption never skips a move: the successes of a plan are 0 .. n-1,    *)
(* however many handlers execute, stop, replan and crash.                  *)
THEOREM NoMoveSkipped == Spec => []SuccessPrefix
<1>1. ExecutionInv => SuccessPrefix
  BY DEF ExecutionInv
<1> QED BY <1>1, Invariance, PTL

=============================================================================
