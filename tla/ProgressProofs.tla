---------------------------- MODULE ProgressProofs ----------------------------
(***************************************************************************)
(* For any number of threads, runs and cards and any planner: the robot    *)
(* runtime implements MoveProgress, and the bins agree with the log.       *)
(***************************************************************************)
EXTENDS PricingProofs

(* What the refinement maps done to.                                       *)
DoneSteps ==
  [r \in Runs |-> [p \in DOMAIN plans[r] |-> LastSuccessStep(r, p) + 1]]

StepsOf(r, p) == StepsDone(events[r], p)

(* The log tells how many moves of a plan are done.                        *)
LEMMA DoneCount ==
  ASSUME ExecutionInv, NEW r \in Runs, NEW p \in DOMAIN plans[r]
  PROVE  \E n \in 0..Len(plans[r][p]) :
           SuccessSteps(r, p) = 0..(n - 1) /\ DoneSteps[r][p] = n
<1>1. PICK n \in 0..Len(plans[r][p]) :
        SuccessSteps(r, p) = 0..(n - 1) /\ LastSuccessStep(r, p) = n - 1
  BY ResumePoint
<1>2. n \in Nat /\ DoneSteps[r][p] = (n - 1) + 1
  BY <1>1 DEF ExecutionInv, TypeOK, DoneSteps
<1> QED BY <1>1, <1>2

(* Progress depends on the successes in the logs only.                     *)
LEMMA SameSteps ==
  ASSUME NEW r \in Runs, NEW p,
         StepsOf(r, p)' = StepsOf(r, p)
  PROVE  LastSuccessStep(r, p)' = LastSuccessStep(r, p)
BY DEF LastSuccessStep, SuccessSteps, StepsOf

(* Then a step that writes no such thing is a stutter of MoveProgress.      *)
LEMMA SameProgress ==
  ASSUME UNCHANGED <<plans, cardRun, currentBin>>,
         \A r \in Runs : \A p \in DOMAIN plans[r] : StepsOf(r, p)' = StepsOf(r, p)
  PROVE  UNCHANGED Progress!vars
<1>1. DoneSteps' = DoneSteps
  <2>1. \A r \in Runs : \A p \in DOMAIN plans[r] :
          LastSuccessStep(r, p)' = LastSuccessStep(r, p)
    BY SameSteps
  <2> QED BY <2>1 DEF DoneSteps
<1> QED BY <1>1 DEF Progress!vars, DoneSteps

(* Logs are written by four kinds of steps, cards and plans by three.      *)
LEMMA ProgressWriters ==
  ASSUME [Next]_vars,
         ~(\E w \in Workers :
             \/ MoveCard(w) \/ ExecStop(w) \/ LogError(w) \/ StopWrite(w)
             \/ AddCardInsert(w) \/ AddCardPriced(w) \/ PlanCommit(w))
  PROVE  UNCHANGED <<plans, events, cardRun, currentBin>>
<1>1. ASSUME NEW w \in Workers, Request(w)
      PROVE  UNCHANGED <<plans, events, cardRun, currentBin>>
  BY <1>1 DEF Request, CreateRead, SetStatusRead, AddCardRead, PlanRead,
              ExecuteRead, StopRead, FailRead, ResetRead, planVars, cardVars
<1>2. ASSUME NEW w \in Workers, Serve(w)
      PROVE  UNCHANGED <<plans, events, cardRun, currentBin>>
  <2>1. ASSUME NEW pr \in Prints, PlanPriceFound(w, pr) \/ PlanPriceMissing(w, pr)
        PROVE  UNCHANGED <<plans, events, cardRun, currentBin>>
    BY <2>1 DEF PlanPriceFound, PlanPriceMissing, planVars, cardVars
  <2> QED BY <1>2, <2>1
          DEF Serve, CreateInsert, SetStatusWrite, AddCardFetch, PlanPrints,
              PlanUpsert, PlanRollback, LoadPlan, LoadMoves, SeeStop, CompleteRead,
              ExecFailRead, StopRollback, FailWrite, ResetWrite, WriteTimesOut,
              planVars, cardVars
<1>3. CASE Crash \/ (\E r \in FlaggedRuns : RequestStop(r))
           \/ (\E pr \in RefreshedPrints : RefreshPrice(pr)) \/ UNCHANGED vars
  BY <1>3 DEF Crash, RequestStop, RefreshPrice, vars, planVars, cardVars
<1> QED BY <1>1, <1>2, <1>3 DEF Next

(* A log that goes on with events other than SUCCESS.                      *)
GoesOnWithout(log, old) ==
  /\ \A i \in DOMAIN old : i \in DOMAIN log /\ log[i] = old[i]
  /\ \A i \in DOMAIN log \ DOMAIN old : log[i].status # "SUCCESS"

(* That is what stops and errors write.                                    *)
LEMMA NoSuccessLogged ==
  ASSUME ExecutionInv, NEW w \in Workers, ExecStop(w) \/ LogError(w) \/ StopWrite(w)
  PROVE  /\ UNCHANGED <<plans, cardRun, currentBin>>
         /\ \A r \in Runs : GoesOnWithout(events'[r], events[r])
<1>a. PICK t : t = thread[w]
  OBVIOUS
<1>b. PICK r, stopped, error : /\ r = t.run
                               /\ stopped = Event(t.plan, t.step, "STOPPED")
                               /\ error = Event(t.plan, t.step, "ERROR")
  OBVIOUS
<1>0. events \in [Runs -> Seq(EventType)] /\ r \in Runs
  BY <1>a, <1>b, ThreadFacts DEF ExecutionInv, TypeOK, ThreadInStep, ExecStop,
                                 LogError, StopWrite, At
<1>1. stopped.status # "SUCCESS" /\ error.status # "SUCCESS"
  BY <1>b DEF Event
<1>2. UNCHANGED <<plans, cardRun, currentBin>>
  BY DEF ExecStop, LogError, StopWrite, cardVars
<1>3. \/ events' = [events EXCEPT ![r] = Append(events[r], stopped)]
      \/ events' = [events EXCEPT ![r] = Append(events[r], error)]
      \/ events' = [events EXCEPT ![r] = Append(Append(events[r], stopped), error)]
  BY <1>a, <1>b DEF ExecStop, LogError, StopWrite, Append2
<1>4. PICK log \in Seq(EventType) : log = events[r]
  BY <1>0
<1>5. ASSUME NEW e, e.status # "SUCCESS"
      PROVE  GoesOnWithout(Append(log, e), log)
  BY <1>5 DEF GoesOnWithout
<1>6. GoesOnWithout(Append(Append(log, stopped), error), log)
  <2>1. PICK n \in Nat : n = Len(log) /\ DOMAIN log = 1..n
    BY <1>4
  <2>2. PICK long : long = Append(Append(log, stopped), error)
    OBVIOUS
  <2>3. /\ DOMAIN long = 1..(n + 2) /\ long[n + 1] = stopped /\ long[n + 2] = error
        /\ \A i \in 1..n : long[i] = log[i]
    BY <2>1, <2>2
  <2> QED BY <1>1, <2>1, <2>2, <2>3 DEF GoesOnWithout
<1>7. GoesOnWithout(events'[r], events[r])
  BY <1>0, <1>1, <1>3, <1>4, <1>5, <1>6
<1>8. \A q \in Runs \ {r} : GoesOnWithout(events'[q], events[q])
  BY <1>0, <1>3 DEF GoesOnWithout
<1> QED BY <1>2, <1>7, <1>8

(* A log that gets events other than SUCCESS reports the same steps.       *)
LEMMA NoSuccess ==
  ASSUME ExecutionInv, NEW w \in Workers, ExecStop(w) \/ LogError(w) \/ StopWrite(w)
  PROVE  UNCHANGED Progress!vars
<1>1. ASSUME NEW r \in Runs, NEW p \in DOMAIN plans[r]
      PROVE  StepsOf(r, p)' = StepsOf(r, p)
  <2>1. PICK log, old : log = events'[r] /\ old = events[r]
    OBVIOUS
  <2>2. GoesOnWithout(log, old)
    BY <2>1, NoSuccessLogged
  <2>3. StepsDone(log, p) = StepsDone(old, p)
    BY <2>2 DEF GoesOnWithout, StepsDone
  <2>4. StepsOf(r, p)' = StepsDone(log, p) /\ StepsOf(r, p) = StepsDone(old, p)
    BY <2>1 DEF StepsOf, StepsDone
  <2> QED BY <2>3, <2>4
<1> QED BY <1>1, NoSuccessLogged, SameProgress

(* Step s of plan p of the run r is logged and its card taken to its bin.  *)
Logs(r, p, s) ==
  /\ r \in Runs /\ p \in DOMAIN plans[r] /\ p \in Nat \ {0}
  /\ plans[r][p] \in Seq(Move) /\ Len(plans[r][p]) \in Nat
  /\ s \in 0..(Len(plans[r][p]) - 1)
  /\ UNCHANGED <<plans, cardRun>>
  /\ events \in [Runs -> Seq(EventType)] /\ Event(p, s, "SUCCESS") \in EventType
  /\ events' = [events EXCEPT ![r] = Append(events[r], Event(p, s, "SUCCESS"))]
  /\ currentBin' = [currentBin EXCEPT ![plans[r][p][s + 1].card] =
                      plans[r][p][s + 1].to]

(* Then it is done, besides the steps done before.                         *)
MakesDone(r, p, s) ==
  \A q : StepsDone(events'[r], q) =
           StepsDone(events[r], q) \cup (IF q = p THEN {s} ELSE {})

(* A move is logged as a step of a stored plan before which all succeeded. *)
LEMMA MoveLogged ==
  ASSUME ExecutionInv, NEW w \in Workers, MoveCard(w),
         NEW r, r = thread[w].run, NEW p, p = thread[w].plan,
         NEW s, s = thread[w].step
  PROVE  /\ Logs(r, p, s) /\ MakesDone(r, p, s)
         /\ 0..(s - 1) \subseteq SuccessSteps(r, p)
<1>a. PICK t : t = thread[w]
  OBVIOUS
<1>0. /\ t \in ThreadType /\ r \in Runs /\ p \in DOMAIN plans[r]
      /\ s \in 0..(Len(plans[r][p]) - 1) /\ 0..(s - 1) \subseteq SuccessSteps(r, p)
      /\ events \in [Runs -> Seq(EventType)]
  BY <1>a, ThreadFacts DEF ExecutionInv, TypeOK, ThreadInStep, HasPlan, MoveCard, At
<1>1. /\ s \in Nat /\ p \in Nat \ {0}
      /\ plans[r][p] \in Seq(Move) /\ Len(plans[r][p]) \in Nat
  BY <1>0 DEF ExecutionInv, TypeOK
<1>2. /\ UNCHANGED <<plans, cardRun>>
      /\ events' = [events EXCEPT ![r] = Append(events[r], Event(p, s, "SUCCESS"))]
      /\ currentBin' = [currentBin EXCEPT ![plans[r][p][s + 1].card] =
                          plans[r][p][s + 1].to]
  BY <1>a DEF MoveCard, BinAfter, MovesOf
<1>3. PICK e : e = Event(p, s, "SUCCESS")
  OBVIOUS
<1>4. e.plan = p /\ e.status = "SUCCESS" /\ e.step = s /\ e \in EventType
  BY <1>1, <1>3 DEF EventType, Event
<1>5. ASSUME NEW q
      PROVE  StepsDone(events'[r], q) =
               StepsDone(events[r], q) \cup (IF q = p THEN {s} ELSE {})
  <2>1. events'[r] = Append(events[r], e)
    BY <1>0, <1>2, <1>3
  <2>2. StepsDone(Append(events[r], e), q) =
          StepsDone(events[r], q) \cup
            (IF e.plan = q /\ e.status = "SUCCESS" THEN {e.step} ELSE {})
    BY <1>0, <1>4, StepsDoneAppend
  <2> QED BY <1>4, <2>1, <2>2
<1> QED BY <1>0, <1>1, <1>2, <1>3, <1>4, <1>5 DEF Logs, MakesDone

(* The first move that is not done advances its plan.                      *)
LEMMA MoveAdvances ==
  ASSUME ExecutionInv, NEW w \in Workers, MoveCard(w),
         SuccessSteps(thread[w].run, thread[w].plan) = 0..(thread[w].step - 1)
  PROVE  Progress!Once
<1>a. PICK r, p, n : r = thread[w].run /\ p = thread[w].plan /\ n = thread[w].step
  OBVIOUS
<1>b. Logs(r, p, n) /\ MakesDone(r, p, n)
  BY <1>a, MoveLogged
<1>0. /\ r \in Runs /\ p \in DOMAIN plans[r]
      /\ n \in 0..(Len(plans[r][p]) - 1) /\ Len(plans[r][p]) \in Nat
      /\ UNCHANGED <<plans, cardRun>>
      /\ currentBin' = [currentBin EXCEPT ![plans[r][p][n + 1].card] =
                          plans[r][p][n + 1].to]
  BY <1>b DEF Logs
<1>1. \A q : StepsDone(events'[r], q) =
               StepsDone(events[r], q) \cup (IF q = p THEN {n} ELSE {})
  BY <1>b DEF MakesDone
<1>2. \A q \in Runs \ {r} : events'[q] = events[q]
  BY <1>b DEF Logs
<1>3. DoneSteps[r][p] = n /\ SuccessSteps(r, p) = 0..(n - 1)
  <2>0. SuccessSteps(r, p) = 0..(n - 1)
    BY <1>a
  <2>1. LastSuccessStep(r, p) = n - 1
    BY <1>0, <2>0, LastOfPrefix
  <2>2. DoneSteps[r][p] = (n - 1) + 1
    BY <1>0, <2>1 DEF DoneSteps
  <2> QED BY <1>0, <2>0, <2>2
<1>4. \A q \in Runs : \A k \in DOMAIN plans[q] :
        ~(q = r /\ k = p) => LastSuccessStep(q, k)' = LastSuccessStep(q, k)
  BY <1>0, <1>1, <1>2, SameSteps DEF StepsOf
<1>5. LastSuccessStep(r, p)' = (n + 1) - 1
  <2>1. SuccessSteps(r, p)' = 0..((n + 1) - 1)
    <3>1. SuccessSteps(r, p)' = StepsDone(events'[r], p)
      BY DEF SuccessSteps, StepsDone
    <3>2. StepsDone(events'[r], p) = (0..(n - 1)) \cup {n}
      BY <1>1, <1>3 DEF SuccessSteps
    <3>3. (0..(n - 1)) \cup {n} = 0..((n + 1) - 1)
      BY <1>0
    <3> QED BY <3>1, <3>2, <3>3
  <2>2. \A u \in 0..((n + 1) - 1) : u <= (n + 1) - 1
    BY <1>0
  <2>3. (n + 1) - 1 \in 0..((n + 1) - 1) /\ (n + 1) - 1 = n
    BY <1>0
  <2>4. \A x \in 0..n : (\A u \in 0..n : u <= x) => x = n
    BY <1>0
  <2> QED BY <2>1, <2>2, <2>3, <2>4 DEF LastSuccessStep
<1>6. DoneSteps' = [DoneSteps EXCEPT ![r][p] = n + 1]
  <2>1. DoneSteps'[r][p] = n + 1
    BY <1>0, <1>5 DEF DoneSteps
  <2>2. \A k \in DOMAIN plans[r] : k # p => DoneSteps'[r][k] = DoneSteps[r][k]
    BY <1>0, <1>4 DEF DoneSteps
  <2>3. \A q \in Runs \ {r} : DoneSteps'[q] = DoneSteps[q]
    BY <1>0, <1>4 DEF DoneSteps
  <2>4. DoneSteps'[r] = [DoneSteps[r] EXCEPT ![p] = n + 1]
    BY <1>0, <2>1, <2>2 DEF DoneSteps
  <2> QED BY <1>0, <2>3, <2>4 DEF DoneSteps
<1>7. n + 1 \in DOMAIN plans[r][p] /\ Progress!Carry(plans[r][p][n + 1])
  <2>1. plans[r][p] \in Seq(Move)
    BY <1>b DEF Logs
  <2> QED BY <1>0, <2>1 DEF Progress!Carry
<1>8. DoneSteps[r][p] = (n + 1) - 1
  BY <1>0, <1>3
<1>9. Progress!Advance(r, p)
  BY <1>0, <1>6, <1>7, <1>8 DEF Progress!Advance, DoneSteps
<1> QED BY <1>0, <1>9 DEF Progress!Once

(* A logged move is the next one of its plan, or one carried out before.   *)
LEMMA MoveIsProgress ==
  ASSUME ExecutionInv, NEW w \in Workers, MoveCard(w)
  PROVE  Progress!Next
<1>a. PICK r, p, s : r = thread[w].run /\ p = thread[w].plan /\ s = thread[w].step
  OBVIOUS
<1>b. /\ Logs(r, p, s) /\ MakesDone(r, p, s)
      /\ 0..(s - 1) \subseteq SuccessSteps(r, p)
  BY <1>a, MoveLogged
<1>0. /\ r \in Runs /\ p \in DOMAIN plans[r] /\ Len(plans[r][p]) \in Nat
      /\ s \in 0..(Len(plans[r][p]) - 1) /\ 0..(s - 1) \subseteq SuccessSteps(r, p)
      /\ UNCHANGED <<plans, cardRun>>
      /\ currentBin' = [currentBin EXCEPT ![plans[r][p][s + 1].card] =
                          plans[r][p][s + 1].to]
  BY <1>b DEF Logs
<1>1. PICK n \in 0..Len(plans[r][p]) :
        SuccessSteps(r, p) = 0..(n - 1) /\ DoneSteps[r][p] = n
  BY <1>0, DoneCount
<1>2. s <= n
  <2>1. s = 0 \/ s - 1 \in 0..(s - 1)
    BY <1>0
  <2> QED BY <1>0, <1>1, <2>1
<1>3. CASE s = n
  BY <1>1, <1>3, <1>a, MoveAdvances DEF Progress!Next
<1>4. CASE s # n
  <2>1. s \in 0..(n - 1)
    BY <1>0, <1>1, <1>2, <1>4
  <2>2. \A q : StepsDone(events'[r], q) =
                 StepsDone(events[r], q) \cup (IF q = p THEN {s} ELSE {})
    BY <1>b DEF MakesDone
  <2>3. \A q \in Runs \ {r} : events'[q] = events[q]
    BY <1>b DEF Logs
  <2>4. StepsDone(events'[r], p) = StepsDone(events[r], p)
    BY <1>1, <2>1, <2>2 DEF SuccessSteps
  <2>5. \A q \in Runs : \A k \in DOMAIN plans[q] :
          LastSuccessStep(q, k)' = LastSuccessStep(q, k)
    BY <2>2, <2>3, <2>4, SameSteps DEF StepsOf
  <2>6. DoneSteps' = DoneSteps
    BY <1>0, <2>5 DEF DoneSteps
  <2>7. /\ s + 1 \in DOMAIN plans[r][p] /\ s + 1 <= DoneSteps[r][p]
        /\ Progress!Carry(plans[r][p][s + 1])
    <3>1. plans[r][p] \in Seq(Move)
      BY <1>b DEF Logs
    <3> QED BY <1>0, <1>1, <2>1, <3>1 DEF Progress!Carry
  <2>8. Progress!Repeat(r, p)
    BY <1>0, <2>6, <2>7 DEF Progress!Repeat, DoneSteps
  <2> QED BY <1>0, <2>8 DEF Progress!Next
<1> QED BY <1>3, <1>4

(* A card that is inserted arrives in a run.                               *)
LEMMA ArriveStep ==
  ASSUME ExecutionInv, PricingInv, NEW w \in Workers,
         AddCardInsert(w) \/ AddCardPriced(w)
  PROVE  Progress!Once
<1>a. PICK t : t = thread[w]
  OBVIOUS
<1>1. t \in ThreadType /\ t.run \in Runs /\ Inserting(t)
  BY <1>a, ThreadFacts
  DEF ThreadInStep, AddCardInsert, AddCardPriced, At, Inserting
<1>2. PICK c \in Cards : t.cards = {c}
  BY <1>a, <1>1 DEF PricingInv, CardsInv, OneCardEach
<1>3. cardRun[c] = None
  BY <1>a, <1>1, <1>2 DEF PricingInv, CardsInv, NewCardsUnowned
<1>4. InsertCards(t.run, {c}) /\ UNCHANGED <<plans, events>>
  BY <1>a, <1>2 DEF AddCardInsert, AddCardPriced, planVars
<1>5. /\ cardRun' = [cardRun EXCEPT ![c] = t.run]
      /\ currentBin' = [currentBin EXCEPT ![c] = StartBin[c]]
  BY <1>4 DEF InsertCards, ExecutionInv, TypeOK, TablesOK
<1>6. DoneSteps' = DoneSteps
  <2>1. \A r \in Runs : \A p \in DOMAIN plans[r] :
          LastSuccessStep(r, p)' = LastSuccessStep(r, p)
    BY <1>4, SameSteps DEF StepsOf
  <2> QED BY <1>4, <2>1 DEF DoneSteps
<1>7. Progress!Arrive(c, t.run)
  BY <1>3, <1>4, <1>5, <1>6 DEF Progress!Arrive, DoneSteps
<1> QED BY <1>1, <1>7 DEF Progress!Once

(* A stored plan begins with nothing done and moves cards of its run.      *)
LEMMA PlanStep ==
  ASSUME ExecutionInv, PricingInv, NEW w \in Workers, PlanCommit(w)
  PROVE  Progress!Once
<1>a. PICK t : t = thread[w]
  OBVIOUS
<1>b. PICK r, new : r = t.run /\ new = PlanOf(t.cards)
  OBVIOUS
<1>0. /\ t \in ThreadType /\ r \in Runs /\ Planning(t)
      /\ plans \in [Runs -> Seq(Seq(Move))] /\ new # Infeasible
  BY <1>a, <1>b, ThreadFacts
  DEF ThreadInStep, PlanCommit, PlanAccepted, At, Planning, ExecutionInv, TypeOK
<1>1. /\ plans' = [plans EXCEPT ![r] = Append(plans[r], new)]
      /\ UNCHANGED <<events, cardRun, currentBin>>
  BY <1>a, <1>b DEF PlanCommit, cardVars
<1>2. /\ t.cards \in SUBSET Cards /\ t.cards \subseteq CardsIn(r)
  BY <1>a, <1>b, <1>0 DEF ThreadType, PricingInv, CardsInv, PlannedCardsOwned
<1>3. /\ new \in Seq(Move)
      /\ \A i \in DOMAIN new : cardRun[new[i].card] = r
  <2>1. /\ new \in Seq(Move)
        /\ \A i \in DOMAIN new : new[i].card \in t.cards
    BY <1>b, <1>0, <1>2, PlannerAssumption
  <2> QED BY <1>2, <2>1 DEF CardsIn
<1>4. PICK n \in Nat : n = Len(plans[r]) /\ DOMAIN plans[r] = 1..n
  BY <1>0
<1>5. /\ DOMAIN plans'[r] = 1..(n + 1) /\ plans'[r][n + 1] = new
      /\ Len(plans'[r]) = n + 1
  BY <1>0, <1>1, <1>3, <1>4
<1>6. \A q \in Runs : \A p : LastSuccessStep(q, p)' = LastSuccessStep(q, p)
  BY <1>1, SameSteps DEF StepsOf
<1>7. LastSuccessStep(r, n + 1) = -1
  <2>1. n + 1 \notin DOMAIN plans[r]
    BY <1>4
  <2> QED BY <1>0, <2>1
          DEF ExecutionInv, EventsOfPlans, LastSuccessStep, SuccessSteps, StepsDone
<1>8. DoneSteps' = [DoneSteps EXCEPT ![r] = Append(DoneSteps[r], 0)]
  <2>1. \A q \in Runs \ {r} : DoneSteps'[q] = DoneSteps[q]
    BY <1>0, <1>1, <1>6 DEF DoneSteps
  <2>2. DoneSteps'[r] = [p \in 1..(n + 1) |->
                           IF p = n + 1 THEN 0 ELSE LastSuccessStep(r, p) + 1]
    BY <1>0, <1>5, <1>6, <1>7 DEF DoneSteps
  <2>3. DoneSteps[r] = [p \in 1..n |-> LastSuccessStep(r, p) + 1]
    BY <1>0, <1>4 DEF DoneSteps
  <2>4. DoneSteps'[r] = Append(DoneSteps[r], 0)
    BY <1>4, <2>2, <2>3
  <2> QED BY <1>1, <2>1, <2>4 DEF DoneSteps
<1>9. Progress!Plan(r)
  BY <1>1, <1>3, <1>4, <1>5, <1>8 DEF Progress!Plan, DoneSteps
<1> QED BY <1>0, <1>9 DEF Progress!Once

(* The robot runtime implements MoveProgress: whatever threads, stops,     *)
(* plans, scans and restarts overlap, an execution carries out the next    *)
(* move of a plan or repeats an earlier one, and nothing else moves a card.*)
THEOREM ProgressKept == Spec => KeepsProgress
<1>1. Init => Progress!Init
  BY DEF Init, Progress!Init
<1>2. ExecutionInv /\ PricingInv /\ [Next]_vars => [Progress!Next]_(Progress!vars)
  <2> SUFFICES ASSUME ExecutionInv, PricingInv, [Next]_vars
               PROVE  Progress!Next \/ UNCHANGED Progress!vars
    OBVIOUS
  <2>1. ASSUME NEW w \in Workers, MoveCard(w)
        PROVE  Progress!Next
    BY <2>1, MoveIsProgress
  <2>2. ASSUME NEW w \in Workers, ExecStop(w) \/ LogError(w) \/ StopWrite(w)
        PROVE  UNCHANGED Progress!vars
    BY <2>2, NoSuccess
  <2>3. ASSUME NEW w \in Workers, AddCardInsert(w) \/ AddCardPriced(w)
        PROVE  Progress!Next
    BY <2>3, ArriveStep DEF Progress!Next
  <2>4. ASSUME NEW w \in Workers, PlanCommit(w)
        PROVE  Progress!Next
    BY <2>4, PlanStep DEF Progress!Next
  <2>5. CASE ~(\E w \in Workers :
                 \/ MoveCard(w) \/ ExecStop(w) \/ LogError(w) \/ StopWrite(w)
                 \/ AddCardInsert(w) \/ AddCardPriced(w) \/ PlanCommit(w))
    <3>1. UNCHANGED <<plans, events, cardRun, currentBin>>
      BY <2>5, ProgressWriters
    <3> QED BY <3>1, SameProgress DEF StepsOf
  <2> QED BY <2>1, <2>2, <2>3, <2>4, <2>5
<1> QED BY <1>1, <1>2, Invariance, PricingInvariance, PTL
        DEF Spec, KeepsProgress, Progress!Spec

-----------------------------------------------------------------------------
(* Where the cards are.                                                    *)

(* The moves of a run's plans are of cards of the run.                     *)
MovesOwned ==
  \A r \in Runs : \A p \in DOMAIN plans[r] : \A i \in DOMAIN plans[r][p] :
    /\ plans[r][p][i].card \in Cards
    /\ cardRun[plans[r][p][i].card] = r

BinsInv == MovesOwned /\ BinMatchesLog

(* The move a SUCCESS event reports exists, and is of a card of the run.   *)
LEMMA MotionsOwned ==
  ASSUME ExecutionInv, MovesOwned, NEW r \in Runs, NEW i \in DOMAIN events[r],
         events[r][i].status = "SUCCESS"
  PROVE  /\ events[r][i].plan \in DOMAIN plans[r]
         /\ events[r][i].step + 1 \in DOMAIN plans[r][events[r][i].plan]
         /\ cardRun[MoveOf(r, events[r][i]).card] = r
<1>1. PICK p, s : p = events[r][i].plan /\ s = events[r][i].step
  OBVIOUS
<1>2. p \in DOMAIN plans[r]
  BY <1>1 DEF ExecutionInv, EventsOfPlans
<1>3. PICK n \in 0..Len(plans[r][p]) : SuccessSteps(r, p) = 0..(n - 1)
  BY <1>2, ResumePoint
<1>4. s \in 0..(n - 1)
  BY <1>1, <1>3 DEF SuccessSteps, StepsDone
<1>5. PICK moves \in Seq(Move) : moves = plans[r][p]
  BY <1>2 DEF ExecutionInv, TypeOK
<1>6. s + 1 \in DOMAIN moves
  BY <1>3, <1>4, <1>5
<1> QED BY <1>1, <1>2, <1>5, <1>6 DEF MovesOwned, MoveOf

(* BinMatchesLog, of one card.                                             *)
BinOK(c) ==
  cardRun[c] # None =>
    LET r == cardRun[c] IN
      \/ Motions(r, c) = {} /\ currentBin[c] = StartBin[c]
      \/ \E i \in Motions(r, c) :
           /\ \A j \in Motions(r, c) : j <= i
           /\ currentBin[c] = MoveOf(r, events[r][i]).to

(* Nothing moves: plans may be added, logs go on without a success.        *)
Quiet ==
  \A r \in Runs :
    /\ \A p \in DOMAIN plans[r] : plans'[r][p] = plans[r][p]
    /\ GoesOnWithout(events'[r], events[r])

LEMMA QuietMotions ==
  ASSUME ExecutionInv, Quiet, NEW r \in Runs, NEW c
  PROVE  /\ Motions(r, c)' = Motions(r, c)
         /\ \A i \in Motions(r, c) :
              MoveOf(r, events[r][i])' = MoveOf(r, events[r][i])
<1>1. ASSUME NEW i \in DOMAIN events[r]
      PROVE  /\ i \in DOMAIN events'[r] /\ events'[r][i] = events[r][i]
             /\ MoveOf(r, events[r][i])' = MoveOf(r, events[r][i])
  <2>1. events[r][i].plan \in DOMAIN plans[r]
    BY DEF ExecutionInv, EventsOfPlans
  <2> QED BY <2>1 DEF Quiet, GoesOnWithout, MoveOf
<1>2. \A i \in DOMAIN events'[r] \ DOMAIN events[r] : events'[r][i].status # "SUCCESS"
  BY DEF Quiet, GoesOnWithout
<1>3. \A i : i \in Motions(r, c)' <=> i \in Motions(r, c)
  BY <1>1, <1>2 DEF Motions, MoveOf
<1> QED BY <1>1, <1>3 DEF Motions

(* Then a card that keeps its run and its bin is where it should be.       *)
LEMMA QuietBin ==
  ASSUME ExecutionInv, Quiet, NEW c \in Cards, BinOK(c),
         cardRun'[c] = cardRun[c], currentBin'[c] = currentBin[c]
  PROVE  BinOK(c)'
<1>1. CASE cardRun[c] = None
  BY <1>1 DEF BinOK
<1>2. CASE cardRun[c] # None
  <2>1. PICK r \in Runs : r = cardRun[c]
    BY <1>2 DEF ExecutionInv, TypeOK, TablesOK
  <2>2. /\ Motions(r, c)' = Motions(r, c)
        /\ \A i \in Motions(r, c) : MoveOf(r, events[r][i])' = MoveOf(r, events[r][i])
    BY QuietMotions
  <2> HIDE DEF Motions, MoveOf
  <2> QED BY <1>2, <2>1, <2>2 DEF BinOK
<1> QED BY <1>1, <1>2

(* A card that arrives has not been moved: the moves are of other cards.   *)
LEMMA ArrivalBin ==
  ASSUME ExecutionInv, MovesOwned, Quiet, NEW c \in Cards, cardRun[c] = None,
         cardRun'[c] \in Runs, currentBin'[c] = StartBin[c]
  PROVE  BinOK(c)'
<1>1. PICK r \in Runs : r = cardRun'[c]
  OBVIOUS
<1>2. r # None
  BY ConstantsAssumption
<1>3. Motions(r, c) = {}
  BY <1>2, MotionsOwned DEF Motions
<1>4. Motions(r, c)' = {}
  BY <1>3, QuietMotions
<1> QED BY <1>1, <1>4 DEF BinOK

(* A logged move is the last one of its card, and takes it to its bin.     *)
LEMMA MoveBins ==
  ASSUME ExecutionInv, BinsInv, NEW w \in Workers, MoveCard(w)
  PROVE  BinsInv'
<1>a. PICK t : t = thread[w]
  OBVIOUS
<1>b. PICK r, p, s : r = t.run /\ p = t.plan /\ s = t.step
  OBVIOUS
<1>c. PICK e, m : e = Event(p, s, "SUCCESS") /\ m = plans[r][p][s + 1]
  OBVIOUS
<1>0. /\ r \in Runs /\ p \in DOMAIN plans[r]
      /\ s \in 0..(Len(plans[r][p]) - 1) /\ events \in [Runs -> Seq(EventType)]
      /\ plans[r][p] \in Seq(Move) /\ currentBin \in [Cards -> Bins \cup {None}]
  BY <1>a, <1>b, ThreadFacts
  DEF ExecutionInv, TypeOK, TablesOK, ThreadInStep, HasPlan, MoveCard, At
<1>1. /\ UNCHANGED <<plans, cardRun>>
      /\ events' = [events EXCEPT ![r] = Append(events[r], e)]
      /\ currentBin' = [currentBin EXCEPT ![m.card] = m.to]
  BY <1>a, <1>b, <1>c DEF MoveCard, BinAfter, MovesOf
<1>2. s + 1 \in DOMAIN plans[r][p]
  BY <1>0
<1>3. m.card \in Cards /\ cardRun[m.card] = r
  BY <1>0, <1>2, <1>c DEF BinsInv, MovesOwned
<1>4. MovesOwned'
  BY <1>1 DEF BinsInv, MovesOwned
<1>5. PICK n \in Nat : n = Len(events[r]) /\ DOMAIN events[r] = 1..n
  BY <1>0
<1>6. /\ DOMAIN events'[r] = 1..(n + 1) /\ events'[r][n + 1] = e
      /\ \A i \in 1..n : events'[r][i] = events[r][i]
      /\ \A q \in Runs \ {r} : events'[q] = events[q]
  BY <1>0, <1>1, <1>5
<1>7. e.status = "SUCCESS" /\ MoveOf(r, e) = m /\ e.plan = p /\ e.step = s
  BY <1>c DEF Event, MoveOf
<1>8. \A q, d : MoveOf(q, d)' = MoveOf(q, d)
  BY <1>1 DEF MoveOf
<1>9. \A c : Motions(r, c)' = Motions(r, c) \cup (IF m.card = c THEN {n + 1} ELSE {})
  <2>1. ASSUME NEW c, NEW i
        PROVE  i \in Motions(r, c)' <=>
                 i \in Motions(r, c) \/ (m.card = c /\ i = n + 1)
    <3>1. i \in Motions(r, c)' <=>
            /\ i \in 1..(n + 1)
            /\ events'[r][i].status = "SUCCESS"
            /\ plans[r][events'[r][i].plan][events'[r][i].step + 1].card = c
      BY <1>1, <1>6 DEF Motions, MoveOf
    <3>2. i \in Motions(r, c) <=>
            /\ i \in 1..n
            /\ events[r][i].status = "SUCCESS"
            /\ plans[r][events[r][i].plan][events[r][i].step + 1].card = c
      BY <1>5 DEF Motions, MoveOf
    <3>3. CASE i \in 1..n
      BY <1>6, <3>1, <3>2, <3>3
    <3>4. CASE i = n + 1
      BY <1>6, <1>7, <1>c, <3>1, <3>2, <3>4
    <3>5. CASE i \notin 1..(n + 1)
      BY <3>1, <3>2, <3>5
    <3>6. i \in 1..n \/ i = n + 1 \/ i \notin 1..(n + 1)
      OBVIOUS
    <3> QED BY <3>3, <3>4, <3>5, <3>6
  <2> QED BY <2>1
<1>10. \A q \in Runs \ {r} : \A c : Motions(q, c)' = Motions(q, c)
  BY <1>1, <1>6 DEF Motions, MoveOf
<1>11. ASSUME NEW c \in Cards, c # m.card
       PROVE  BinOK(c)'
  <2>1. BinOK(c) /\ currentBin'[c] = currentBin[c] /\ cardRun'[c] = cardRun[c]
    BY <1>0, <1>1, <1>11 DEF BinsInv, BinMatchesLog, BinOK
  <2>2. CASE cardRun[c] = None
    BY <2>1, <2>2 DEF BinOK
  <2>3. CASE cardRun[c] # None
    <3>1. PICK q \in Runs : q = cardRun[c]
      BY <2>3 DEF ExecutionInv, TypeOK, TablesOK
    <3>2. Motions(q, c)' = Motions(q, c)
      BY <1>9, <1>10, <1>11
    <3>3. \A i \in Motions(q, c) : events'[q][i] = events[q][i]
      BY <1>5, <1>6 DEF Motions
    <3> HIDE DEF Motions, MoveOf
    <3> QED BY <1>8, <2>1, <2>3, <3>1, <3>2, <3>3 DEF BinOK
  <2> QED BY <2>2, <2>3
<1>12. BinOK(m.card)'
  <2>1. PICK c \in Cards : c = m.card
    BY <1>3
  <2>2. n + 1 \in Motions(r, c)' /\ Motions(r, c)' \subseteq 1..(n + 1)
    <3>1. Motions(r, c) \subseteq 1..n
      BY <1>5 DEF Motions
    <3>2. Motions(r, c)' = Motions(r, c) \cup {n + 1}
      BY <1>9, <2>1
    <3> HIDE DEF Motions
    <3> QED BY <3>1, <3>2
  <2>3. \A j \in Motions(r, c)' : j <= n + 1
    BY <2>2
  <2>4. currentBin'[c] = MoveOf(r, events[r][n + 1])'.to
    <3>1. currentBin'[c] = m.to
      BY <1>0, <1>1, <2>1
    <3>2. MoveOf(r, events[r][n + 1])' = plans'[r][e.plan][e.step + 1]
      BY <1>6 DEF MoveOf
    <3>3. plans'[r][e.plan][e.step + 1] = m
      BY <1>1, <1>7, <1>c
    <3> QED BY <3>1, <3>2, <3>3
  <2>5. cardRun'[c] = r
    BY <1>1, <1>3, <2>1
  <2> HIDE DEF Motions, MoveOf
  <2>6. BinOK(c)'
    BY <2>2, <2>3, <2>4, <2>5 DEF BinOK
  <2> QED BY <2>1, <2>6
<1> QED BY <1>4, <1>11, <1>12 DEF BinsInv, BinMatchesLog, BinOK

(* An arrival leaves the other cards alone.                                *)
LEMMA ArrivalKeepsBins ==
  ASSUME ExecutionInv, PricingInv, BinsInv, NEW w \in Workers,
         AddCardInsert(w) \/ AddCardPriced(w)
  PROVE  BinsInv'
<1>a. PICK t : t = thread[w]
  OBVIOUS
<1>0. t.run \in Runs /\ Inserting(t)
  BY <1>a, ThreadFacts
  DEF ThreadInStep, AddCardInsert, AddCardPriced, At, Inserting
<1>1. PICK c \in Cards : t.cards = {c}
  BY <1>a, <1>0 DEF PricingInv, CardsInv, OneCardEach
<1>2. cardRun[c] = None
  BY <1>a, <1>0, <1>1 DEF PricingInv, CardsInv, NewCardsUnowned
<1>3. InsertCards(t.run, {c}) /\ UNCHANGED <<plans, events>>
  BY <1>a, <1>1 DEF AddCardInsert, AddCardPriced, planVars
<1>4. Quiet
  BY <1>3 DEF Quiet, GoesOnWithout
<1>5. MovesOwned'
  <2>1. \A d \in Cards : cardRun[d] \in Runs => cardRun'[d] = cardRun[d]
    BY <1>2, <1>3, ConstantsAssumption DEF InsertCards
  <2> QED BY <1>3, <2>1 DEF BinsInv, MovesOwned
<1>6. BinOK(c)'
  BY <1>0, <1>2, <1>3, <1>4, ArrivalBin DEF InsertCards, BinsInv
<1>7. ASSUME NEW d \in Cards, d # c
      PROVE  BinOK(d)'
  <2>1. cardRun'[d] = cardRun[d] /\ currentBin'[d] = currentBin[d]
    BY <1>3, <1>7 DEF InsertCards
  <2>2. BinOK(d)
    BY DEF BinsInv, BinMatchesLog, BinOK
  <2> QED BY <1>4, <2>1, <2>2, QuietBin
<1> QED BY <1>5, <1>6, <1>7 DEF BinsInv, BinMatchesLog, BinOK

(* A quiet step that leaves the cards alone.                               *)
LEMMA QuietKeepsBins ==
  ASSUME ExecutionInv, BinsInv, Quiet, MovesOwned', UNCHANGED <<cardRun, currentBin>>
  PROVE  BinsInv'
<1>1. ASSUME NEW c \in Cards
      PROVE  BinOK(c)'
  <2>1. BinOK(c)
    BY DEF BinsInv, BinMatchesLog, BinOK
  <2> QED BY <2>1, QuietBin
<1> QED BY <1>1 DEF BinsInv, BinMatchesLog, BinOK

(* A stored plan is of cards of its run, and has no events yet.            *)
LEMMA PlanKeepsBins ==
  ASSUME ExecutionInv, PricingInv, BinsInv, NEW w \in Workers, PlanCommit(w)
  PROVE  BinsInv'
<1>a. PICK t : t = thread[w]
  OBVIOUS
<1>b. PICK r, new : r = t.run /\ new = PlanOf(t.cards)
  OBVIOUS
<1>0. /\ t \in ThreadType /\ r \in Runs /\ Planning(t)
      /\ plans \in [Runs -> Seq(Seq(Move))] /\ new # Infeasible
  BY <1>a, <1>b, ThreadFacts
  DEF ThreadInStep, PlanCommit, PlanAccepted, At, Planning, ExecutionInv, TypeOK
<1>1. /\ plans' = [plans EXCEPT ![r] = Append(plans[r], new)]
      /\ UNCHANGED <<events, cardRun, currentBin>>
  BY <1>a, <1>b DEF PlanCommit, cardVars
<1>2. t.cards \in SUBSET Cards /\ t.cards \subseteq CardsIn(r)
  BY <1>a, <1>b, <1>0 DEF ThreadType, PricingInv, CardsInv, PlannedCardsOwned
<1>3. \A i \in DOMAIN new : new[i].card \in Cards /\ cardRun[new[i].card] = r
  <2>1. \A i \in DOMAIN new : new[i].card \in t.cards
    BY <1>b, <1>0, <1>2, PlannerAssumption
  <2> QED BY <1>2, <2>1 DEF CardsIn
<1>4. ASSUME NEW q \in Runs, NEW p \in DOMAIN plans'[q]
      PROVE  (p \in DOMAIN plans[q] /\ plans'[q][p] = plans[q][p])
             \/ (q = r /\ plans'[q][p] = new)
  BY <1>0, <1>1
<1>5. MovesOwned'
  BY <1>1, <1>3, <1>4 DEF BinsInv, MovesOwned
<1>6. Quiet
  BY <1>0, <1>1 DEF Quiet, GoesOnWithout
<1> QED BY <1>1, <1>5, <1>6, QuietKeepsBins

(* The inductive invariant of the bins.                                    *)
THEOREM BinsInvariance == Spec => []BinsInv
<1>1. Init => BinsInv
  BY ConstantsAssumption DEF Init, BinsInv, MovesOwned, BinMatchesLog
<1>2. ExecutionInv /\ PricingInv /\ BinsInv /\ [Next]_vars => BinsInv'
  <2> SUFFICES ASSUME ExecutionInv, PricingInv, BinsInv, [Next]_vars
               PROVE  BinsInv'
    OBVIOUS
  <2>1. ASSUME NEW w \in Workers, MoveCard(w)
        PROVE  BinsInv'
    BY <2>1, MoveBins
  <2>2. ASSUME NEW w \in Workers, ExecStop(w) \/ LogError(w) \/ StopWrite(w)
        PROVE  BinsInv'
    <3>1. /\ UNCHANGED <<plans, cardRun, currentBin>>
          /\ \A r \in Runs : GoesOnWithout(events'[r], events[r])
      BY <2>2, NoSuccessLogged
    <3>2. Quiet /\ MovesOwned'
      BY <3>1 DEF Quiet, BinsInv, MovesOwned
    <3> QED BY <3>1, <3>2, QuietKeepsBins
  <2>3. ASSUME NEW w \in Workers, AddCardInsert(w) \/ AddCardPriced(w)
        PROVE  BinsInv'
    BY <2>3, ArrivalKeepsBins
  <2>4. ASSUME NEW w \in Workers, PlanCommit(w)
        PROVE  BinsInv'
    BY <2>4, PlanKeepsBins
  <2>5. CASE ~(\E w \in Workers :
                 \/ MoveCard(w) \/ ExecStop(w) \/ LogError(w) \/ StopWrite(w)
                 \/ AddCardInsert(w) \/ AddCardPriced(w) \/ PlanCommit(w))
    <3>1. UNCHANGED <<plans, events, cardRun, currentBin>>
      BY <2>5, ProgressWriters
    <3>2. Quiet /\ MovesOwned'
      BY <3>1 DEF Quiet, GoesOnWithout, BinsInv, MovesOwned
    <3> QED BY <3>1, <3>2, QuietKeepsBins
  <2> QED BY <2>1, <2>2, <2>3, <2>4, <2>5
<1> QED BY <1>1, <1>2, Invariance, PricingInvariance, PTL DEF Spec

(* A card is where replaying the log puts it: where its last logged move   *)
(* took it, or where it was scanned, across crashes, stops, second plans   *)
(* and concurrent executions.                                              *)
THEOREM BinsAreLogged == Spec => []BinMatchesLog
<1>1. BinsInv => BinMatchesLog
  BY DEF BinsInv
<1> QED BY <1>1, BinsInvariance, PTL

=============================================================================
