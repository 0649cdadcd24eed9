---------------------------- MODULE RunProperties ----------------------------
(***************************************************************************)
(* What the robot runtime is meant to guarantee.  Some of it holds whatever *)
(* the threads do, some only while requests are served one at a time; the   *)
(* README says which run checks what.                                       *)
(***************************************************************************)
EXTENDS RobotRuns

EventType == [plan : Nat \ {0}, step : Int,
              status : {"SUCCESS", "STOPPED", "ERROR"}]

ThreadType ==
  [pc : Pc, run : Runs \cup {None}, status : RunStatus \cup {"ABSENT"},
   plan : Nat, step : Int, cards : SUBSET Cards, print : Prints \cup {None},
   todo : SUBSET Prints, pending : [Prints -> Price \cup {NoRow}]]

TablesOK ==
  /\ status \in [Runs -> RunStatus \cup {"ABSENT"}]
  /\ stopRequested \in [Runs -> BOOLEAN]
  /\ failedCode \in [Runs -> {None, "REQUESTED", "EXEC_ERROR"}]
  /\ cardRun \in [Cards -> Runs \cup {None}]
  /\ currentBin \in [Cards -> Bins \cup {None}]
  /\ prices \in [Prints -> Price \cup {NoRow}]
  /\ snapshot \in [Runs -> [Prints -> Price \cup {NoRow}]]
  /\ cache \in [Runs -> SUBSET Prints]
  /\ lock \in Workers \cup {None}
  /\ crashes \in Nat

(* The tables and the handlers' locals have the types the schema and the   *)
(* code give them.                                                         *)
TypeOK ==
  /\ TablesOK
  /\ plans \in [Runs -> Seq(Seq(Move))]
  /\ events \in [Runs -> Seq(EventType)]
  /\ thread \in [Workers -> ThreadType]

-----------------------------------------------------------------------------
(* Whatever the threads do.                                                *)

(* Resumption never skips a move: the steps of a plan that are logged as   *)
(* SUCCESS are 0 .. k for some k, although execute continues after the     *)
(* greatest logged step without looking for gaps below it                  *)
(* (_last_success_step, execute's query of planned_moves).                 *)
SuccessPrefix ==
  \A r \in Runs : \A p \in DOMAIN plans[r] :
    \E n \in 0..Len(plans[r][p]) : SuccessSteps(r, p) = 0..(n - 1)

(* The move an event reports.                                              *)
MoveOf(r, e) == plans[r][e.plan][e.step + 1]

(* Indices of the events that moved card c.                                *)
Motions(r, c) == {i \in DOMAIN events[r] :
                    /\ events[r][i].status = "SUCCESS"
                    /\ MoveOf(r, events[r][i]).card = c}

(* run_cards.current_bin is what replaying the log gives: a card is where  *)
(* its last logged move took it, or where it was scanned, across crashes,  *)
(* stops, plans of the same run and concurrent executions.                 *)
BinMatchesLog ==
  \A c \in Cards : cardRun[c] # None =>
    LET r == cardRun[c] IN
      \/ Motions(r, c) = {} /\ currentBin[c] = StartBin[c]
      \/ \E i \in Motions(r, c) :
           /\ \A j \in Motions(r, c) : j <= i
           /\ currentBin[c] = MoveOf(r, events[r][i]).to

(* Nothing is planned to move without a price frozen for it: the print of  *)
(* every card a stored plan moves has a price in the run's snapshot,       *)
(* although cards keep arriving while the plan is computed from an earlier *)
(* read of them (plan, capture_run_price_snapshot).                        *)
PlanPriced ==
  \A r \in Runs : \A p \in DOMAIN plans[r] : \A i \in DOMAIN plans[r][p] :
    snapshot[r][PrintOf[plans[r][p][i].card]] \in Amounts

(* The snapshot of a run is frozen: a row is never rewritten, by a new     *)
(* plan after a reset, by a refreshed price or by a second handler.        *)
SnapshotFrozen ==
  [][\A r \in Runs, pr \in Prints :
       snapshot[r][pr] # NoRow => snapshot'[r][pr] = snapshot[r][pr]]_vars

(* The runtime implements MoveProgress: seen through the tables plans, run  *)
(* cards and the progress that _last_success_step reports, an execution    *)
(* only carries out the next move of a plan or repeats an earlier one,     *)
(* whatever executions, stops, plans, scans and restarts overlap.          *)
Progress ==
  INSTANCE MoveProgress WITH
    plans <- plans, cardRun <- cardRun, bin <- currentBin,
    done <- [r \in Runs |-> [p \in DOMAIN plans[r] |-> LastSuccessStep(r, p) + 1]]

KeepsProgress == Progress!Spec

(* Every request is answered: no handler waits for ever, even while        *)
(* another holds the database during a slow price lookup.                  *)
RequestAnswered == \A w \in Workers : []<>At(w, "idle")

-----------------------------------------------------------------------------
(* While requests are served one at a time.                                *)

(* A status changes only along the lifecycle of run_lifecycle.py, by the   *)
(* creation of the run or by reset_failed: assert_transition decides on    *)
(* the status that the UPDATE then overwrites.                             *)
LegalTransitions ==
  [][\A r \in Runs : status'[r] # status[r] =>
       \/ CanTransition(status[r], status'[r])
       \/ CanResetFailed(status[r]) /\ status'[r] = "IDLE"
       \/ status[r] = "ABSENT" /\ status'[r] = "IDLE"]_vars

(* Indices of the moves this step logs.                                    *)
NewMotions(r) == {i \in DOMAIN events'[r] \ DOMAIN events[r] :
                    events'[r][i].status = "SUCCESS"}

(* The robot moves a card only for the latest plan of a run that is        *)
(* EXECUTING: not after a stop, a failure, a reset or a new plan.          *)
MotionOnlyWhileExecuting ==
  [][\A r \in Runs : \A i \in NewMotions(r) :
       status[r] = "EXECUTING" /\ events'[r][i].plan = LatestPlan(r)]_vars

(* No step of a plan succeeds twice, across crashes, stops and resumes.    *)
EachMoveOnce ==
  \A r \in Runs : \A i, j \in DOMAIN events[r] :
    /\ events[r][i].status = "SUCCESS"
    /\ events[r][j].status = "SUCCESS"
    /\ events[r][i].plan = events[r][j].plan
    /\ events[r][i].step = events[r][j].step
    => i = j

(* Then no move is ever repeated either: the cards of a run see each move  *)
(* of its plans once and in order, across stops, failures, second plans    *)
(* and restarts.                                                           *)
MovesOnce == Progress!OnceSpec

(* A card leaves the staging bin only when it is there: a move that names  *)
(* the bin it starts from starts where current_bin says the card is.       *)
StagedCardsAreThere ==
  [][\A r \in Runs : \A i \in NewMotions(r) :
       LET m == MoveOf(r, events'[r][i])
       IN m.from # ExtractBin => currentBin[m.card] = m.from]_vars

(* A COMPLETE run has carried out its latest plan to the end, and every    *)
(* card of it lies where the plan's last move for the card put it.         *)
CompleteMeansPlaced ==
  \A r \in Runs : status[r] = "COMPLETE" =>
    LET p == LatestPlan(r)
        moves == plans[r][p]
    IN /\ SuccessSteps(r, p) = 0..(Len(moves) - 1)
       /\ \A i \in DOMAIN moves :
            (\A j \in DOMAIN moves : moves[j].card = moves[i].card => j <= i)
            => currentBin[moves[i].card] = moves[i].to

(* The last event of the run is an error of its latest plan.               *)
EndsInError(r) ==
  /\ events[r] # <<>>
  /\ LET e == events[r][Len(events[r])]
     IN e.status = "ERROR" /\ e.plan = LatestPlan(r)

CodeExplained(r) ==
  /\ failedCode[r] # None => status[r] = "FAILED"
  /\ failedCode[r] = "EXEC_ERROR" => EndsInError(r)

(* A failure code speaks of the failure the run is in: it does not outlive *)
(* a reset, and the code of a failed execution stands on a run whose log   *)
(* ends in the error of the latest plan, although event and code are       *)
(* committed one after the other.  A client may fail a run without a code; *)
(* a code that a client gives explains itself (fail_run).                  *)
FailureExplained == \A r \in Runs : CodeExplained(r)

(* An execution cut off by a restart is taken up and brought to an end,    *)
(* COMPLETE, FAILED or back to PLANNED, if clients ask for it again.       *)
ResumeResolves ==
  \A r \in Runs : status[r] = "EXECUTING" ~> status[r] # "EXECUTING"

-----------------------------------------------------------------------------
(* What the documents say and the code does not do.                        *)

(* docs/canonical/api.md: "One active run per user."                       *)
OneActiveRun ==
  \A q, r \in Runs : Owner[q] = Owner[r]
                     /\ status[q] \in Active /\ status[r] \in Active => q = r

=============================================================================
