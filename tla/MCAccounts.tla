----------------------------- MODULE MCAccounts -----------------------------
(***************************************************************************)
(* A small instance of Accounts, with a client that does not give up.      *)
(***************************************************************************)
EXTENDS Accounts

(* What is done for user id, on any worker.                                *)
LogsIn(id) == \E w \in Workers : Login(w) /\ thread'[w].user = id
GameFor(id) == \E w \in Workers : EnsureGame(w) /\ thread[w].user = id
HomeFor(id) == \E w \in Workers : EnsureCollection(w) /\ thread[w].user = id

(* A thread runs to the end of its request.  A user logs in again and      *)
(* again, and is not refused by the database every time.                   *)
InsistSpec ==
  /\ Spec
  /\ \A w \in Workers : WF_vars(Step(w) \/ Fail(w))
  /\ \A id \in Ids :
       SF_vars(LogsIn(id)) /\ SF_vars(GameFor(id)) /\ SF_vars(HomeFor(id))

(* A registration that was cut off is made whole: every account gets its   *)
(* default collection in the end, if its owner logs in until it works      *)
(* (ensure_default_collection in login).                                   *)
RegistrationCompletes ==
  \A id \in Ids : id \in UserIds ~> id \in homes
=============================================================================
