--------------------------- MODULE AccountsProofs ---------------------------
(***************************************************************************)
(* For any number of threads, accounts and sessions: accounts are unique,  *)
(* a session has a home, and a rotated session is revoked.                 *)
(*                                                                         *)
(* The invariants are made inductive by what a thread between two of its   *)
(* commits knows: which earlier commits of its request are done.           *)
(***************************************************************************)
EXTENDS Accounts, TLAPS

TypeOK ==
  /\ users \in SUBSET [id : Ids, email : Emails, handle : Handles]
  /\ homes \subseteq UserIds
  /\ DOMAIN sessions \subseteq Sessions
  /\ sessions \in [DOMAIN sessions ->
       [owner : UserIds, parent : DOMAIN sessions \cup {None}, revoked : BOOLEAN]]
  /\ DOMAIN thread = Workers

(* What has been committed when a thread is about to do its next step.     *)
Prepared(w) ==
  /\ At(w, "insert") => thread[w].email \in Emails /\ thread[w].handle \in Handles
  /\ At(w, "game") \/ At(w, "collection") \/ At(w, "session") =>
       /\ thread[w].user \in UserIds
       /\ thread[w].parent \in DOMAIN sessions \cup {None}
       /\ thread[w].parent # None => sessions[thread[w].parent].revoked
  /\ At(w, "collection") => game
  /\ At(w, "session") => game /\ thread[w].user \in homes
  /\ At(w, "revoke") => thread[w].session \in DOMAIN sessions

Inv ==
  /\ TypeOK
  /\ \A u, v \in users :
       u.email = v.email \/ u.handle = v.handle \/ u.id = v.id => u = v
  /\ HomeBeforeSession
  /\ RotationRevokes
  /\ \A w \in Workers : Prepared(w)

(* The empty database satisfies the invariant.                             *)
LEMMA InvInit == Init => Inv
BY DEF Init, Inv, TypeOK, HomeBeforeSession, RotationRevokes, Prepared, At,
       Idle, UserIds

(* Revoking a session disturbs nothing, if no thread moves.                *)
LEMMA OnlyRevoked ==
  ASSUME Inv, NEW s \in DOMAIN sessions,
         sessions' = [sessions EXCEPT ![s].revoked = TRUE],
         UNCHANGED <<users, game, homes, thread>>
  PROVE  Inv'
<1>1. DOMAIN sessions' = DOMAIN sessions
  OBVIOUS
<1>2. \A t \in DOMAIN sessions :
        /\ sessions[t] \in [owner : UserIds, parent : DOMAIN sessions \cup {None},
                             revoked : BOOLEAN]
        /\ sessions'[t].owner = sessions[t].owner
        /\ sessions'[t].parent = sessions[t].parent
        /\ sessions'[t].revoked \in BOOLEAN
        /\ sessions[t].revoked => sessions'[t].revoked
        /\ sessions'[t] \in [owner : UserIds, parent : DOMAIN sessions \cup {None},
                              revoked : BOOLEAN]
  BY DEF Inv, TypeOK
<1>3. UserIds' = UserIds
  BY DEF UserIds
<1>4. TypeOK'
  BY <1>1, <1>2, <1>3 DEF Inv, TypeOK
<1>5. HomeBeforeSession'
  BY <1>1, <1>2 DEF Inv, HomeBeforeSession
<1>6. RotationRevokes'
  <2> SUFFICES ASSUME NEW t \in DOMAIN sessions, sessions[t].parent # None
               PROVE  sessions'[sessions[t].parent].revoked
    BY <1>1, <1>2 DEF RotationRevokes
  <2>1. sessions[t].parent \in DOMAIN sessions
    BY <1>2
  <2>2. sessions[sessions[t].parent].revoked
    BY DEF Inv, RotationRevokes
  <2> QED BY <1>2, <2>1, <2>2
<1>7. ASSUME NEW w \in Workers PROVE Prepared(w)'
  BY <1>1, <1>2, <1>3, AccountsAssumption DEF Inv, TypeOK, Prepared, At
<1> QED BY <1>4, <1>5, <1>6, <1>7 DEF Inv

(* Every request, commit and failure keeps the invariant.                  *)
LEMMA InvStep == Inv /\ [Next]_vars => Inv'
<1> SUFFICES ASSUME Inv, [Next]_vars PROVE Inv'
  OBVIOUS
<1> USE AccountsAssumption DEF At, Goto, Idle
<1>1. ASSUME NEW w \in Workers, Register(w) PROVE Inv'
  BY <1>1 DEF Register, Inv, TypeOK, HomeBeforeSession, RotationRevokes,
              Prepared, UserIds
<1>2. ASSUME NEW w \in Workers, InsertUser(w) PROVE Inv'
  <2>1. PICK id \in Ids \ UserIds :
          /\ users' = users \cup {User(id, thread[w].email, thread[w].handle)}
          /\ thread' = [thread EXCEPT ![w] = Ensure(id, "auth")]
    BY <1>2 DEF InsertUser
  <2>2. User(id, thread[w].email, thread[w].handle)
          \in [id : Ids, email : Emails, handle : Handles]
    BY <1>2, <2>1 DEF InsertUser, Inv, Prepared, User
  <2>3. UserIds' = UserIds \cup {id}
    <3> DEFINE new == User(id, thread[w].email, thread[w].handle)
    <3>1. new.id = id
      BY DEF User
    <3>2. users' = users \cup {new}
      BY <2>1
    <3> HIDE DEF new
    <3> QED BY <3>1, <3>2 DEF UserIds
  <2>4. UNCHANGED <<game, homes, sessions>>
    BY <1>2 DEF InsertUser
  <2>5. TypeOK'
    BY <2>1, <2>2, <2>3, <2>4 DEF Inv, TypeOK
  <2>6. \A u, v \in users' :
          u.email = v.email \/ u.handle = v.handle \/ u.id = v.id => u = v
    BY <1>2, <2>1 DEF InsertUser, Inv, Unique, User, UserIds
  <2>7. HomeBeforeSession' /\ RotationRevokes'
    BY <2>4 DEF Inv, HomeBeforeSession, RotationRevokes
  <2>8. ASSUME NEW v \in Workers PROVE Prepared(v)'
    BY <2>1, <2>3, <2>4 DEF Inv, TypeOK, Prepared, Ensure
  <2> QED BY <2>5, <2>6, <2>7, <2>8 DEF Inv
<1>3. ASSUME NEW w \in Workers, Login(w) \/ CreateRun(w) PROVE Inv'
  BY <1>3 DEF Login, CreateRun, Inv, TypeOK, HomeBeforeSession, RotationRevokes,
              Prepared, UserIds, Ensure, AfterLogin
<1>4. ASSUME NEW w \in Workers, Refresh(w) PROVE Inv'
  BY <1>4 DEF Refresh, Inv, TypeOK, HomeBeforeSession, RotationRevokes,
              Prepared, UserIds, AfterRead
<1>5. ASSUME NEW w \in Workers, Logout(w) PROVE Inv'
  <2>1. PICK s \in DOMAIN sessions :
          sessions' = [sessions EXCEPT ![s].revoked = TRUE]
    BY <1>5 DEF Logout
  <2> QED BY <1>5, <2>1, OnlyRevoked DEF Logout
<1>6. ASSUME NEW w \in Workers, EnsureGame(w) PROVE Inv'
  BY <1>6 DEF EnsureGame, Inv, TypeOK, HomeBeforeSession, RotationRevokes,
              Prepared, UserIds
<1>7. ASSUME NEW w \in Workers, EnsureCollection(w) PROVE Inv'
  BY <1>7 DEF EnsureCollection, Inv, TypeOK, HomeBeforeSession,
              RotationRevokes, Prepared, UserIds, NewSession
<1>8. ASSUME NEW w \in Workers, CreateSession(w) PROVE Inv'
  <2> DEFINE new == [owner |-> thread[w].user, parent |-> thread[w].parent,
                     revoked |-> FALSE]
  <2>1. PICK s \in Sessions \ DOMAIN sessions :
          sessions' = [t \in DOMAIN sessions \cup {s} |->
                         IF t = s THEN new ELSE sessions[t]]
    BY <1>8 DEF CreateSession
  <2>2. /\ thread[w].user \in UserIds /\ game /\ thread[w].user \in homes
        /\ thread[w].parent \in DOMAIN sessions \cup {None}
        /\ thread[w].parent # None => sessions[thread[w].parent].revoked
    BY <1>8 DEF CreateSession, Inv, Prepared
  <2>3. /\ UNCHANGED <<users, game, homes>>
        /\ thread' = [thread EXCEPT ![w] = [pc |-> "idle"]]
    BY <1>8 DEF CreateSession
  <2>4. /\ DOMAIN sessions' = DOMAIN sessions \cup {s}
        /\ sessions'[s] = new
        /\ \A t \in DOMAIN sessions : sessions'[t] = sessions[t]
    BY <2>1
  <2>5. UserIds' = UserIds
    BY <2>3 DEF UserIds
  <2> HIDE DEF new
  <2>6. new \in [owner : UserIds, parent : DOMAIN sessions \cup {None},
                  revoked : BOOLEAN]
        /\ new.owner = thread[w].user /\ new.parent = thread[w].parent
    BY <2>2 DEF new
  <2>7. \A t \in DOMAIN sessions :
          sessions[t] \in [owner : UserIds, parent : DOMAIN sessions \cup {None},
                           revoked : BOOLEAN]
    BY DEF Inv, TypeOK
  <2>8. TypeOK'
    <3>1. sessions' \in [DOMAIN sessions' ->
            [owner : UserIds, parent : DOMAIN sessions' \cup {None},
             revoked : BOOLEAN]]
      BY <2>1, <2>4, <2>6, <2>7
    <3> QED BY <3>1, <2>1, <2>3, <2>4, <2>5 DEF Inv, TypeOK
  <2>9. HomeBeforeSession'
    BY <2>2, <2>3, <2>4, <2>6 DEF Inv, HomeBeforeSession
  <2>10. RotationRevokes'
    BY <2>2, <2>4, <2>6, <2>7 DEF Inv, RotationRevokes
  <2>11. ASSUME NEW v \in Workers PROVE Prepared(v)'
    BY <2>3, <2>4, <2>5 DEF Inv, TypeOK, Prepared
  <2> QED BY <2>3, <2>8, <2>9, <2>10, <2>11 DEF Inv
<1>9. ASSUME NEW w \in Workers, Revoke(w) PROVE Inv'
  <2> DEFINE s == thread[w].session
             new == NewSession(sessions[s].owner, s)
             revoked == [sessions EXCEPT ![s].revoked = TRUE]
  <2>1. s \in DOMAIN sessions /\ sessions' = revoked
    BY <1>9 DEF Revoke, Inv, Prepared
  <2>2. UNCHANGED <<users, game, homes>> /\ thread' = [thread EXCEPT ![w] = new]
    BY <1>9 DEF Revoke
  <2>3. /\ DOMAIN sessions' = DOMAIN sessions
        /\ sessions'[s].revoked
        /\ \A t \in DOMAIN sessions :
             /\ sessions'[t].owner = sessions[t].owner
             /\ sessions'[t].parent = sessions[t].parent
             /\ sessions'[t] \in [owner : UserIds,
                                 parent : DOMAIN sessions \cup {None},
                                 revoked : BOOLEAN]
             /\ sessions[t].revoked => sessions'[t].revoked
    BY <2>1 DEF Inv, TypeOK
  <2>4. UserIds' = UserIds
    BY <2>2 DEF UserIds
  <2>5. TypeOK'
    BY <2>1, <2>2, <2>3, <2>4 DEF Inv, TypeOK
  <2>6. HomeBeforeSession'
    BY <2>2, <2>3 DEF Inv, HomeBeforeSession
  <2>7. RotationRevokes'
    <3> SUFFICES ASSUME NEW t \in DOMAIN sessions, sessions[t].parent # None
                 PROVE  sessions'[sessions[t].parent].revoked
      BY <2>3 DEF RotationRevokes
    <3>1. sessions[t].parent \in DOMAIN sessions
      BY DEF Inv, TypeOK
    <3>2. sessions[sessions[t].parent].revoked
      BY DEF Inv, RotationRevokes
    <3> QED BY <2>3, <3>1, <3>2
  <2>8. /\ sessions[s].owner \in UserIds
        /\ game /\ sessions[s].owner \in homes
    BY <2>1 DEF Inv, TypeOK, HomeBeforeSession
  <2>9. thread'[w] = new /\ \A v \in Workers \ {w} : thread'[v] = thread[v]
    BY <2>2 DEF Inv, TypeOK
  <2>10. ASSUME NEW v \in Workers PROVE Prepared(v)'
    <3>1. CASE v = w
      BY <2>1, <2>2, <2>3, <2>4, <2>8, <2>9, <3>1
      DEF Prepared, NewSession
    <3>2. CASE v # w
      <4>1. thread'[v] = thread[v] /\ Prepared(v)
        BY <2>9, <3>2 DEF Inv
      <4> DEFINE t == thread[v]
      <4>2. t.pc \in {"game", "collection", "session"} =>
              /\ t.user \in UserIds
              /\ t.parent \in DOMAIN sessions \cup {None}
              /\ t.parent # None => t.parent \in DOMAIN sessions
                                   /\ sessions[t.parent].revoked
        BY <4>1 DEF Prepared
      <4>3. t.pc \in {"game", "collection", "session"} =>
              /\ t.user \in UserIds'
              /\ t.parent \in DOMAIN sessions' \cup {None}
              /\ t.parent # None => sessions'[t.parent].revoked
        BY <2>3, <2>4, <4>2
      <4>4. /\ t.pc = "insert" => t.email \in Emails /\ t.handle \in Handles
            /\ t.pc = "collection" => game'
            /\ t.pc = "session" => game' /\ t.user \in homes'
            /\ t.pc = "revoke" => t.session \in DOMAIN sessions'
        BY <2>2, <2>3, <4>1 DEF Prepared
      <4> QED BY <4>1, <4>3, <4>4 DEF Prepared
    <3> QED BY <3>1, <3>2
  <2> QED BY <2>2, <2>5, <2>6, <2>7, <2>10 DEF Inv
<1>10. ASSUME NEW w \in Workers, Fail(w) PROVE Inv'
  BY <1>10 DEF Fail, Inv, TypeOK, HomeBeforeSession, RotationRevokes,
               Prepared, UserIds
<1>11. CASE UNCHANGED vars
  BY <1>11 DEF vars, Inv, TypeOK, HomeBeforeSession, RotationRevokes,
               Prepared, UserIds
<1> QED
  BY <1>1, <1>2, <1>3, <1>4, <1>5, <1>6, <1>7, <1>8, <1>9, <1>10, <1>11
  DEF Next, Request, Step

(* Inv holds in every reachable state.                                     *)
LEMMA InvHolds == Spec => []Inv
BY InvInit, InvStep, PTL DEF Spec

(* Two accounts never share an email, a handle or an id, however many      *)
(* registrations found the same email free, and the rows that users own    *)
(* belong to a user (register, the UNIQUE columns of users).               *)
THEOREM AccountsHold == Spec => []AccountsOK
<1>1. Inv => AccountsOK
  BY DEF Inv, TypeOK, AccountsOK, UserIds
<1> QED BY <1>1, InvHolds, PTL

(* Whoever has a session has a default collection, wherever the requests   *)
(* that were to create it failed (register, login, refresh).               *)
THEOREM HomesComeFirst == Spec => []HomeBeforeSession
<1>1. Inv => HomeBeforeSession
  BY DEF Inv
<1> QED BY <1>1, InvHolds, PTL

(* A session that was rotated is revoked, whatever rotations of it         *)
(* overlap (rotate_refresh_session).                                       *)
THEOREM RotatedIsRevoked == Spec => []RotationRevokes
<1>1. Inv => RotationRevokes
  BY DEF Inv
<1> QED BY <1>1, InvHolds, PTL

=============================================================================
