------------------------------ MODULE Accounts ------------------------------
(***************************************************************************)
(* Accounts, their default collections and their refresh sessions          *)
(* (robot/app/auth.py and the handlers under /auth of robot/app/main.py).  *)
(*                                                                         *)
(* Every write of these handlers commits on its own, so other requests,    *)
(* failures and the death of the process come between any two of them.     *)
(* Passwords, token formats and access tokens are left out: a client that  *)
(* asks has the right ones.                                                *)
(***************************************************************************)

CONSTANTS
  Workers,
  Emails,         \* normalized: stripped, in lower case
  Handles,
  Ids,            \* of users; bound: fresh ones are taken from here
  Sessions,       \* bound: ids of refresh sessions
  None

ASSUME AccountsAssumption == None \notin Ids \cup Sessions

VARIABLES
  users,          \* records of the table users
  game,           \* the row game-mtg exists
  homes,          \* users with a default collection
  sessions,       \* auth_sessions, a function on the sessions with a row
  thread          \* of each worker: its request

vars == <<users, game, homes, sessions, thread>>

User(id, email, handle) == [id |-> id, email |-> email, handle |-> handle]
UserIds == {u.id : u \in users}

Idle == [pc |-> "idle"]
At(w, pc) == thread[w].pc = pc
Goto(w, t) == thread' = [thread EXCEPT ![w] = t]

(* ensure_default_collection for user id, and then its caller: a new       *)
(* session, or the rest of create_local_run.                               *)
Ensure(id, caller) ==
  [pc |-> "game", user |-> id, parent |-> None, caller |-> caller]

(* create_refresh_session, after the session parent was rotated.           *)
NewSession(id, parent) == [pc |-> "session", user |-> id, parent |-> parent]

Init ==
  /\ users = {} /\ game = FALSE /\ homes = {}
  /\ sessions = [s \in {} |-> None]
  /\ thread = [w \in Workers |-> Idle]

-----------------------------------------------------------------------------
(* The requests.                                                           *)

(* register looks the email up before it inserts.                          *)
Register(w) ==
  /\ At(w, "idle")
  /\ \E e \in Emails, h \in Handles :
       /\ \A u \in users : u.email # e
       /\ Goto(w, [pc |-> "insert", email |-> e, handle |-> h])
  /\ UNCHANGED <<users, game, homes, sessions>>

(* Mutant of Unique: the table has no UNIQUE, the look-up is trusted.      *)
Trusted(e, h) == TRUE

Unique(e, h) == \A u \in users : u.email # e /\ u.handle # h

InsertUser(w) ==
  /\ At(w, "insert")
  /\ Unique(thread[w].email, thread[w].handle)
  /\ \E id \in Ids \ UserIds :
       /\ users' = users \cup {User(id, thread[w].email, thread[w].handle)}
       /\ Goto(w, Ensure(id, "auth"))
  /\ UNCHANGED <<game, homes, sessions>>

(* Mutant of AfterLogin: the default collection is left to registration.   *)
SessionAtOnce(id) == NewSession(id, None)

AfterLogin(id) == Ensure(id, "auth")

Login(w) ==
  /\ At(w, "idle")
  /\ \E id \in UserIds : Goto(w, AfterLogin(id))
  /\ UNCHANGED <<users, game, homes, sessions>>

(* The part of create_local_run that belongs to this module.               *)
CreateRun(w) ==
  /\ At(w, "idle")
  /\ \E id \in UserIds : Goto(w, Ensure(id, "create_local"))
  /\ UNCHANGED <<users, game, homes, sessions>>

(* rotate_refresh_session reads the session and checks what it read.  One  *)
(* whose time is over is refused as a revoked one is: nothing changes.     *)
Valid(s) == ~sessions[s].revoked

(* Mutant of AfterRead: the new session is made first.                     *)
CreateFirst(s) == NewSession(sessions[s].owner, s)

AfterRead(s) == [pc |-> "revoke", session |-> s]

Refresh(w) ==
  /\ At(w, "idle")
  /\ \E s \in DOMAIN sessions : Valid(s) /\ Goto(w, AfterRead(s))
  /\ UNCHANGED <<users, game, homes, sessions>>

(* One statement, with its condition in it.                                *)
Logout(w) ==
  /\ At(w, "idle")
  /\ \E s \in DOMAIN sessions :
       sessions' = [sessions EXCEPT ![s].revoked = TRUE]
  /\ UNCHANGED <<users, game, homes, thread>>

-----------------------------------------------------------------------------
(* Their commits.                                                          *)

EnsureGame(w) ==
  /\ At(w, "game")
  /\ game' = TRUE
  /\ thread' = [thread EXCEPT ![w].pc = "collection"]
  /\ UNCHANGED <<users, homes, sessions>>

EnsureCollection(w) ==
  /\ At(w, "collection")
  /\ homes' = homes \cup {thread[w].user}
  /\ Goto(w, IF thread[w].caller = "auth"
             THEN NewSession(thread[w].user, None) ELSE Idle)
  /\ UNCHANGED <<users, game, sessions>>

CreateSession(w) ==
  /\ At(w, "session")
  /\ \E s \in Sessions \ DOMAIN sessions :
       sessions' = [t \in DOMAIN sessions \cup {s} |->
         IF t = s THEN [owner |-> thread[w].user, parent |-> thread[w].parent,
                        revoked |-> FALSE]
         ELSE sessions[t]]
  /\ Goto(w, Idle)
  /\ UNCHANGED <<users, game, homes>>

(* Whatever has become of the session since it was read.                   *)
Revoke(w) ==
  /\ At(w, "revoke")
  /\ LET s == thread[w].session
     IN /\ sessions' = [sessions EXCEPT ![s].revoked = TRUE]
        /\ Goto(w, NewSession(sessions[s].owner, s))
  /\ UNCHANGED <<users, game, homes>>

(* A statement of the request is refused (UNIQUE), the database stays      *)
(* locked, or the process dies and all of its requests end here, one after *)
(* the other: what was committed stays, the rest is never done.            *)
Fail(w) ==
  /\ ~At(w, "idle")
  /\ Goto(w, Idle)
  /\ UNCHANGED <<users, game, homes, sessions>>

Step(w) ==
  \/ InsertUser(w) \/ EnsureGame(w) \/ EnsureCollection(w)
  \/ CreateSession(w) \/ Revoke(w)

Request(w) ==
  Register(w) \/ Login(w) \/ CreateRun(w) \/ Refresh(w) \/ Logout(w)

Next == \E w \in Workers : Request(w) \/ Step(w) \/ Fail(w)

Spec == Init /\ [][Next]_vars

-----------------------------------------------------------------------------
(* The tables have the types the schema gives them, and no two accounts    *)
(* share an email or a handle, although two registrations may both have    *)
(* found an email free (register).                                         *)
AccountsOK ==
  /\ \A u, v \in users :
       u.email = v.email \/ u.handle = v.handle \/ u.id = v.id => u = v
  /\ UserIds \subseteq Ids /\ homes \subseteq UserIds
  /\ DOMAIN sessions \subseteq Sessions
  /\ \A s \in DOMAIN sessions :
       /\ sessions[s].owner \in UserIds
       /\ sessions[s].parent \in DOMAIN sessions \cup {None}

(* A client that was given a session has its default collection and the    *)
(* game it belongs to, whichever of the earlier commits of its             *)
(* registration or login a crash cut off: the session is committed last    *)
(* (register, login).                                                      *)
HomeBeforeSession ==
  \A s \in DOMAIN sessions : game /\ sessions[s].owner \in homes

(* A session that was rotated into another is never usable beside it, not  *)
(* even between the two commits or after a crash there: the old one is     *)
(* revoked before the new one exists (rotate_refresh_session).             *)
RotationRevokes ==
  \A s \in DOMAIN sessions :
    sessions[s].parent # None => sessions[sessions[s].parent].revoked

=============================================================================
