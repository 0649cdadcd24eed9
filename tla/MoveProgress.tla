----------------------------- MODULE MoveProgress -----------------------------
(***************************************************************************)
(* What the execution of runs promises, without requests, threads, status  *)
(* or log: of every plan a prefix of the moves has been carried out, which *)
(* grows one move at a time, and every card lies where it was scanned or   *)
(* where a move of its run took it.                                        *)
(***************************************************************************)
EXTENDS Naturals, Sequences

CONSTANTS Runs, Cards, StartBin, None

VARIABLES
  plans,      \* per run, its plans, each a sequence of moves
  done,       \* done[r][p]: how many moves of plan p of r were carried out
  cardRun,    \* the run of a card
  bin         \* the bin a card is in

vars == <<plans, done, cardRun, bin>>

Init ==
  /\ plans = [r \in Runs |-> <<>>]
  /\ done = [r \in Runs |-> <<>>]
  /\ cardRun = [c \in Cards |-> None]
  /\ bin = [c \in Cards |-> None]

Arrive(c, r) ==
  /\ cardRun[c] = None
  /\ cardRun' = [cardRun EXCEPT ![c] = r]
  /\ bin' = [bin EXCEPT ![c] = StartBin[c]]
  /\ UNCHANGED <<plans, done>>

(* A new plan moves cards of its run, and begins with nothing done.        *)
Plan(r) ==
  LET new == plans'[r][Len(plans[r]) + 1] IN
  /\ Len(plans'[r]) = Len(plans[r]) + 1
  /\ plans' = [plans EXCEPT ![r] = Append(@, new)]
  /\ \A i \in DOMAIN new : cardRun[new[i].card] = r
  /\ done' = [done EXCEPT ![r] = Append(@, 0)]
  /\ UNCHANGED <<cardRun, bin>>

Carry(m) == bin' = [bin EXCEPT ![m.card] = m.to]

Advance(r, p) ==
  \E i \in DOMAIN plans[r][p] :
    /\ Carry(plans[r][p][i])
    /\ done[r][p] = i - 1
    /\ done' = [done EXCEPT ![r][p] = i]
    /\ UNCHANGED <<plans, cardRun>>

(* A move carried out before, by an execution that overlaps another.       *)
Repeat(r, p) ==
  \E i \in DOMAIN plans[r][p] :
    /\ Carry(plans[r][p][i])
    /\ i <= done[r][p]
    /\ UNCHANGED <<plans, done, cardRun>>

Once ==
  \E r \in Runs :
    \/ \E c \in Cards : Arrive(c, r)
    \/ Plan(r)
    \/ \E p \in DOMAIN plans[r] : Advance(r, p)

Next == Once \/ \E r \in Runs : \E p \in DOMAIN plans[r] : Repeat(r, p)

Spec == Init /\ [][Next]_vars

(* The same without repetitions.                                           *)
OnceSpec == Init /\ [][Once]_vars

=============================================================================
