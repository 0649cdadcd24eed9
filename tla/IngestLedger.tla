---------------------------- MODULE IngestLedger ----------------------------
(***************************************************************************)
(* What the catalog promises about an ingest: it happens as a whole or not *)
(* at all, and sync_state and the audit log tell which.  There is no       *)
(* network here, no transaction, no second transaction and no restart.     *)
(***************************************************************************)
EXTENDS Naturals, Sequences

CONSTANTS
  Prints, Sets, Sources,
  SetOf,          \* [Prints -> Sets]
  Versions        \* of the data of a print, natural numbers from 1 on

VARIABLES
  prints,         \* version of the row of a print, 0 for none
  sets,           \* sets with a row
  sync,           \* the row of sync_state of each source
  audit           \* the audit log

Entry(source, status, rows) ==
  [source |-> source, status |-> status, rows |-> rows]

State(status, rows) == [status |-> status, rows |-> rows]

NeverSynced == State("none", "none")

Init ==
  /\ prints = [p \in Prints |-> 0]
  /\ sets = {}
  /\ sync = [s \in Sources |-> NeverSynced]
  /\ audit = <<>>

RowsOf(ids) == IF ids = {} THEN "none" ELSE "some"

(* Every card of the payload is upserted, with its set.                    *)
Ingest(s) ==
  \E ids \in SUBSET Prints : \E cards \in [ids -> Versions] :
    /\ prints' = [p \in Prints |-> IF p \in ids THEN cards[p] ELSE prints[p]]
    /\ sets' = sets \cup {SetOf[p] : p \in ids}
    /\ sync' = [sync EXCEPT ![s] = State("success", RowsOf(ids))]
    /\ audit' = Append(audit, Entry(s, "success", RowsOf(ids)))

(* A failed ingest leaves nothing but the report of it.                    *)
Report(s) ==
  /\ sync' = [sync EXCEPT ![s] = State("error", "none")]
  /\ audit' = Append(audit, Entry(s, "error", "none"))
  /\ UNCHANGED <<prints, sets>>

Next == \E s \in Sources : Ingest(s) \/ Report(s)

Spec == Init /\ [][Next]_<<prints, sets, sync, audit>>

=============================================================================
