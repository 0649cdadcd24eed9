------------------------------- MODULE Catalog -------------------------------
(***************************************************************************)
(* The catalog (robot/app/catalog): the set check that the startup handler *)
(* schedules, the bootstrap request, and the transaction in which both     *)
(* ingest the cards they downloaded.                                       *)
(*                                                                         *)
(* The set check is a coroutine without an await: once it runs the event   *)
(* loop takes no request until it ends.  Requests then run on threads of   *)
(* their own.                                                              *)
(***************************************************************************)
EXTENDS Naturals, Sequences

CONSTANTS
  Workers,            \* threads of bootstrap requests
  Check,              \* the set check, as the owner of a job
  Prints, Sets,
  SetOf,              \* [Prints -> Sets]
  Bulk,               \* bulk_type
  MaxVersion,         \* bound: changes of a print by the publisher
  MaxAudit            \* bound: bootstraps are asked for up to this length

ASSUME CatalogAssumption ==
  /\ Check \notin Workers
  /\ SetOf \in [Prints -> Sets]
  /\ Sets \cap Bulk = {}
  /\ MaxVersion \in Nat /\ MaxAudit \in Nat

VARIABLES
  remote,     \* external: the published version of each print, 0 for none
  prints,     \* catalog_prints
  sets,       \* catalog_sets
  sync,       \* sync_state
  audit,      \* catalog_audit_log
  job,        \* of each thread: what it ingests
  loop,       \* the process, as the event loop sees it
  listed,     \* remote_codes
  todo,       \* new_codes not yet tried
  excused     \* history: codes that failed or had no card

ledger == <<prints, sets, sync, audit>>
check == <<loop, listed, todo, excused>>
catalog == <<remote, ledger, job, check>>

Threads == Workers \cup {Check}
Sources == Sets \cup Bulk
Versions == 1..MaxVersion

Entry(source, status, rows) ==
  [source |-> source, status |-> status, rows |-> rows]

State(status, rows) == [status |-> status, rows |-> rows]

(* rows_processed, as far as it matters: a card on two pages counts twice. *)
RowsOf(cards) == IF DOMAIN cards = {} THEN "none" ELSE "some"

(* The rows of catalog_prints after the upsert of cards.                   *)
Upserted(cards) ==
  [p \in Prints |-> IF p \in DOMAIN cards THEN cards[p] ELSE prints[p]]

(* The sets upserted with the prints ps, each before its cards.            *)
SetsOf(ps) == {SetOf[p] : p \in ps}

Idle == [pc |-> "idle"]
Job(pc, source, cards) == [pc |-> pc, source |-> source, cards |-> cards]
At(t, pc) == job[t].pc = pc

CatalogInit ==
  /\ remote = [p \in Prints |-> 0]
  /\ prints = [p \in Prints |-> 0]
  /\ sets = {}
  /\ sync = [s \in Sources |-> State("none", "none")]
  /\ audit = <<>>
  /\ job = [t \in Threads |-> Idle]
  /\ loop = "down"
  /\ listed = {} /\ todo = {} /\ excused = {}

(* External: the publisher adds a print or changes it.                     *)
Publish ==
  /\ \E p \in Prints : /\ remote[p] < MaxVersion   \* bound
                       /\ remote' = [remote EXCEPT ![p] = @ + 1]
  /\ UNCHANGED <<ledger, job, check>>

Published == [p \in {q \in Prints : remote[q] # 0} |-> remote[p]]

-----------------------------------------------------------------------------
(* The set check.                                                          *)

(* The startup handler ends; TALENCE_DISABLE_STARTUP_SET_CHECK skips it.   *)
ScheduleCheck ==
  /\ loop = "down"
  /\ loop' \in {"listing", "serving"}
  /\ listed' = {} /\ todo' = {} /\ excused' = {}
  /\ UNCHANGED <<remote, ledger, job>>

(* Mutant of NewCodes: the local codes are not looked up.                  *)
AllCodes(codes) == codes

NewCodes(codes) == codes \ sets

(* The publisher lists its sets, or answers in a shape that has none.      *)
ListSets ==
  /\ loop = "listing"
  /\ listed' \in {Sets, {}}
  /\ todo' = NewCodes(listed')
  /\ loop' = "checking"
  /\ UNCHANGED <<remote, ledger, job, excused>>

ListFails ==
  /\ loop = "listing"
  /\ loop' = "serving"
  /\ UNCHANGED <<remote, ledger, job, listed, todo, excused>>

NextCode ==
  /\ loop = "checking"
  /\ At(Check, "idle")
  /\ \E c \in todo : job' = [job EXCEPT ![Check] = Job("get", c, <<>>)]
  /\ UNCHANGED <<remote, ledger, check>>

(* The cards and those of a page, as they are published now.               *)
WithPage(cards, page) ==
  [p \in DOMAIN cards \cup page |-> IF p \in page THEN remote[p] ELSE cards[p]]

(* A page of the set.  Nobody looks whether it brings a card that was not  *)
(* on the pages before it, or any card at all.                             *)
FetchPage ==
  /\ At(Check, "get")
  /\ \E page \in SUBSET {p \in DOMAIN Published : SetOf[p] = job[Check].source} :
       job' = [job EXCEPT ![Check] =
                 Job("page", @.source, WithPage(@.cards, page))]
  /\ UNCHANGED <<remote, ledger, check>>

(* The page names the next one.                                            *)
NextPage ==
  /\ At(Check, "page")
  /\ job' = [job EXCEPT ![Check].pc = "get"]
  /\ UNCHANGED <<remote, ledger, check>>

(* There is no next page, or none that is named.                           *)
EndOfPages ==
  /\ At(Check, "page")
  /\ job' = [job EXCEPT ![Check].pc = "ingest"]
  /\ UNCHANGED <<remote, ledger, check>>

(* Mutants of AfterFailure: the loop is left at the first failure, or the  *)
(* code is tried again.                                                    *)
GiveUp(c) == {}
TryAgain(c) == todo

AfterFailure(c) == todo \ {c}

(* The job of thread t raises: the request fails, or the check goes on.    *)
Raise(t) ==
  /\ job' = [job EXCEPT ![t] = Idle]
  /\ IF t = Check
     THEN /\ todo' = AfterFailure(job[t].source)
          /\ excused' = excused \cup {job[t].source}
     ELSE UNCHANGED <<todo, excused>>
  /\ UNCHANGED <<remote, loop, listed>>

PageFails == At(Check, "get") /\ Raise(Check) /\ UNCHANGED ledger

CheckEnds ==
  /\ loop = "checking"
  /\ At(Check, "idle")
  /\ todo = {}
  /\ loop' = "serving"
  /\ UNCHANGED <<remote, ledger, job, listed, todo, excused>>

-----------------------------------------------------------------------------
(* The bootstrap request: its download is one document.                    *)
Bootstrap(w) ==
  /\ loop = "serving"
  /\ At(w, "idle")
  /\ Len(audit) < MaxAudit                         \* bound
  /\ \E b \in Bulk : job' = [job EXCEPT ![w] = Job("ingest", b, Published)]
  /\ UNCHANGED <<remote, ledger, check>>

(* The transaction of an ingest.  It changes nothing before its commit.    *)
Commit(t) ==
  /\ At(t, "ingest")
  /\ LET s == job[t].source
         cards == job[t].cards
         rows == RowsOf(cards)
     IN /\ prints' = Upserted(cards)
        /\ sets' = sets \cup SetsOf(DOMAIN cards)
        /\ sync' = [sync EXCEPT ![s] = State("success", rows)]
        /\ audit' = Append(audit, Entry(s, "success", rows))
        /\ IF t = Check
           THEN /\ todo' = todo \ {s}
                /\ excused' = IF rows = "none" THEN excused \cup {s} ELSE excused
           ELSE UNCHANGED <<todo, excused>>
  /\ job' = [job EXCEPT ![t] = Idle]
  /\ UNCHANGED <<remote, loop, listed>>

(* Mutant of AfterRollback: the cards written before the failure stay, and *)
(* are committed with the report.                                          *)
CardsKept(cards) == Upserted(cards)

AfterRollback(cards) == prints

(* An upsert is refused or the database stays locked: rollback.            *)
IngestFails(t) ==
  /\ At(t, "ingest")
  /\ prints' = AfterRollback(job[t].cards)
  /\ job' = [job EXCEPT ![t].pc = "report"]
  /\ UNCHANGED <<remote, sets, sync, audit, check>>

(* Mutant of Reported: only the audit log hears of the failure.            *)
Unreported(s) == sync

Reported(s) == [sync EXCEPT ![s] = State("error", "none")]

(* The second transaction.                                                 *)
Report(t) ==
  /\ At(t, "report")
  /\ sync' = Reported(job[t].source)
  /\ audit' = Append(audit, Entry(job[t].source, "error", "none"))
  /\ UNCHANGED <<prints, sets>>
  /\ Raise(t)

ReportFails(t) ==
  /\ At(t, "report")
  /\ UNCHANGED ledger
  /\ Raise(t)

(* The process dies; a transaction that is open is nowhere.                *)
Kill ==
  /\ job' = [t \in Threads |-> Idle]
  /\ loop' = "down"
  /\ UNCHANGED <<remote, ledger, listed, todo, excused>>

Ingesting(t) == Commit(t) \/ IngestFails(t) \/ Report(t) \/ ReportFails(t)

Checking ==
  \/ ListSets \/ ListFails \/ NextCode \/ FetchPage \/ NextPage
  \/ EndOfPages \/ PageFails \/ CheckEnds \/ Ingesting(Check)

CatalogNext ==
  \/ Publish \/ Checking
  \/ \E w \in Workers : Bootstrap(w) \/ Ingesting(w)

-----------------------------------------------------------------------------
(* The tables and the threads have the types the schema and the code give  *)
(* them, and the set of every print has a row, as its foreign key asks.    *)
CatalogOK ==
  /\ remote \in [Prints -> Versions \cup {0}]
  /\ prints \in [Prints -> Versions \cup {0}]
  /\ SetsOf({q \in Prints : prints[q] # 0}) \subseteq sets
  /\ sets \subseteq Sets
  /\ \A t \in Threads : job[t].pc \in {"idle", "get", "page", "ingest", "report"}
  /\ \A w \in Workers : ~At(w, "idle") => loop = "serving"
  /\ ~At(Check, "idle") => loop = "checking" /\ job[Check].source \in todo
  /\ loop \in {"down", "listing", "checking", "serving"}
  /\ todo \subseteq listed /\ listed \subseteq Sets

(* The catalog implements IngestLedger: an ingest leaves all of its cards, *)
(* sets, sync state and audit entry or nothing but a report, whatever      *)
(* ingests overlap and wherever one fails or the process dies              *)
(* (_ingest_cards_transaction).                                            *)
Ledger ==
  INSTANCE IngestLedger WITH
    prints <- prints, sets <- sets, sync <- sync, audit <- audit

KeepsLedger == Ledger!Spec

(* Places of the audit entries of source s.                                *)
EntriesOf(s) == {i \in DOMAIN audit : audit[i].source = s}

(* When the check has ended every listed set is in the catalog, except     *)
(* those whose download or ingest failed or had no card: one failing set   *)
(* costs no other set its check (startup_set_delta_check).                 *)
CheckCovers == loop = "serving" => listed \subseteq sets \cup excused

(* The check ingests a set at most once, across restarts and with          *)
(* bootstraps between them: a set that has cards in the catalog is not     *)
(* new any more.                                                           *)
SetIngestedOnce ==
  \A s \in Sets : \A i, j \in EntriesOf(s) :
    audit[i].rows = "some" /\ audit[j].rows = "some" => i = j

=============================================================================
