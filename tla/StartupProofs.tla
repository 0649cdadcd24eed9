---------------------------- MODULE StartupProofs ----------------------------
(***************************************************************************)
(* For any prints, sets, publisher, network and number of threads: the     *)
(* catalog implements IngestLedger, the set check covers what was listed,  *)
(* and it ingests no set twice.  For any runs, statuses and restarts: the  *)
(* migration ends in the canonical table, loses nothing, and a start fails *)
(* only on what an interrupted or refused migration left behind.  The      *)
(* process as a whole is a migration, a catalog and an image cache, each   *)
(* of which takes its own steps: what is proved of the first two holds of  *)
(* the process, and the files of the cache are what the code says of them. *)
(***************************************************************************)
EXTENDS Startup, TLAPS

-----------------------------------------------------------------------------
(* The catalog.                                                            *)

(* The catalog in a process that starts and dies at any time.              *)
CatalogStep == CatalogNext \/ ScheduleCheck \/ Kill

CatalogSpec == CatalogInit /\ [][CatalogStep]_catalog

Cards(cards) == DOMAIN cards \subseteq Prints /\ cards \in [DOMAIN cards -> Versions]

(* A job that is not idle carries cards of the publisher; one of the check *)
(* has cards of its own set, and one of a request comes while requests are *)
(* served.                                                                 *)
JobOK(t) ==
  \/ job[t] = Idle
  \/ /\ job[t] = Job(job[t].pc, job[t].source, job[t].cards)
     /\ job[t].pc \in {"get", "page", "ingest", "report"}
     /\ Cards(job[t].cards)
     /\ t = Check => /\ loop = "checking"
                     /\ job[t].source \in todo
                     /\ \A p \in DOMAIN job[t].cards : SetOf[p] = job[t].source
     /\ t # Check => loop = "serving" /\ job[t].source \in Bulk

CatalogTablesOK ==
  /\ remote \in [Prints -> Versions \cup {0}]
  /\ prints \in [Prints -> Versions \cup {0}]
  /\ \A p \in Prints : prints[p] # 0 => SetOf[p] \in sets
  /\ sets \subseteq Sets
  /\ audit \in Seq([source : Sources, status : {"success", "error"}, rows : {"none", "some"}])
  /\ DOMAIN job = Threads

(* Until the check ends, what was listed is in the catalog, excused, or    *)
(* still to do, and what is still to do is in no audit entry with rows.    *)
CheckProgress ==
  /\ loop \in {"down", "listing", "checking", "serving"}
  /\ todo \subseteq listed /\ listed \subseteq Sets
  /\ loop = "listing" => listed = {}
  /\ loop = "checking" => /\ listed \subseteq sets \cup excused \cup todo
                          /\ todo \cap sets = {}
  /\ CheckCovers
  /\ \A i \in DOMAIN audit :
       audit[i].rows = "some" /\ audit[i].source \in Sets => audit[i].source \in sets

CatalogInv ==
  /\ CatalogTablesOK
  /\ \A t \in Threads : JobOK(t)
  /\ CheckProgress
  /\ SetIngestedOnce

(* The empty catalog of a process that is down satisfies the invariant.    *)
LEMMA CatalogInvInit == CatalogInit => CatalogInv
<1> SUFFICES ASSUME CatalogInit PROVE CatalogInv
  OBVIOUS
<1> USE CatalogAssumption DEF CatalogInit
<1>1. CatalogTablesOK
  BY DEF CatalogTablesOK, Versions
<1>2. \A t \in Threads : JobOK(t)
  BY DEF JobOK
<1>3. CheckProgress
  BY DEF CheckProgress, CheckCovers
<1>4. SetIngestedOnce
  BY DEF SetIngestedOnce, EntriesOf
<1> QED BY <1>1, <1>2, <1>3, <1>4 DEF CatalogInv

(* A step of a thread that leaves the tables, the check and the other      *)
(* threads alone keeps the invariant, if the thread's job is in order.     *)
LEMMA OnlyJob ==
  ASSUME CatalogInv, NEW t \in Threads, NEW j, job' = [job EXCEPT ![t] = j],
         UNCHANGED <<remote, ledger, check>>, JobOK(t)'
  PROVE  CatalogInv'
<1>1. DOMAIN job' = Threads /\ \A u \in Threads \ {t} : job'[u] = job[u]
  BY DEF CatalogInv, CatalogTablesOK
<1>2. CatalogTablesOK' /\ CheckProgress' /\ SetIngestedOnce'
  BY <1>1 DEF CatalogInv, CatalogTablesOK, CheckProgress, CheckCovers, SetIngestedOnce, EntriesOf,
              ledger, check
<1>3. ASSUME NEW u \in Threads PROVE JobOK(u)'
  <2>1. CASE u = t
    BY <2>1
  <2>2. CASE u # t
    BY <1>1, <2>2 DEF CatalogInv, JobOK, ledger, check
  <2> QED BY <2>1, <2>2
<1> QED BY <1>2, <1>3 DEF CatalogInv

(* Another page brings cards of the set that is fetched, or none.          *)
LEMMA PageStep == CatalogInv /\ FetchPage => CatalogInv'
<1> SUFFICES ASSUME CatalogInv, FetchPage PROVE CatalogInv'
  OBVIOUS
<1>1. Check \in Threads /\ JobOK(Check) /\ job[Check] # Idle
  BY DEF Threads, CatalogInv, FetchPage, At, Idle
<1> DEFINE s == job[Check].source
           old == job[Check].cards
<1>2. PICK page \in SUBSET {p \in DOMAIN Published : SetOf[p] = s} :
        job' = [job EXCEPT ![Check] = Job("page", s, WithPage(old, page))]
  BY DEF FetchPage
<1> DEFINE new == WithPage(old, page)
<1>3. \A p \in page : p \in Prints /\ remote[p] \in Versions /\ SetOf[p] = s
  BY <1>2 DEF Published, CatalogInv, CatalogTablesOK
<1>4. /\ DOMAIN new = DOMAIN old \cup page
      /\ \A p \in page : new[p] = remote[p]
      /\ \A p \in DOMAIN old \ page : new[p] = old[p]
  BY DEF WithPage
<1>5. Cards(new)
  <2>1. Cards(old)
    BY <1>1 DEF JobOK
  <2>2. new \in [DOMAIN new -> Versions]
    BY <2>1, <1>3, <1>4 DEF Cards, WithPage
  <2> QED BY <2>1, <2>2, <1>3, <1>4 DEF Cards
<1>6. UNCHANGED <<remote, ledger, check>>
  BY DEF FetchPage
<1>7. \A p \in DOMAIN new : SetOf[p] = s
  BY <1>1, <1>3, <1>4 DEF JobOK
<1> HIDE DEF new
<1>8. job' = [job EXCEPT ![Check] = Job("page", s, new)]
  BY <1>2 DEF new
<1>9. job'[Check] = Job("page", s, new)
  BY <1>1, <1>8 DEF CatalogInv, CatalogTablesOK
<1>10. JobOK(Check)'
  <2>1. loop = "checking" /\ s \in todo
    BY <1>1 DEF JobOK
  <2> QED BY <1>5, <1>6, <1>7, <1>9, <2>1 DEF JobOK, Job, check
<1> QED BY <1>1, <1>6, <1>8, <1>10, OnlyJob

(* The publisher changes no table.                                         *)
LEMMA PublishStep == CatalogInv /\ Publish => CatalogInv'
<1> SUFFICES ASSUME CatalogInv, Publish PROVE CatalogInv'
  OBVIOUS
<1>1. PICK p \in Prints : remote[p] < MaxVersion
                          /\ remote' = [remote EXCEPT ![p] = @ + 1]
  BY DEF Publish
<1>2. remote[p] + 1 \in Versions
  BY <1>1, CatalogAssumption DEF CatalogInv, CatalogTablesOK, Versions
<1>3. UNCHANGED <<ledger, job, check>>
  BY DEF Publish
<1>4. CatalogTablesOK'
  BY <1>1, <1>2, <1>3 DEF CatalogInv, CatalogTablesOK, ledger
<1>5. (\A t \in Threads : JobOK(t))' /\ CheckProgress' /\ SetIngestedOnce'
  BY <1>3 DEF CatalogInv, JobOK, CheckProgress, CheckCovers, SetIngestedOnce, EntriesOf,
              ledger, check
<1> QED BY <1>4, <1>5 DEF CatalogInv

(* The check begins, lists, and ends while no thread has a job.            *)
LEMMA LoopStep ==
  CatalogInv /\ (ScheduleCheck \/ ListSets \/ ListFails \/ CheckEnds \/ Kill) => CatalogInv'
<1> SUFFICES ASSUME CatalogInv, ScheduleCheck \/ ListSets \/ ListFails \/ CheckEnds \/ Kill
             PROVE  CatalogInv'
  OBVIOUS
<1>1. UNCHANGED <<remote, ledger>>
  BY DEF ScheduleCheck, ListSets, ListFails, CheckEnds, Kill
<1>2. SetIngestedOnce'
  BY <1>1 DEF CatalogInv, SetIngestedOnce, EntriesOf, ledger
<1>3. \A t \in Threads : job'[t] = Idle
  BY DEF ScheduleCheck, ListSets, ListFails, CheckEnds, Kill, CatalogInv, JobOK, At, Job
<1>4. DOMAIN job' = Threads
  BY DEF ScheduleCheck, ListSets, ListFails, CheckEnds, Kill, CatalogInv, CatalogTablesOK
<1>5. CatalogTablesOK' /\ (\A t \in Threads : JobOK(t))'
  BY <1>1, <1>3, <1>4 DEF CatalogInv, CatalogTablesOK, JobOK, ledger
<1>6. CheckProgress'
  BY <1>1 DEF ScheduleCheck, ListSets, ListFails, CheckEnds, Kill, NewCodes,
              CatalogInv, CheckProgress, CheckCovers, ledger
<1> QED BY <1>2, <1>5, <1>6 DEF CatalogInv

(* A thread takes up a job, ends its download or rolls back.               *)
LEMMA JobStep ==
  ASSUME CatalogInv, NEW t \in Threads,
         \/ t = Check /\ (NextCode \/ NextPage \/ EndOfPages)
         \/ t \in Workers /\ Bootstrap(t)
         \/ IngestFails(t)
  PROVE  CatalogInv'
<1>1. UNCHANGED <<remote, ledger, check>>
  BY DEF NextCode, NextPage, EndOfPages, Bootstrap, IngestFails, AfterRollback, ledger
<1>2. CASE t = Check /\ NextCode
  <2>1. PICK c \in todo : job' = [job EXCEPT ![t] = Job("get", c, <<>>)]
    BY <1>2 DEF NextCode
  <2>2. job'[t] = Job("get", c, <<>>)
    BY <2>1 DEF CatalogInv, CatalogTablesOK
  <2>3. Cards(<<>>) /\ DOMAIN <<>> = {}
    BY DEF Cards
  <2>4. JobOK(t)'
    BY <1>1, <1>2, <2>2, <2>3 DEF JobOK, Job, check, NextCode
  <2> QED BY <1>1, <2>1, <2>4, OnlyJob
<1>3. CASE \/ t = Check /\ (NextPage \/ EndOfPages)
           \/ IngestFails(t)
  <2>1. PICK pc \in {"get", "ingest", "report"} : job' = [job EXCEPT ![t].pc = pc]
    BY <1>3 DEF NextPage, EndOfPages, IngestFails
  <2>2. JobOK(t) /\ job[t] # Idle
    BY <1>3 DEF CatalogInv, NextPage, EndOfPages, IngestFails, At, Idle
  <2>3. [job[t] EXCEPT !.pc = pc] = Job(pc, job[t].source, job[t].cards)
    BY <2>2 DEF JobOK, Job
  <2> DEFINE new == Job(pc, job[t].source, job[t].cards)
  <2>4. job' = [job EXCEPT ![t] = new]
    BY <2>1, <2>3
  <2>5. job'[t] = new
    BY <2>4 DEF CatalogInv, CatalogTablesOK
  <2>6. JobOK(t)'
    BY <1>1, <2>2, <2>5 DEF JobOK, Job, check
  <2> QED BY <1>1, <2>4, <2>6, OnlyJob
<1>4. CASE t \in Workers /\ Bootstrap(t)
  <2>1. PICK b \in Bulk : job' = [job EXCEPT ![t] = Job("ingest", b, Published)]
    BY <1>4 DEF Bootstrap
  <2>2. job'[t] = Job("ingest", b, Published)
    BY <2>1 DEF CatalogInv, CatalogTablesOK
  <2>3. Cards(Published)
    BY DEF Cards, Published, CatalogInv, CatalogTablesOK
  <2>4. t # Check /\ loop = "serving"
    BY <1>4, CatalogAssumption DEF Bootstrap
  <2>5. JobOK(t)'
    BY <1>1, <2>2, <2>3, <2>4 DEF JobOK, Job, check
  <2> QED BY <1>1, <2>1, <2>5, OnlyJob
<1> QED BY <1>2, <1>3, <1>4

(* An entry of the audit log keeps what the log says of sets, if it has no *)
(* rows or is of a source that has none in the log yet.                    *)
LEMMA AuditStep ==
  ASSUME CatalogInv, NEW src \in Sources,
         NEW st \in {"success", "error"}, NEW n \in {"none", "some"},
         audit' = Append(audit, Entry(src, st, n)),
         sets \subseteq sets', sets' \subseteq Sets,
         n = "some" /\ src \in Sets => src \in sets' \ sets
  PROVE  /\ SetIngestedOnce'
         /\ audit' \in Seq([source : Sources, status : {"success", "error"},
                            rows : {"none", "some"}])
         /\ \A i \in DOMAIN audit' :
              audit'[i].rows = "some" /\ audit'[i].source \in Sets
              => audit'[i].source \in sets'
<1> DEFINE last == Len(audit) + 1
           E == [source : Sources, status : {"success", "error"}, rows : {"none", "some"}]
<1>1. Entry(src, st, n) \in E /\ Entry(src, st, n).rows = n
      /\ Entry(src, st, n).source = src
  BY DEF Entry
<1> HIDE DEF E
<1>2. audit \in Seq(E)
  BY DEF CatalogInv, CatalogTablesOK, E
<1>3. /\ audit' \in Seq(E)
      /\ DOMAIN audit' = DOMAIN audit \cup {last}
      /\ last \notin DOMAIN audit
      /\ audit'[last] = Entry(src, st, n)
      /\ \A i \in DOMAIN audit : audit'[i] = audit[i]
  BY <1>1, <1>2
<1>4. \A i \in DOMAIN audit :
        audit[i].rows = "some" /\ audit[i].source \in Sets => audit[i].source \in sets
  BY DEF CatalogInv, CheckProgress
<1>5. \A s \in Sets : \A i, j \in DOMAIN audit :
        /\ audit[i].source = s /\ audit[j].source = s
        /\ audit[i].rows = "some" /\ audit[j].rows = "some"
        => i = j
  BY DEF CatalogInv, SetIngestedOnce, EntriesOf
<1>6. \A s \in Sets : \A i, j \in DOMAIN audit' :
        /\ audit'[i].source = s /\ audit'[j].source = s
        /\ audit'[i].rows = "some" /\ audit'[j].rows = "some"
        => i = j
  BY <1>1, <1>3, <1>4, <1>5
<1> QED BY <1>1, <1>3, <1>4, <1>6 DEF SetIngestedOnce, EntriesOf, E

(* A job raises, with or without a report of its failure.                  *)
LEMMA RaiseStep ==
  ASSUME CatalogInv, NEW t \in Threads, ~At(t, "idle"), Raise(t),
         UNCHANGED <<prints, sets>>,
         \/ UNCHANGED audit
         \/ audit' = Append(audit, Entry(job[t].source, "error", "none"))
  PROVE  CatalogInv'
<1>1. JobOK(t) /\ job[t] # Idle
  BY DEF CatalogInv, At, Idle
<1>2. job[t].source \in Sources
  BY <1>1 DEF JobOK, CatalogInv, CheckProgress, Sources
<1>3. /\ SetIngestedOnce'
      /\ audit' \in Seq([source : Sources, status : {"success", "error"}, rows : {"none", "some"}])
      /\ \A i \in DOMAIN audit' :
           audit'[i].rows = "some" /\ audit'[i].source \in Sets
           => audit'[i].source \in sets'
  <2>1. CASE UNCHANGED audit
    BY <2>1 DEF CatalogInv, CatalogTablesOK, CheckProgress, SetIngestedOnce, EntriesOf
  <2>2. CASE audit' = Append(audit, Entry(job[t].source, "error", "none"))
    BY <1>2, <2>2, AuditStep DEF CatalogInv, CatalogTablesOK
  <2> QED BY <2>1, <2>2
<1>4. /\ UNCHANGED <<remote, loop, listed>>
      /\ job' = [job EXCEPT ![t] = Idle]
  BY DEF Raise
<1>5. CatalogTablesOK'
  BY <1>3, <1>4 DEF CatalogInv, CatalogTablesOK
<1>6. \/ t = Check /\ todo' = todo \ {job[t].source}
                   /\ excused' = excused \cup {job[t].source}
      \/ t # Check /\ UNCHANGED <<todo, excused>>
  BY DEF Raise, AfterFailure
<1>7. CheckProgress'
  BY <1>3, <1>4, <1>6 DEF CatalogInv, CheckProgress, CheckCovers
<1>8. job'[t] = Idle /\ \A u \in Threads \ {t} : job'[u] = job[u]
  BY <1>4 DEF CatalogInv, CatalogTablesOK
<1>9. ASSUME NEW u \in Threads PROVE JobOK(u)'
  <2>1. CASE u = t
    BY <1>8, <2>1 DEF JobOK
  <2>2. CASE u # t
    BY <1>4, <1>6, <1>8, <2>2 DEF CatalogInv, JobOK
  <2> QED BY <2>1, <2>2
<1> QED BY <1>3, <1>5, <1>7, <1>9 DEF CatalogInv

(* An ingest commits.                                                      *)
LEMMA CommitStep ==
  ASSUME CatalogInv, NEW t \in Threads, Commit(t) PROVE CatalogInv'
<1> DEFINE s == job[t].source
           cards == job[t].cards
           count == RowsOf(cards)
<1>1. JobOK(t) /\ job[t] # Idle
  BY DEF CatalogInv, Commit, At, Idle
<1>2. Cards(cards) /\ s \in Sources
  BY <1>1 DEF JobOK, CatalogInv, CheckProgress, Sources
<1>3. count \in {"none", "some"} /\ (count = "none" <=> DOMAIN cards = {})
  BY DEF RowsOf
<1>4. /\ prints' = Upserted(cards)
      /\ sets' = sets \cup {SetOf[p] : p \in DOMAIN cards}
      /\ audit' = Append(audit, Entry(s, "success", count))
      /\ job' = [job EXCEPT ![t] = Idle]
      /\ UNCHANGED <<remote, loop, listed>>
  BY DEF Commit, SetsOf
<1>5. \/ /\ t = Check /\ loop = "checking" /\ s \in todo
         /\ \A p \in DOMAIN cards : SetOf[p] = s
         /\ todo' = todo \ {s}
         /\ excused' = IF count = "none" THEN excused \cup {s} ELSE excused
      \/ /\ t # Check /\ loop = "serving" /\ s \in Bulk
         /\ UNCHANGED <<todo, excused>>
  BY <1>1 DEF Commit, JobOK
<1>6. \A p \in DOMAIN cards : SetOf[p] \in Sets /\ p \in Prints
  BY <1>2, CatalogAssumption DEF Cards
<1>7. sets \subseteq sets' /\ sets' \subseteq Sets
  BY <1>4, <1>6 DEF CatalogInv, CatalogTablesOK
<1> HIDE DEF s, cards, count
<1>8. count = "some" /\ s \in Sets => s \in sets' \ sets
  <2>1. SUFFICES ASSUME count = "some", s \in Sets PROVE s \in sets' /\ s \notin sets
    OBVIOUS
  <2>2. t = Check /\ s \in todo /\ loop = "checking"
    BY <1>5, <2>1, CatalogAssumption
  <2>3. DOMAIN cards # {}
    <3>1. count # "none"
      BY <2>1, <1>3
    <3> QED BY <3>1, <1>3
  <2>4. \A p \in DOMAIN cards : SetOf[p] = s
    BY <1>5, <2>2
  <2>5. PICK p \in DOMAIN cards : SetOf[p] = s
    BY <2>3, <2>4
  <2> QED BY <1>4, <2>2, <2>5 DEF CatalogInv, CheckProgress
<1>9. /\ SetIngestedOnce'
      /\ audit' \in Seq([source : Sources, status : {"success", "error"}, rows : {"none", "some"}])
      /\ \A i \in DOMAIN audit' :
           audit'[i].rows = "some" /\ audit'[i].source \in Sets
           => audit'[i].source \in sets'
  BY <1>2, <1>3, <1>4, <1>7, <1>8, AuditStep
<1>10. CatalogTablesOK'
  <2>1. prints' \in [Prints -> Versions \cup {0}]
    BY <1>2, <1>4 DEF CatalogInv, CatalogTablesOK, Upserted, Cards
  <2>2. \A p \in Prints : prints'[p] # 0 => SetOf[p] \in sets'
    BY <1>4 DEF CatalogInv, CatalogTablesOK, Upserted
  <2> QED BY <1>4, <1>7, <1>9, <2>1, <2>2 DEF CatalogInv, CatalogTablesOK
<1>11. CheckProgress'
  <2>1. CASE t = Check
    <3>1. s \in sets' \cup excused'
      <4>1. CASE count = "none"
        BY <1>5, <2>1, <4>1
      <4>2. CASE count # "none"
        BY <1>3, <1>5, <1>4, <2>1, <4>2
      <4> QED BY <4>1, <4>2
    <3>2. excused \subseteq excused' /\ todo' = todo \ {s}
      BY <1>5, <2>1
    <3>3. sets' \subseteq sets \cup {s}
      BY <1>4, <1>5, <2>1
    <3> QED BY <1>4, <1>5, <1>7, <1>9, <2>1, <3>1, <3>2, <3>3
            DEF CatalogInv, CheckProgress, CheckCovers
  <2>2. CASE t # Check
    BY <1>4, <1>5, <1>7, <1>9, <2>2 DEF CatalogInv, CheckProgress, CheckCovers
  <2> QED BY <2>1, <2>2
<1>12. job'[t] = Idle /\ \A u \in Threads \ {t} : job'[u] = job[u]
  BY <1>4 DEF CatalogInv, CatalogTablesOK
<1>13. ASSUME NEW u \in Threads PROVE JobOK(u)'
  <2>1. CASE u = t
    BY <1>12, <2>1 DEF JobOK
  <2>2. CASE u # t
    BY <1>4, <1>5, <1>12, <2>2 DEF CatalogInv, JobOK
  <2> QED BY <2>1, <2>2
<1> QED BY <1>9, <1>10, <1>11, <1>13 DEF CatalogInv

(* Every step of the catalog keeps the invariant.                          *)
LEMMA CatalogInvStep == CatalogInv /\ [CatalogStep]_catalog => CatalogInv'
<1> SUFFICES ASSUME CatalogInv, [CatalogStep]_catalog PROVE CatalogInv'
  OBVIOUS
<1>1. ASSUME NEW t \in Threads, Ingesting(t) PROVE CatalogInv'
  <2>1. CASE Commit(t)
    BY <2>1, CommitStep
  <2>2. CASE IngestFails(t)
    BY <2>2, JobStep
  <2>3. CASE Report(t) \/ ReportFails(t)
    <3>1. ~At(t, "idle") /\ Raise(t) /\ UNCHANGED <<prints, sets>>
      BY <2>3 DEF Report, ReportFails, At, ledger
    <3>2. \/ UNCHANGED audit
          \/ audit' = Append(audit, Entry(job[t].source, "error", "none"))
      BY <2>3 DEF Report, ReportFails, ledger
    <3> QED BY <3>1, <3>2, RaiseStep
  <2> QED BY <1>1, <2>1, <2>2, <2>3 DEF Ingesting
<1>2. CASE PageFails
  <2>1. /\ Check \in Threads /\ ~At(Check, "idle") /\ Raise(Check)
        /\ UNCHANGED <<prints, sets, audit>>
    BY <1>2 DEF PageFails, At, Threads, ledger
  <2> QED BY <2>1, RaiseStep
<1>3. CASE UNCHANGED catalog
  BY <1>3 DEF catalog, ledger, check, CatalogInv, CatalogTablesOK, JobOK, CheckProgress,
              CheckCovers, SetIngestedOnce, EntriesOf
<1> QED
  BY <1>1, <1>2, <1>3, PublishStep, LoopStep, JobStep, PageStep
  DEF CatalogStep, CatalogNext, Checking, Threads

(* CatalogInv holds in every reachable state.                                     *)
LEMMA CatalogInvHolds == CatalogSpec => []CatalogInv
BY CatalogInvInit, CatalogInvStep, PTL DEF CatalogSpec

(* A step of the catalog is one of the ledger: the commit of an ingest, or *)
(* of a report; what comes before them leaves the tables alone.            *)
LEMMA LedgerStep ==
  CatalogInv /\ [CatalogStep]_catalog => [Ledger!Next]_<<prints, sets, sync, audit>>
<1> SUFFICES ASSUME CatalogInv, [CatalogStep]_catalog
             PROVE  Ledger!Next \/ UNCHANGED ledger
  BY DEF ledger
<1>1. ASSUME NEW t \in Threads, Commit(t) PROVE Ledger!Next
  <2> DEFINE s == job[t].source
             cards == job[t].cards
  <2>1. JobOK(t) /\ job[t] # Idle
    BY <1>1 DEF CatalogInv, Commit, At, Idle
  <2>2. Cards(cards) /\ s \in Sources
    BY <2>1 DEF JobOK, CatalogInv, CheckProgress, Sources
  <2>3. /\ prints' = Upserted(cards)
        /\ sets' = sets \cup {SetOf[p] : p \in DOMAIN cards}
        /\ sync' = [sync EXCEPT ![s] = State("success", RowsOf(cards))]
        /\ audit' = Append(audit, Entry(s, "success", RowsOf(cards)))
    BY <1>1 DEF Commit, SetsOf
  <2> HIDE DEF s, cards
  <2>4. DOMAIN cards \in SUBSET Prints /\ cards \in [DOMAIN cards -> Versions]
    BY <2>2 DEF Cards
  <2>5. Ledger!Ingest(s)
    <3> DEFINE ids == DOMAIN cards
    <3>1. /\ prints' = [p \in Prints |-> IF p \in ids THEN cards[p] ELSE prints[p]]
          /\ sets' = sets \cup {SetOf[p] : p \in ids}
          /\ sync' = [sync EXCEPT ![s] = Ledger!State("success", Ledger!RowsOf(ids))]
          /\ audit' = Append(audit, Ledger!Entry(s, "success", Ledger!RowsOf(ids)))
      <4>1. Ledger!RowsOf(ids) = RowsOf(cards)
        BY DEF RowsOf, Ledger!RowsOf
      <4> QED BY <2>3, <4>1 DEF Ledger!State, Ledger!Entry, State, Entry, Upserted
    <3>2. ids \in SUBSET Prints /\ cards \in [ids -> Versions]
      BY <2>4
    <3> HIDE DEF ids
    <3> QED BY <3>1, <3>2, Zenon DEF Ledger!Ingest
  <2> QED BY <2>2, <2>5 DEF Ledger!Next
<1>2. ASSUME NEW t \in Threads, Report(t) PROVE Ledger!Next
  <2>1. job[t].source \in Sources
    <3>1. JobOK(t) /\ job[t] # Idle
      BY <1>2 DEF CatalogInv, Report, At, Idle
    <3> QED BY <3>1 DEF CatalogInv, JobOK, CheckProgress, Sources
  <2>2. Ledger!Report(job[t].source)
    BY <1>2 DEF Report, Reported, Ledger!Report, Ledger!State, Ledger!Entry,
                State, Entry
  <2> QED BY <2>1, <2>2 DEF Ledger!Next
<1>3. CASE ~\E t \in Threads : Commit(t) \/ Report(t)
  BY <1>3
  DEF CatalogStep, CatalogNext, Checking, Ingesting, Threads, Publish, ListSets,
      ListFails, NextCode, FetchPage, NextPage, EndOfPages, PageFails, CheckEnds, Bootstrap,
      IngestFails, AfterRollback, ReportFails, ScheduleCheck, Kill, catalog, ledger
<1> QED BY <1>1, <1>2, <1>3

(* The tables have the types of the schema, the set of every print has a   *)
(* row, and requests run only when the check has ended.                    *)
THEOREM CatalogHolds == CatalogSpec => []CatalogOK
<1>1. CatalogInv => CatalogOK
  <2> SUFFICES ASSUME CatalogInv PROVE CatalogOK
    OBVIOUS
  <2>1. \A t \in Threads : JobOK(t) /\ job[t].pc \in {"idle", "get", "page", "ingest", "report"}
    BY DEF CatalogInv, JobOK, Idle
  <2>2. \A w \in Workers : ~At(w, "idle") => loop = "serving"
    BY <2>1, CatalogAssumption DEF JobOK, Threads, At, Idle
  <2>3. ~At(Check, "idle") => loop = "checking" /\ job[Check].source \in todo
    BY <2>1 DEF JobOK, Threads, At, Idle
  <2>4. SetsOf({q \in Prints : prints[q] # 0}) \subseteq sets
    BY DEF CatalogInv, CatalogTablesOK, SetsOf
  <2> QED BY <2>1, <2>2, <2>3, <2>4 DEF CatalogInv, CatalogTablesOK, CheckProgress, CatalogOK
<1> QED BY <1>1, CatalogInvHolds, PTL

(* When the check has ended every listed set is in the catalog or excused, *)
(* whichever sets failed before it (startup_set_delta_check).              *)
THEOREM ChecksCover == CatalogSpec => []CheckCovers
<1>1. CatalogInv => CheckCovers
  BY DEF CatalogInv, CheckProgress
<1> QED BY <1>1, CatalogInvHolds, PTL

(* No set is ingested twice, across restarts and bootstraps: new codes are *)
(* those without a row in catalog_sets (startup_set_delta_check).          *)
THEOREM IngestsOnce == CatalogSpec => []SetIngestedOnce
<1>1. CatalogInv => SetIngestedOnce
  BY DEF CatalogInv
<1> QED BY <1>1, CatalogInvHolds, PTL

(* The catalog implements IngestLedger, however ingests overlap and        *)
(* wherever they fail (_ingest_cards_transaction).                         *)
THEOREM CatalogKeepsLedger == CatalogSpec => KeepsLedger
<1>1. CatalogInit => Ledger!Init
  BY DEF CatalogInit, Ledger!Init, Ledger!NeverSynced, Ledger!State, State
<1> QED BY <1>1, LedgerStep, CatalogInvHolds, PTL
        DEF CatalogSpec, KeepsLedger, Ledger!Spec

-----------------------------------------------------------------------------
(* The migration.                                                          *)

(* The rebuild is a stretch of the startup handler: in it the table is the *)
(* old one and the foreign keys are off, and outside of it a runs_new is   *)
(* what a crash or a refused row left.                                     *)
Rebuilding ==
  /\ boot = "inspect" => shape # "absent"
  /\ boot \in {"create", "copy", "swap", "failed"} => shape = "legacy"
  /\ boot \in {"create", "copy", "swap"} => ~foreignKeys
  /\ leftover =>
       /\ shape = "legacy"
       /\ crashes > 0 \/ broken # {} \/ boot \in {"copy", "swap"}

MigrationInv == MigrationOK /\ Rebuilding /\ CleanStart

(* A normalized status is one of the lifecycle.                            *)
LEMMA NormalizedIsCanonical ==
  \A s : Normalized(s) \in RunStatus /\ Normalized(Normalized(s)) = Normalized(s)
<1>1. "IDLE" \in RunStatus
  BY DEF RunStatus
<1> SUFFICES ASSUME NEW s
             PROVE  Normalized(s) \in RunStatus
                    /\ Normalized(Normalized(s)) = Normalized(s)
  OBVIOUS
<1>2. Normalized(s) \in RunStatus
  BY <1>1 DEF Normalized
<1> QED BY <1>2, MigrationAssumption DEF Normalized

(* Every table the process may find satisfies the invariant.               *)
LEMMA MigrationInvInit == Init => MigrationInv
<1> SUFFICES ASSUME Init PROVE MigrationInv
  OBVIOUS
<1> USE MigrationAssumption
    DEF Init, MigrationInv, MigrationOK, Rebuilding, CleanStart, Boot
<1>1. shape = "absent" => rows = <<>>
  BY DEF Init
<1>2. shape = "canonical" => \A r \in DOMAIN rows : rows[r] \in RunStatus
  BY DEF Init
<1>3. shape \in {"absent", "legacy", "canonical"} /\ carded \subseteq DOMAIN rows
  BY DEF Init
<1> QED BY <1>1, <1>2, <1>3

(* Every statement of the start, and a crash anywhere, keeps it.           *)
LEMMA MigrationInvStep == MigrationInv /\ [Next]_vars => MigrationInv'
<1> SUFFICES ASSUME MigrationInv, [Next]_vars PROVE MigrationInv'
  OBVIOUS
<1> USE MigrationAssumption
    DEF MigrationInv, MigrationOK, Rebuilding, CleanStart, Boot, tables
<1>1. CASE Start
  BY <1>1 DEF Start
<1>2. CASE ApplySchema
  <2>1. rows = <<>> => DOMAIN rows = {}
    OBVIOUS
  <2>2. CASE shape = "absent"
    BY <1>2, <2>1, <2>2 DEF ApplySchema
  <2>3. CASE shape # "absent"
    BY <1>2, <2>3 DEF ApplySchema
  <2> QED BY <2>2, <2>3
<1>3. CASE Inspect
  <2>1. CASE RequiresRebuild
    BY <1>3, <2>1 DEF Inspect, RequiresRebuild, KeysWhileRebuilding
  <2>2. CASE ~RequiresRebuild
    BY <1>3, <2>2 DEF Inspect, RequiresRebuild
  <2> QED BY <2>1, <2>2
<1>4. CASE CreateNew \/ CreateRefused
  <2>1. CASE CreateNew
    BY <2>1 DEF CreateNew
  <2>2. CASE CreateRefused
    BY <2>2 DEF CreateRefused
  <2> QED BY <1>4, <2>1, <2>2
<1>5. CASE Copy
  BY <1>5 DEF Copy
<1>6. CASE CopyRefused
  BY <1>6, NormalizedIsCanonical DEF CopyRefused, Copyable
<1>7. CASE Swap
  <2>1. /\ DOMAIN rows' = DOMAIN rows
        /\ \A r \in DOMAIN rows' : rows'[r] \in RunStatus
    BY <1>7, NormalizedIsCanonical DEF Swap
  <2> QED BY <1>7, <2>1 DEF Swap
<1>8. CASE Detect
  BY <1>8 DEF Detect
<1>9. CASE Crash
  <2>1. crashes' > 0 /\ crashes' \in Nat
    BY <1>9 DEF Crash
  <2> QED BY <1>9, <2>1 DEF Crash
<1>10. CASE UNCHANGED vars
  BY <1>10 DEF vars
<1> QED
  BY <1>1, <1>2, <1>3, <1>4, <1>5, <1>6, <1>7, <1>8, <1>9, <1>10
  DEF Next, Booting

(* MigrationInv holds in every reachable state.                                     *)
LEMMA MigrationInvHolds == Spec => []MigrationInv
BY MigrationInvInit, MigrationInvStep, PTL DEF Spec

(* No step changes what the service makes of the tables: the swap writes   *)
(* normalized statuses, and drops the old table with the keys off.         *)
LEMMA SeenStep == MigrationInv /\ [Next]_vars => Seen' = Seen
<1> SUFFICES ASSUME MigrationInv, [Next]_vars PROVE Seen' = Seen
  OBVIOUS
<1>1. CASE Swap
  <2>1. /\ rows' = [r \in DOMAIN rows |-> Normalized(rows[r])]
        /\ carded' = carded
    BY <1>1 DEF Swap, MigrationInv, Rebuilding
  <2>2. \A r \in DOMAIN rows : Normalized(rows'[r]) = Normalized(rows[r])
    BY <2>1, NormalizedIsCanonical
  <2> QED BY <2>1, <2>2 DEF Seen
<1>2. CASE ~Swap
  BY <1>2 DEF Next, Booting, Start, ApplySchema, Inspect, CreateNew,
              CreateRefused, Copy, CopyRefused, Detect, Crash, vars, tables, Seen
<1> QED BY <1>1, <1>2

(* Requests are served from the canonical table, in which every status is  *)
(* one the lifecycle knows (init_db).                                      *)
THEOREM MigrationHolds == Spec => []MigrationOK
<1>1. MigrationInv => MigrationOK
  BY DEF MigrationInv
<1> QED BY <1>1, MigrationInvHolds, PTL

(* Without a crash and without rows that the new table refuses, a start    *)
(* succeeds (init_db).                                                     *)
THEOREM StartsClean == Spec => []CleanStart
<1>1. MigrationInv => CleanStart
  BY DEF MigrationInv
<1> QED BY <1>1, MigrationInvHolds, PTL

(* Wherever crashes cut the migration off, no run loses its status or its  *)
(* cards (the rebuild of runs, whose foreign keys cascade).                *)
THEOREM LosesNothing == Spec => NothingLost
<1>1. MigrationInv /\ [Next]_vars => [Seen' = Seen]_vars
  BY SeenStep
<1> QED BY <1>1, MigrationInvHolds, PTL DEF Spec, NothingLost

-----------------------------------------------------------------------------
(* The process.                                                            *)

(* A step of the process is one of the migration or leaves it alone.       *)
LEMMA StepMigrates == [StartupNext]_process => [Next]_vars
BY DEF StartupNext, Migrate, BecomeUp, Ingest, Store, Die, process, Next, Booting

(* A step of the process is one of the catalog or leaves it alone.         *)
LEMMA StepCatalogs == [StartupNext]_process => [CatalogStep]_catalog
BY DEF StartupNext, Migrate, BecomeUp, Ingest, Store, Die, process, CatalogStep

(* The process runs the migration as Migration specifies it.               *)
THEOREM RunsMigration == StartupSpec => Spec
<1>1. StartupInit => Init
  BY DEF StartupInit
<1> QED BY <1>1, StepMigrates, PTL DEF StartupSpec, Spec

(* The process runs the catalog as Catalog specifies it.                   *)
LEMMA RunsCatalog == StartupSpec => CatalogSpec
<1>1. StartupInit => CatalogInit
  BY DEF StartupInit
<1> QED BY <1>1, StepCatalogs, PTL DEF StartupSpec, CatalogSpec

(* Whatever the process does, the catalog's tables follow IngestLedger.    *)
THEOREM ProcessKeepsLedger == StartupSpec => KeepsLedger
BY RunsCatalog, CatalogKeepsLedger, PTL

(* Wherever the process dies, no run loses its status or its cards.        *)
THEOREM ProcessLosesNothing == StartupSpec => NothingLost
BY RunsMigration, LosesNothing, PTL

-----------------------------------------------------------------------------
(* The image cache.                                                        *)

(* A thread has its place in the code and a file to store.                 *)
CopyOK(w) ==
  \/ copy[w] = NoCopy
  \/ /\ copy[w].pc \in {"look", "open", "fill", "row"}
     /\ copy[w].digest \in Digests /\ copy[w].print \in Prints
     /\ DOMAIN copy[w] = {"pc", "print", "digest"}

CacheInv ==
  /\ CacheOK
  /\ TornExplained
  /\ DOMAIN copy = Copiers
  /\ \A w \in Copiers : CopyOK(w)
  /\ DOMAIN images = Prints
  /\ \A p \in Prints : images[p] \in Digests \cup {NoImage}

(* An empty cache directory satisfies the invariant.                       *)
LEMMA CacheInvInit == CacheInit => CacheInv
BY DEF CacheInit, CacheInv, CacheOK, TornExplained, CopyOK, NoCopy, Storing

(* A print of the catalog stays one.                                       *)
LEMMA PrintsStay ==
  ASSUME CatalogInv, [CatalogStep]_catalog, NEW p \in Prints, prints[p] # 0
  PROVE  prints'[p] # 0
<1>1. ASSUME NEW t \in Threads, Commit(t) PROVE prints'[p] # 0
  <2>1. JobOK(t) /\ job[t] # Idle
    BY <1>1 DEF CatalogInv, Commit, At, Idle
  <2>2. Cards(job[t].cards) /\ prints' = Upserted(job[t].cards)
    BY <1>1, <2>1 DEF JobOK, Commit
  <2>3. \A q \in DOMAIN job[t].cards : job[t].cards[q] # 0
    BY <2>2, CatalogAssumption DEF Cards, Versions
  <2> QED BY <2>2, <2>3 DEF Upserted
<1>2. CASE ~\E t \in Threads : Commit(t)
  BY <1>2
  DEF CatalogStep, CatalogNext, Checking, Ingesting, Threads, Publish, ListSets,
      ListFails, NextCode, FetchPage, NextPage, EndOfPages, PageFails, CheckEnds, Bootstrap,
      IngestFails, AfterRollback, Report, ReportFails, ScheduleCheck, Kill,
      catalog, ledger
<1> QED BY <1>1, <1>2

(* What a step of another part of the process leaves of the cache.         *)
LEMMA CacheElsewhere ==
  ASSUME CacheInv, UNCHANGED cache,
         \A p \in Prints : prints[p] # 0 => prints'[p] # 0
  PROVE  CacheInv'
BY DEF CacheInv, CacheOK, TornExplained, CopyOK, Storing, Filling, cache

(* A thread moves on within its request, which changes no file and no row. *)
LEMMA CacheMoves ==
  ASSUME CacheInv, NEW w \in Copiers, NEW c, copy' = [copy EXCEPT ![w] = c],
         CopyOK(w)', ~Storing(w, "fill"),
         Storing(w, "fill")' \/ Storing(w, "row")' => files[c.digest] # "absent",
         UNCHANGED <<files, images, cut, prints>>
  PROVE  CacheInv'
<1>1. DOMAIN copy' = Copiers /\ copy'[w] = c
      /\ \A v \in Copiers \ {w} : copy'[v] = copy[v]
  BY DEF CacheInv
<1>2. \A d \in Digests : Filling(d) \subseteq Filling(d)'
  BY <1>1 DEF Filling, Storing
<1>3. TornExplained'
  BY <1>2 DEF CacheInv, TornExplained
<1>4. CacheOK'
  BY <1>1 DEF CacheInv, CacheOK, Storing
<1>5. ASSUME NEW v \in Copiers PROVE CopyOK(v)'
  BY <1>1 DEF CacheInv, CopyOK
<1> QED BY <1>1, <1>3, <1>4, <1>5 DEF CacheInv

(* The steps of a request that write neither a file nor a row.             *)
LEMMA RequestStep ==
  ASSUME CacheInv, NEW w \in Copiers, Fetch(w) \/ Look(w) \/ Refused(w),
         UNCHANGED prints
  PROVE  CacheInv'
<1>1. UNCHANGED <<files, images, cut>> /\ ~Storing(w, "fill")
  BY DEF Fetch, Look, Refused, Storing
<1>2. CopyOK(w) /\ DOMAIN copy = Copiers
  BY DEF CacheInv
<1>3. CASE Fetch(w)
  <2>1. PICK p \in Prints, d \in Digests :
          copy' = [copy EXCEPT ![w] = [pc |-> "look", print |-> p, digest |-> d]]
    BY <1>3 DEF Fetch
  <2> DEFINE c == [pc |-> "look", print |-> p, digest |-> d]
  <2>2. copy'[w] = c /\ copy' = [copy EXCEPT ![w] = c]
    BY <1>2, <2>1
  <2>3. CopyOK(w)' /\ ~Storing(w, "fill")' /\ ~Storing(w, "row")'
    BY <2>2 DEF CopyOK, Storing
  <2> QED BY <1>1, <2>2, <2>3, CacheMoves
<1>4. CASE Look(w)
  <2> DEFINE c == [copy[w] EXCEPT !.pc = AfterLook(copy[w].digest)]
  <2>1. copy' = [copy EXCEPT ![w] = c]
    BY <1>4 DEF Look, Goto
  <2>2. /\ copy[w].digest \in Digests /\ copy[w].print \in Prints
        /\ DOMAIN copy[w] = {"pc", "print", "digest"}
    BY <1>2, <1>4 DEF CopyOK, NoCopy, Look, Storing
  <2>3. copy[w] # NoCopy
    BY <1>4 DEF NoCopy, Look, Storing
  <2>4. /\ c.digest = copy[w].digest /\ c.print = copy[w].print
        /\ c.pc = AfterLook(copy[w].digest) /\ DOMAIN c = DOMAIN copy[w]
    BY <1>2, <2>2, <2>3 DEF CopyOK
  <2>5. copy'[w] = c
    BY <1>2, <2>1
  <2> HIDE DEF c
  <2>6. CopyOK(w)'
    BY <2>2, <2>4, <2>5 DEF CopyOK, AfterLook
  <2>7. Storing(w, "fill")' \/ Storing(w, "row")' => files[c.digest] # "absent"
    BY <2>4, <2>5 DEF Storing, AfterLook
  <2> QED BY <1>1, <2>1, <2>6, <2>7, CacheMoves
<1>5. CASE Refused(w)
  <2>1. copy' = [copy EXCEPT ![w] = NoCopy] /\ copy'[w] = NoCopy
    BY <1>2, <1>5 DEF Refused
  <2>2. CopyOK(w)' /\ ~Storing(w, "fill")' /\ ~Storing(w, "row")'
    BY <2>1 DEF CopyOK, Storing, NoCopy
  <2> QED BY <1>1, <2>1, <2>2, CacheMoves
<1> QED BY <1>3, <1>4, <1>5

(* The steps that write the file: it is opened, and filled or left torn.   *)
LEMMA FileStep ==
  ASSUME CacheInv, NEW w \in Copiers, Open(w) \/ Fill(w) \/ FillFails(w),
         UNCHANGED prints
  PROVE  CacheInv'
<1> DEFINE d == copy[w].digest
<1>1. CopyOK(w) /\ DOMAIN copy = Copiers /\ copy[w] # NoCopy
  BY DEF CacheInv, Open, Fill, FillFails, Storing, NoCopy
<1>2. d \in Digests /\ UNCHANGED images
  BY <1>1 DEF CopyOK, Open, Fill, FillFails
<1>3. \A v \in Copiers \ {w} : copy'[v] = copy[v]
  BY <1>1 DEF Open, Fill, FillFails, Goto
<1>4. DOMAIN copy' = Copiers
  BY <1>1 DEF Open, Fill, FillFails, Goto
<1>5. /\ files' \in [Digests -> {"absent", "torn", "whole"}]
      /\ \A e \in Digests \ {d} : files'[e] = files[e]
      /\ \A e \in Digests : files[e] # "absent" => files'[e] # "absent"
  BY <1>2 DEF CacheInv, CacheOK, Open, Fill, FillFails, AfterFill
<1>6. \/ copy'[w] = NoCopy
      \/ /\ copy'[w].digest = d /\ copy'[w].print = copy[w].print
         /\ copy'[w].pc \in {"fill", "row"} /\ DOMAIN copy'[w] = DOMAIN copy[w]
  BY <1>1 DEF CopyOK, Open, Fill, FillFails, Goto
<1>7. files'[d] # "absent"
  BY <1>2 DEF CacheInv, CacheOK, Storing, Open, Fill, FillFails, AfterFill
<1>8. ASSUME NEW v \in Copiers PROVE CopyOK(v)'
  BY <1>1, <1>2, <1>3, <1>6, <1>8 DEF CacheInv, CopyOK
<1>9. cut \subseteq cut' /\ cut' \subseteq Digests
  BY <1>2 DEF CacheInv, CacheOK, Open, Fill, FillFails
<1>10. CacheOK'
  <2>1. ASSUME NEW v \in Copiers, Storing(v, "fill")' \/ Storing(v, "row")'
        PROVE  files'[copy'[v].digest] # "absent"
    <3>1. CASE v = w
      BY <1>6, <1>7, <2>1, <3>1 DEF Storing, NoCopy
    <3>2. CASE v # w
      <4>1. copy'[v] = copy[v] /\ copy[v].digest \in Digests
        BY <1>3, <2>1, <3>2 DEF CacheInv, CopyOK, Storing, NoCopy
      <4> QED BY <1>5, <2>1, <4>1 DEF CacheInv, CacheOK, Storing
    <3> QED BY <3>1, <3>2
  <2>2. ASSUME NEW p \in Prints, images[p] # NoImage
        PROVE  prints[p] # 0 /\ files'[images[p]] # "absent"
    BY <1>5, <2>2 DEF CacheInv, CacheOK
  <2> QED BY <1>2, <1>5, <1>9, <2>1, <2>2 DEF CacheOK
<1>11. TornExplained'
  <2> SUFFICES ASSUME NEW e \in Digests, files'[e] = "torn"
               PROVE  e \in cut' \/ Filling(e)' # {}
    BY DEF TornExplained
  <2>1. CASE e # d
    <3>1. e \in cut \/ Filling(e) # {}
      BY <1>5, <2>1 DEF CacheInv, TornExplained
    <3>2. Filling(e) \subseteq Filling(e)'
      BY <1>3, <2>1 DEF Filling, Storing
    <3> QED BY <1>9, <3>1, <3>2
  <2>2. CASE e = d /\ Open(w)
    <3>1. copy'[w].pc = "fill" /\ copy'[w].digest = d
      BY <1>1, <2>2 DEF CopyOK, Open, Goto
    <3> QED BY <2>2, <3>1 DEF Filling, Storing
  <2>3. CASE e = d /\ d \notin cut /\ Fill(w)
    <3>1. Filling(d) # {w}
      <4>1. PICK f \in AfterFill(d, w) : files' = [files EXCEPT ![d] = f]
        BY <2>3 DEF Fill
      <4>2. f = "torn"
        BY <1>2, <2>3, <4>1 DEF CacheInv, CacheOK
      <4> QED BY <2>3, <4>1, <4>2 DEF AfterFill
    <3>2. w \in Filling(d)
      BY <2>3 DEF Fill, Filling
    <3>3. PICK v \in Filling(d) : v # w
      BY <3>1, <3>2
    <3>4. v \in Filling(e)'
      BY <1>3, <2>3, <3>3 DEF Filling, Storing
    <3> QED BY <3>4
  <2>4. CASE e = d /\ FillFails(w)
    BY <2>4 DEF FillFails
  <2>5. CASE e \in cut
    BY <1>9, <2>5
  <2> QED BY <2>1, <2>2, <2>3, <2>4, <2>5
<1> QED BY <1>2, <1>4, <1>8, <1>10, <1>11 DEF CacheInv

(* The row is saved last.                                                  *)
LEMMA RowStep ==
  ASSUME CacheInv, NEW w \in Copiers, SaveRow(w), UNCHANGED prints
  PROVE  CacheInv'
<1>1. CopyOK(w) /\ DOMAIN copy = Copiers /\ copy[w] # NoCopy /\ Storing(w, "row")
  BY DEF CacheInv, SaveRow, Storing, NoCopy
<1>2. /\ copy[w].print \in Prints /\ copy[w].digest \in Digests
      /\ prints[copy[w].print] # 0 /\ files[copy[w].digest] # "absent"
  BY <1>1 DEF CopyOK, SaveRow, CacheInv, CacheOK
<1>3. /\ images' = [images EXCEPT ![copy[w].print] = copy[w].digest]
      /\ copy' = [copy EXCEPT ![w] = NoCopy] /\ UNCHANGED <<files, cut>>
  BY DEF SaveRow
<1>4. copy'[w] = NoCopy /\ \A v \in Copiers \ {w} : copy'[v] = copy[v]
  BY <1>1, <1>3
<1>5. ASSUME NEW v \in Copiers PROVE CopyOK(v)'
  BY <1>4 DEF CacheInv, CopyOK
<1>6. \A d \in Digests : Filling(d) \subseteq Filling(d)'
  BY <1>1, <1>4 DEF Filling, Storing
<1>7. TornExplained'
  BY <1>3, <1>6 DEF CacheInv, TornExplained
<1>8. \A v \in Copiers : Storing(v, "fill")' \/ Storing(v, "row")' =>
                           files'[copy'[v].digest] # "absent"
  BY <1>3, <1>4 DEF CacheInv, CacheOK, Storing, NoCopy
<1>9. \A p \in Prints :
        /\ images'[p] \in Digests \cup {NoImage}
        /\ images'[p] # NoImage => prints'[p] # 0 /\ files'[images'[p]] # "absent"
  BY <1>2, <1>3 DEF CacheInv, CacheOK
<1>10. CacheOK'
  BY <1>3, <1>8, <1>9 DEF CacheInv, CacheOK
<1> QED BY <1>1, <1>3, <1>5, <1>7, <1>9, <1>10 DEF CacheInv

(* The process dies, with the files it was writing cut off.                *)
LEMMA DieStep ==
  ASSUME CacheInv, KillCopies, UNCHANGED prints
  PROVE  CacheInv'
<1>1. /\ copy' = [w \in Copiers |-> NoCopy] /\ UNCHANGED <<files, images>>
      /\ cut' = cut \cup {d \in Digests : Filling(d) # {}}
  BY DEF KillCopies
<1>2. TornExplained'
  BY <1>1 DEF CacheInv, TornExplained
<1>3. CacheOK'
  BY <1>1 DEF CacheInv, CacheOK, Storing, NoCopy
<1> QED BY <1>1, <1>2, <1>3 DEF CacheInv, CopyOK

(* Every step of the process keeps the invariants.                         *)
LEMMA ProcessStep ==
  CatalogInv /\ CacheInv /\ [StartupNext]_process => CacheInv'
<1> SUFFICES ASSUME CatalogInv, CacheInv, [StartupNext]_process PROVE CacheInv'
  OBVIOUS
<1>1. \A p \in Prints : prints[p] # 0 => prints'[p] # 0
  BY StepCatalogs, PrintsStay
<1>2. CASE UNCHANGED cache
  BY <1>1, <1>2, CacheElsewhere
<1>3. CASE Store
  BY <1>3, RequestStep, FileStep, RowStep DEF Store, CacheNext, catalog, ledger
<1>4. CASE Die
  BY <1>4, DieStep DEF Die, Kill, ledger
<1> QED BY <1>2, <1>3, <1>4
        DEF StartupNext, Migrate, BecomeUp, Ingest, process

(* The cache's invariant holds in every reachable state.                   *)
LEMMA CacheInvHolds == StartupSpec => []CacheInv
<1>1. StartupInit => CacheInv
  BY CacheInvInit DEF StartupInit
<1> QED BY <1>1, ProcessStep, RunsCatalog, CatalogInvHolds, PTL DEF StartupSpec

(* Every image row belongs to a print of the catalog and names a file that *)
(* was opened before (cache_print_face_image).                             *)
THEOREM CacheHolds == StartupSpec => []CacheOK
<1>1. CacheInv => CacheOK
  BY DEF CacheInv
<1> QED BY <1>1, CacheInvHolds, PTL

(* A file with wrong content is being written, or the writing of it was    *)
(* cut off, whichever requests write and trust it (write_bytes).           *)
THEOREM TornIsExplained == StartupSpec => []TornExplained
<1>1. CacheInv => TornExplained
  BY DEF CacheInv
<1> QED BY <1>1, CacheInvHolds, PTL

=============================================================================
