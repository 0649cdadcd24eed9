------------------------------ MODULE Startup ------------------------------
(***************************************************************************)
(* The process as a whole: the migration, then the set check, then the     *)
(* requests, until it dies and is started again.  Composes Migration,      *)
(* Catalog and ImageCache, which share the process they live in.           *)
(***************************************************************************)
EXTENDS Migration, ImageCache

process == <<vars, catalog, cache>>

StartupInit == Init /\ CatalogInit /\ CacheInit

(* The startup handler migrates and looks for runs to resume; the event    *)
(* loop does nothing else meanwhile.                                       *)
Migrate == (Start \/ Booting) /\ boot' # "up" /\ UNCHANGED <<catalog, cache>>

(* Its last statement schedules the set check.                             *)
BecomeUp == Detect /\ ScheduleCheck /\ UNCHANGED cache

Ingest == boot = "up" /\ CatalogNext /\ UNCHANGED <<vars, cache>>

Store == boot = "up" /\ CacheNext /\ UNCHANGED <<vars, catalog>>

Die == Crash /\ Kill /\ KillCopies

StartupNext == Migrate \/ BecomeUp \/ Ingest \/ Store \/ Die

StartupSpec == StartupInit /\ [][StartupNext]_process

(* The process runs its own code, and each single GET comes to an end;     *)
(* nobody has to ask it anything, publish anything or kill it.             *)
FairStartup ==
  /\ StartupSpec
  /\ WF_process(Migrate)
  /\ WF_process(BecomeUp)
  /\ WF_process(boot = "up" /\ Checking /\ UNCHANGED <<vars, cache>>)

(* External: the publisher does not name a next page for ever.             *)
ListingsEnd ==
  SF_process(boot = "up" /\ EndOfPages /\ UNCHANGED <<vars, cache>>)

PoliteSpec == FairStartup /\ ListingsEnd

-----------------------------------------------------------------------------
(* docs/canonical/architecture.md: "Network failures in startup set-check  *)
(* must not block app boot."  Whichever downloads and ingests fail, and    *)
(* wherever the migration is refused, a start comes to an end if listings  *)
(* do: the process serves, or its start failed, or it died.                *)
BootEnds == boot = "schema" ~> loop = "serving" \/ boot \in {"failed", "down"}

(* docs/canonical/architecture.md: "Startup set delta check (best-effort,  *)
(* non-blocking)".  A process that has started comes to serve, whatever    *)
(* the publisher answers the check (startup_set_delta_check).              *)
CheckNeverBlocks == boot = "up" ~> loop = "serving" \/ boot = "down"

=============================================================================
