---------------------------- MODULE SnapshotStore ----------------------------
(***************************************************************************)
(* The snapshots of one monitor: rows in PostgreSQL that name objects in   *)
(* the object store, which no transaction covers.  A check stores objects, *)
(* then commits the rows (services/pipeline.py, services/storage.py); the  *)
(* retention job (services/retention.py) and delete_monitor                *)
(* (routers/monitors.py) delete objects, then commit the deletion of the   *)
(* rows.  Each may die in between; a change event in the inbox shows the   *)
(* texts of its two snapshots.                                             *)
(***************************************************************************)
EXTENDS Naturals, FiniteSets

CONSTANTS
  Runs,          \* 1..n: the checks of the monitor, in the order they start
  MaxDeaths      \* bound on processes that die between objects and rows

VARIABLES
  row,           \* committed snapshot of each run: the keys it names, or NoRow
  runRow,        \* run rows that are SUCCEEDED
  objects,       \* objects in the store
  event,         \* committed change event of each run: its previous snapshot,
                 \* 0 for none, or NoEvent
  check,         \* the check under way: its run, step, keys, baseline
  oldSnap,       \* snapshots past snapshot_retention_days
  oldRun,        \* runs past run_retention_days
  purge,         \* the retention job: its step, the snapshots it purges, those done
  removal,       \* delete_monitor: its step and the snapshots it loaded
  deaths,
  torn           \* history: a purge died since the last pass that completed

rows == <<row, runRow, event>>
clock == <<oldSnap, oldRun>>
vars == <<rows, objects, check, clock, purge, removal, deaths, torn>>

NoRow == {"none"}
NoEvent == 99
Keys == {"text"}   \* stands for raw_object_key too, which is handled alike
NoCheck == [run |-> 0, step |-> "none", keys |-> {}, prev |-> 0, changed |-> FALSE]
NoPurge == [step |-> "idle", old |-> {}, left |-> {}]
NoRemoval == [step |-> "none", left |-> {}]

TypeOK ==
  /\ row \in [Runs -> (SUBSET Keys) \cup {NoRow}]
  /\ runRow \subseteq Runs /\ oldSnap \subseteq Runs /\ oldRun \subseteq oldSnap
  /\ objects \subseteq Runs \X (Keys \cup {"shot"})
  /\ event \in [Runs -> {0, NoEvent} \cup Runs]
  /\ check \in [run : {0} \cup Runs, step : {"none", "compare", "commit"},
                keys : SUBSET Keys, prev : {0} \cup Runs, changed : BOOLEAN]
  /\ purge \in [step : {"idle", "refs", "objects"}, old : SUBSET Runs, left : SUBSET Runs]
  /\ removal \in [step : {"none", "objects", "done"}, left : SUBSET Runs]
  /\ deaths \in 0..MaxDeaths /\ torn \in BOOLEAN

Init ==
  /\ row = [r \in Runs |-> NoRow] /\ runRow = {} /\ objects = {}
  /\ event = [r \in Runs |-> NoEvent]
  /\ check = NoCheck
  /\ oldSnap = {} /\ oldRun = {}
  /\ purge = NoPurge /\ removal = NoRemoval
  /\ deaths = 0 /\ torn = FALSE

Rows == {r \in Runs : row[r] # NoRow}
Events == {r \in Runs : event[r] # NoEvent}

-----------------------------------------------------------------------------
(* The check.                                                              *)

\* _extract_and_store_snapshot: put_bytes of the page and of its text, each of
\* which may fail (StorageError: the row names no such key); a screenshot is
\* stored under a key made of the run's name (here, with every stored page).
Store ==
  /\ check.step = "none"
  /\ removal.step # "done"
  /\ \E r \in Runs, keys \in SUBSET Keys :
       /\ \A q \in Runs : q < r <=> q <= check.run
       /\ check' = [run |-> r, step |-> "compare", keys |-> keys, prev |-> 0, changed |-> FALSE]
       /\ objects' = objects \cup {<<r, k>> : k \in keys}
                     \cup (IF keys # {} THEN {<<r, "shot">>} ELSE {})
  /\ UNCHANGED <<rows, clock, purge, removal, deaths, torn>>

Newest(S) == CHOOSE r \in S : \A q \in S : q <= r

\* _detect_change: against the newest successful run, whose snapshot may have
\* been purged; with no such run this one is the baseline.
Compare ==
  /\ check.step = "compare"
  /\ IF runRow = {}
     THEN check' = [check EXCEPT !.step = "commit"]
     ELSE \E changed \in BOOLEAN :
            check' = [check EXCEPT !.step = "commit", !.changed = changed,
                                   !.prev = IF Newest(runRow) \in Rows THEN Newest(runRow) ELSE 0]
  /\ UNCHANGED <<rows, objects, clock, purge, removal, deaths, torn>>

\* One commit for snapshot, run and change event.  It fails, and the check with
\* it, if the monitor or the previous snapshot has gone (foreign keys).
CommitCheck ==
  /\ check.step = "commit"
  /\ LET c == check
         intact == removal.step # "done" /\ (c.changed /\ c.prev # 0 => c.prev \in Rows)
     IN  IF intact
         THEN /\ row' = [row EXCEPT ![c.run] = c.keys]
              /\ runRow' = runRow \cup {c.run}
              /\ event' = IF c.changed THEN [event EXCEPT ![c.run] = c.prev] ELSE event
         ELSE UNCHANGED rows
  /\ check' = [NoCheck EXCEPT !.run = check.run]
  /\ UNCHANGED <<objects, clock, purge, removal, deaths, torn>>

\* The worker dies after the objects were stored: they stay, without a row.
CheckDies ==
  /\ check.step \in {"compare", "commit"}
  /\ deaths < MaxDeaths
  /\ deaths' = deaths + 1
  /\ check' = [NoCheck EXCEPT !.run = check.run]
  /\ UNCHANGED <<rows, objects, clock, purge, removal, torn>>

-----------------------------------------------------------------------------
(* purge_expired_snapshots.                                                *)

\* Time passes: rows get old in the order of their runs.
Age ==
  /\ \/ \E r \in Rows \ oldSnap :
          /\ \A q \in Rows : q < r => q \in oldSnap
          /\ oldSnap' = oldSnap \cup {r} /\ UNCHANGED oldRun
     \/ \E r \in oldSnap \ oldRun :
          /\ \A q \in oldSnap : q < r => q \in oldRun
          /\ oldRun' = oldRun \cup {r} /\ UNCHANGED oldSnap
  /\ UNCHANGED <<rows, objects, check, purge, removal, deaths, torn>>

PurgeRead ==
  /\ purge.step = "idle"
  /\ purge' = [step |-> "refs", old |-> oldSnap \cap Rows, left |-> {}]
  /\ UNCHANGED <<rows, objects, check, clock, removal, deaths, torn>>

\* Faulty variant of Purgeable: as before the events were kept.
PurgeableAll(old) == old

\* Those a change event shows as its new snapshot are kept.
Purgeable(old) == old \ Events

PurgeRefs ==
  /\ purge.step = "refs"
  /\ purge' = [purge EXCEPT !.step = "objects", !.old = Purgeable(purge.old),
                            !.left = Purgeable(purge.old)]
  /\ UNCHANGED <<rows, objects, check, clock, removal, deaths, torn>>

\* What a snapshot row leads to: its keys, and the screenshot of its run.
Objects(r) ==
  {<<r, k>> : k \in row[r] \cap Keys} \cup (IF r \in runRow THEN {<<r, "shot">>} ELSE {})

PurgeObjects ==
  /\ purge.step = "objects"
  /\ \E r \in purge.left :
       /\ objects' = objects \ Objects(r)
       /\ purge' = [purge EXCEPT !.left = @ \ {r}]
  /\ UNCHANGED <<rows, check, clock, removal, deaths, torn>>

\* Faulty variant of PurgeCommit: a snapshot that an event names as its previous
\* one is left where it is.
PurgeSkipsPrevious ==
  /\ purge.step = "objects" /\ purge.left = {}
  /\ row' = [r \in Runs |-> IF r \in purge.old /\ \A e \in Runs : event[e] # r
                           THEN NoRow ELSE row[r]]
  /\ runRow' = runRow \ oldRun
  /\ purge' = NoPurge
  /\ torn' = FALSE
  /\ UNCHANGED <<event, objects, check, clock, removal, deaths>>

\* One commit: the snapshots, the references to them as a previous snapshot
\* (also of events committed since, by ON DELETE SET NULL), and the old runs,
\* whose events stay.
PurgeCommit ==
  /\ purge.step = "objects" /\ purge.left = {}
  /\ row' = [r \in Runs |-> IF r \in purge.old THEN NoRow ELSE row[r]]
  /\ event' = [r \in Runs |-> IF event[r] \in purge.old THEN 0 ELSE event[r]]
  /\ runRow' = runRow \ oldRun
  /\ purge' = NoPurge
  /\ torn' = FALSE
  /\ UNCHANGED <<objects, check, clock, removal, deaths>>

PurgeDies ==
  /\ purge.step = "objects"
  /\ deaths < MaxDeaths
  /\ deaths' = deaths + 1
  /\ purge' = NoPurge
  /\ torn' = TRUE
  /\ UNCHANGED <<rows, objects, check, clock, removal>>

-----------------------------------------------------------------------------
(* delete_monitor.                                                         *)

RemovalRead ==
  /\ removal.step = "none"
  /\ removal' = [step |-> "objects", left |-> Rows]
  /\ UNCHANGED <<rows, objects, check, clock, purge, deaths, torn>>

RemovalObjects ==
  /\ removal.step = "objects"
  /\ \E r \in removal.left :
       /\ objects' = objects \ {<<r, k>> : k \in row[r]}
       /\ removal' = [removal EXCEPT !.left = @ \ {r}]
  /\ UNCHANGED <<rows, check, clock, purge, deaths, torn>>

\* The bulk deletes and their commit.
RemovalCommit ==
  /\ removal.step = "objects" /\ removal.left = {}
  /\ row' = [r \in Runs |-> NoRow] /\ runRow' = {}
  /\ event' = [r \in Runs |-> NoEvent]
  /\ removal' = [removal EXCEPT !.step = "done"]
  /\ UNCHANGED <<objects, check, clock, purge, deaths, torn>>

-----------------------------------------------------------------------------

Next ==
  \/ Store \/ Compare \/ CommitCheck \/ CheckDies
  \/ Age \/ PurgeRead \/ PurgeRefs \/ PurgeObjects \/ PurgeCommit \/ PurgeDies
  \/ RemovalRead \/ RemovalObjects \/ RemovalCommit

Spec == Init /\ [][Next]_vars

-----------------------------------------------------------------------------
(* Correctness.                                                            *)

Stored(r) == \A k \in row[r] \cap Keys : <<r, k>> \in objects

\* The text an event shows as new is never taken from it by the retention job,
\* which may run beside checks that refer to older snapshots.
InboxReadable == removal.step = "none" => \A e \in Events : e \in Rows /\ Stored(e)

\* A row that names an object which is gone is one a purge is at, or was at when
\* it died; the next pass that completes removes it.
PurgeHeals ==
  removal.step = "none" /\ purge.step # "objects" /\ ~torn => \A r \in Rows : Stored(r)

\* What a reader of the rows finds in the store.
ObjectsKept == InboxReadable /\ PurgeHeals

=============================================================================
