---------------------------- MODULE BrowserQuota ----------------------------
(***************************************************************************)
(* The daily quota of browser checks of a workspace (run_browser_check's   *)
(* _pre_run_hook in workers/browser_checks.py, called by run_guard.py      *)
(* before the run is claimed): a counter and a receipt for each run, in    *)
(* Redis, written by a script or, when the script raises, by single        *)
(* commands.  A run's message may be delivered again, and again while      *)
(* another worker is still at it.  The reaper is RunLifecycle's.           *)
(***************************************************************************)
EXTENDS Naturals, FiniteSets

CONSTANTS
  Runs,          \* browser runs of the workspace on one day
  Workers,       \* workers that execute a message
  Limit,         \* max_browser_checks_per_day
  MaxFaults      \* bound on the deaths of workers and the commands that raise

VARIABLES
  charged,       \* the counter
  receipt,       \* runs with a receipt
  status,        \* status of each run
  hook,          \* each worker: the run of its message, and where it is
  faults,
  fetched,       \* history: runs that were claimed, and so fetched
  granted,       \* history: runs that were counted within the limit
  troubled       \* history: runs of which two messages were in the hook at once, or whose
                 \* worker died or did not hear of a command that was carried out

browserVars == <<charged, receipt, status, hook, faults, fetched, granted, troubled>>

Idle == [at |-> "idle"]

Busy == [at : {"script", "fallback", "absent", "counted", "countedOver", "over", "undone", "refused",
               "passed"}, run : Runs]

TypeOK ==
  /\ charged \in Nat /\ faults \in 0..MaxFaults
  /\ receipt \subseteq Runs /\ fetched \subseteq Runs /\ granted \subseteq Runs /\ troubled \subseteq Runs
  /\ status \in [Runs -> {"queued", "running", "failed"}]
  /\ hook \in [Workers -> Busy \cup {Idle}]

Init ==
  /\ charged = 0 /\ receipt = {} /\ faults = 0
  /\ fetched = {} /\ granted = {} /\ troubled = {}
  /\ status = [r \in Runs |-> "queued"]
  /\ hook = [w \in Workers |-> Idle]

At(w, step) == hook[w].at = step

Goes(w, step) == hook' = [hook EXCEPT ![w].at = step]

Ends(w) == hook' = [hook EXCEPT ![w] = Idle]

-----------------------------------------------------------------------------
(* The reservation.                                                        *)

\* A message is delivered, for the first time or again: the gate of run_guard.py lets it
\* through while the run has not started.
Receive(w, r) ==
  /\ At(w, "idle") /\ status[r] = "queued"
  /\ hook' = [hook EXCEPT ![w] = [at |-> "script", run |-> r]]
  /\ troubled' = IF \E v \in Workers : ~At(v, "idle") /\ hook[v].run = r
                 THEN troubled \cup {r} ELSE troubled
  /\ UNCHANGED <<charged, receipt, status, faults, fetched, granted>>

Beyond(n) == n > Limit

\* INCR.
Count(r) ==
  /\ charged' = charged + 1
  /\ granted' = IF Beyond(charged + 1) THEN granted ELSE granted \cup {r}

\* EXISTS, SET and INCR in one.
Script(r) ==
  IF r \in receipt THEN UNCHANGED <<charged, receipt, granted>>
  ELSE receipt' = receipt \cup {r} /\ Count(r)

\* A run with a receipt goes on, whatever came of its reservation.
Reserve(w) ==
  LET r == hook[w].run IN
  /\ At(w, "script")
  /\ Script(r)
  /\ Goes(w, IF r \notin receipt /\ Beyond(charged + 1) THEN "over" ELSE "passed")
  /\ UNCHANGED <<status, faults, fetched, troubled>>

Fault == faults < MaxFaults /\ faults' = faults + 1

Lost(r) == troubled' = troubled \cup {r}

\* The script raises: it did not run, or its reply was lost.
ScriptRaises(w) ==
  LET r == hook[w].run IN
  /\ At(w, "script")
  /\ Fault
  /\ \/ UNCHANGED <<charged, receipt, granted, troubled>>
     \/ Script(r) /\ Lost(r)
  /\ Goes(w, "fallback")
  /\ UNCHANGED <<status, fetched>>

FallbackExists(w) ==
  /\ At(w, "fallback")
  /\ Goes(w, IF hook[w].run \in receipt THEN "passed" ELSE "absent")
  /\ UNCHANGED <<charged, receipt, status, faults, fetched, granted, troubled>>

FallbackIncr(w) ==
  /\ At(w, "absent")
  /\ Count(hook[w].run)
  /\ Goes(w, IF Beyond(charged + 1) THEN "countedOver" ELSE "counted")
  /\ UNCHANGED <<receipt, status, faults, fetched, troubled>>

FallbackSet(w) ==
  /\ At(w, "counted") \/ At(w, "countedOver")
  /\ receipt' = receipt \cup {hook[w].run}
  /\ Goes(w, IF At(w, "counted") THEN "passed" ELSE "over")
  /\ UNCHANGED <<charged, status, faults, fetched, granted, troubled>>

\* A command of the fallback raises, carried out or not.  The exception leaves the hook:
\* the run stays queued, and Dramatiq delivers its message again.
FallbackRaises(w) ==
  LET r == hook[w].run IN
  /\ \/ /\ At(w, "fallback") \/ At(w, "absent") \/ At(w, "counted") \/ At(w, "countedOver")
        /\ UNCHANGED <<charged, receipt, granted, troubled>>
     \/ At(w, "absent") /\ Count(r) /\ Lost(r) /\ UNCHANGED receipt
     \/ /\ At(w, "counted") \/ At(w, "countedOver")
        /\ receipt' = receipt \cup {r} /\ Lost(r) /\ UNCHANGED <<charged, granted>>
  /\ Fault
  /\ Ends(w)
  /\ UNCHANGED <<status, fetched>>

-----------------------------------------------------------------------------
(* Beyond the limit.                                                       *)

\* Faulty variant of GivenBack: the counter starts again.
GivenBackAll(n) == 0

GivenBack(n) == n - 1

\* The reservation is given back: DECR ...
Undo(w) ==
  /\ At(w, "over")
  /\ charged' = GivenBack(charged)
  /\ Goes(w, "undone")
  /\ UNCHANGED <<receipt, status, faults, fetched, granted, troubled>>

\* ... and DEL.
Forget(w) ==
  /\ At(w, "undone")
  /\ receipt' = receipt \ {hook[w].run}
  /\ Goes(w, "refused")
  /\ UNCHANGED <<charged, status, faults, fetched, granted, troubled>>

\* Either may raise, carried out or not; the run is refused all the same.
UndoRaises(w) ==
  LET r == hook[w].run IN
  /\ \/ (At(w, "over") \/ At(w, "undone")) /\ UNCHANGED <<charged, receipt, troubled>>
     \/ At(w, "over") /\ charged' = GivenBack(charged) /\ Lost(r) /\ UNCHANGED receipt
     \/ At(w, "undone") /\ receipt' = receipt \ {r} /\ Lost(r) /\ UNCHANGED charged
  /\ Fault
  /\ Goes(w, "refused")
  /\ UNCHANGED <<status, fetched, granted>>

\* FAILED is written without a fence, over a claim of another worker too.
Refuse(w) ==
  /\ At(w, "refused")
  /\ status' = [status EXCEPT ![hook[w].run] = "failed"]
  /\ Ends(w)
  /\ UNCHANGED <<charged, receipt, faults, fetched, granted, troubled>>

-----------------------------------------------------------------------------

\* The conditional claim after the hook.
Claim(w) ==
  LET r == hook[w].run IN
  /\ At(w, "passed")
  /\ IF status[r] = "queued"
     THEN status' = [status EXCEPT ![r] = "running"] /\ fetched' = fetched \cup {r}
     ELSE UNCHANGED <<status, fetched>>
  /\ Ends(w)
  /\ UNCHANGED <<charged, receipt, faults, granted, troubled>>

\* The worker dies, or the database does in the commit.
Die(w) ==
  /\ ~At(w, "idle")
  /\ Fault /\ Lost(hook[w].run)
  /\ Ends(w)
  /\ UNCHANGED <<charged, receipt, status, fetched, granted>>

Next ==
  \E w \in Workers :
    \/ \E r \in Runs : Receive(w, r)
    \/ Reserve(w) \/ ScriptRaises(w)
    \/ FallbackExists(w) \/ FallbackIncr(w) \/ FallbackSet(w) \/ FallbackRaises(w)
    \/ Undo(w) \/ Forget(w) \/ UndoRaises(w) \/ Refuse(w) \/ Claim(w) \/ Die(w)

Spec == Init /\ [][Next]_browserVars

-----------------------------------------------------------------------------
(* Correctness.                                                            *)

\* No more runs of a day are counted within the limit than the plan allows, and a run
\* that was not is fetched only if two of its messages met in the hook, its worker died,
\* or the reply of a command that was carried out did not come.
QuotaKept == Cardinality(granted) <= Limit /\ fetched \ granted \subseteq troubled

=============================================================================
