---------------------------- MODULE FailureAlerts ----------------------------
(***************************************************************************)
(* The count of consecutive failures of one monitor and the alerts it      *)
(* leads to (services/failure_notify.py).  A worker that has ended a run   *)
(* and a reaper that has failed one each load the monitor, compute the new *)
(* count in Python and write it back, with an outbox row per channel under *)
(* a key made of the monitor and the count.                                *)
(***************************************************************************)
EXTENDS Naturals

CONSTANTS
  Recorders,     \* processes that record outcomes
  Threshold,     \* consecutive_failure_notify_threshold
  Receivers,     \* enabled channels of the workspace
  MaxFailures    \* bound on failures in a row

VARIABLES
  failures,      \* consecutive_failures, committed
  alerts,        \* keys of the alert rows: a count and a channel
  rec,           \* each recorder: its outcome, the count it loaded, what it looked up
  inRow,         \* history: failed runs since the last one that succeeded
  crossed        \* history: two recorders were at work at once, or one died

failureVars == <<failures, alerts, rec, inRow, crossed>>

NoRec == [step |-> "none", ok |-> FALSE, n |-> 0, missing |-> {}]

TypeOK ==
  /\ failures \in 0..MaxFailures /\ inRow \in 0..MaxFailures
  /\ alerts \subseteq (1..MaxFailures) \X Receivers
  /\ rec \in [Recorders -> [step : {"none", "loaded", "write"}, ok : BOOLEAN,
                            n : 0..MaxFailures, missing : SUBSET Receivers]]
  /\ crossed \in BOOLEAN

Init ==
  /\ failures = 0 /\ alerts = {} /\ inRow = 0 /\ crossed = FALSE
  /\ rec = [p \in Recorders |-> NoRec]

Goto(p, r) == rec' = [rec EXCEPT ![p] = r]

-----------------------------------------------------------------------------

\* A run has ended, in a commit of its own; its recorder loads the monitor.
RunEnds(p) ==
  /\ rec[p].step = "none"
  /\ inRow < MaxFailures /\ failures < MaxFailures
  /\ \E ok \in BOOLEAN :
       /\ inRow' = IF ok THEN 0 ELSE inRow + 1
       /\ Goto(p, [NoRec EXCEPT !.step = "loaded", !.ok = ok, !.n = failures])
  /\ crossed' = (crossed \/ \E q \in Recorders : rec[q].step # "none")
  /\ UNCHANGED <<failures, alerts>>

\* Faulty variant of AtThreshold: exactly at the threshold.
AtThresholdOnly(n) == n = Threshold

\* ">= (not exact ==)".
AtThreshold(n) == n >= Threshold

NewCount(r) == IF r.ok THEN 0 ELSE r.n + 1

\* At the threshold the keys of the alerts are looked up.
Compute(p) ==
  /\ rec[p].step = "loaded"
  /\ LET n == NewCount(rec[p])
     IN  Goto(p, [rec[p] EXCEPT !.step = "write",
                    !.missing = IF ~rec[p].ok /\ AtThreshold(n)
                                THEN {h \in Receivers : <<n, h>> \notin alerts} ELSE {}])
  /\ UNCHANGED <<failures, alerts, inRow, crossed>>

\* Flush and commit: the count, if it differs from the one that was loaded, and
\* the alerts; the unique key refuses both if another recorder was faster.
Write(p) ==
  /\ rec[p].step = "write"
  /\ LET r == rec[p]
         n == NewCount(r)
         new == {<<n, h>> : h \in r.missing}
     IN  IF new \cap alerts = {}
         THEN failures' = (IF n # r.n THEN n ELSE failures) /\ alerts' = alerts \cup new
         ELSE UNCHANGED <<failures, alerts>>
  /\ Goto(p, NoRec)
  /\ UNCHANGED <<inRow, crossed>>

\* The process dies, or an error of the database ends its transaction.
RecorderDies(p) ==
  /\ rec[p].step # "none"
  /\ Goto(p, NoRec)
  /\ crossed' = TRUE
  /\ UNCHANGED <<failures, alerts, inRow>>

Next == \E p \in Recorders : RunEnds(p) \/ Compute(p) \/ Write(p) \/ RecorderDies(p)

Spec == Init /\ [][Next]_failureVars

-----------------------------------------------------------------------------
(* Correctness.                                                            *)

\* "a count that jumps past the threshold ... still fires": whichever recorder
\* wrote the count, and whatever was lost before, every channel has its row.
CountAlerted == failures >= Threshold => {failures} \X Receivers \subseteq alerts

\* "Monitor failed n times in a row": an alert is new only after n failures, as
\* long as outcomes are recorded one after the other.
NoFalseAlarm ==
  [][\A k \in alerts' \ alerts : crossed \/ inRow >= k[1]]_failureVars

-----------------------------------------------------------------------------
(* What does not hold.                                                     *)

\* "Notifications fire after N consecutive check failures": also in the second
\* outage, whose keys are those of the first.
OutageAlerted ==
  [][failures' >= Threshold /\ failures < Threshold => alerts' # alerts]_failureVars

=============================================================================
