---------------------------- MODULE MCMonitoring ----------------------------
(***************************************************************************)
(* Five parts of monitoring that share no state, checked side by side: the *)
(* schedule of a monitor, the alerts of its changes and of its failures,   *)
(* the digest, and the pictures of a run.  The initial state picks one,    *)
(* and the others stay where they are.                                     *)
(***************************************************************************)
EXTENDS MonitorSchedule

CONSTANTS
  Changes, Channels, Enrichers, Cooldown, FlapWindow, FlapMax, LastTime, MaxMarks, MaxTries,  \* ChangeAlerts
  Recorders, Threshold, Receivers, MaxFailures,                                              \* FailureAlerts
  Jobs, Inboxes, DayLength, HourLength, PollGap, Shown, Days, MaxNews,                       \* Digest
  Capturers, MaxFaults, MaxShots                                                             \* Screenshots

ASSUME AlertsAssumption ==
  /\ IsFiniteSet(Changes) /\ Changes \subseteq Nat
  /\ Cooldown \in Nat /\ LastTime \in Nat /\ MaxMarks \in Nat /\ MaxTries \in Nat

ASSUME FailuresAssumption == MaxFailures \in Nat /\ Threshold \in Nat \ {0}

ASSUME DigestAssumption ==
  /\ DayLength \in Nat \ {0} /\ HourLength \in 1..DayLength /\ PollGap \in 1..HourLength
  /\ Shown \in Nat \ {0} /\ Days \in Nat /\ MaxNews \in Nat

ASSUME PicturesAssumption == MaxFaults \in Nat /\ MaxShots \in Nat

VARIABLES
  part,
  time, async, inbox, rows, message, job, tries, marks, refused, queued,
  failures, alerts, rec, inRow, crossed,
  clock, news, digests, pass, polled, steady,
  mode, shots, run, picture, asks, shooter, payload, faults, taken, stored, blinded, switched

Alert == INSTANCE ChangeAlerts
Fault == INSTANCE FailureAlerts
Daily == INSTANCE Digest
Shots == INSTANCE Screenshots

alert == <<time, async, inbox, rows, message, job, tries, marks, refused, queued>>
fault == <<failures, alerts, rec, inRow, crossed>>
daily == <<clock, news, digests, pass, polled, steady>>
shot  == <<mode, shots, run, picture, asks, shooter, payload, faults, taken, stored, blinded, switched>>
allVars == <<part, vars, alert, fault, daily, shot>>

AllInit ==
  /\ part \in {"schedule", "alerts", "failures", "digest", "pictures"}
  /\ Init /\ Alert!Init /\ Fault!Init /\ Daily!Init /\ Shots!Init
  /\ part = "schedule" \/ (asked = "no" /\ \A i \in Intervals : base <= i)
  /\ part = "alerts" \/ async
  /\ part = "pictures" \/ mode = "visual"

AllNext ==
  /\ UNCHANGED part
  /\ \/ part = "schedule" /\ Next /\ UNCHANGED <<alert, fault, daily, shot>>
     \/ part = "alerts"   /\ Alert!Next /\ UNCHANGED <<vars, fault, daily, shot>>
     \/ part = "failures" /\ Fault!Next /\ UNCHANGED <<vars, alert, daily, shot>>
     \/ part = "digest"   /\ Daily!Next /\ UNCHANGED <<vars, alert, fault, shot>>
     \/ part = "pictures" /\ Shots!Next /\ UNCHANGED <<vars, alert, fault, daily>>

AllSpec == AllInit /\ [][AllNext]_allVars

-----------------------------------------------------------------------------

\* Every variable of the part at work keeps its type.
TypesOK ==
  CASE part = "schedule" -> TypeOK
    [] part = "alerts"   -> Alert!TypeOK
    [] part = "failures" -> Fault!TypeOK
    [] part = "digest"   -> Daily!TypeOK
    [] part = "pictures" -> Shots!TypeOK

\* ai_enrich.py, pipeline.py: every enriched signal is announced or refused.
EnrichedIsDecided == part = "alerts" => Alert!EnrichedIsDecided

\* pipeline.py, conditional.py: one row per change and channel, a cool-down apart.
AlertsApart == part = "alerts" => Alert!AlertsApart

\* failure_notify.py: a count past the threshold has its alert.
CountAlerted == part = "failures" => Fault!CountAlerted

\* digest.py: one digest per period and channel, and a change is in one unless it was made
\* or committed around a pass, or a hundred newer ones take its place.
DigestComplete == part = "digest" => Daily!DigestComplete

\* browser_checks.py: the capture that was hashed is not overwritten, and what a
\* capture attaches to a notification exists.
PictureKept == part = "pictures" => Shots!PictureKept

=============================================================================
