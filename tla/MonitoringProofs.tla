-------------------------- MODULE MonitoringProofs --------------------------
(***************************************************************************)
(* Proofs about five parts of monitoring, for any values of the constants: *)
(* a failure count that is committed has been alerted and an alert tells   *)
(* the truth; the capture that was hashed is kept; an enriched signal is   *)
(* decided once, a cool-down apart; no change falls between two digests;   *)
(* and every variable keeps its type.  What the schedule promises is proved*)
(* in MonitorScheduleProofs.                                               *)
(***************************************************************************)
EXTENDS MCMonitoring, MonitorScheduleProofs, Sequences, SequenceTheorems

-----------------------------------------------------------------------------
(* Failures: the inductive invariants.                                     *)

RecorderStates ==
  [step : {"none", "loaded", "write"}, ok : BOOLEAN, n : 0..MaxFailures, missing : SUBSET Receivers]

\* A recorder loaded a count that a failure may still raise, and looks up the keys of
\* a failure at the threshold only; the keys it did not miss are there.
RecorderSound(r, keys) ==
  /\ r.step # "none" => r.n < MaxFailures
  /\ r.ok => r.missing = {}
  /\ r.step = "write" /\ ~r.ok /\ Fault!NewCount(r) >= Threshold =>
       \A h \in Receivers \ r.missing : <<Fault!NewCount(r), h>> \in keys

FaultInv == Fault!TypeOK /\ Fault!CountAlerted /\ \A p \in Recorders : RecorderSound(rec[p], alerts)

\* As long as nobody crosses: one recorder at a time, with the committed count loaded,
\* and no count, committed or about to be, above the failures in a row.
InOrder ==
  ~crossed =>
    /\ (\A p \in Recorders : rec[p].step = "none") => failures <= inRow
    /\ \A p \in Recorders : rec[p].step # "none" =>
         /\ \A q \in Recorders \ {p} : rec[q].step = "none"
         /\ rec[p].n = failures
         /\ Fault!NewCount(rec[p]) <= inRow

-----------------------------------------------------------------------------
(* Failures: every count is alerted.                                       *)

\* The count a recorder would write is a number, and one that the bound allows.
LEMMA CountType ==
  ASSUME NEW r \in RecorderStates
  PROVE  /\ Fault!NewCount(r) \in Nat
         /\ r.n < MaxFailures => Fault!NewCount(r) \in 0..MaxFailures
         /\ ~r.ok => Fault!NewCount(r) = r.n + 1
         /\ r.ok => Fault!NewCount(r) = 0
  BY FailuresAssumption DEF Fault!NewCount, RecorderStates

\* A recorder's step changes its own record only.
LEMMA OtherRecorders ==
  ASSUME rec \in [Recorders -> RecorderStates], NEW p \in Recorders, NEW r, Fault!Goto(p, r)
  PROVE  rec'[p] = r /\ \A q \in Recorders \ {p} : rec'[q] = rec[q]
  BY DEF Fault!Goto

LEMMA FaultInit ==
  ASSUME Fault!Init
  PROVE  FaultInv
<1> USE FailuresAssumption
<1>1. Fault!TypeOK
  <2>1. Fault!NoRec \in RecorderStates
    BY DEF Fault!NoRec, RecorderStates
  <2>2. rec \in [Recorders -> RecorderStates]
    BY <2>1 DEF Fault!Init
  <2>3. failures \in 0..MaxFailures /\ inRow \in 0..MaxFailures /\ crossed \in BOOLEAN
    <3>1. 0 \in 0..MaxFailures /\ FALSE \in BOOLEAN
      OBVIOUS
    <3>2. failures = 0 /\ inRow = 0 /\ crossed = FALSE
      BY DEF Fault!Init
    <3> QED
      BY <3>1, <3>2
  <2>4. alerts = {}
    BY DEF Fault!Init
  <2> QED
    BY <2>2, <2>3, <2>4 DEF Fault!TypeOK, RecorderStates
<1>2. Fault!CountAlerted
  BY DEF Fault!Init, Fault!CountAlerted
<1>3. ASSUME NEW p \in Recorders PROVE RecorderSound(rec[p], alerts)
  BY DEF Fault!Init, RecorderSound, Fault!NoRec
<1> QED
  BY <1>1, <1>2, <1>3 DEF FaultInv

\* What a recorder knows of the keys stays true while keys are only added.
LEMMA KnowledgeStays ==
  ASSUME NEW p \in Recorders, RecorderSound(rec[p], alerts), rec'[p] = rec[p], alerts \subseteq alerts'
  PROVE  RecorderSound(rec'[p], alerts')
  BY DEF RecorderSound, Fault!NewCount

LEMMA FaultStep ==
  ASSUME FaultInv, [Fault!Next]_fault
  PROVE  FaultInv'
<1> USE FailuresAssumption DEF FaultInv
<1>0. rec \in [Recorders -> RecorderStates] /\ failures \in 0..MaxFailures /\ inRow \in 0..MaxFailures
      /\ alerts \subseteq (1..MaxFailures) \X Receivers /\ crossed \in BOOLEAN
  BY DEF Fault!TypeOK, RecorderStates
<1>1. ASSUME NEW p \in Recorders, Fault!RunEnds(p) PROVE FaultInv'
  <2>1. PICK ok \in BOOLEAN : Fault!Goto(p, [Fault!NoRec EXCEPT !.step = "loaded", !.ok = ok, !.n = failures])
                              /\ inRow' = IF ok THEN 0 ELSE inRow + 1
    BY <1>1 DEF Fault!RunEnds
  <2> DEFINE r == [Fault!NoRec EXCEPT !.step = "loaded", !.ok = ok, !.n = failures]
  <2>2. r \in RecorderStates /\ r.step = "loaded" /\ r.n = failures /\ r.missing = {}
    BY <1>0 DEF Fault!NoRec, RecorderStates
  <2>3. rec' \in [Recorders -> RecorderStates] /\ rec'[p] = r /\ \A q \in Recorders \ {p} : rec'[q] = rec[q]
    BY <1>0, <2>1, <2>2, OtherRecorders DEF Fault!Goto
  <2>4. UNCHANGED <<failures, alerts>> /\ failures < MaxFailures /\ inRow < MaxFailures
    BY <1>1 DEF Fault!RunEnds
  <2>5. Fault!TypeOK'
    <3>1. inRow' \in 0..MaxFailures
      BY <1>0, <2>1, <2>4
    <3>2. crossed' \in BOOLEAN
      BY <1>0, <1>1 DEF Fault!RunEnds
    <3> QED
      BY <1>0, <2>3, <2>4, <3>1, <3>2 DEF Fault!TypeOK, RecorderStates
  <2>6. Fault!CountAlerted'
    BY <2>4 DEF Fault!CountAlerted
  <2>7. ASSUME NEW q \in Recorders PROVE RecorderSound(rec'[q], alerts')
    <3>1. CASE q = p
      BY <2>2, <2>3, <2>4, <3>1 DEF RecorderSound
    <3>2. CASE q # p
      BY <2>3, <2>4, <3>2, KnowledgeStays
    <3> QED
      BY <3>1, <3>2
  <2> QED
    BY <2>5, <2>6, <2>7
<1>2. ASSUME NEW p \in Recorders, Fault!Compute(p) PROVE FaultInv'
  <2> DEFINE n == Fault!NewCount(rec[p])
             due == ~rec[p].ok /\ Fault!AtThreshold(n)
             r == [rec[p] EXCEPT !.step = "write",
                     !.missing = IF due THEN {h \in Receivers : <<n, h>> \notin alerts} ELSE {}]
  <2>1. Fault!Goto(p, r) /\ UNCHANGED <<failures, alerts, inRow, crossed>> /\ rec[p].step = "loaded"
    BY <1>2 DEF Fault!Compute
  <2>2. r \in RecorderStates /\ r.step = "write" /\ r.n = rec[p].n /\ r.ok = rec[p].ok
        /\ r.missing = IF due THEN {h \in Receivers : <<n, h>> \notin alerts} ELSE {}
    BY <1>0 DEF RecorderStates
  <2>3. rec' \in [Recorders -> RecorderStates] /\ rec'[p] = r /\ \A q \in Recorders \ {p} : rec'[q] = rec[q]
    BY <1>0, <2>1, <2>2, OtherRecorders DEF Fault!Goto
  <2>4. Fault!NewCount(r) = n
    BY <2>2 DEF Fault!NewCount
  <2>5. RecorderSound(r, alerts')
    <3>1. r.n < MaxFailures
      BY <2>1, <2>2 DEF RecorderSound
    <3>2. r.ok => r.missing = {}
      BY <2>2
    <3>3. ~r.ok /\ n >= Threshold => \A h \in Receivers \ r.missing : <<n, h>> \in alerts
      BY <2>2 DEF Fault!AtThreshold
    <3> HIDE DEF r, n
    <3> QED
      BY <2>1, <2>4, <3>1, <3>2, <3>3 DEF RecorderSound, Fault!NewCount
  <2>6. Fault!TypeOK'
    BY <1>0, <2>1, <2>3 DEF Fault!TypeOK, RecorderStates
  <2>7. Fault!CountAlerted'
    BY <2>1 DEF Fault!CountAlerted
  <2>8. ASSUME NEW q \in Recorders PROVE RecorderSound(rec'[q], alerts')
    <3>1. CASE q = p
      BY <2>3, <2>5, <3>1 DEF RecorderSound, Fault!NewCount
    <3>2. CASE q # p
      BY <2>1, <2>3, <3>2, KnowledgeStays
    <3> QED
      BY <3>1, <3>2
  <2> QED
    BY <2>6, <2>7, <2>8
<1>3. ASSUME NEW p \in Recorders, Fault!Write(p) PROVE FaultInv'
  <2> DEFINE n == Fault!NewCount(rec[p])
             new == {<<n, h>> : h \in rec[p].missing}
  <2>1. rec[p] \in RecorderStates /\ rec[p].step = "write" /\ RecorderSound(rec[p], alerts)
    BY <1>0, <1>3 DEF Fault!Write
  <2>2. n \in 0..MaxFailures /\ (rec[p].ok => n = 0) /\ (~rec[p].ok => n > 0)
    BY <2>1, CountType DEF RecorderSound, RecorderStates
  <2>3. rec' \in [Recorders -> RecorderStates] /\ rec'[p] = Fault!NoRec /\ \A q \in Recorders \ {p} : rec'[q] = rec[q]
    <3>1. Fault!Goto(p, Fault!NoRec) /\ Fault!NoRec \in RecorderStates
      BY <1>3 DEF Fault!Write, Fault!NoRec, RecorderStates
    <3> QED
      BY <1>0, <3>1, OtherRecorders DEF Fault!Goto
  <2>4. /\ alerts \subseteq alerts' /\ alerts' \subseteq alerts \cup new
        /\ failures' = failures \/ (failures' = n /\ alerts' = alerts \cup new)
        /\ UNCHANGED <<inRow, crossed>>
    BY <1>3 DEF Fault!Write
  <2>5. new \subseteq (1..MaxFailures) \X Receivers
    BY <2>1, <2>2 DEF RecorderSound, RecorderStates
  <2>6. Fault!TypeOK'
    BY <1>0, <2>2, <2>3, <2>4, <2>5 DEF Fault!TypeOK, RecorderStates
  <2>7. Fault!CountAlerted'
    <3>1. CASE failures' = failures
      BY <2>4, <3>1 DEF Fault!CountAlerted
    <3>2. CASE failures' = n /\ alerts' = alerts \cup new
      <4>1. ASSUME n >= Threshold, NEW h \in Receivers PROVE <<n, h>> \in alerts'
        BY <2>1, <2>2, <3>2, <4>1 DEF RecorderSound
      <4> QED
        BY <3>2, <4>1 DEF Fault!CountAlerted
    <3> QED
      BY <2>4, <3>1, <3>2
  <2>8. ASSUME NEW q \in Recorders PROVE RecorderSound(rec'[q], alerts')
    <3>1. CASE q = p
      BY <2>3, <3>1 DEF RecorderSound, Fault!NoRec
    <3>2. CASE q # p
      BY <2>3, <2>4, <3>2, KnowledgeStays
    <3> QED
      BY <3>1, <3>2
  <2> QED
    BY <2>6, <2>7, <2>8
<1>4. ASSUME NEW p \in Recorders, Fault!RecorderDies(p) PROVE FaultInv'
  <2>1. rec' \in [Recorders -> RecorderStates] /\ rec'[p] = Fault!NoRec /\ \A q \in Recorders \ {p} : rec'[q] = rec[q]
    <3>1. Fault!Goto(p, Fault!NoRec) /\ Fault!NoRec \in RecorderStates
      BY <1>4 DEF Fault!RecorderDies, Fault!NoRec, RecorderStates
    <3> QED
      BY <1>0, <3>1, OtherRecorders DEF Fault!Goto
  <2>2. UNCHANGED <<failures, alerts, inRow>> /\ crossed' = TRUE
    BY <1>4 DEF Fault!RecorderDies
  <2>3. Fault!TypeOK'
    BY <1>0, <2>1, <2>2 DEF Fault!TypeOK, RecorderStates
  <2>4. Fault!CountAlerted'
    BY <2>2 DEF Fault!CountAlerted
  <2>5. ASSUME NEW q \in Recorders PROVE RecorderSound(rec'[q], alerts')
    <3>1. CASE q = p
      BY <2>1, <3>1 DEF RecorderSound, Fault!NoRec
    <3>2. CASE q # p
      BY <2>1, <2>2, <3>2, KnowledgeStays
    <3> QED
      BY <3>1, <3>2
  <2> QED
    BY <2>3, <2>4, <2>5
<1>5. CASE UNCHANGED fault
  BY <1>5 DEF fault, Fault!TypeOK, Fault!CountAlerted, RecorderSound, Fault!NewCount
<1> QED
  BY <1>1, <1>2, <1>3, <1>4, <1>5 DEF Fault!Next

LEMMA FaultAlways == AllSpec => [](part = "failures" => FaultInv)
<1> DEFINE I == part = "failures" => FaultInv
<1>1. AllInit => I
  BY FaultInit DEF AllInit
<1>2. I /\ [AllNext]_allVars => I'
  <2> SUFFICES ASSUME I, [AllNext]_allVars, part' = "failures" PROVE FaultInv'
    OBVIOUS
  <2>1. part = "failures" /\ [Fault!Next]_fault
    BY DEF AllNext, allVars
  <2> QED  BY <2>1, FaultStep
<1> QED  BY <1>1, <1>2, PTL DEF AllSpec

\* failure_notify.py: a count that has reached the threshold, or jumped past it, has
\* its alert on every channel, for any number of recorders at once.
THEOREM EveryCountAlerted == AllSpec => []CountAlerted
<1>1. (part = "failures" => FaultInv) => CountAlerted
  BY DEF FaultInv, CountAlerted
<1> QED  BY <1>1, FaultAlways, PTL

-----------------------------------------------------------------------------
(* Failures: no false alarm.                                               *)

LEMMA InOrderInit == ASSUME Fault!Init PROVE InOrder
BY DEF Fault!Init, InOrder, Fault!NoRec

LEMMA InOrderStep ==
  ASSUME FaultInv, InOrder, [Fault!Next]_fault
  PROVE  InOrder'
<1>0. rec \in [Recorders -> RecorderStates] /\ failures \in 0..MaxFailures /\ inRow \in 0..MaxFailures
  BY DEF FaultInv, Fault!TypeOK, RecorderStates
<1>1. ASSUME NEW p \in Recorders, Fault!RunEnds(p), ~crossed' PROVE InOrder'
  <2>1. PICK ok \in BOOLEAN : Fault!Goto(p, [Fault!NoRec EXCEPT !.step = "loaded", !.ok = ok, !.n = failures])
                              /\ inRow' = IF ok THEN 0 ELSE inRow + 1
    BY <1>1 DEF Fault!RunEnds
  <2> DEFINE r == [Fault!NoRec EXCEPT !.step = "loaded", !.ok = ok, !.n = failures]
  <2>2. r.step = "loaded" /\ r.n = failures /\ r.ok = ok
    BY DEF Fault!NoRec
  <2>3. rec'[p] = r /\ \A q \in Recorders \ {p} : rec'[q] = rec[q]
    BY <1>0, <2>1, OtherRecorders
  <2>4. ~crossed /\ UNCHANGED failures /\ \A q \in Recorders : rec[q].step = "none"
    BY <1>1 DEF Fault!RunEnds
  <2>5. failures <= inRow
    BY <2>4 DEF InOrder
  <2>6. Fault!NewCount(r) <= inRow'
    BY <1>0, <2>1, <2>2, <2>5 DEF Fault!NewCount
  <2> HIDE DEF r
  <2> QED
    BY <2>2, <2>3, <2>4, <2>6 DEF InOrder, Fault!NewCount
<1>2. ASSUME NEW p \in Recorders, Fault!Compute(p), ~crossed' PROVE InOrder'
  <2>1. PICK m : Fault!Goto(p, [rec[p] EXCEPT !.step = "write", !.missing = m])
    BY <1>2 DEF Fault!Compute
  <2> DEFINE r == [rec[p] EXCEPT !.step = "write", !.missing = m]
  <2>2. rec'[p] = r /\ (\A q \in Recorders \ {p} : rec'[q] = rec[q])
        /\ r.step = "write" /\ r.n = rec[p].n /\ r.ok = rec[p].ok
    BY <1>0, <2>1, OtherRecorders DEF RecorderStates
  <2>3. UNCHANGED <<failures, inRow>> /\ ~crossed /\ rec[p].step = "loaded"
    BY <1>2 DEF Fault!Compute
  <2>4. Fault!NewCount(r) = Fault!NewCount(rec[p])
    BY <2>2 DEF Fault!NewCount
  <2> HIDE DEF r
  <2>5. (\A q \in Recorders \ {p} : rec[q].step = "none") /\ rec[p].n = failures
        /\ Fault!NewCount(rec[p]) <= inRow
    BY <2>3 DEF InOrder
  <2> QED
    BY <2>2, <2>3, <2>4, <2>5 DEF InOrder, Fault!NewCount
<1>3. ASSUME NEW p \in Recorders, Fault!Write(p), ~crossed' PROVE InOrder'
  <2>1. rec'[p] = Fault!NoRec /\ \A q \in Recorders \ {p} : rec'[q] = rec[q]
    <3>1. Fault!Goto(p, Fault!NoRec)
      BY <1>3 DEF Fault!Write
    <3> QED
      BY <1>0, <3>1, OtherRecorders
  <2>2. (\A q \in Recorders \ {p} : rec[q].step = "none") /\ rec[p].n = failures
        /\ Fault!NewCount(rec[p]) <= inRow
    BY <1>3 DEF InOrder, Fault!Write
  <2>3. failures' <= inRow
    <3>1. Fault!NewCount(rec[p]) = IF rec[p].ok THEN 0 ELSE failures + 1
      BY <2>2 DEF Fault!NewCount
    <3>2. rec[p].ok => rec[p].missing = {}
      BY DEF FaultInv, RecorderSound
    <3>3. \/ failures' = Fault!NewCount(rec[p])
          \/ failures' = failures /\ (Fault!NewCount(rec[p]) = failures \/ rec[p].missing # {})
      BY <1>3, <2>2 DEF Fault!Write
    <3> QED
      BY <1>0, <2>2, <3>1, <3>2, <3>3
  <2>4. inRow' = inRow
    BY <1>3 DEF Fault!Write
  <2> QED
    BY <2>1, <2>2, <2>3, <2>4 DEF InOrder, Fault!NoRec
<1>4. ASSUME NEW p \in Recorders, Fault!RecorderDies(p) PROVE crossed'
  BY <1>4 DEF Fault!RecorderDies
<1>5. ASSUME UNCHANGED fault PROVE InOrder'
  BY <1>5 DEF fault, InOrder, Fault!NewCount
<1>6. crossed' => InOrder'
  BY DEF InOrder
<1> QED
  BY <1>1, <1>2, <1>3, <1>4, <1>5, <1>6 DEF Fault!Next

\* failure_notify.py: while outcomes are recorded one after the other, an alert that
\* names n failures in a row follows at least n of them, for any outcomes and threshold.
THEOREM AlarmsAreTrue ==
  ASSUME Threshold \in Nat \ {0}
  PROVE  Fault!Spec => Fault!NoFalseAlarm
<1>1. Fault!Init => InOrder
  BY InOrderInit
<1>2. FaultInv /\ InOrder /\ [Fault!Next]_fault => InOrder'
  BY InOrderStep
<1>3. FaultInv /\ InOrder /\ [Fault!Next]_fault
        => [\A k \in alerts' \ alerts : crossed \/ inRow >= k[1]]_fault
  <2> SUFFICES ASSUME FaultInv, InOrder, Fault!Next, NEW k \in alerts' \ alerts, ~crossed
               PROVE  inRow >= k[1]
    OBVIOUS
  <2>1. PICK p \in Recorders : Fault!Write(p)
    BY DEF Fault!Next, Fault!RunEnds, Fault!Compute, Fault!RecorderDies
  <2>2. k[1] = Fault!NewCount(rec[p])
    BY <2>1 DEF Fault!Write
  <2>3. Fault!NewCount(rec[p]) <= inRow
    BY <2>1 DEF Fault!Write, InOrder
  <2>4. Fault!NewCount(rec[p]) \in Nat /\ inRow \in Nat
    BY CountType DEF FaultInv, Fault!TypeOK, RecorderStates
  <2> QED
    BY <2>2, <2>3, <2>4
<1>4. Fault!Init => FaultInv
  BY FaultInit
<1>5. FaultInv /\ [Fault!Next]_fault => FaultInv'
  BY FaultStep
<1> QED
  BY <1>1, <1>2, <1>3, <1>4, <1>5, PTL DEF Fault!Spec, Fault!NoFalseAlarm, fault, Fault!failureVars

-----------------------------------------------------------------------------
(* Pictures.                                                               *)

Working == {c \in Capturers : shooter[c] # Shots!NoShot}

\* Pictures are asked for and taken when the run has succeeded.
AskedAfter ==
  (\E k \in Shots!Kinds : asks[k] > 0) \/ Working # {} => run.at \in {"succeeded", "over"}

\* What a visual check has stored was stored for a visual monitor, which it still is; while
\* the store is seen for what it is, nobody sets out to take another picture.
StoredIsSeen ==
  /\ stored => run.mode = "visual" /\ run.at # "checking"
  /\ ~switched => mode = run.mode
  /\ stored /\ ~blinded /\ ~switched =>
       picture = "hashed" /\ \A c \in Capturers : shooter[c].step # "shoot"

\* There is a picture before rows are pointed at it.
AttachedLater ==
  /\ \A h \in Receivers : payload[h].attached => picture # "none"
  /\ \A c \in Capturers : shooter[c].step \in {"attach", "write"} => picture # "none"

ShotsInv == Shots!TypeOK /\ AskedAfter /\ StoredIsSeen /\ AttachedLater

Shooters ==
  {Shots!NoShot} \cup [step : {"shoot", "attach"}, kind : Shots!Kinds]
                 \cup [step : {"write"}, rows : SUBSET Receivers]

\* A worker's step sets what this worker is at, and no other.
LEMMA ShooterMoves ==
  ASSUME shooter \in [Capturers -> Shooters], NEW c \in Capturers, NEW s \in Shooters,
         shooter' = [shooter EXCEPT ![c] = s]
  PROVE  /\ shooter' \in [Capturers -> Shooters]
         /\ shooter'[c] = s
         /\ \A d \in Capturers \ {c} : shooter'[d] = shooter[d]
  BY DEF Shooters

\* A worker that has a step to take is working, and the run it works for has succeeded.
LEMMA ShooterAtWork ==
  ASSUME ShotsInv, NEW c \in Capturers, shooter[c].step # "idle"
  PROVE  run.at \in {"succeeded", "over"}
  BY DEF ShotsInv, AskedAfter, Working, Shots!NoShot

\* What a worker that is at a step has at hand.
LEMMA ShooterHas ==
  ASSUME NEW s \in Shooters
  PROVE  /\ s.step \in {"idle", "shoot", "attach", "write"}
         /\ s.step = "shoot" => s.kind \in Shots!Kinds
         /\ s.step = "write" => s.rows \in SUBSET Receivers
  BY DEF Shooters, Shots!NoShot

LEMMA ShotsInit == ASSUME Shots!Init PROVE ShotsInv
<1>1. /\ shooter \in [Capturers -> Shooters]
      /\ payload \in [Receivers -> [st : {"none", "pending", "sent"}, names : BOOLEAN, attached : BOOLEAN]]
  <2>1. FALSE \in BOOLEAN
    BY Zenon
  <2> QED  BY <2>1 DEF Shots!Init, Shooters
<1>2. stored \in BOOLEAN /\ blinded \in BOOLEAN /\ switched \in BOOLEAN /\ shots \in BOOLEAN
  BY Zenon DEF Shots!Init
<1>3. Shots!TypeOK
  BY <1>1, <1>2, PicturesAssumption DEF Shots!Init, Shots!TypeOK, Shooters
<1> QED
  BY <1>3 DEF Shots!Init, ShotsInv, AskedAfter, Working, StoredIsSeen, AttachedLater, Shots!NoShot

LEMMA ShotsCapture == ASSUME ShotsInv, Shots!CaptureAndHash PROVE ShotsInv'
<1> USE DEF Shots!CaptureAndHash, ShotsInv
<1>1. Working = {} /\ \A k \in Shots!Kinds : ~(asks[k] > 0)
  BY DEF AskedAfter
<1>2. \A c \in Capturers : shooter[c].step = "idle"
  BY <1>1 DEF Working, Shots!NoShot
<1>3. ~stored
  BY DEF StoredIsSeen
<1>4. PICK c \in Shots!Captured, ok \in BOOLEAN :
        IF c = "picture"
        THEN /\ run' = [run EXCEPT !.at = "captured"]
             /\ Shots!Put("hashed", ok)
             /\ stored' = ok
        ELSE run' = [run EXCEPT !.at = "failed"] /\ UNCHANGED <<picture, faults, stored>>
  BY Zenon
<1>5. /\ run' \in [at : {"captured", "failed"}, mode : {"visual"}]
      /\ run'.mode = run.mode
  BY <1>4 DEF Shots!TypeOK
<1>6. stored' \in BOOLEAN
  BY <1>4, Zenon DEF Shots!TypeOK
<1>7. /\ picture' \in {"none", "hashed", "later"}
      /\ faults' \in 0..MaxFaults
      /\ stored' => picture' = "hashed"
      /\ picture # "none" => picture' # "none"
  BY <1>3, <1>4, PicturesAssumption DEF Shots!TypeOK, Shots!Put
<1>8. Shots!TypeOK'
  BY <1>5, <1>6, <1>7 DEF Shots!TypeOK
<1>9. UNCHANGED <<mode, shots, asks, shooter, payload, taken, blinded, switched>>
  OBVIOUS
<1> HIDE DEF Shots!CaptureAndHash
<1>10. AskedAfter' /\ AttachedLater'
  BY <1>1, <1>7, <1>9 DEF AskedAfter, Working, AttachedLater
<1>11. StoredIsSeen'
  BY <1>2, <1>5, <1>7, <1>9 DEF StoredIsSeen
<1> QED  BY <1>8, <1>10, <1>11

LEMMA ShotsRun ==
  ASSUME ShotsInv, Shots!FetchPage \/ Shots!CommitRun \/ Shots!RunFails
  PROVE  ShotsInv'
<1>1. Working = {} /\ \A k \in Shots!Kinds : ~(asks[k] > 0)
  BY DEF ShotsInv, AskedAfter, Shots!FetchPage, Shots!CommitRun, Shots!RunFails
<1>2. PICK at \in {"captured", "committed", "succeeded", "failed"} : run' = [run EXCEPT !.at = at]
  BY DEF Shots!FetchPage, Shots!CommitRun, Shots!RunFails
<1>3. /\ run' \in [at : {"captured", "committed", "succeeded", "failed"}, mode : {"visual", "page"}]
      /\ run'.mode = run.mode
  BY <1>2 DEF ShotsInv, Shots!TypeOK
<1>4. UNCHANGED <<mode, shots, picture, asks, shooter, faults, taken, stored, blinded, switched>>
  BY DEF Shots!FetchPage, Shots!CommitRun, Shots!RunFails
<1>5. \/ UNCHANGED payload
      \/ payload' = [h \in Receivers |-> [st |-> "pending", names |-> shots, attached |-> FALSE]]
  BY DEF Shots!FetchPage, Shots!CommitRun, Shots!RunFails
<1>6. /\ payload' \in [Receivers -> [st : {"none", "pending", "sent"}, names : BOOLEAN, attached : BOOLEAN]]
      /\ \A h \in Receivers : payload'[h].attached => payload[h].attached
  <2>1. FALSE \in BOOLEAN /\ shots \in BOOLEAN
    BY Zenon DEF ShotsInv, Shots!TypeOK
  <2>2. [st |-> "pending", names |-> shots, attached |-> FALSE]
          \in [st : {"none", "pending", "sent"}, names : BOOLEAN, attached : BOOLEAN]
    BY <2>1
  <2>3. CASE UNCHANGED payload
    BY <2>3 DEF ShotsInv, Shots!TypeOK
  <2>4. CASE payload' = [h \in Receivers |-> [st |-> "pending", names |-> shots, attached |-> FALSE]]
    BY <2>2, <2>4
  <2> QED  BY <1>5, <2>3, <2>4
<1>7. Shots!TypeOK'
  BY <1>3, <1>4, <1>6 DEF ShotsInv, Shots!TypeOK
<1>8. AskedAfter' /\ AttachedLater'
  BY <1>1, <1>4, <1>6 DEF ShotsInv, AskedAfter, Working, AttachedLater
<1>9. StoredIsSeen'
  BY <1>3, <1>4 DEF ShotsInv, StoredIsSeen
<1> QED  BY <1>7, <1>8, <1>9 DEF ShotsInv

LEMMA ShotsAsk ==
  ASSUME ShotsInv, Shots!AskForAlert \/ Shots!AskForPreview
  PROVE  ShotsInv'
<1>1. PICK at \in {"succeeded", "over"} : run' = [run EXCEPT !.at = at]
  BY DEF Shots!AskForAlert, Shots!AskForPreview
<1>2. run' \in [at : {"succeeded", "over"}, mode : {"visual", "page"}] /\ run'.mode = run.mode
  BY <1>1 DEF ShotsInv, Shots!TypeOK
<1>3. asks' \in [Shots!Kinds -> 0..1]
  BY DEF Shots!AskForAlert, Shots!AskForPreview, ShotsInv, Shots!TypeOK, Shots!Kinds
<1>4. UNCHANGED <<mode, shots, picture, shooter, payload, faults, taken, stored, blinded, switched>>
  BY DEF Shots!AskForAlert, Shots!AskForPreview
<1>5. Shots!TypeOK'
  BY <1>2, <1>3, <1>4 DEF ShotsInv, Shots!TypeOK
<1>6. AskedAfter' /\ AttachedLater'
  BY <1>2, <1>4 DEF ShotsInv, AskedAfter, AttachedLater
<1>7. StoredIsSeen'
  BY <1>2, <1>4 DEF ShotsInv, StoredIsSeen
<1> QED  BY <1>5, <1>6, <1>7 DEF ShotsInv

\* Where a worker goes next is a state that it can be in.
LEMMA ShooterGoes ==
  ASSUME NEW c \in Capturers, NEW k \in Shots!Kinds, NEW step \in {"done", "shoot", "attach"},
         Shots!Goes(c, k, step), ShotsInv
  PROVE  /\ shooter' \in [Capturers -> Shooters]
         /\ shooter'[c].step = IF step = "done" THEN "idle" ELSE step
         /\ \A d \in Capturers \ {c} : shooter'[d] = shooter[d]
<1> DEFINE s == IF step = "done" THEN Shots!NoShot ELSE [step |-> step, kind |-> k]
<1>1. s \in Shooters /\ s.step = IF step = "done" THEN "idle" ELSE step
  BY DEF Shooters, Shots!NoShot
<1>2. shooter \in [Capturers -> Shooters]
  BY DEF ShotsInv, Shots!TypeOK, Shooters
<1>3. shooter' = [shooter EXCEPT ![c] = s]
  BY DEF Shots!Goes
<1> QED  BY <1>1, <1>2, <1>3, ShooterMoves

LEMMA ShotsReceive ==
  ASSUME ShotsInv, NEW c \in Capturers, NEW k \in Shots!Kinds, Shots!Receive(c, k)
  PROVE  ShotsInv'
<1>1. UNCHANGED <<mode, shots, run, picture, payload, stored, switched>>
  BY DEF Shots!Receive
<1>2. run.at \in {"succeeded", "over"}
  BY DEF Shots!Receive, ShotsInv, AskedAfter
<1>3. taken' \in 0..MaxShots
  BY PicturesAssumption DEF Shots!Receive, ShotsInv, Shots!TypeOK
<1>4. asks' \in [Shots!Kinds -> 0..1]
  BY DEF Shots!Receive, ShotsInv, Shots!TypeOK
<1>5. blinded' \in BOOLEAN
  BY Zenon DEF Shots!Receive, Shots!Exists, ShotsInv, Shots!TypeOK
<1>6. faults' \in 0..MaxFaults /\ (blinded => blinded')
  <2>1. blinded => blinded'
    BY Zenon DEF Shots!Receive, Shots!Exists
  <2>2. faults' = faults \/ (faults' = faults + 1 /\ faults < MaxFaults)
    BY DEF Shots!Receive, Shots!Exists
  <2> QED  BY <2>1, <2>2, PicturesAssumption DEF ShotsInv, Shots!TypeOK
<1>7. PICK step \in {"done", "shoot", "attach"} :
        /\ Shots!Goes(c, k, step)
        /\ step = "attach" => picture # "none"
        /\ step = "shoot" => mode # "visual" \/ picture = "none" \/ blinded'
  <2>1. \A seen \in BOOLEAN : Shots!After(k, seen) \in {"done", "shoot", "attach"}
    BY DEF Shots!After
  <2>2. CASE k = "run" /\ ~shots /\ Shots!Goes(c, k, "done")
    BY <2>2
  <2>3. CASE ~Shots!Looks(k) /\ Shots!Goes(c, k, Shots!After(k, FALSE))
    BY <2>3 DEF Shots!Looks, Shots!After
  <2>4. ASSUME NEW seen \in BOOLEAN, Shots!Exists(seen), Shots!Goes(c, k, Shots!After(k, seen))
        PROVE  \E step \in {"done", "shoot", "attach"} :
                 /\ Shots!Goes(c, k, step)
                 /\ step = "attach" => picture # "none"
                 /\ step = "shoot" => mode # "visual" \/ picture = "none" \/ blinded'
    <3>1. Shots!After(k, seen) = "attach" => seen
      BY DEF Shots!After
    <3>2. Shots!After(k, seen) = "shoot" => ~seen
      BY DEF Shots!After
    <3>3. (seen => picture # "none") /\ (~seen => picture = "none" \/ blinded')
      BY <2>4, Zenon DEF Shots!Exists
    <3> QED  BY <2>1, <2>4, <3>1, <3>2, <3>3
  <2> QED  BY <2>2, <2>3, <2>4, Zenon DEF Shots!Receive
<1>8. /\ shooter' \in [Capturers -> Shooters]
      /\ shooter'[c].step = IF step = "done" THEN "idle" ELSE step
      /\ \A d \in Capturers \ {c} : shooter'[d] = shooter[d]
  BY <1>7, ShooterGoes
<1>9. Shots!TypeOK'
  BY <1>1, <1>3, <1>4, <1>5, <1>6, <1>8 DEF ShotsInv, Shots!TypeOK, Shooters
<1>10. AskedAfter'
  BY <1>1, <1>2 DEF AskedAfter
<1>11. AttachedLater'
  BY <1>1, <1>7, <1>8 DEF ShotsInv, AttachedLater
<1>12. StoredIsSeen'
  BY <1>1, <1>6, <1>7, <1>8 DEF ShotsInv, StoredIsSeen
<1> QED  BY <1>9, <1>10, <1>11, <1>12 DEF ShotsInv

LEMMA ShotsShoot ==
  ASSUME ShotsInv, NEW c \in Capturers, Shots!Shoot(c)
  PROVE  ShotsInv'
<1>1. UNCHANGED <<mode, shots, run, asks, payload, taken, stored, blinded, switched>>
  BY DEF Shots!Shoot
<1>2. shooter[c] \in Shooters /\ shooter[c].step = "shoot"
  BY DEF Shots!Shoot, ShotsInv, Shots!TypeOK, Shooters
<1>3. run.at \in {"succeeded", "over"} /\ shooter[c].kind \in Shots!Kinds
  BY <1>2, ShooterAtWork, ShooterHas
<1>4. PICK step \in {"done", "attach"} :
        /\ Shots!Goes(c, shooter[c].kind, step)
        /\ step = "attach" => picture' # "none"
        /\ picture' \in {"none", "hashed", "later"} /\ faults' \in 0..MaxFaults
        /\ picture # "none" => picture' # "none"
  BY PicturesAssumption DEF Shots!Shoot, Shots!Put, Shots!After, ShotsInv, Shots!TypeOK
<1>5. /\ shooter' \in [Capturers -> Shooters]
      /\ shooter'[c].step = IF step = "done" THEN "idle" ELSE step
      /\ \A d \in Capturers \ {c} : shooter'[d] = shooter[d]
  BY <1>3, <1>4, ShooterGoes
<1>6. Shots!TypeOK'
  BY <1>1, <1>4, <1>5 DEF ShotsInv, Shots!TypeOK, Shooters
<1>7. AskedAfter'
  BY <1>1, <1>3 DEF AskedAfter
<1>8. AttachedLater'
  BY <1>1, <1>4, <1>5 DEF ShotsInv, AttachedLater
<1>9. StoredIsSeen'
  BY <1>1, <1>2 DEF ShotsInv, StoredIsSeen
<1> QED  BY <1>6, <1>7, <1>8, <1>9 DEF ShotsInv

LEMMA ShotsAttach ==
  ASSUME ShotsInv, NEW c \in Capturers, Shots!LoadPending(c) \/ Shots!WritePayload(c)
  PROVE  ShotsInv'
<1>1. UNCHANGED <<mode, shots, run, picture, asks, faults, taken, stored, blinded, switched>>
  BY DEF Shots!LoadPending, Shots!WritePayload
<1>2. shooter \in [Capturers -> Shooters]
  BY DEF ShotsInv, Shots!TypeOK, Shooters
<1>3. run.at \in {"succeeded", "over"} /\ picture # "none"
  BY ShooterAtWork DEF Shots!LoadPending, Shots!WritePayload, ShotsInv, AttachedLater
<1>4. PICK s \in Shooters : shooter' = [shooter EXCEPT ![c] = s] /\ s.step \in {"idle", "write"}
  <2>1. [step |-> "write", rows |-> {h \in Receivers : payload[h].st = "pending"}] \in Shooters
    BY DEF Shooters
  <2>2. Shots!NoShot \in Shooters /\ Shots!NoShot.step = "idle"
    BY DEF Shooters, Shots!NoShot
  <2> QED  BY <2>1, <2>2 DEF Shots!LoadPending, Shots!WritePayload
<1>5. /\ shooter' \in [Capturers -> Shooters]
      /\ shooter'[c].step \in {"idle", "write"}
      /\ \A d \in Capturers \ {c} : shooter'[d] = shooter[d]
  BY <1>2, <1>4, ShooterMoves
<1>6. payload' \in [Receivers -> [st : {"none", "pending", "sent"}, names : BOOLEAN, attached : BOOLEAN]]
  <2>1. TRUE \in BOOLEAN
    BY Zenon
  <2>2. CASE Shots!LoadPending(c)
    BY <2>2 DEF Shots!LoadPending, ShotsInv, Shots!TypeOK
  <2>3. CASE Shots!WritePayload(c)
    <3>1. \A h \in Receivers : [payload[h] EXCEPT !.names = TRUE, !.attached = TRUE]
            \in [st : {"none", "pending", "sent"}, names : BOOLEAN, attached : BOOLEAN]
      BY <2>1 DEF ShotsInv, Shots!TypeOK
    <3>2. \A h \in Receivers : payload[h] \in [st : {"none", "pending", "sent"}, names : BOOLEAN, attached : BOOLEAN]
      BY DEF ShotsInv, Shots!TypeOK
    <3>3. payload' = [h \in Receivers |-> IF h \in shooter[c].rows
                                          THEN [payload[h] EXCEPT !.names = TRUE, !.attached = TRUE]
                                          ELSE payload[h]]
      BY <2>3, Zenon DEF Shots!WritePayload
    <3> QED  BY <3>1, <3>2, <3>3
  <2> QED  BY <2>2, <2>3
<1>7. Shots!TypeOK'
  BY <1>1, <1>5, <1>6 DEF ShotsInv, Shots!TypeOK, Shooters
<1>8. AskedAfter' /\ AttachedLater'
  BY <1>1, <1>3 DEF AskedAfter, AttachedLater
<1>9. StoredIsSeen'
  BY <1>1, <1>5 DEF ShotsInv, StoredIsSeen
<1> QED  BY <1>7, <1>8, <1>9 DEF ShotsInv

LEMMA ShotsDeliver ==
  ASSUME ShotsInv, NEW h \in Receivers, Shots!Deliver(h)
  PROVE  ShotsInv'
<1>1. UNCHANGED <<mode, shots, run, picture, asks, shooter, faults, taken, stored, blinded, switched>>
  BY DEF Shots!Deliver
<1>2. /\ payload' \in [Receivers -> [st : {"none", "pending", "sent"}, names : BOOLEAN, attached : BOOLEAN]]
      /\ \A i \in Receivers : payload'[i].attached = payload[i].attached
  BY DEF Shots!Deliver, ShotsInv, Shots!TypeOK
<1> QED
  BY <1>1, <1>2 DEF ShotsInv, Shots!TypeOK, AskedAfter, Working, AttachedLater, StoredIsSeen

LEMMA ShotsEdit == ASSUME ShotsInv, Shots!EditMode PROVE ShotsInv'
<1>1. UNCHANGED <<run, picture, asks, shooter, payload, faults, taken, stored, blinded>>
  BY DEF Shots!EditMode
<1>2. switched' \in BOOLEAN /\ shots' \in BOOLEAN
  BY Zenon DEF Shots!EditMode
<1>3. switched' /\ mode' \in {"visual", "page"}
  BY DEF Shots!EditMode
<1> QED
  BY <1>1, <1>2, <1>3 DEF ShotsInv, Shots!TypeOK, AskedAfter, Working, AttachedLater, StoredIsSeen

LEMMA ShotsStep == ShotsInv /\ [Shots!Next]_shot => ShotsInv'
<1>1. ShotsInv /\ UNCHANGED shot => ShotsInv'
  BY DEF shot, ShotsInv, Shots!TypeOK, AskedAfter, Working, AttachedLater, StoredIsSeen
<1> QED
  BY <1>1, ShotsCapture, ShotsRun, ShotsAsk, ShotsReceive, ShotsShoot, ShotsAttach, ShotsDeliver,
     ShotsEdit DEF Shots!Next

LEMMA ShotsAlways == AllSpec => [](part = "pictures" => ShotsInv)
<1> DEFINE I == part = "pictures" => ShotsInv
<1>1. AllInit => I
  BY ShotsInit DEF AllInit
<1>2. I /\ [AllNext]_allVars => I'
  <2> SUFFICES ASSUME I, [AllNext]_allVars, part' = "pictures" PROVE ShotsInv'
    OBVIOUS
  <2>1. part = "pictures" /\ [Shots!Next]_shot
    BY DEF AllNext, allVars
  <2> QED  BY <2>1, ShotsStep
<1> QED  BY <1>1, <1>2, PTL DEF AllSpec

\* browser_checks.py: for any workers, receivers and bounds, the capture that was hashed and
\* compared stays, and what a capture attaches to a notification exists.
THEOREM PicturesAreKept == AllSpec => []PictureKept
<1>1. (part = "pictures" => ShotsInv) => PictureKept
  <2> SUFFICES ASSUME ShotsInv PROVE Shots!HashedKept /\ Shots!AttachedExists
    BY Zenon DEF PictureKept, Shots!PictureKept
  <2> QED  BY DEF ShotsInv, StoredIsSeen, AttachedLater, Shots!HashedKept, Shots!AttachedExists
<1> QED  BY <1>1, ShotsAlways, PTL

-----------------------------------------------------------------------------
(* Alerts of changes.                                                      *)

JobStates ==
  [of : {0} \cup Changes, was : BOOLEAN, noise : BOOLEAN, placeholder : BOOLEAN,
   step : {"none", "model", "commit"}]

\* An enricher has loaded a change, and does not take a fallback for noise.
JobsSound ==
  /\ job \in [Enrichers -> JobStates]
  /\ \A e \in Enrichers :
       /\ job[e].step # "none" => job[e].of \in Changes
       /\ job[e].placeholder => ~job[e].noise

\* Before the user marks a change, one that waits for enrichment is no noise, and none was
\* when an enricher loaded it.
Unmarked ==
  marks = 0 =>
    /\ \A c \in Changes : inbox[c].summary = "pending" => ~inbox[c].noise
    /\ \A e \in Enrichers : job[e].step # "none" => ~job[e].was

\* What was queued has a row.
RowsQueued == \A c \in Changes : \A p \in queued[c] : <<c, p[1]>> \in rows

\* Synchronous: no enricher is at work, changes come one after the other, and one that was
\* queued is a signal.
OneAtATime ==
  ~async =>
    /\ \A c \in Changes : message[c] = 0
    /\ \A e \in Enrichers : job[e] = Alert!NoJob
    /\ \A d \in Alert!Events : d <= Cardinality(Alert!Events)
    /\ marks = 0 => \A c \in Changes : queued[c] # {} => c \in Alert!Events /\ ~inbox[c].noise

AlertInv ==
  /\ Alert!TypeOK /\ JobsSound /\ Unmarked /\ RowsQueued /\ OneAtATime
  /\ Alert!EnrichedIsDecided /\ Alert!AnnouncedOnce /\ Alert!CooledDown

LEMMA AlertCardinality == ASSUME NEW S PROVE Alert!Cardinality(S) = Cardinality(S)
  BY DEF Alert!Cardinality, Cardinality

LEMMA AlertInit == ASSUME Alert!Init PROVE AlertInv
<1> USE AlertsAssumption DEF Alert!Init
<1>1. FALSE \in BOOLEAN /\ async \in BOOLEAN
  BY Zenon
<1>2. Alert!NoEvent \in [at : 0..LastTime, noise : BOOLEAN, summary : Alert!Summaries]
  BY <1>1 DEF Alert!NoEvent, Alert!Summaries
<1>3. Alert!TypeOK
  BY <1>1, <1>2 DEF Alert!TypeOK, Alert!NoJob
<1>4. Alert!NoJob \in JobStates
  BY <1>1 DEF Alert!NoJob, JobStates
<1>5. JobsSound
  BY <1>4 DEF JobsSound, Alert!NoJob
<1>6. Unmarked /\ Alert!EnrichedIsDecided
  <2>1. (\A c \in Changes : inbox[c].summary = "none") /\ \A e \in Enrichers : job[e].step = "none"
    BY DEF Alert!NoEvent, Alert!NoJob
  <2>2. Alert!Events = {}
    BY <2>1 DEF Alert!Events
  <2>3. "none" # "pending"
    OBVIOUS
  <2> QED  BY <2>1, <2>2, <2>3, Zenon DEF Unmarked, Alert!EnrichedIsDecided
<1>7. RowsQueued /\ Alert!AnnouncedOnce /\ Alert!CooledDown
  BY DEF RowsQueued, Alert!AnnouncedOnce, Alert!CooledDown
<1>8. OneAtATime
  BY DEF OneAtATime, Alert!Events, Alert!NoEvent
<1> QED  BY <1>3, <1>5, <1>6, <1>7, <1>8 DEF AlertInv

\* Queueing decides about a signal, gives a channel one row, and touches one change only.
LEMMA QueueDecides ==
  ASSUME AlertInv, NEW c \in Changes, NEW noise \in BOOLEAN, Alert!Queue(c, noise)
  PROVE  /\ rows \subseteq rows' /\ rows' \subseteq Changes \X Channels
         /\ refused' \subseteq Changes /\ refused \ {c} \subseteq refused'
         /\ c \in refused /\ c \notin refused' => {c} \X Channels \subseteq rows'
         /\ noise \/ c \in refused' \/ {c} \X Channels \subseteq rows'
         /\ queued' \in [Changes -> SUBSET (Channels \X (0..LastTime))]
         /\ RowsQueued' /\ Alert!AnnouncedOnce'
         /\ \A d \in Changes \ {c} : queued'[d] = queued[d]
         /\ queued'[c] = queued[c] \/ (~noise /\ ~Alert!Quiet(c))
<1>0. /\ rows \subseteq Changes \X Channels /\ refused \subseteq Changes /\ time \in 0..LastTime
      /\ queued \in [Changes -> SUBSET (Channels \X (0..LastTime))]
      /\ RowsQueued /\ Alert!AnnouncedOnce
  BY DEF AlertInv, Alert!TypeOK
<1>1. CASE noise /\ UNCHANGED <<rows, queued, refused>>
  BY <1>0, <1>1 DEF RowsQueued, Alert!AnnouncedOnce
<1>2. CASE ~noise /\ Alert!Quiet(c) /\ refused' = refused \cup {c} /\ UNCHANGED <<rows, queued>>
  BY <1>0, <1>2 DEF RowsQueued, Alert!AnnouncedOnce
<1>3. CASE ~noise /\ ~Alert!Quiet(c) /\ Alert!Insert(c) /\ refused' = refused \ {c}
  <2> DEFINE U == Alert!Unqueued(c)
  <2>1. U = {h \in Channels : <<c, h>> \notin rows}
    BY DEF Alert!Unqueued
  <2>2. rows' = rows \cup ({c} \X U) /\ queued' = [queued EXCEPT ![c] = @ \cup (U \X {time})]
    BY <1>3 DEF Alert!Insert
  <2> HIDE DEF U
  <2>3. rows \subseteq rows' /\ rows' \subseteq Changes \X Channels
    BY <1>0, <2>1, <2>2
  <2>4. {c} \X Channels \subseteq rows'
    BY <2>1, <2>2
  <2>5. /\ queued'[c] = queued[c] \cup (U \X {time})
        /\ \A d \in Changes \ {c} : queued'[d] = queued[d]
    BY <1>0, <2>2
  <2>6. queued' \in [Changes -> SUBSET (Channels \X (0..LastTime))]
    <3>1. U \X {time} \subseteq Channels \X (0..LastTime)
      BY <1>0, <2>1
    <3> QED  BY <1>0, <2>2, <3>1
  <2>7. RowsQueued'
    <3> SUFFICES ASSUME NEW d \in Changes, NEW p \in queued'[d] PROVE <<d, p[1]>> \in rows'
      BY DEF RowsQueued
    <3>1. CASE p \in queued[d]
      BY <1>0, <2>3, <3>1 DEF RowsQueued
    <3>2. CASE p \notin queued[d]
      BY <2>2, <2>5, <3>2
    <3> QED  BY <3>1, <3>2
  <2>8. Alert!AnnouncedOnce'
    <3> SUFFICES ASSUME NEW d \in Changes, NEW p \in queued'[d], NEW q \in queued'[d], p[1] = q[1]
                 PROVE  p = q
      BY DEF Alert!AnnouncedOnce
    <3>1. CASE d # c
      BY <1>0, <2>5, <3>1 DEF Alert!AnnouncedOnce
    <3>2. CASE d = c
      <4>1. \A x \in queued[c] : x[1] \notin U
        BY <1>0, <2>1 DEF RowsQueued
      <4>2. \A x \in U \X {time} : x[1] \in U /\ x = <<x[1], time>>
        OBVIOUS
      <4> QED  BY <1>0, <2>5, <3>2, <4>1, <4>2 DEF Alert!AnnouncedOnce
    <3> QED  BY <3>1, <3>2
  <2> QED  BY <1>0, <1>3, <2>3, <2>4, <2>5, <2>6, <2>7, <2>8
<1> QED  BY <1>1, <1>2, <1>3, Zenon DEF Alert!Queue

\* A change that comes up was not there before.
LEMMA ChangeIsNew ==
  ASSUME AlertInv, NEW c \in Alert!NextChange, NEW noise \in BOOLEAN, NEW summary \in Alert!Summaries \ {"none"},
         Alert!Record(c, noise, summary)
  PROVE  /\ c \in Changes
         /\ inbox' \in [Changes -> [at : 0..LastTime, noise : BOOLEAN, summary : Alert!Summaries]]
         /\ inbox'[c] = [at |-> time, noise |-> noise, summary |-> summary]
         /\ \A d \in Changes \ {c} : inbox'[d] = inbox[d]
         /\ Alert!Events' = Alert!Events \cup {c}
         /\ ~async => /\ c \notin Alert!Events
                      /\ \A d \in Alert!Events : d < c
                      /\ \A d \in Alert!Events' : d <= Cardinality(Alert!Events')
<1>1. c \in Changes /\ c = Cardinality(Alert!Events) + 1
  BY AlertCardinality DEF Alert!NextChange
<1>2. inbox \in [Changes -> [at : 0..LastTime, noise : BOOLEAN, summary : Alert!Summaries]] /\ time \in 0..LastTime
  BY DEF AlertInv, Alert!TypeOK
<1>3. [at |-> time, noise |-> noise, summary |-> summary] \in [at : 0..LastTime, noise : BOOLEAN, summary : Alert!Summaries]
  BY <1>2
<1>4. /\ inbox' \in [Changes -> [at : 0..LastTime, noise : BOOLEAN, summary : Alert!Summaries]]
      /\ inbox'[c] = [at |-> time, noise |-> noise, summary |-> summary]
      /\ \A d \in Changes \ {c} : inbox'[d] = inbox[d]
  BY <1>1, <1>2, <1>3 DEF Alert!Record
<1>5. inbox'[c].summary # "none"
  BY <1>4
<1>6. Alert!Events' = Alert!Events \cup {c}
  BY <1>1, <1>4, <1>5 DEF Alert!Events
<1>7. ASSUME ~async
      PROVE  /\ c \notin Alert!Events
             /\ \A d \in Alert!Events : d < c
             /\ \A d \in Alert!Events' : d <= Cardinality(Alert!Events')
  <2>1. IsFiniteSet(Alert!Events) /\ Alert!Events \subseteq Nat
    BY AlertsAssumption, FS_Subset DEF Alert!Events
  <2>2. Cardinality(Alert!Events) \in Nat
    BY <2>1, FS_CardinalityType
  <2>3. \A d \in Alert!Events : d <= Cardinality(Alert!Events)
    BY <1>7 DEF AlertInv, OneAtATime
  <2>4. c \notin Alert!Events
    BY <1>1, <2>2, <2>3
  <2>5. Cardinality(Alert!Events') = Cardinality(Alert!Events) + 1
    BY <1>6, <2>1, <2>4, FS_AddElement
  <2> QED  BY <1>1, <1>6, <2>1, <2>2, <2>3, <2>4, <2>5
<1> QED  BY <1>1, <1>4, <1>6, <1>7

LEMMA AlertSync ==
  ASSUME AlertInv, NEW c \in Alert!NextChange, Alert!ChangeSync(c)
  PROVE  AlertInv'
<1>1. UNCHANGED <<time, async, message, job, tries, marks>> /\ ~async
  BY Zenon DEF Alert!ChangeSync
<1>2. PICK noise \in BOOLEAN, summary \in Alert!Summaries \ {"none", "pending"} :
        Alert!Record(c, noise, summary) /\ Alert!Queue(c, noise)
  <2> PICK suppressed \in BOOLEAN, triaged \in BOOLEAN :
         /\ Alert!Record(c, suppressed \/ triaged, IF suppressed THEN "conditional" ELSE "enriched")
         /\ Alert!Queue(c, suppressed \/ triaged)
    BY Zenon DEF Alert!ChangeSync
  <2>1. (suppressed \/ triaged) \in BOOLEAN
    BY Zenon
  <2>2. (IF suppressed THEN "conditional" ELSE "enriched") \in Alert!Summaries \ {"none", "pending"}
    BY DEF Alert!Summaries
  <2> QED  BY <2>1, <2>2, Zenon
<1>3. /\ c \in Changes
      /\ inbox' \in [Changes -> [at : 0..LastTime, noise : BOOLEAN, summary : Alert!Summaries]]
      /\ inbox'[c] = [at |-> time, noise |-> noise, summary |-> summary]
      /\ \A d \in Changes \ {c} : inbox'[d] = inbox[d]
      /\ Alert!Events' = Alert!Events \cup {c}
      /\ c \notin Alert!Events
      /\ \A d \in Alert!Events : d < c
      /\ \A d \in Alert!Events' : d <= Cardinality(Alert!Events')
  BY <1>1, <1>2, ChangeIsNew
<1>4. /\ rows \subseteq rows' /\ rows' \subseteq Changes \X Channels
      /\ refused' \subseteq Changes /\ refused \ {c} \subseteq refused'
      /\ noise \/ c \in refused' \/ {c} \X Channels \subseteq rows'
      /\ queued' \in [Changes -> SUBSET (Channels \X (0..LastTime))]
      /\ RowsQueued' /\ Alert!AnnouncedOnce'
      /\ \A d \in Changes \ {c} : queued'[d] = queued[d]
      /\ queued'[c] = queued[c] \/ (~noise /\ ~Alert!Quiet(c))
  BY <1>2, <1>3, QueueDecides
<1>5. Alert!TypeOK'
  BY <1>1, <1>3, <1>4 DEF AlertInv, Alert!TypeOK
<1>6. JobsSound'
  BY <1>1 DEF AlertInv, JobsSound
<1>7. Unmarked'
  BY <1>1, <1>2, <1>3 DEF AlertInv, Unmarked
<1>8. OneAtATime'
  <2>1. ASSUME marks = 0 PROVE \A d \in Changes : queued'[d] # {} => d \in Alert!Events' /\ ~inbox'[d].noise
    <3>1. \A d \in Changes : queued[d] # {} => d \in Alert!Events /\ ~inbox[d].noise
      BY <1>1, <2>1 DEF AlertInv, OneAtATime
    <3>2. queued[c] = {}
      BY <1>3, <3>1
    <3>3. queued'[c] # {} => ~inbox'[c].noise
      BY <1>3, <1>4, <3>2
    <3> QED  BY <1>3, <1>4, <3>1, <3>3
  <2> QED  BY <1>1, <1>3, <2>1 DEF AlertInv, OneAtATime
<1>9. Alert!EnrichedIsDecided'
  <2> SUFFICES ASSUME marks = 0, NEW d \in Changes, d \in Alert!Events', inbox'[d].summary = "enriched",
                      ~inbox'[d].noise
               PROVE  d \in refused' \/ {d} \X Channels \subseteq rows'
    BY <1>1, <1>3 DEF Alert!EnrichedIsDecided, Alert!Events
  <2>1. CASE d = c
    BY <1>3, <1>4, <2>1
  <2>2. CASE d # c
    <3>1. d \in refused \/ {d} \X Channels \subseteq rows
      BY <1>3, <2>2 DEF AlertInv, Alert!EnrichedIsDecided
    <3> QED  BY <1>4, <2>2, <3>1
  <2> QED  BY <2>1, <2>2
<1>10. Alert!CooledDown'
  <2> SUFFICES ASSUME Cooldown > 0, marks = 0, NEW a \in Changes, NEW b \in Changes, a < b,
                      queued'[a] # {}, queued'[b] # {}
               PROVE  inbox'[a].at + Cooldown < inbox'[b].at
    BY <1>1 DEF Alert!CooledDown
  <2>1. \A d \in Changes : queued[d] # {} => d \in Alert!Events /\ ~inbox[d].noise
    BY <1>1 DEF AlertInv, OneAtATime
  <2>2. CASE a # c /\ b # c
    BY <1>1, <1>3, <1>4, <2>2 DEF AlertInv, Alert!CooledDown
  <2>3. CASE a = c
    <3>1. b \in Alert!Events
      BY <1>4, <2>1, <2>3, AlertsAssumption
    <3> QED  BY <1>3, <2>3, <3>1, AlertsAssumption
  <2>4. CASE b = c /\ a # c
    <3>1. a \in Alert!Events \ {c} /\ ~inbox[a].noise
      BY <1>4, <2>1, <2>4
    <3>2. queued[c] = {}
      BY <1>3, <2>1
    <3>3. Alert!Recent(c, Cooldown) = {}
      BY <1>4, <2>4, <3>2 DEF Alert!Quiet
    <3>4. ~(inbox[a].at + Cooldown >= time)
      BY <3>1, <3>3 DEF Alert!Recent
    <3>5. inbox[a].at \in Nat /\ time \in Nat
      BY DEF AlertInv, Alert!TypeOK
    <3> QED  BY <1>3, <2>4, <3>4, <3>5, AlertsAssumption
  <2> QED  BY <2>2, <2>3, <2>4
<1> QED  BY <1>4, <1>5, <1>6, <1>7, <1>8, <1>9, <1>10 DEF AlertInv

\* Asynchronous: a suppressed change, or a placeholder and its message.
LEMMA AlertAsync ==
  ASSUME AlertInv, NEW c \in Alert!NextChange, Alert!ChangeSuppressed(c) \/ Alert!ChangeAsync(c)
  PROVE  AlertInv'
<1>1. UNCHANGED <<time, async, rows, job, tries, marks, refused, queued>> /\ async
  BY Zenon DEF Alert!ChangeSuppressed, Alert!ChangeAsync
<1>2. PICK noise \in BOOLEAN, summary \in {"conditional", "pending"} :
        Alert!Record(c, noise, summary) /\ (summary = "pending" => ~noise)
  <2>1. TRUE \in BOOLEAN /\ FALSE \in BOOLEAN /\ "conditional" # "pending"
    OBVIOUS
  <2> QED  BY <2>1, Zenon DEF Alert!ChangeSuppressed, Alert!ChangeAsync
<1>3. summary \in Alert!Summaries \ {"none"}
  BY <1>2 DEF Alert!Summaries
<1>4. /\ c \in Changes
      /\ inbox' \in [Changes -> [at : 0..LastTime, noise : BOOLEAN, summary : Alert!Summaries]]
      /\ inbox'[c] = [at |-> time, noise |-> noise, summary |-> summary]
      /\ \A d \in Changes \ {c} : inbox'[d] = inbox[d]
      /\ Alert!Events' = Alert!Events \cup {c}
  BY <1>2, <1>3, ChangeIsNew
<1>5. message' \in [Changes -> 0..2]
  <2>1. PICK n \in 0..2 : UNCHANGED message \/ message' = [message EXCEPT ![c] = n]
    <3>1. Alert!ChangeSuppressed(c) => UNCHANGED message
      BY DEF Alert!ChangeSuppressed
    <3>2. Alert!ChangeAsync(c) => \E n \in 0..1 : message' = [message EXCEPT ![c] = n]
      BY Zenon DEF Alert!ChangeAsync
    <3> QED  BY <3>1, <3>2
  <2> QED  BY <2>1 DEF AlertInv, Alert!TypeOK
<1>6. Alert!TypeOK'
  BY <1>1, <1>4, <1>5 DEF AlertInv, Alert!TypeOK
<1>7. JobsSound' /\ RowsQueued' /\ Alert!AnnouncedOnce'
  BY <1>1 DEF AlertInv, JobsSound, RowsQueued, Alert!AnnouncedOnce
<1>8. Unmarked'
  BY <1>1, <1>2, <1>4 DEF AlertInv, Unmarked
<1>9. OneAtATime' /\ Alert!CooledDown'
  BY <1>1, Zenon DEF OneAtATime, Alert!CooledDown
<1>10. Alert!EnrichedIsDecided'
  <2> SUFFICES ASSUME marks = 0, NEW d \in Changes, inbox'[d].summary = "enriched", ~inbox'[d].noise
               PROVE  d \in refused \/ {d} \X Channels \subseteq rows
    BY <1>1 DEF Alert!EnrichedIsDecided, Alert!Events
  <2>1. d # c
    BY <1>2, <1>4
  <2>2. d \in Alert!Events /\ inbox[d].summary = "enriched" /\ ~inbox[d].noise
    BY <1>4, <2>1 DEF Alert!Events
  <2> QED  BY <2>2 DEF AlertInv, Alert!EnrichedIsDecided
<1> QED  BY <1>6, <1>7, <1>8, <1>9, <1>10 DEF AlertInv

\* Only with asynchronous enrichment does an enricher have something to do.
LEMMA AtWork ==
  ASSUME AlertInv, NEW e \in Enrichers, job[e] # Alert!NoJob \/ \E c \in Changes : message[c] > 0
  PROVE  async
  BY DEF AlertInv, OneAtATime

\* An enricher that moves on without a commit.
LEMMA JobMoves ==
  ASSUME AlertInv, async, NEW e \in Enrichers, NEW j \in JobStates, job' = [job EXCEPT ![e] = j],
         j.step # "none" => j.of \in Changes, j.placeholder => ~j.noise,
         marks = 0 /\ j.step # "none" => ~j.was,
         message' \in [Changes -> 0..2], tries' \in 0..MaxTries,
         UNCHANGED <<time, async, inbox, rows, marks, refused, queued>>
  PROVE  AlertInv'
<1>1. JobsSound'
  <2>1. job \in [Enrichers -> JobStates]
    BY DEF AlertInv, JobsSound
  <2>2. /\ job' \in [Enrichers -> JobStates] /\ job'[e] = j
        /\ \A d \in Enrichers \ {e} : job'[d] = job[d]
    BY <2>1
  <2> QED  BY <2>2 DEF AlertInv, JobsSound
<1>2. /\ job'[e] = j
      /\ \A d \in Enrichers \ {e} : job'[d] = job[d]
  BY DEF AlertInv, JobsSound
<1>3. Alert!TypeOK'
  BY <1>1 DEF AlertInv, Alert!TypeOK, JobsSound, JobStates
<1>4. Unmarked'
  BY <1>2 DEF AlertInv, Unmarked
<1>5. RowsQueued' /\ Alert!AnnouncedOnce' /\ Alert!EnrichedIsDecided'
  BY DEF AlertInv, RowsQueued, Alert!AnnouncedOnce, Alert!EnrichedIsDecided, Alert!Events
<1>6. OneAtATime' /\ Alert!CooledDown'
  BY Zenon DEF OneAtATime, Alert!CooledDown
<1> QED  BY <1>1, <1>3, <1>4, <1>5, <1>6 DEF AlertInv

LEMMA NoJobState == Alert!NoJob \in JobStates /\ Alert!NoJob.step = "none" /\ ~Alert!NoJob.placeholder
<1>1. FALSE \in BOOLEAN
  BY Zenon
<1> QED  BY <1>1 DEF Alert!NoJob, JobStates

LEMMA AlertReceive ==
  ASSUME AlertInv, NEW e \in Enrichers, NEW c \in Changes, Alert!Receive(e, c)
  PROVE  AlertInv'
<1>1. async
  BY AtWork DEF Alert!Receive
<1>2. UNCHANGED <<time, async, inbox, rows, marks, refused, queued>>
  BY Zenon DEF Alert!Receive
<1>3. tries' \in 0..MaxTries /\ message' \in [Changes -> 0..2]
  BY AlertsAssumption DEF Alert!Receive, AlertInv, Alert!TypeOK
<1>4. \E j \in JobStates :
        /\ job' = [job EXCEPT ![e] = j]
        /\ j.step # "none" => j.of \in Changes
        /\ j.placeholder => ~j.noise
        /\ marks = 0 /\ j.step # "none" => ~j.was
  <2>1. CASE ~Alert!Placeholder(c)
    <3>1. job' = [job EXCEPT ![e] = Alert!NoJob]
      BY <2>1, Zenon DEF Alert!Receive
    <3> QED  BY <3>1, NoJobState
  <2>2. CASE Alert!Placeholder(c)
    <3> DEFINE j == [Alert!NoJob EXCEPT !.of = c, !.was = inbox[c].noise, !.step = "model"]
    <3>1. job' = [job EXCEPT ![e] = j]
      BY <2>2, Zenon DEF Alert!Receive
    <3>2. inbox[c].noise \in BOOLEAN /\ FALSE \in BOOLEAN
      BY Zenon DEF AlertInv, Alert!TypeOK
    <3>3. marks = 0 => ~inbox[c].noise
      BY <2>2 DEF Alert!Placeholder, AlertInv, Unmarked
    <3>4. /\ j \in JobStates /\ j.of = c /\ j.was = inbox[c].noise
          /\ j.placeholder = FALSE
      BY <3>2 DEF Alert!NoJob, JobStates
    <3> HIDE DEF j
    <3> QED  BY <3>1, <3>3, <3>4
  <2> QED  BY <2>1, <2>2
<1> QED  BY <1>1, <1>2, <1>3, <1>4, JobMoves

LEMMA AlertAnswer ==
  ASSUME AlertInv, NEW e \in Enrichers, Alert!Answer(e)
  PROVE  AlertInv'
<1>1. async /\ job[e].step = "model" /\ job[e] \in JobStates
  <2>1. job[e].step = "model"
    BY Zenon DEF Alert!Answer
  <2>2. job[e] # Alert!NoJob
    BY <2>1 DEF Alert!NoJob
  <2> QED  BY <2>1, <2>2, AtWork DEF AlertInv, JobsSound
<1>2. UNCHANGED <<time, async, inbox, rows, message, tries, marks, refused, queued>>
  BY Zenon DEF Alert!Answer
<1>3. tries' \in 0..MaxTries /\ message' \in [Changes -> 0..2]
  BY <1>2 DEF AlertInv, Alert!TypeOK
<1>4. \E j \in JobStates :
        /\ job' = [job EXCEPT ![e] = j]
        /\ j.step # "none" => j.of \in Changes
        /\ j.placeholder => ~j.noise
        /\ marks = 0 /\ j.step # "none" => ~j.was
  <2> PICK noise \in BOOLEAN, placeholder \in BOOLEAN :
        /\ placeholder => ~noise
        /\ \/ job' = [job EXCEPT ![e] = Alert!NoJob]
           \/ job' = [job EXCEPT ![e] = [job[e] EXCEPT !.noise = noise, !.step = "commit",
                                                       !.placeholder = placeholder]]
    BY DEF Alert!Answer
  <2> DEFINE j == [job[e] EXCEPT !.noise = noise, !.step = "commit", !.placeholder = placeholder]
  <2>1. CASE job' = [job EXCEPT ![e] = Alert!NoJob]
    BY <2>1, NoJobState
  <2>2. CASE job' = [job EXCEPT ![e] = j]
    <3>1. /\ j \in JobStates /\ j.of = job[e].of /\ j.was = job[e].was
          /\ j.placeholder = placeholder /\ j.noise = noise
      BY <1>1 DEF JobStates
    <3>2. marks = 0 => ~job[e].was
      BY <1>1 DEF AlertInv, Unmarked
    <3>3. job[e].of \in Changes
      BY <1>1 DEF AlertInv, JobsSound
    <3> HIDE DEF j
    <3> QED  BY <2>2, <3>1, <3>2, <3>3
  <2> QED  BY <2>1, <2>2
<1> QED  BY <1>1, <1>2, <1>3, <1>4, JobMoves

LEMMA AlertFail ==
  ASSUME AlertInv, NEW e \in Enrichers, Alert!Fail(e)
  PROVE  AlertInv'
<1>1. async
  BY AtWork DEF Alert!Fail
<1>2. UNCHANGED <<time, async, inbox, rows, tries, marks, refused, queued>>
  BY Zenon DEF Alert!Fail
<1>3. tries' \in 0..MaxTries /\ message' \in [Changes -> 0..2]
  <2> DEFINE c == job[e].of
  <2>1. PICK again \in 0..1 : message' = [message EXCEPT ![c] = IF @ < 2 THEN @ + again ELSE @]
    BY DEF Alert!Fail
  <2> HIDE DEF c
  <2>2. message \in [Changes -> 0..2]
    BY DEF AlertInv, Alert!TypeOK
  <2>3. message' \in [Changes -> 0..2]
    <3>1. CASE c \in Changes
      <4>1. PICK n \in 0..2 : n = IF message[c] < 2 THEN message[c] + again ELSE message[c]
        BY <2>2, <3>1
      <4>2. message' = [message EXCEPT ![c] = n]
        BY <2>1, <2>2, <3>1, <4>1
      <4> QED  BY <2>2, <4>2
    <3>2. CASE c \notin Changes
      BY <2>1, <2>2, <3>2
    <3> QED  BY <3>1, <3>2
  <2> QED  BY <1>2, <2>3 DEF AlertInv, Alert!TypeOK
<1>4. job' = [job EXCEPT ![e] = Alert!NoJob]
  BY DEF Alert!Fail
<1> QED  BY <1>1, <1>2, <1>3, <1>4, NoJobState, JobMoves

LEMMA AlertFinish ==
  ASSUME AlertInv, NEW e \in Enrichers, Alert!Finish(e)
  PROVE  AlertInv'
<1> DEFINE c == job[e].of
           noise == job[e].noise
<1>1. job[e].step = "commit" /\ job' = [job EXCEPT ![e] = Alert!NoJob]
      /\ Alert!Enriched(e) /\ Alert!Queue(c, noise)
      /\ UNCHANGED <<time, async, message, tries, marks>>
  BY Zenon DEF Alert!Finish
<1>2. /\ c \in Changes /\ async /\ noise \in BOOLEAN /\ job[e] \in JobStates
      /\ job[e].placeholder => ~noise
  <2>1. job[e] # Alert!NoJob
    BY <1>1 DEF Alert!NoJob
  <2>2. job[e] \in JobStates
    BY DEF AlertInv, JobsSound
  <2>3. noise \in BOOLEAN
    BY <2>2, Zenon DEF JobStates
  <2> QED  BY <1>1, <2>1, <2>2, <2>3, AtWork DEF AlertInv, JobsSound
<1>3. marks = 0 => ~job[e].was
  BY <1>1 DEF AlertInv, Unmarked
<1>4. PICK n \in BOOLEAN, s \in Alert!Summaries :
        /\ inbox' = [inbox EXCEPT ![c].noise = n, ![c].summary = s]
        /\ n = IF noise # job[e].was THEN noise ELSE inbox[c].noise
        /\ s = IF job[e].placeholder THEN inbox[c].summary ELSE "enriched"
  <2>1. inbox[c].noise \in BOOLEAN
    BY <1>2, Zenon DEF AlertInv, Alert!TypeOK
  <2>2. (IF noise # job[e].was THEN noise ELSE inbox[c].noise) \in BOOLEAN
    BY <1>2, <2>1, Zenon
  <2>3. (IF job[e].placeholder THEN inbox[c].summary ELSE "enriched") \in Alert!Summaries
    BY <1>2 DEF AlertInv, Alert!TypeOK, Alert!Summaries
  <2>4. inbox' = [inbox EXCEPT ![c].noise = IF noise # job[e].was THEN noise ELSE @,
                               ![c].summary = IF job[e].placeholder THEN @ ELSE "enriched"]
    BY <1>1 DEF Alert!Enriched
  <2>5. inbox' = [inbox EXCEPT ![c].noise = IF noise # job[e].was THEN noise ELSE inbox[c].noise,
                               ![c].summary = IF job[e].placeholder THEN inbox[c].summary ELSE "enriched"]
    BY <2>4, <1>2 DEF AlertInv, Alert!TypeOK
  <2> QED  BY <2>2, <2>3, <2>5
<1> HIDE DEF c, noise
<1>5. /\ inbox' \in [Changes -> [at : 0..LastTime, noise : BOOLEAN, summary : Alert!Summaries]]
      /\ inbox'[c].noise = n /\ inbox'[c].summary = s
      /\ \A d \in Changes \ {c} : inbox'[d] = inbox[d]
  <2> DEFINE b == [inbox[c] EXCEPT !.noise = n, !.summary = s]
             T == [at : 0..LastTime, noise : BOOLEAN, summary : Alert!Summaries]
  <2>1. inbox \in [Changes -> T] /\ inbox[c] \in T
    BY <1>2 DEF AlertInv, Alert!TypeOK
  <2>2. b \in T /\ b.noise = n /\ b.summary = s
    BY <2>1
  <2>3. inbox' = [inbox EXCEPT ![c] = b]
    BY <1>2, <1>4, <2>1
  <2> HIDE DEF b, T
  <2>4. inbox' \in [Changes -> T] /\ inbox'[c] = b /\ \A d \in Changes \ {c} : inbox'[d] = inbox[d]
    BY <1>2, <2>1, <2>2, <2>3
  <2> QED  BY <2>2, <2>4 DEF T
<1>6. /\ rows \subseteq rows' /\ rows' \subseteq Changes \X Channels
      /\ refused' \subseteq Changes /\ refused \ {c} \subseteq refused'
      /\ noise \/ c \in refused' \/ {c} \X Channels \subseteq rows'
      /\ queued' \in [Changes -> SUBSET (Channels \X (0..LastTime))]
      /\ RowsQueued' /\ Alert!AnnouncedOnce'
  BY <1>1, <1>2, QueueDecides DEF c, noise
<1>7. JobsSound' /\ (\A d \in Enrichers \ {e} : job'[d] = job[d]) /\ job'[e] = Alert!NoJob
  <2>1. job \in [Enrichers -> JobStates]
    BY DEF AlertInv, JobsSound
  <2>2. /\ job' \in [Enrichers -> JobStates] /\ job'[e] = Alert!NoJob
        /\ \A d \in Enrichers \ {e} : job'[d] = job[d]
    BY <1>1, <2>1, NoJobState
  <2> QED  BY <2>2, NoJobState DEF AlertInv, JobsSound
<1>8. Alert!TypeOK'
  BY <1>1, <1>5, <1>6, <1>7 DEF AlertInv, Alert!TypeOK, JobsSound, JobStates
<1>9. Unmarked'
  <2>1. ASSUME marks = 0, s = "pending" PROVE ~n
    <3>1. job[e].placeholder /\ inbox[c].summary = "pending"
      BY <1>4, <2>1
    <3>2. ~inbox[c].noise /\ ~noise
      BY <1>2, <2>1, <3>1 DEF AlertInv, Unmarked
    <3> QED  BY <1>4, <3>2
  <2> QED  BY <1>1, <1>5, <1>7, <2>1, NoJobState DEF AlertInv, Unmarked
<1>10. Alert!EnrichedIsDecided'
  <2> SUFFICES ASSUME marks = 0, NEW d \in Changes, inbox'[d].summary = "enriched", ~inbox'[d].noise
               PROVE  d \in refused' \/ {d} \X Channels \subseteq rows'
    BY <1>1 DEF Alert!EnrichedIsDecided, Alert!Events
  <2>1. CASE d = c
    <3>1. ~noise
      BY <1>3, <1>4, <1>5, <2>1
    <3> QED  BY <1>6, <2>1, <3>1
  <2>2. CASE d # c
    <3>1. d \in Alert!Events /\ inbox[d].summary = "enriched" /\ ~inbox[d].noise
      BY <1>5, <2>2 DEF Alert!Events
    <3>2. d \in refused \/ {d} \X Channels \subseteq rows
      BY <3>1 DEF AlertInv, Alert!EnrichedIsDecided
    <3> QED  BY <1>6, <2>2, <3>2
  <2> QED  BY <2>1, <2>2
<1>11. OneAtATime' /\ Alert!CooledDown'
  BY <1>1, <1>2, Zenon DEF OneAtATime, Alert!CooledDown
<1> QED  BY <1>6, <1>7, <1>8, <1>9, <1>10, <1>11 DEF AlertInv

LEMMA AlertMark ==
  ASSUME AlertInv, NEW c \in Changes, Alert!Mark(c)
  PROVE  AlertInv'
<1>1. UNCHANGED <<time, async, rows, message, job, tries, refused, queued>>
  BY DEF Alert!Mark
<1>2. marks' \in 0..MaxMarks /\ marks' # 0
  BY AlertsAssumption DEF Alert!Mark, AlertInv, Alert!TypeOK
<1>3. PICK n \in BOOLEAN : inbox' = [inbox EXCEPT ![c].noise = n]
  <2>1. (~inbox[c].noise) \in BOOLEAN
    BY Zenon
  <2>2. inbox' = [inbox EXCEPT ![c].noise = ~inbox[c].noise]
    BY DEF Alert!Mark, AlertInv, Alert!TypeOK
  <2> QED  BY <2>1, <2>2
<1>4. /\ inbox' \in [Changes -> [at : 0..LastTime, noise : BOOLEAN, summary : Alert!Summaries]]
      /\ \A d \in Changes : inbox'[d].summary = inbox[d].summary
  BY <1>3 DEF AlertInv, Alert!TypeOK
<1>5. Alert!TypeOK' /\ JobsSound'
  BY <1>1, <1>2, <1>4 DEF AlertInv, Alert!TypeOK, JobsSound
<1>6. Unmarked' /\ Alert!EnrichedIsDecided' /\ Alert!CooledDown'
  BY <1>2, Zenon DEF Unmarked, Alert!EnrichedIsDecided, Alert!CooledDown
<1>7. RowsQueued' /\ Alert!AnnouncedOnce'
  BY <1>1 DEF AlertInv, RowsQueued, Alert!AnnouncedOnce
<1>8. Alert!Events' = Alert!Events
  BY <1>4 DEF Alert!Events
<1>9. OneAtATime'
  BY <1>1, <1>2, <1>8 DEF AlertInv, OneAtATime
<1> QED  BY <1>5, <1>6, <1>7, <1>9 DEF AlertInv

LEMMA AlertTick == ASSUME AlertInv, Alert!Tick PROVE AlertInv'
<1>1. UNCHANGED <<async, inbox, rows, message, job, tries, marks, refused, queued>>
  BY DEF Alert!Tick
<1>2. time' \in 0..LastTime
  BY AlertsAssumption DEF Alert!Tick, AlertInv, Alert!TypeOK
<1>3. Alert!TypeOK'
  BY <1>1, <1>2 DEF AlertInv, Alert!TypeOK
<1>4. Alert!Events' = Alert!Events
  BY <1>1 DEF Alert!Events
<1> QED
  BY <1>1, <1>3, <1>4 DEF AlertInv, JobsSound, Unmarked, RowsQueued, OneAtATime, Alert!EnrichedIsDecided,
     Alert!AnnouncedOnce, Alert!CooledDown

LEMMA AlertStep == AlertInv /\ [Alert!Next]_alert => AlertInv'
<1>1. AlertInv /\ UNCHANGED alert => AlertInv'
  <2> SUFFICES ASSUME AlertInv, UNCHANGED alert PROVE AlertInv'
    OBVIOUS
  <2>1. UNCHANGED <<time, async, inbox, rows, message, job, tries, marks, refused, queued>>
    BY DEF alert
  <2>2. Alert!Events' = Alert!Events
    BY <2>1 DEF Alert!Events
  <2> QED
    BY <2>1, <2>2 DEF AlertInv, Alert!TypeOK, JobsSound, Unmarked, RowsQueued, OneAtATime,
       Alert!EnrichedIsDecided, Alert!AnnouncedOnce, Alert!CooledDown
<1>2. \A c \in Alert!NextChange : c \in Changes
  BY DEF Alert!NextChange
<1> QED
  BY <1>1, <1>2, AlertSync, AlertAsync, AlertReceive, AlertAnswer, AlertFinish, AlertFail, AlertMark,
     AlertTick DEF Alert!Next

LEMMA AlertAlways == AllSpec => [](part = "alerts" => AlertInv)
<1> DEFINE I == part = "alerts" => AlertInv
<1>1. AllInit => I
  BY AlertInit DEF AllInit
<1>2. I /\ [AllNext]_allVars => I'
  <2> SUFFICES ASSUME I, [AllNext]_allVars, part' = "alerts" PROVE AlertInv'
    OBVIOUS
  <2>1. part = "alerts" /\ [Alert!Next]_alert
    BY DEF AllNext, allVars
  <2> QED  BY <2>1, AlertStep
<1> QED  BY <1>1, <1>2, PTL DEF AllSpec

\* ai_enrich.py, pipeline.py: for any changes, channels and enrichers, a signal whose summary
\* is final has its rows, or a quiet period refused it.
THEOREM EveryEnrichedIsDecided == AllSpec => []EnrichedIsDecided
<1>1. (part = "alerts" => AlertInv) => EnrichedIsDecided
  BY Zenon DEF EnrichedIsDecided, AlertInv
<1> QED  BY <1>1, AlertAlways, PTL

\* pipeline.py, conditional.py: for any changes, channels and enrichers and any cool-down, one
\* row per change and channel, and announced changes a cool-down apart.
THEOREM AlertsComeApart == AllSpec => []AlertsApart
<1>1. (part = "alerts" => AlertInv) => AlertsApart
  BY Zenon DEF AlertsApart, Alert!AlertsApart, AlertInv
<1> QED  BY <1>1, AlertAlways, PTL

-----------------------------------------------------------------------------
(* Digests: the inductive invariant.                                       *)

\* What a pass that began at t must report, if there is room for it.
Wanted(t) == {c \in DOMAIN news : news[c].seen < t /\ Daily!Since(t) <= news[c].created}

\* The changes newer than c that were made by t.
Newest(c, t) == {e \in DOMAIN news : Daily!Newer(e, c) /\ news[e].created <= t}

\* The channels without a row of period k among ds.
Waiting(ds, k) == {h \in Inboxes : \A d \in ds : d.period # k \/ d.channel # h}

Enough(body, t) == \A c \in Wanted(t) : c \in body \/ Daily!Cardinality(Newest(c, t)) >= Shown

Passes == [step : {"idle", "insert"}, at : Nat, body : SUBSET (DOMAIN news), due : SUBSET Inboxes]

DailyTyped ==
  /\ clock \in Nat /\ clock <= Days * DayLength
  /\ news \in Seq([created : Nat, seen : Nat]) /\ Len(news) <= MaxNews
  /\ \A c \in DOMAIN news : news[c].created <= clock /\ (news[c].seen <= clock \/ news[c].seen = Daily!NotSeen)
  /\ \A d \in digests : d \in [period : Nat, channel : Inboxes, body : SUBSET (DOMAIN news), at : 0..clock]
  /\ pass \in [Jobs -> Passes]
  /\ steady \in BOOLEAN /\ polled \in BOOLEAN

\* A pass reports the last day, on the channels that wait for it: all of them, or another
\* pass has served them.
PassesReport ==
  \A j \in Jobs : pass[j].step = "insert" =>
    /\ pass[j].at <= clock /\ Enough(pass[j].body, pass[j].at)
    /\ LET k == Daily!Period(pass[j].at)
       IN  pass[j].due = Waiting(digests, k) \/ Waiting(digests, k) = {}

DigestsReport == \A d \in digests : d.period = Daily!Period(d.at) /\ Enough(d.body, d.at)

\* Where a complete pass has ended in this hour, the digest is there, or it had nothing to tell.
PolledReports ==
  polled =>
    \A n \in Nat, c \in DOMAIN news :
      n % DayLength = 0 /\ Daily!Period(n) = Daily!Period(clock) /\ n <= clock /\ news[c].seen < n
        /\ Daily!Since(clock) <= news[c].created
      => Waiting(digests, Daily!Period(n)) = {}

\* The hour that began at n has had its pass, and c was to be told then.
Expected(c, n) ==
  /\ n % DayLength = 0 /\ n + PollGap <= clock
  /\ news[c].seen < n /\ n + PollGap <= news[c].created + DayLength + 1

OldIsTold == steady => \A c \in DOMAIN news, n \in Nat : Expected(c, n) => Daily!Told(c, Daily!Period(n))

DailyInv ==
  /\ DailyTyped /\ PassesReport /\ DigestsReport /\ PolledReports /\ OldIsTold
  /\ Daily!OneDigest

-----------------------------------------------------------------------------
(* Digests: arithmetic, and sizes of sets of changes.                      *)

LEMMA DigestTimes ==
  /\ DayLength \in Nat \ {0} /\ PollGap \in Nat /\ PollGap >= 1 /\ PollGap <= DayLength
  /\ Days * DayLength \in Nat /\ Daily!NotSeen \in Nat /\ Days * DayLength < Daily!NotSeen
  /\ \A t \in Nat : Daily!Since(t) \in Nat
<1>1. DayLength \in Nat \ {0} /\ PollGap \in Nat /\ PollGap >= 1 /\ PollGap <= DayLength
  BY DigestAssumption
<1>2. Days * DayLength \in Nat
  BY DigestAssumption, SMT
<1> QED  BY <1>1, <1>2 DEF Daily!NotSeen, Daily!LastTick, Daily!Since

LEMMA PeriodType == ASSUME NEW t \in Nat PROVE Daily!Period(t) \in Nat
  BY DigestAssumption, SMT DEF Daily!Period

LEMMA MissingWaits == ASSUME NEW k PROVE Daily!Missing(k) = Waiting(digests, k)
  BY DEF Daily!Missing, Waiting

LEMMA Quotient ==
  ASSUME NEW D \in Nat \ {0}, NEW t \in Nat, NEW q \in Int, q = t \div D, NEW r \in Int, r = t % D
  PROVE  t = D * q + r
  BY SMT

\* Of the ticks of a day, none comes before the one that it begins with.
LEMMA DayBegins ==
  ASSUME NEW D \in Nat \ {0}, NEW t \in Nat, NEW a \in Nat, t % D = 0, a \div D = t \div D
  PROVE  t <= a
  BY SMT

\* The last tick in which a polling job may end its pass.
LEMMA LastCall ==
  ASSUME NEW D \in Nat \ {0}, NEW n \in Nat, NEW g \in Nat, n % D = 0, g < D
  PROVE  (n + g) % D = g /\ (n + g) \div D = n \div D
<1>1. PICK q \in Nat : n = D * q
  <2>1. PICK q \in Nat : q = n \div D
    BY SMT
  <2>2. n = D * q + 0
    BY <2>1, Quotient
  <2>3. D * q \in Nat
    BY <2>1, SMT
  <2> QED  BY <2>2, <2>3
<1>2. n + g = D * q + g
  BY <1>1
<1>3. (D * q + g) % D = g /\ (D * q + g) \div D = q
  BY SMT
<1>4. (D * q + 0) % D = 0 /\ (D * q + 0) \div D = q
  BY SMT
<1> QED  BY <1>1, <1>2, <1>3, <1>4

LEMMA DailyCardinality == ASSUME NEW S PROVE Daily!Cardinality(S) = Cardinality(S)
  BY DEF Daily!Cardinality, Cardinality

LEMMA NewsTyped ==
  ASSUME DailyTyped
  PROVE  /\ clock \in Nat
         /\ \A c \in DOMAIN news : news[c].created \in Nat /\ news[c].seen \in Nat
<1> DEFINE R == [created : Nat, seen : Nat]
<1>1. news \in Seq(R)
  BY DEF DailyTyped
<1> HIDE DEF R
<1>2. \A c \in DOMAIN news : news[c] \in R
  BY <1>1, LenProperties, ElementOfSeq
<1> USE DEF R
<1> QED  BY <1>2 DEF DailyTyped

\* The set of the changes is as large as their sequence is long.
LEMMA NewsCount == ASSUME DailyTyped PROVE Daily!Cardinality(DOMAIN news) = Len(news) /\ IsFiniteSet(DOMAIN news)
<1> DEFINE n == Len(news)
<1>1. n \in Nat /\ DOMAIN news = 1..n
  BY DEF DailyTyped
<1> HIDE DEF n
<1>2. IsFiniteSet(1..n) /\ Cardinality(1..n) = IF 1 > n THEN 0 ELSE n - 1 + 1
  BY <1>1, FS_Interval
<1>3. Cardinality(1..n) = n
  BY <1>1, <1>2
<1> QED  BY <1>1, <1>2, <1>3, DailyCardinality DEF n

LEMMA MoreIsEnough ==
  ASSUME NEW T, IsFiniteSet(T), NEW S \in SUBSET T
  PROVE  /\ Daily!Cardinality(S) \in Nat /\ Daily!Cardinality(T) \in Nat
         /\ Daily!Cardinality(S) <= Daily!Cardinality(T)
<1>1. IsFiniteSet(S) /\ Cardinality(S) <= Cardinality(T)
  BY FS_Subset
<1> QED  BY <1>1, FS_CardinalityType, DailyCardinality

-----------------------------------------------------------------------------
(* Digests: every step keeps it.                                           *)

LEMMA DailyInit == ASSUME Daily!Init PROVE DailyInv
<1> USE DigestAssumption DEF Daily!Init
<1>1. TRUE \in BOOLEAN /\ FALSE \in BOOLEAN
  BY Zenon
<1>2. news = <<>> /\ news \in Seq([created : Nat, seen : Nat]) /\ Len(news) = 0 /\ DOMAIN news = {}
  OBVIOUS
<1>3. Days * DayLength >= 0
  BY SMT
<1>4. Daily!NoPass \in Passes /\ Daily!NoPass.step = "idle"
  BY DEF Daily!NoPass, Passes
<1>5. steady \in BOOLEAN /\ polled \in BOOLEAN
  BY <1>1
<1>6. DailyTyped
  BY <1>2, <1>3, <1>4, <1>5 DEF DailyTyped
<1>7. PolledReports /\ OldIsTold
  BY <1>2 DEF PolledReports, OldIsTold
<1> QED
  BY <1>4, <1>6, <1>7 DEF DailyInv, PassesReport, DigestsReport, Daily!OneDigest

LEMMA DailyPoll ==
  ASSUME DailyInv, NEW j \in Jobs, Daily!Poll(j)
  PROVE  DailyInv'
<1> DEFINE R == Daily!Recent(clock)
           B == Daily!Reported(clock)
           p == [step |-> "insert", at |-> clock, body |-> B, due |-> Waiting(digests, Daily!Period(clock))]
<1>1. /\ UNCHANGED <<clock, news, digests, steady>>
      /\ \/ R = {} /\ polled' /\ UNCHANGED pass
         \/ R # {} /\ UNCHANGED polled /\ pass' = [pass EXCEPT ![j] = p]
  <2>1. Daily!Missing(Daily!Period(clock)) = Waiting(digests, Daily!Period(clock))
    BY MissingWaits
  <2> QED  BY <2>1, Zenon DEF Daily!Poll
<1>2. polled' \in BOOLEAN
  BY Zenon DEF Daily!Poll, DailyInv, DailyTyped
<1>3. clock \in Nat /\ IsFiniteSet(DOMAIN news)
  BY NewsCount DEF DailyInv, DailyTyped
<1>4. R \subseteq DOMAIN news /\ B \subseteq R
  BY DEF Daily!Recent, Daily!Reported
<1>5. Enough(B, clock)
  <2> SUFFICES ASSUME NEW c \in Wanted(clock), c \notin B
               PROVE  Daily!Cardinality(Newest(c, clock)) >= Shown
    BY DEF Enough
  <2>1. c \in R /\ news[c].seen \in Nat
    <3>1. c \in DOMAIN news /\ news[c].seen < clock /\ Daily!Since(clock) <= news[c].created
      BY DEF Wanted
    <3>2. news[c].seen \in Nat /\ news[c].created \in Nat /\ Daily!Since(clock) \in Nat
      BY <1>3, <3>1, DigestTimes, NewsTyped DEF DailyInv
    <3> QED  BY <1>3, <3>1, <3>2 DEF Daily!Recent
  <2> DEFINE S == {d \in R : Daily!Newer(d, c)}
             T == Newest(c, clock)
  <2>2. S \subseteq T /\ T \subseteq DOMAIN news
    BY <1>4 DEF Newest, DailyInv, DailyTyped
  <2>3. ~(Daily!Cardinality(S) < Shown)
    BY <2>1 DEF Daily!Reported
  <2> HIDE DEF S, T
  <2>4. IsFiniteSet(T)
    BY <1>3, <2>2, FS_Subset
  <2>5. Daily!Cardinality(S) \in Nat /\ Daily!Cardinality(T) \in Nat /\ Daily!Cardinality(S) <= Daily!Cardinality(T)
    BY <2>2, <2>4, MoreIsEnough
  <2>6. Shown \in Nat
    BY DigestAssumption
  <2> QED  BY <2>3, <2>5, <2>6 DEF T
<1>6. p \in Passes /\ p.step = "insert" /\ p.at = clock /\ p.body = B /\ p.due = Waiting(digests, Daily!Period(clock))
  <2>1. Waiting(digests, Daily!Period(clock)) \subseteq Inboxes
    BY DEF Waiting
  <2> QED  BY <1>3, <1>4, <2>1 DEF Passes
<1> HIDE DEF p, B
<1>7. DailyTyped'
  <2>1. pass' \in [Jobs -> Passes]
    BY <1>1, <1>6 DEF DailyInv, DailyTyped
  <2> QED  BY <1>1, <1>2, <2>1 DEF DailyInv, DailyTyped, Passes, Daily!NotSeen
<1>8. PassesReport'
  <2> SUFFICES ASSUME NEW i \in Jobs, pass'[i].step = "insert"
               PROVE  /\ pass'[i].at <= clock /\ Enough(pass'[i].body, pass'[i].at)
                      /\ LET k == Daily!Period(pass'[i].at)
                         IN  pass'[i].due = Waiting(digests, k) \/ Waiting(digests, k) = {}
    BY <1>1 DEF PassesReport, Enough, Wanted, Newest, Daily!Newer, Daily!Since, Waiting, Daily!Period
  <2>1. pass'[i] = pass[i] \/ pass'[i] = p
    BY <1>1 DEF DailyInv, DailyTyped
  <2>2. CASE pass'[i] = pass[i]
    BY <2>2 DEF DailyInv, PassesReport
  <2>3. CASE pass'[i] = p
    BY <1>3, <1>5, <1>6, <2>3
  <2> QED  BY <2>1, <2>2, <2>3
<1>9. PolledReports'
  <2> SUFFICES ASSUME polled', NEW n \in Nat, NEW c \in DOMAIN news, Daily!Period(n) = Daily!Period(clock),
                      n % DayLength = 0, n <= clock, news[c].seen < n, Daily!Since(clock) <= news[c].created
               PROVE  Waiting(digests, Daily!Period(n)) = {}
    BY <1>1 DEF PolledReports, Daily!Period, Daily!Since, Waiting
  <2>1. c \in R
    <3>1. news[c].seen \in Nat /\ news[c].created \in Nat /\ Daily!Since(clock) \in Nat
      BY <1>3, DigestTimes, NewsTyped DEF DailyInv
    <3> QED  BY <1>3, <3>1 DEF Daily!Recent
  <2>2. polled
    BY <1>1, <2>1
  <2> QED  BY <2>2 DEF DailyInv, PolledReports
<1>10. DigestsReport' /\ Daily!OneDigest'
  BY <1>1 DEF DailyInv, DigestsReport, Enough, Wanted, Newest, Daily!Newer, Daily!Period, Daily!Since, Daily!OneDigest
<1>11. OldIsTold'
  BY <1>1 DEF DailyInv, OldIsTold, Expected, Daily!Told, Daily!Newer, Daily!Period
<1> QED  BY <1>7, <1>8, <1>9, <1>10, <1>11 DEF DailyInv

\* What was told stays told as digests are added.
LEMMA ToldStays ==
  ASSUME news' = news, digests \subseteq digests', NEW c, NEW k, Daily!Told(c, k)
  PROVE  Daily!Told(c, k)'
  BY DEF Daily!Told, Daily!Newer

LEMMA OldStays ==
  ASSUME DailyInv, UNCHANGED <<clock, news, steady>>, digests \subseteq digests'
  PROVE  OldIsTold'
<1> SUFFICES ASSUME steady', NEW c \in DOMAIN news', NEW n \in Nat, Expected(c, n)'
             PROVE  Daily!Told(c, Daily!Period(n))'
  BY DEF OldIsTold, Daily!Period
<1>1. c \in DOMAIN news /\ Expected(c, n) /\ steady
  BY DEF Expected
<1> DEFINE k == Daily!Period(n)
<1>2. Daily!Told(c, k)
  BY <1>1 DEF DailyInv, OldIsTold
<1> HIDE DEF k
<1>3. Daily!Told(c, k)'
  BY <1>2, ToldStays
<1> QED  BY <1>3 DEF k, Daily!Told, Daily!Period, Daily!Newer

\* A pass's end does not concern the digests that were.
LEMMA PolledStays ==
  ASSUME DailyInv, UNCHANGED <<clock, news, digests, polled>>
  PROVE  PolledReports'
<1> SUFFICES ASSUME polled', NEW n \in Nat, NEW c \in DOMAIN news, Daily!Period(n) = Daily!Period(clock),
                    n % DayLength = 0, n <= clock, news[c].seen < n, Daily!Since(clock) <= news[c].created
             PROVE  Waiting(digests, Daily!Period(n)) = {}
  BY DEF PolledReports, Daily!Period, Daily!Since, Waiting
<1> QED  BY DEF DailyInv, PolledReports

LEMMA DailyInsert ==
  ASSUME DailyInv, NEW j \in Jobs, Daily!Insert(j)
  PROVE  DailyInv'
<1> DEFINE k == Daily!Period(pass[j].at)
           D == pass[j].due
           New == {[period |-> k, channel |-> h, body |-> pass[j].body, at |-> pass[j].at] : h \in D}
<1>1. /\ UNCHANGED <<clock, news, steady>> /\ pass[j].step = "insert"
      /\ pass' = [pass EXCEPT ![j] = Daily!NoPass]
      /\ digests' = IF D \subseteq Waiting(digests, k) THEN digests \cup New ELSE digests
      /\ polled' = (polled \/ (Daily!Due(clock) /\ k = Daily!Period(clock)))
  <2>1. Daily!Missing(k) = Waiting(digests, k)
    BY MissingWaits
  <2> QED  BY <2>1, Zenon DEF Daily!Insert
<1>2. polled' \in BOOLEAN
  BY <1>1, Zenon DEF DailyInv, DailyTyped
<1>3. /\ pass[j].at <= clock /\ Enough(pass[j].body, pass[j].at)
      /\ D = Waiting(digests, k) \/ Waiting(digests, k) = {}
  BY <1>1 DEF DailyInv, PassesReport
<1>4. /\ clock \in Nat /\ pass[j].at \in 0..clock /\ k \in Nat /\ pass[j].body \subseteq DOMAIN news
      /\ D \subseteq Inboxes
  <2>1. clock \in Nat /\ pass[j] \in Passes
    BY DEF DailyInv, DailyTyped
  <2>2. pass[j].at \in Nat /\ pass[j].body \subseteq DOMAIN news /\ D \subseteq Inboxes
    BY <2>1 DEF Passes
  <2>3. k \in Nat
    BY <2>2, PeriodType
  <2> QED  BY <1>3, <2>1, <2>2, <2>3
<1>5. Daily!NoPass \in Passes /\ Daily!NoPass.step = "idle"
  BY DEF Daily!NoPass, Passes
<1>6. /\ pass' \in [Jobs -> Passes] /\ pass'[j] = Daily!NoPass
      /\ \A i \in Jobs \ {j} : pass'[i] = pass[i]
  BY <1>1, <1>5 DEF DailyInv, DailyTyped
<1>7. \A d \in New : /\ d \in [period : Nat, channel : Inboxes, body : SUBSET (DOMAIN news), at : 0..clock]
                     /\ d.period = k /\ d.at = pass[j].at /\ d.body = pass[j].body /\ d.channel \in D
  BY <1>4
<1>8. \A d, e \in New : d.channel = e.channel => d = e
  OBVIOUS
<1>9. \A h \in D : \E d \in New : d.channel = h
  <2> SUFFICES ASSUME NEW h \in D PROVE \E d \in New : d.channel = h
    OBVIOUS
  <2> DEFINE d == [period |-> k, channel |-> h, body |-> pass[j].body, at |-> pass[j].at]
  <2>1. d \in New /\ d.channel = h
    OBVIOUS
  <2> HIDE DEF d, New
  <2> QED  BY <2>1
<1> HIDE DEF New, D, k
<1>10. digests \subseteq digests' /\ digests' \subseteq digests \cup New
  BY <1>1
<1>11. DailyTyped'
  BY <1>1, <1>2, <1>6, <1>7, <1>10 DEF DailyInv, DailyTyped, Passes, Daily!NotSeen
<1>12. Waiting(digests', k) = {} /\ \A m : Waiting(digests', m) \in SUBSET Waiting(digests, m)
  <2>1. \A m : Waiting(digests', m) \in SUBSET Waiting(digests, m)
    BY <1>10 DEF Waiting
  <2>2. CASE D \subseteq Waiting(digests, k)
    <3>1. Waiting(digests, k) \subseteq D /\ digests' = digests \cup New
      BY <1>1, <1>3, <2>2
    <3> SUFFICES ASSUME NEW h \in Inboxes PROVE \E d \in digests' : d.period = k /\ d.channel = h
      BY <2>1 DEF Waiting
    <3>2. CASE h \in D
      BY <1>7, <1>9, <3>1, <3>2
    <3>3. CASE h \notin D
      BY <3>1, <3>3 DEF Waiting
    <3> QED  BY <3>2, <3>3
  <2>3. CASE ~(D \subseteq Waiting(digests, k))
    BY <1>3, <2>1, <2>3
  <2> QED  BY <2>1, <2>2, <2>3
<1>13. \A m \in Nat : m # k => Waiting(digests', m) = Waiting(digests, m)
  BY <1>7, <1>10 DEF Waiting
<1>14. PassesReport'
  <2> SUFFICES ASSUME NEW i \in Jobs, pass'[i].step = "insert"
               PROVE  /\ pass'[i].at <= clock /\ Enough(pass'[i].body, pass'[i].at)
                      /\ LET m == Daily!Period(pass'[i].at)
                         IN  pass'[i].due = Waiting(digests', m) \/ Waiting(digests', m) = {}
    BY <1>1 DEF PassesReport, Enough, Wanted, Newest, Daily!Newer, Daily!Since, Daily!Period, Waiting
  <2>1. pass'[i] = pass[i]
    BY <1>5, <1>6
  <2> DEFINE m == Daily!Period(pass[i].at)
  <2>2. /\ pass[i].at <= clock /\ Enough(pass[i].body, pass[i].at)
        /\ pass[i].due = Waiting(digests, m) \/ Waiting(digests, m) = {}
    BY <2>1 DEF DailyInv, PassesReport
  <2>3. m \in Nat
    BY PeriodType DEF DailyInv, DailyTyped, Passes
  <2> HIDE DEF m
  <2>4. pass[i].due = Waiting(digests', m) \/ Waiting(digests', m) = {}
    BY <1>12, <1>13, <2>2, <2>3
  <2> QED  BY <2>1, <2>2, <2>4 DEF m
<1>15. DigestsReport'
  <2>1. \A d \in digests' : d.period = Daily!Period(d.at) /\ Enough(d.body, d.at)
    BY <1>3, <1>7, <1>10 DEF DailyInv, DigestsReport, k
  <2> QED
    BY <1>1, <2>1 DEF DigestsReport, Enough, Wanted, Newest, Daily!Newer, Daily!Since, Daily!Period
<1>16. PolledReports'
  <2> SUFFICES ASSUME polled', NEW n \in Nat, NEW c \in DOMAIN news, Daily!Period(n) = Daily!Period(clock),
                      n % DayLength = 0, n <= clock, news[c].seen < n, Daily!Since(clock) <= news[c].created
               PROVE  Waiting(digests', Daily!Period(n)) = {}
    BY <1>1 DEF PolledReports, Daily!Period, Daily!Since, Waiting
  <2>1. CASE polled
    <3>1. Waiting(digests, Daily!Period(n)) = {}
      BY <2>1 DEF DailyInv, PolledReports
    <3> QED  BY <1>12, <3>1
  <2>2. CASE k = Daily!Period(clock)
    BY <1>12, <2>2
  <2> QED  BY <1>1, <2>1, <2>2
<1>17. OldIsTold'
  BY <1>1, <1>10, OldStays
<1>18. Daily!OneDigest'
  <2> SUFFICES ASSUME NEW d \in digests', NEW e \in digests', d.period = e.period, d.channel = e.channel
               PROVE  d = e
    BY DEF Daily!OneDigest
  <2>1. CASE digests' = digests
    BY <2>1 DEF DailyInv, Daily!OneDigest
  <2>2. CASE digests' # digests
    <3>1. D \subseteq Waiting(digests, k)
      BY <1>1, <2>2
    <3>2. \A a \in New : \A b \in digests : ~(a.period = b.period /\ a.channel = b.channel)
      BY <1>7, <3>1 DEF Waiting
    <3> QED  BY <1>8, <1>10, <3>2 DEF DailyInv, Daily!OneDigest
  <2> QED  BY <2>1, <2>2
<1> QED  BY <1>11, <1>14, <1>15, <1>16, <1>17, <1>18 DEF DailyInv

LEMMA DailyPassFails ==
  ASSUME DailyInv, NEW j \in Jobs, Daily!PassFails(j)
  PROVE  DailyInv'
<1>1. /\ UNCHANGED <<clock, news, digests, polled, steady>>
      /\ pass' = [pass EXCEPT ![j] = Daily!NoPass]
  BY DEF Daily!PassFails
<1>2. Daily!NoPass \in Passes /\ Daily!NoPass.step = "idle"
  BY DEF Daily!NoPass, Passes
<1>3. /\ pass' \in [Jobs -> Passes] /\ pass'[j] = Daily!NoPass
      /\ \A i \in Jobs \ {j} : pass'[i] = pass[i]
  BY <1>1, <1>2 DEF DailyInv, DailyTyped
<1>4. DailyTyped'
  BY <1>1, <1>3 DEF DailyInv, DailyTyped, Passes, Daily!NotSeen
<1>5. PassesReport'
  BY <1>1, <1>2, <1>3
  DEF DailyInv, PassesReport, Enough, Wanted, Newest, Daily!Newer, Daily!Since, Waiting, Daily!Period
<1>6. PolledReports' /\ OldIsTold'
  BY <1>1, PolledStays, OldStays
<1>7. DigestsReport' /\ Daily!OneDigest'
  BY <1>1 DEF DailyInv, DigestsReport, Enough, Wanted, Newest, Daily!Newer, Daily!Period, Daily!Since, Daily!OneDigest
<1> QED  BY <1>4, <1>5, <1>6, <1>7 DEF DailyInv

\* A new change, or a commit, is nothing a pass that has begun must report.
LEMMA NewsGrows ==
  ASSUME DailyInv, UNCHANGED <<clock, digests, pass, polled, steady>>,
         DOMAIN news \subseteq DOMAIN news', IsFiniteSet(DOMAIN news'),
         \A c \in DOMAIN news : /\ news'[c].created = news[c].created
                                /\ news'[c].seen = news[c].seen \/ news'[c].seen = clock,
         \A c \in DOMAIN news' : c \notin DOMAIN news => news'[c].seen = Daily!NotSeen
  PROVE  PassesReport' /\ DigestsReport' /\ PolledReports' /\ OldIsTold' /\ Daily!OneDigest'
<1>1. /\ clock \in Nat /\ Daily!NotSeen \in Nat /\ clock < Daily!NotSeen
      /\ \A c \in DOMAIN news : news[c].seen \in Nat /\ news[c].created \in Nat
  <2>1. clock \in Nat /\ clock <= Days * DayLength
    BY DEF DailyInv, DailyTyped
  <2> QED  BY <2>1, DigestTimes, NewsTyped DEF DailyInv
<1>2. \A c \in DOMAIN news', t \in 0..clock : news'[c].seen < t => c \in DOMAIN news /\ news'[c].seen = news[c].seen
  BY <1>1
<1>3. \A c \in DOMAIN news, t \in Nat :
        /\ Daily!Cardinality(Newest(c, t)) \in Nat /\ Daily!Cardinality(Newest(c, t)') \in Nat
        /\ Daily!Cardinality(Newest(c, t)) <= Daily!Cardinality(Newest(c, t)')
  <2> SUFFICES ASSUME NEW c \in DOMAIN news, NEW t \in Nat
               PROVE  /\ Daily!Cardinality(Newest(c, t)) \in Nat /\ Daily!Cardinality(Newest(c, t)') \in Nat
                      /\ Daily!Cardinality(Newest(c, t)) <= Daily!Cardinality(Newest(c, t)')
    OBVIOUS
  <2>1. Newest(c, t) \in SUBSET (Newest(c, t)')
    BY DEF Newest, Daily!Newer
  <2>2. IsFiniteSet(Newest(c, t)')
    <3>1. Newest(c, t)' \in SUBSET (DOMAIN news')
      BY DEF Newest
    <3> QED  BY <3>1, FS_Subset
  <2> QED  BY <2>1, <2>2, MoreIsEnough
<1>4. Shown \in Nat
  BY DigestAssumption
<1>5. \A t \in 0..clock : \A B : Enough(B, t) => Enough(B, t)'
  <2> SUFFICES ASSUME NEW t \in 0..clock, NEW B, Enough(B, t), NEW c \in Wanted(t)', c \notin B
               PROVE  Daily!Cardinality(Newest(c, t)') >= Shown
    BY DEF Enough, Daily!Cardinality
  <2>1. c \in DOMAIN news' /\ news'[c].seen < t /\ Daily!Since(t) <= news'[c].created
    BY DEF Wanted, Daily!Since
  <2>2. c \in DOMAIN news /\ c \in Wanted(t)
    BY <1>2, <2>1 DEF Wanted
  <2>3. Daily!Cardinality(Newest(c, t)) >= Shown
    BY <2>2 DEF Enough
  <2>4. t \in Nat
    BY <1>1
  <2> QED  BY <1>3, <1>4, <2>2, <2>3, <2>4
<1>6. PassesReport'
  <2> SUFFICES ASSUME NEW i \in Jobs, pass[i].step = "insert"
               PROVE  /\ pass[i].at <= clock /\ Enough(pass[i].body, pass[i].at)'
                      /\ LET k == Daily!Period(pass[i].at)
                         IN  pass[i].due = Waiting(digests, k) \/ Waiting(digests, k) = {}
    BY DEF PassesReport, Enough, Wanted, Newest, Daily!Newer, Daily!Since, Waiting, Daily!Period
  <2> DEFINE t == pass[i].at  B == pass[i].body
  <2>1. t \in 0..clock /\ Enough(B, t)
    BY <1>1 DEF DailyInv, DailyTyped, Passes, PassesReport
  <2>2. t' = t /\ B' = B
    OBVIOUS
  <2> HIDE DEF t, B
  <2>3. Enough(B, t)'
    <3>1. \A s \in 0..clock : \A C : Enough(C, s) => \A c \in DOMAIN news' :
            news'[c].seen < s /\ Daily!Since(s) <= news'[c].created
              => c \in C \/ Daily!Cardinality({e \in DOMAIN news' :
                   (news'[e].created > news'[c].created \/ (news'[e].created = news'[c].created /\ e > c))
                   /\ news'[e].created <= s}) >= Shown
      BY <1>5 DEF Enough, Wanted, Newest, Daily!Newer, Daily!Since
    <3> QED  BY <2>1, <2>2, <3>1 DEF Enough, Wanted, Newest, Daily!Newer, Daily!Since
  <2> QED  BY <2>1, <2>3 DEF t, B, DailyInv, PassesReport
<1>7. DigestsReport'
  <2> SUFFICES ASSUME NEW d \in digests PROVE d.period = Daily!Period(d.at) /\ Enough(d.body, d.at)'
    BY DEF DigestsReport, Daily!Period
  <2>1. d.period = Daily!Period(d.at) /\ Enough(d.body, d.at) /\ d.at \in 0..clock
    BY DEF DailyInv, DigestsReport, DailyTyped
  <2> QED  BY <1>5, <2>1
<1>8. PolledReports'
  <2> SUFFICES ASSUME polled, NEW n \in Nat, NEW c \in DOMAIN news', Daily!Period(n) = Daily!Period(clock),
                      n % DayLength = 0, n <= clock, news'[c].seen < n, Daily!Since(clock) <= news'[c].created
               PROVE  Waiting(digests, Daily!Period(n)) = {}
    BY DEF PolledReports, Daily!Period, Daily!Since, Waiting
  <2>1. n \in 0..clock
    BY <1>1
  <2>2. c \in DOMAIN news /\ news'[c].seen = news[c].seen
    BY <1>2, <2>1
  <2> QED  BY <2>2 DEF DailyInv, PolledReports
<1>9. OldIsTold'
  <2> SUFFICES ASSUME steady, NEW c \in DOMAIN news', NEW n \in Nat, Expected(c, n)'
               PROVE  Daily!Told(c, Daily!Period(n))'
    BY DEF OldIsTold, Daily!Period
  <2>1. /\ n % DayLength = 0 /\ n + PollGap <= clock
        /\ news'[c].seen < n /\ n + PollGap <= news'[c].created + DayLength + 1
    BY DEF Expected
  <2>2. n \in 0..clock
    BY <1>1, <2>1, DigestTimes
  <2>3. c \in DOMAIN news /\ news'[c].seen = news[c].seen
    BY <1>2, <2>1, <2>2
  <2>4. Daily!Told(c, Daily!Period(n))
    BY <2>1, <2>3 DEF DailyInv, OldIsTold, Expected
  <2> DEFINE k == Daily!Period(n)
  <2>5. \A h \in Inboxes : \E d \in digests : d.channel = h /\ d.period = k
          /\ (c \in d.body \/ Daily!Cardinality(Newest(c, d.at)) >= Shown)
    BY <2>4 DEF Daily!Told, Newest
  <2> HIDE DEF k
  <2>6. \A d \in digests : d.at \in Nat
    BY DEF DailyInv, DailyTyped
  <2>7. \A h \in Inboxes : \E d \in digests : d.channel = h /\ d.period = k
          /\ (c \in d.body \/ Daily!Cardinality(Newest(c, d.at)') >= Shown)
    BY <1>3, <1>4, <2>3, <2>5, <2>6
  <2> QED  BY <2>7 DEF Daily!Told, Newest, Daily!Newer, k, Daily!Period
<1>10. Daily!OneDigest'
  BY DEF DailyInv, Daily!OneDigest
<1> QED  BY <1>6, <1>7, <1>8, <1>9, <1>10

LEMMA DailyChange == ASSUME DailyInv, Daily!Change PROVE DailyInv'
<1> DEFINE n == Len(news) + 1
           x == [created |-> clock, seen |-> Daily!NotSeen]
<1>1. /\ UNCHANGED <<clock, digests, pass, steady, polled>> /\ news' = Append(news, x)
      /\ Len(news) < MaxNews
  BY NewsCount DEF Daily!Change, DailyInv
<1>2. /\ news \in Seq([created : Nat, seen : Nat]) /\ clock \in Nat /\ Len(news) \in Nat
      /\ x \in [created : Nat, seen : Nat] /\ x.created = clock /\ x.seen = Daily!NotSeen
  BY DigestTimes DEF DailyInv, DailyTyped
<1> HIDE DEF x
<1>3. /\ news' \in Seq([created : Nat, seen : Nat]) /\ Len(news') = n /\ DOMAIN news' = DOMAIN news \cup {n}
      /\ DOMAIN news' = 1..n /\ n \in Nat /\ n \notin DOMAIN news
      /\ news'[n] = x /\ \A c \in DOMAIN news : news'[c] = news[c]
  BY <1>1, <1>2
<1> HIDE DEF n
<1>4. Len(news') <= MaxNews
  BY <1>1, <1>2, <1>3, DigestAssumption DEF n
<1>5. DailyTyped'
  <2>1. \A c \in DOMAIN news' : news'[c].created <= clock /\ (news'[c].seen <= clock \/ news'[c].seen = Daily!NotSeen)
    BY <1>2, <1>3 DEF DailyInv, DailyTyped
  <2>2. \A d \in digests : d \in [period : Nat, channel : Inboxes, body : SUBSET (DOMAIN news'), at : 0..clock]
    BY <1>3 DEF DailyInv, DailyTyped
  <2>3. pass \in [Jobs -> Passes']
    BY <1>3 DEF DailyInv, DailyTyped, Passes
  <2> QED  BY <1>1, <1>3, <1>4, <2>1, <2>2, <2>3 DEF DailyInv, DailyTyped, Daily!NotSeen
<1>6. IsFiniteSet(DOMAIN news')
  BY <1>3, FS_Interval
<1>7. PassesReport' /\ DigestsReport' /\ PolledReports' /\ OldIsTold' /\ Daily!OneDigest'
  BY <1>1, <1>2, <1>3, <1>6, NewsGrows
<1> QED  BY <1>5, <1>7 DEF DailyInv

LEMMA DailyCommit == ASSUME DailyInv, NEW i \in DOMAIN news, Daily!Commit(i) PROVE DailyInv'
<1>1. /\ UNCHANGED <<clock, digests, pass, steady, polled>>
      /\ news' = [news EXCEPT ![i].seen = clock]
  BY DEF Daily!Commit
<1>2. /\ news \in Seq([created : Nat, seen : Nat]) /\ clock \in Nat
  BY DEF DailyInv, DailyTyped
<1>3. /\ news' \in Seq([created : Nat, seen : Nat]) /\ DOMAIN news' = DOMAIN news /\ Len(news') = Len(news)
      /\ \A c \in DOMAIN news : /\ news'[c].created = news[c].created
                                /\ news'[c].seen = IF c = i THEN clock ELSE news[c].seen
  <2> DEFINE R == [created : Nat, seen : Nat]
             y == [news[i] EXCEPT !.seen = clock]
  <2>1. news \in Seq(R)
    BY <1>2
  <2>2. news[i] \in R /\ DOMAIN news = 1..Len(news)
    <3> HIDE DEF R
    <3> QED  BY <2>1, LenProperties, ElementOfSeq
  <2>3. y \in R /\ y.created = news[i].created /\ y.seen = clock
    BY <1>2, <2>2
  <2>4. news' = [news EXCEPT ![i] = y]
    BY <1>1
  <2> HIDE DEF R, y
  <2>5. news' \in Seq(R) /\ Len(news') = Len(news)
        /\ \A c \in DOMAIN news : news'[c] = IF c = i THEN y ELSE news[c]
    BY <2>1, <2>2, <2>3, <2>4, ExceptSeq
  <2>6. DOMAIN news' = DOMAIN news
    BY <2>4
  <2>7. \A c \in DOMAIN news : /\ news'[c].created = news[c].created
                              /\ news'[c].seen = IF c = i THEN clock ELSE news[c].seen
    BY <2>3, <2>5
  <2>8. news' \in Seq([created : Nat, seen : Nat])
    BY <2>5, Zenon DEF R
  <2> QED  BY <2>5, <2>6, <2>7, <2>8
<1>4. DailyTyped'
  <2>1. \A c \in DOMAIN news' : news'[c].created <= clock /\ (news'[c].seen <= clock \/ news'[c].seen = Daily!NotSeen)
    <3>1. \A c \in DOMAIN news : news[c].created <= clock /\ (news[c].seen <= clock \/ news[c].seen = Daily!NotSeen)
      BY DEF DailyInv, DailyTyped
    <3>2. \A c \in DOMAIN news' : c \in DOMAIN news /\ news'[c].created = news[c].created
                                  /\ news'[c].seen = IF c = i THEN clock ELSE news[c].seen
      BY <1>3
    <3>3. clock <= clock
      BY <1>2
    <3> QED  BY <3>1, <3>2, <3>3, Zenon
  <2>2. pass \in [Jobs -> Passes']
    BY <1>3 DEF DailyInv, DailyTyped, Passes
  <2> QED  BY <1>1, <1>3, <2>1, <2>2 DEF DailyInv, DailyTyped, Daily!NotSeen
<1>5. IsFiniteSet(DOMAIN news')
  BY <1>3, NewsCount DEF DailyInv
<1>6. PassesReport' /\ DigestsReport' /\ PolledReports' /\ OldIsTold' /\ Daily!OneDigest'
  BY <1>1, <1>3, <1>5, NewsGrows
<1> QED  BY <1>4, <1>6 DEF DailyInv

\* When the last tick is over in which a polling job ends its pass, what the hour had to tell is told.
LEMMA HourIsTold ==
  ASSUME DailyInv, Daily!Tick, steady', NEW c \in DOMAIN news, NEW n \in Nat, n % DayLength = 0,
         n + PollGap = clock + 1, news[c].seen < n, n + PollGap <= news[c].created + DayLength + 1
  PROVE  Daily!Told(c, Daily!Period(n))
<1>1. /\ clock \in Nat /\ news[c].created \in Nat /\ news[c].seen \in Nat
      /\ \A d \in digests : d.at \in 0..clock
  <2>1. \A d \in digests : d.at \in 0..clock
    BY DEF DailyInv, DailyTyped
  <2> QED  BY <2>1, NewsTyped DEF DailyInv
<1>2. clock = n + (PollGap - 1) /\ PollGap - 1 \in Nat /\ PollGap - 1 < DayLength /\ n <= clock
  <2>1. PollGap \in Nat /\ PollGap >= 1 /\ PollGap <= DayLength /\ DayLength \in Nat
    BY DigestTimes
  <2> QED  BY <1>1, <2>1
<1>3. clock % DayLength = PollGap - 1 /\ Daily!Period(clock) = Daily!Period(n)
  <2> DEFINE g == PollGap - 1
  <2>1. DayLength \in Nat \ {0}
    BY DigestTimes
  <2>2. g \in Nat /\ g < DayLength /\ clock = n + g
    BY <1>2
  <2> HIDE DEF g
  <2>3. (n + g) % DayLength = g /\ (n + g) \div DayLength = n \div DayLength
    BY <2>1, <2>2, LastCall
  <2> QED  BY <2>2, <2>3 DEF g, Daily!Period
<1>4. steady /\ polled
  <2>1. steady /\ (clock % DayLength = PollGap - 1 => polled)
    BY Zenon DEF Daily!Tick
  <2> QED  BY <1>3, <2>1
<1>5. \A t \in 0..clock : Daily!Since(t) <= news[c].created
  BY <1>1, <1>2, DigestTimes DEF Daily!Since
<1>6. Waiting(digests, Daily!Period(n)) = {}
  BY <1>1, <1>2, <1>3, <1>4, <1>5 DEF DailyInv, PolledReports
<1> SUFFICES ASSUME NEW h \in Inboxes
             PROVE  \E d \in digests : d.channel = h /\ d.period = Daily!Period(n)
                      /\ (c \in d.body \/ Daily!Cardinality(Newest(c, d.at)) >= Shown)
  BY DEF Daily!Told, Newest
<1>7. PICK d \in digests : d.period = Daily!Period(n) /\ d.channel = h
  BY <1>6 DEF Waiting
<1>8. d.period = Daily!Period(d.at) /\ Enough(d.body, d.at)
  BY DEF DailyInv, DigestsReport
<1>9. n <= d.at
  <2>1. d.at \in Nat /\ DayLength \in Nat \ {0}
    BY <1>1, DigestTimes
  <2> QED  BY <1>7, <1>8, <2>1, DayBegins DEF Daily!Period
<1>10. c \in Wanted(d.at)
  BY <1>1, <1>5, <1>9 DEF Wanted
<1> QED  BY <1>7, <1>8, <1>10 DEF Enough

LEMMA DailyTick == ASSUME DailyInv, Daily!Tick PROVE DailyInv'
<1>1. /\ clock' = clock + 1 /\ clock < Days * DayLength /\ UNCHANGED <<news, digests, pass>>
  BY DEF Daily!Tick, Daily!LastTick
<1>2. /\ steady' \in BOOLEAN /\ polled' \in BOOLEAN /\ (steady' => steady)
      /\ (polled' => polled /\ Daily!Period(clock + 1) = Daily!Period(clock))
  BY Zenon DEF Daily!Tick
<1>3. clock \in Nat /\ Days * DayLength \in Nat
  BY DigestTimes DEF DailyInv, DailyTyped
<1>4. DailyTyped'
  <2>1. clock' \in Nat /\ clock' <= Days * DayLength
    BY <1>1, <1>3
  <2>2. \A c \in DOMAIN news : news[c].created <= clock + 1 /\ (news[c].seen <= clock + 1 \/ news[c].seen = Daily!NotSeen)
    <3>1. \A c \in DOMAIN news : news[c].created <= clock /\ (news[c].seen <= clock \/ news[c].seen = Daily!NotSeen)
      BY DEF DailyInv, DailyTyped
    <3> QED  BY <1>3, <3>1, NewsTyped DEF DailyInv
  <2>3. \A d \in digests : d \in [period : Nat, channel : Inboxes, body : SUBSET (DOMAIN news), at : 0..(clock + 1)]
    BY <1>3 DEF DailyInv, DailyTyped
  <2> QED  BY <1>1, <1>2, <2>1, <2>2, <2>3 DEF DailyInv, DailyTyped, Passes, Daily!NotSeen
<1>5. PassesReport'
  <2>1. \A j \in Jobs : pass[j].step = "insert" => pass[j].at <= clock + 1
    BY <1>3 DEF DailyInv, DailyTyped, Passes, PassesReport
  <2> QED
    BY <1>1, <2>1
    DEF DailyInv, PassesReport, Enough, Wanted, Newest, Daily!Newer, Daily!Since, Waiting, Daily!Period
<1>6. DigestsReport' /\ Daily!OneDigest'
  BY <1>1 DEF DailyInv, DigestsReport, Enough, Wanted, Newest, Daily!Newer, Daily!Period, Daily!Since, Daily!OneDigest
<1>7. PolledReports'
  <2> SUFFICES ASSUME polled', NEW n \in Nat, NEW c \in DOMAIN news, Daily!Period(n) = Daily!Period(clock + 1),
                      n % DayLength = 0, n <= clock + 1, news[c].seen < n, Daily!Since(clock + 1) <= news[c].created
               PROVE  Waiting(digests, Daily!Period(n)) = {}
    BY <1>1 DEF PolledReports, Daily!Period, Daily!Since, Waiting
  <2>1. polled /\ Daily!Period(n) = Daily!Period(clock)
    BY <1>2
  <2>2. Daily!Since(clock) <= Daily!Since(clock + 1) /\ Daily!Since(clock) \in Nat /\ Daily!Since(clock + 1) \in Nat
    BY <1>3, DigestTimes DEF Daily!Since
  <2>3. Daily!Since(clock) <= news[c].created /\ news[c].seen \in Nat
    BY <2>2, NewsTyped DEF DailyInv
  <2>4. n <= clock
    BY <1>3, <2>1, DigestTimes, DayBegins DEF Daily!Period
  <2> QED  BY <2>1, <2>3, <2>4 DEF DailyInv, PolledReports
<1>8. OldIsTold'
  <2> SUFFICES ASSUME steady', NEW c \in DOMAIN news, NEW n \in Nat, Expected(c, n)'
               PROVE  Daily!Told(c, Daily!Period(n))
    BY <1>1 DEF OldIsTold, Daily!Told, Daily!Newer, Daily!Period
  <2>1. /\ n % DayLength = 0 /\ n + PollGap <= clock + 1
        /\ news[c].seen < n /\ n + PollGap <= news[c].created + DayLength + 1
    BY <1>1 DEF Expected
  <2>2. CASE n + PollGap <= clock
    BY <1>2, <2>1, <2>2 DEF DailyInv, OldIsTold, Expected
  <2>3. CASE n + PollGap = clock + 1
    BY <2>1, <2>3, HourIsTold
  <2>4. PollGap \in Nat
    BY DigestTimes
  <2> QED  BY <1>3, <2>1, <2>2, <2>3, <2>4
<1> QED  BY <1>4, <1>5, <1>6, <1>7, <1>8 DEF DailyInv

LEMMA DailyStep == DailyInv /\ [Daily!Next]_daily => DailyInv'
<1>1. DailyInv /\ UNCHANGED daily => DailyInv'
  <2> SUFFICES ASSUME DailyInv, UNCHANGED daily PROVE DailyInv'
    OBVIOUS
  <2>1. UNCHANGED <<clock, news, digests, pass, polled, steady>>
    BY DEF daily
  <2>2. DailyTyped' /\ Daily!OneDigest'
    BY <2>1 DEF DailyInv, DailyTyped, Passes, Daily!NotSeen, Daily!OneDigest
  <2>3. PassesReport' /\ DigestsReport'
    BY <2>1 DEF DailyInv, PassesReport, DigestsReport, Enough, Wanted, Newest, Daily!Newer, Daily!Period,
                Daily!Since, Waiting
  <2>4. PolledReports' /\ OldIsTold'
    BY <2>1, PolledStays, OldStays
  <2> QED  BY <2>2, <2>3, <2>4 DEF DailyInv
<1> QED
  BY <1>1, DailyPoll, DailyInsert, DailyPassFails, DailyChange, DailyCommit, DailyTick DEF Daily!Next

LEMMA DailyAlways == AllSpec => [](part = "digest" => DailyInv)
<1> DEFINE I == part = "digest" => DailyInv
<1>1. AllInit => I
  BY DailyInit DEF AllInit
<1>2. I /\ [AllNext]_allVars => I'
  <2> SUFFICES ASSUME I, [AllNext]_allVars, part' = "digest" PROVE DailyInv'
    OBVIOUS
  <2>1. part = "digest" /\ [Daily!Next]_daily
    BY DEF AllNext, allVars
  <2> QED  BY <2>1, DailyStep
<1> QED  BY <1>1, <1>2, PTL DEF AllSpec

\* digest.py, digest_job.py: for any jobs, channels, day, hour and room, one digest per period and
\* channel; and while each due hour has a complete pass within PollGap ticks, the digest tells of
\* every change that was committed before the hour and is less than a day old when they are over,
\* or of as many newer ones as it has room for.
THEOREM DigestsAreComplete == AllSpec => []DigestComplete
<1>1. (part = "digest" => DailyInv) => DigestComplete
  <2> SUFFICES ASSUME DailyInv PROVE Daily!OneDigest /\ Daily!NothingLost
    BY Zenon DEF DigestComplete, Daily!DigestComplete
  <2>1. Daily!OneDigest
    BY DEF DailyInv
  <2>2. \A n \in 0..clock : n \in Nat
    OBVIOUS
  <2>3. Daily!NothingLost
    BY <2>2 DEF DailyInv, OldIsTold, Expected, Daily!NothingLost
  <2> QED  BY <2>1, <2>3
<1> QED  BY <1>1, DailyAlways, PTL

-----------------------------------------------------------------------------
(* The part at work.                                                       *)

Parts == {"schedule", "alerts", "failures", "digest", "pictures"}

LEMMA ScheduleAlways == AllSpec => [](part = "schedule" => ScheduleTyped)
<1> DEFINE I == part = "schedule" => Inv /\ ScheduleTyped
<1>1. AllInit => I
  BY InitInv, ScheduleTypedInit DEF AllInit
<1>2. I /\ [AllNext]_allVars => I'
  <2> SUFFICES ASSUME I, [AllNext]_allVars, part' = "schedule" PROVE Inv' /\ ScheduleTyped'
    OBVIOUS
  <2>1. part = "schedule" /\ [Next]_vars
    BY DEF AllNext, allVars
  <2> QED  BY <2>1, StepInv, ScheduleTypedStep
<1>3. I => (part = "schedule" => ScheduleTyped)
  OBVIOUS
<1> QED  BY <1>1, <1>2, <1>3, PTL DEF AllSpec

LEMMA DailyTypeOK == DailyInv => Daily!TypeOK
<1> SUFFICES ASSUME DailyTyped PROVE Daily!TypeOK
  BY DEF DailyInv
<1>1. Days * DayLength \in Nat
  BY DigestTimes
<1>2. Daily!Cardinality(DOMAIN news) = Len(news) /\ DOMAIN news = 1..Len(news) /\ Len(news) <= MaxNews
  BY NewsCount DEF DailyTyped
<1>3. clock \in 0..Daily!LastTick
  BY <1>1 DEF DailyTyped, Daily!LastTick
<1>4. steady \in BOOLEAN /\ polled \in BOOLEAN
  BY Zenon DEF DailyTyped
<1>5. \A d \in digests : d.channel \in Inboxes /\ d.body \subseteq DOMAIN news /\ d.at <= clock
  BY DEF DailyTyped
<1>6. \A j \in Jobs : pass[j].step \in {"idle", "insert"} /\ pass[j].due \subseteq Inboxes
  BY DEF DailyTyped, Passes
<1> QED  BY <1>2, <1>3, <1>4, <1>5, <1>6 DEF Daily!TypeOK

LEMMA PartStays == AllSpec => [](part \in Parts)
<1> DEFINE I == part \in Parts
<1>1. AllInit => I
  BY DEF AllInit, Parts
<1>2. I /\ [AllNext]_allVars => I'
  <2> SUFFICES ASSUME I, [AllNext]_allVars PROVE I'
    OBVIOUS
  <2>1. part' = part
    BY DEF AllNext, allVars
  <2> QED  BY <2>1 DEF Parts
<1> QED  BY <1>1, <1>2, PTL DEF AllSpec

\* The part at work keeps the types of its variables, for any values of the constants.
THEOREM MonitoringTyped == AllSpec => []TypesOK
<1>1. /\ part \in Parts
      /\ part = "schedule" => ScheduleTyped
      /\ part = "alerts" => AlertInv
      /\ part = "failures" => FaultInv
      /\ part = "digest" => DailyInv
      /\ part = "pictures" => ShotsInv
      => TypesOK
  <2> SUFFICES ASSUME part \in Parts,
                      part = "schedule" => ScheduleTyped,
                      part = "alerts" => AlertInv,
                      part = "failures" => FaultInv,
                      part = "digest" => DailyInv,
                      part = "pictures" => ShotsInv
               PROVE  TypesOK
    OBVIOUS
  <2>1. CASE part = "schedule"
    BY <2>1 DEF TypesOK, ScheduleTyped
  <2>2. CASE part = "alerts"
    BY <2>2 DEF TypesOK, AlertInv
  <2>3. CASE part = "failures"
    BY <2>3 DEF TypesOK, FaultInv
  <2>4. CASE part = "digest"
    BY <2>4, DailyTypeOK DEF TypesOK
  <2>5. CASE part = "pictures"
    BY <2>5 DEF TypesOK, ShotsInv
  <2> QED  BY <2>1, <2>2, <2>3, <2>4, <2>5 DEF Parts
<1> QED
  BY <1>1, PartStays, ScheduleAlways, AlertAlways, FaultAlways, DailyAlways, ShotsAlways, PTL

=============================================================================
