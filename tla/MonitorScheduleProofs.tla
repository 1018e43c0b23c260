----------------------- MODULE MonitorScheduleProofs -----------------------
(***************************************************************************)
(* Proofs about MonitorSchedule, for any intervals, bounds and schedulers: *)
(* what a change is found between, how far an interval may stretch, where  *)
(* a second active run may come from, and that a check comes in time.      *)
(***************************************************************************)
EXTENDS MonitorSchedule, FiniteSetTheorems, TLAPS

Versions == 1..(MaxEdits + 1)

-----------------------------------------------------------------------------
(* The inductive invariants.                                               *)

\* A run is queued under a version that exists and loads one at least as new.
RunsOK ==
  /\ runs = [i \in 1..2 |-> runs[i]]
  /\ \A i \in 1..2 :
       /\ runs[i].st \in {"none", "queued", "running"}
       /\ runs[i].st # "none" => runs[i].ver \in 1..version
       /\ runs[i].st = "running" => runs[i].conf \in runs[i].ver..version
  /\ version \in 1..(edits + 1) /\ edits \in 0..MaxEdits
  /\ found \in [Versions -> Nat]

\* While runs do not overlap, the newest success of a version that is or may yet be
\* looked up was fetched under it; an older version may hold a newer page.
Looked(v) == v >= version \/ \E i \in 1..2 : runs[i].st = "running" /\ runs[i].conf = v

Paired ==
  ~overlapped =>
    /\ \A i, j \in Active : i = j
    /\ \A v \in Versions : Looked(v) => found[v] \in {0, v}
    /\ compared[1] = compared[2]

Inv == RunsOK /\ Paired

\* While no edit has met a check, every check loaded the interval asked for.
Ranged ==
  /\ base \in Nat
  /\ ~raced =>
       /\ interval \in Nat /\ base <= interval /\ interval <= 4 * base
       /\ \A i \in 1..2 : runs[i].st = "running" =>
            /\ runs[i].base = base
            /\ runs[i].interval \in Nat
            /\ base <= runs[i].interval /\ runs[i].interval <= 4 * base

-----------------------------------------------------------------------------
(* Runs.                                                                   *)

\* The free place of the two, and what an insert does to them.
LEMMA FreePlace ==
  ASSUME RunsOK, Active # {1, 2}
  PROVE  Free \in 1..2 /\ Free \notin Active
<1>1. \E i \in 1..2 : runs[i].st = "none"
  BY DEF Active
<1> QED
  BY <1>1 DEF Free, Active

LEMMA Inserted ==
  ASSUME RunsOK, Active # {1, 2}, Insert
  PROVE  /\ Free \in 1..2 /\ Free \notin Active
         /\ runs' = [i \in 1..2 |-> runs'[i]]
         /\ runs'[Free].st = "queued" /\ runs'[Free].ver = version
         /\ \A i \in 1..2 : i # Free => runs'[i] = runs[i]
         /\ Active' = Active \cup {Free}
         /\ overlapped' = (overlapped \/ Active # {})
<1>1. Free \in 1..2 /\ Free \notin Active
  BY FreePlace
<1> DEFINE f == Free
<1>2. f \in 1..2 /\ runs' = [runs EXCEPT ![f] = NewRun]
  BY <1>1 DEF Insert
<1> HIDE DEF f
<1>3. /\ runs' = [i \in 1..2 |-> runs'[i]] /\ runs'[f] = NewRun
      /\ \A i \in 1..2 : i # f => runs'[i] = runs[i]
  BY <1>2 DEF RunsOK
<1>4. NewRun.st = "queued" /\ NewRun.ver = version
  BY DEF NewRun
<1>5. Active' = Active \cup {f}
  BY <1>2, <1>3, <1>4 DEF Active
<1> QED
  BY <1>1, <1>3, <1>4, <1>5 DEF Insert, f

\* One active run is not two.
LEMMA NotBoth == ASSUME Cardinality(Active) < 2 PROVE Active # {1, 2}
<1>1. Cardinality({1, 2}) = 2
  <2>1. Cardinality({1}) = 1 /\ IsFiniteSet({1})
    BY FS_Singleton
  <2>2. Cardinality({1} \cup {2}) = 2
    BY <2>1, FS_AddElement
  <2> QED
    BY <2>2
<1> QED
  BY <1>1

\* One place changes: the run there starts, or ends.
LEMMA Changed ==
  ASSUME RunsOK, NEW i \in 1..2, NEW r, runs' = [runs EXCEPT ![i] = r]
  PROVE  /\ runs' = [j \in 1..2 |-> runs'[j]] /\ runs'[i] = r
         /\ \A j \in 1..2 : j # i => runs'[j] = runs[j]
BY DEF RunsOK

-----------------------------------------------------------------------------
(* Like is compared with like.                                             *)

LEMMA InitInv == Init => Inv
<1> SUFFICES ASSUME Init PROVE Inv
  OBVIOUS
<1>1. \A i \in 1..2 : runs[i].st = "none"
  BY DEF Init, NoRun
<1>2. RunsOK
  BY <1>1, ScheduleAssumption DEF Init, RunsOK, NoRun, Versions
<1>3. Paired
  BY <1>1 DEF Init, Paired, Active, Versions
<1> QED
  BY <1>2, <1>3 DEF Inv

\* An insert of a run, by the scheduler or by hand.
LEMMA InsertInv ==
  ASSUME Inv, Active # {1, 2}, Insert, UNCHANGED <<version, found, compared>>,
         edits' = edits
  PROVE  Inv'
<1> DEFINE f == Free
<1>1. /\ f \in 1..2 /\ f \notin Active
      /\ runs' = [i \in 1..2 |-> runs'[i]]
      /\ runs'[f].st = "queued" /\ runs'[f].ver = version
      /\ \A i \in 1..2 : i # f => runs'[i] = runs[i]
      /\ Active' = Active \cup {f}
      /\ overlapped' = (overlapped \/ Active # {})
  BY Inserted DEF Inv
<1> HIDE DEF f
<1>2. RunsOK'
  BY <1>1 DEF Inv, RunsOK
<1>3. Paired'
  <2> SUFFICES ASSUME ~overlapped' PROVE Paired'
    BY DEF Paired
  <2>1. ~overlapped /\ Active = {}
    BY <1>1
  <2>2. \A v : Looked(v)' => Looked(v)
    BY <1>1 DEF Looked
  <2> QED
    BY <1>1, <2>1, <2>2 DEF Inv, Paired, Versions
<1> QED
  BY <1>2, <1>3 DEF Inv

\* Steps after which the runs, the pages and what they were compared with are as before.
LEMMA SameInv ==
  ASSUME Inv, UNCHANGED <<runs, found, overlapped, compared>>,
         version' \in {version, version + 1}, edits' \in {edits, edits + 1},
         edits' <= MaxEdits, version' # version => edits' = edits + 1
  PROVE  Inv'
<1>1. RunsOK'
  BY ScheduleAssumption DEF Inv, RunsOK
<1>2. \A v \in Versions : Looked(v)' => Looked(v)
  BY DEF Inv, RunsOK, Looked, Versions
<1>3. Active' = Active
  BY DEF Active
<1>4. Paired'
  BY <1>2, <1>3 DEF Inv, Paired, Versions
<1> QED
  BY <1>1, <1>4 DEF Inv

LEMMA StepInv == Inv /\ [Next]_vars => Inv'
<1> SUFFICES ASSUME Inv, [Next]_vars PROVE Inv'
  OBVIOUS
<1>0. RunsOK /\ edits \in Nat /\ MaxEdits \in Nat
  BY ScheduleAssumption DEF Inv, RunsOK
<1>1. ASSUME NEW s \in Schedulers, Claim(s) PROVE Inv'
  <2>1. UNCHANGED <<version, found, edits, compared>>
    BY <1>1 DEF Claim
  <2>2. CASE UNCHANGED <<runs, overlapped>>
    BY <1>0, <2>1, <2>2, SameInv DEF RunsOK
  <2>3. CASE Insert /\ Active = {}
    <3>1. Active # {1, 2}
      BY <2>3
    <3> QED
      BY <2>1, <2>3, <3>1, InsertInv
  <2> QED
    BY <1>1, <2>2, <2>3 DEF Claim, PutOff, OverQuota, Schedule, MayRun
<1>2. ASSUME NEW i \in 1..2, Start(i) PROVE Inv'
  <2> DEFINE r == [st |-> "running", ver |-> runs[i].ver, conf |-> version,
                   interval |-> interval, base |-> base, quiet |-> quiet]
  <2>1. runs' = [runs EXCEPT ![i] = r] /\ runs[i].st = "queued"
        /\ UNCHANGED <<version, found, edits, overlapped, compared>>
    BY <1>0, <1>2 DEF Start, RunsOK, row, history
  <2>2. r.st = "running" /\ r.ver = runs[i].ver /\ r.conf = version
    OBVIOUS
  <2> HIDE DEF r
  <2>3. /\ runs' = [j \in 1..2 |-> runs'[j]] /\ runs'[i] = r
        /\ \A j \in 1..2 : j # i => runs'[j] = runs[j]
    BY <1>0, <2>1, Changed
  <2>4. RunsOK'
    BY <1>0, <2>1, <2>2, <2>3 DEF RunsOK
  <2>5. Active' = Active
    BY <2>1, <2>2, <2>3 DEF Active
  <2>6. \A v \in Versions : Looked(v)' => Looked(v)
    BY <1>0, <2>1, <2>2, <2>3 DEF Looked, RunsOK, Versions
  <2>7. Paired'
    BY <2>1, <2>5, <2>6 DEF Inv, Paired, Versions
  <2> QED
    BY <2>4, <2>7 DEF Inv
<1>3. ASSUME NEW i \in 1..2, Fail(i) PROVE Inv'
  <2>1. runs' = [runs EXCEPT ![i] = NoRun] /\ NoRun.st = "none"
        /\ UNCHANGED <<version, found, edits, overlapped, compared>>
    BY <1>3 DEF Fail, NoRun, row
  <2>2. /\ runs' = [j \in 1..2 |-> runs'[j]] /\ runs'[i] = NoRun
        /\ \A j \in 1..2 : j # i => runs'[j] = runs[j]
    BY <1>0, <2>1, Changed
  <2>3. RunsOK'
    BY <1>0, <2>1, <2>2 DEF RunsOK
  <2>4. Active' \subseteq Active /\ \A v \in Versions : Looked(v)' => Looked(v)
    BY <2>1, <2>2 DEF Active, Looked
  <2>5. Paired'
    BY <2>1, <2>4 DEF Inv, Paired, Versions
  <2> QED
    BY <2>3, <2>5 DEF Inv
<1>4. ASSUME NEW i \in 1..2, Succeed(i) PROVE Inv'
  <2> DEFINE v == runs[i].ver
             c == runs[i].conf
  <2>1. /\ runs[i].st = "running" /\ v \in 1..version /\ c \in v..version
        /\ version \in Versions /\ v \in Versions /\ c \in Versions
    <3>1. runs[i].st = "running"
      BY <1>4, Zenon DEF Succeed
    <3>2. /\ v \in 1..version /\ c \in v..version
          /\ version \in 1..(edits + 1) /\ edits \in 0..MaxEdits
      BY <1>0, <3>1 DEF RunsOK
    <3> HIDE DEF v, c
    <3>3. MaxEdits \in Nat
      BY ScheduleAssumption
    <3> QED
      BY <3>1, <3>2, <3>3 DEF Versions
  <2>2. /\ runs' = [runs EXCEPT ![i] = NoRun] /\ NoRun.st = "none"
        /\ found' = [found EXCEPT ![v] = c]
        /\ compared' = IF found[c] = 0 THEN <<0, 0>> ELSE <<found[c], c>>
        /\ UNCHANGED <<version, edits, overlapped>>
    BY <1>4 DEF Succeed, NoRun, Baseline
  <2>3. /\ runs' = [j \in 1..2 |-> runs'[j]] /\ runs'[i] = NoRun
        /\ \A j \in 1..2 : j # i => runs'[j] = runs[j]
    BY <1>0, <2>2, Changed
  <2>4. i \in Active /\ Looked(c)
    BY <2>1 DEF Active, Looked
  <2> HIDE DEF v, c
  <2>5. /\ found' \in [Versions -> Nat] /\ found'[v] = c
        /\ \A w \in Versions : w # v => found'[w] = found[w]
    BY <1>0, <2>1, <2>2 DEF RunsOK, Versions
  <2>6. RunsOK'
    BY <1>0, <2>2, <2>3, <2>5 DEF RunsOK
  <2>7. ASSUME ~overlapped
        PROVE  /\ \A j, k \in Active' : j = k
               /\ \A w \in Versions : Looked(w)' => found'[w] \in {0, w}
               /\ compared'[1] = compared'[2]
    <3>1. \A j \in Active : j = i
      BY <2>4, <2>7 DEF Inv, Paired
    <3>2. \A j \in 1..2 : runs'[j].st = "none"
      BY <1>0, <2>2, <2>3, <3>1 DEF Active, RunsOK
    <3>3. ASSUME NEW w \in Versions, Looked(w)' PROVE found'[w] \in {0, w}
      <4>1. w >= version
        BY <2>2, <3>2, <3>3 DEF Looked
      <4>2. CASE w = v
        <5>1. c = v
          BY <2>1, <4>1, <4>2
        <5> QED
          BY <2>5, <4>2, <5>1
      <4>3. CASE w # v
        BY <2>5, <2>7, <4>1, <4>3 DEF Inv, Paired, Looked
      <4> QED
        BY <4>2, <4>3
    <3>4. found[c] \in {0, c}
      BY <2>1, <2>4, <2>7 DEF Inv, Paired
    <3>5. compared'[1] = compared'[2]
      BY <2>2, <3>4
    <3>6. Active' = {}
      BY <3>2 DEF Active
    <3> QED
      BY <3>3, <3>5, <3>6
  <2>8. Paired'
    BY <2>2, <2>7 DEF Paired, Versions
  <2> QED
    BY <2>6, <2>8 DEF Inv
<1>5. ASSUME InsertByHand PROVE Inv'
  <2>1. Active # {1, 2}
    BY <1>5, NotBoth DEF InsertByHand
  <2> QED
    BY <1>5, <2>1, InsertInv DEF InsertByHand, row
<1>6. ASSUME EditConfig PROVE Inv'
  BY <1>0, <1>6, SameInv DEF EditConfig, Request, RunsOK
<1>7. ASSUME EditInterval \/ Pause \/ Resume \/ ManualCheck \/ QuotaFlips PROVE Inv'
  <2>1. edits' = edits + 1 /\ edits < MaxEdits /\ version' = version
        /\ UNCHANGED <<runs, found, overlapped, compared>>
    BY <1>7 DEF EditInterval, Pause, Resume, ManualCheck, QuotaFlips, Request, row
  <2> QED
    BY <1>0, <2>1, SameInv
<1>8. ASSUME ReleaseLeases \/ InsertFails \/ Tick \/ UNCHANGED vars PROVE Inv'
  <2>1. UNCHANGED <<runs, found, overlapped, compared, version, edits>>
    BY <1>8 DEF ReleaseLeases, InsertFails, Tick, vars, row, history
  <2> QED
    BY <1>0, <2>1, SameInv DEF RunsOK
<1> QED
  BY <1>1, <1>2, <1>3, <1>4, <1>5, <1>6, <1>7, <1>8 DEF Next

LEMMA Invariance == Spec => []Inv
<1> QED
  BY InitInv, StepInv, PTL DEF Spec

-----------------------------------------------------------------------------
(* The interval.                                                           *)

\* A stretched interval lies between what was asked for and four times that.
LEMMA StretchedInRange ==
  ASSUME NEW b \in Nat, NEW n \in Nat
  PROVE  Stretched(b, n) \in Nat /\ b <= Stretched(b, n) /\ Stretched(b, n) <= 4 * b
<1> DEFINE m == Min({4 * b, n + b})
<1>1. m \in {4 * b, n + b} /\ m <= 4 * b
  <2>1. \E x \in {4 * b, n + b} : \A y \in {4 * b, n + b} : x =< y
    OBVIOUS
  <2> QED
    BY <2>1 DEF Min
<1>2. m \in Nat
  BY <1>1
<1> HIDE DEF m
<1> DEFINE x == Max({b, m})
<1>3. x \in {b, m} /\ x >= b
  <2>1. \E z \in {b, m} : \A y \in {b, m} : z >= y
    BY <1>2
  <2> QED
    BY <2>1 DEF Max
<1>4. Stretched(b, n) = x
  BY DEF Stretched, m
<1> HIDE DEF x
<1> QED
  BY <1>1, <1>2, <1>3, <1>4

LEMMA RangedInit == Init => Ranged
BY ScheduleAssumption DEF Init, Ranged, NoRun

LEMMA RangedStep == Inv /\ Ranged /\ [Next]_vars => Ranged'
<1> SUFFICES ASSUME Inv, Ranged, [Next]_vars PROVE Ranged'
  OBVIOUS
<1>0. RunsOK /\ base \in Nat /\ (~raced => interval \in Nat)
  BY DEF Inv, Ranged
<1>1. ASSUME UNCHANGED <<base, interval, raced>>,
             \A j \in 1..2 : runs'[j].st = "running" =>
               \/ runs[j].st = "running" /\ runs'[j] = runs[j]
               \/ runs'[j].base = base /\ runs'[j].interval = interval
      PROVE  Ranged'
  BY <1>0, <1>1 DEF Ranged
<1>2. ASSUME Insert, UNCHANGED <<base, interval, raced>>, Active # {1, 2} PROVE Ranged'
  BY <1>0, <1>1, <1>2, Inserted
<1>3. ASSUME NEW s \in Schedulers, Claim(s) PROVE Ranged'
  <2>1. UNCHANGED <<base, interval, raced>>
    BY <1>3 DEF Claim
  <2>2. CASE UNCHANGED runs
    BY <1>1, <2>1, <2>2
  <2>3. CASE Insert /\ Active = {}
    <3>1. Active # {1, 2}
      BY <2>3
    <3> QED
      BY <1>2, <2>1, <2>3, <3>1
  <2> QED
    BY <1>3, <2>2, <2>3 DEF Claim, PutOff, OverQuota, Schedule, MayRun
<1>4. ASSUME NEW i \in 1..2, Start(i) PROVE Ranged'
  <2> DEFINE r == [st |-> "running", ver |-> runs[i].ver, conf |-> version,
                   interval |-> interval, base |-> base, quiet |-> quiet]
  <2>1. runs' = [runs EXCEPT ![i] = r] /\ UNCHANGED <<base, interval, raced>>
    BY <1>0, <1>4 DEF Start, RunsOK, row, history
  <2>2. runs'[i] = r /\ \A j \in 1..2 : j # i => runs'[j] = runs[j]
    BY <1>0, <2>1, Changed
  <2>3. r.base = base /\ r.interval = interval
    OBVIOUS
  <2> HIDE DEF r
  <2> QED
    BY <1>1, <2>1, <2>2, <2>3
<1>5. ASSUME NEW i \in 1..2, Fail(i) PROVE Ranged'
  <2>1. runs' = [runs EXCEPT ![i] = NoRun] /\ UNCHANGED <<base, interval, raced>>
    BY <1>5 DEF Fail, row
  <2>2. runs'[i].st = "none" /\ \A j \in 1..2 : j # i => runs'[j] = runs[j]
    BY <1>0, <2>1, Changed DEF NoRun
  <2> QED
    BY <1>1, <2>1, <2>2
<1>6. ASSUME NEW i \in 1..2, Succeed(i) PROVE Ranged'
  <2> DEFINE r == runs[i]
  <2>1. PICK changed \in BOOLEAN : Outcome(r, changed)
    BY <1>6 DEF Succeed
  <2>2. r.st = "running" /\ runs' = [runs EXCEPT ![i] = NoRun] /\ UNCHANGED <<base, raced>>
    BY <1>6 DEF Succeed
  <2>3. runs'[i].st = "none" /\ \A j \in 1..2 : j # i => runs'[j] = runs[j]
    BY <1>0, <2>2, Changed DEF NoRun
  <2>4. interval' \in {interval, r.base, r.interval, Stretched(r.base, r.interval)}
    BY <2>1 DEF Outcome
  <2>5. ASSUME ~raced
        PROVE  interval' \in Nat /\ base <= interval' /\ interval' <= 4 * base
    <3>1. r.base = base /\ r.interval \in Nat /\ base <= r.interval /\ r.interval <= 4 * base
      BY <2>2, <2>5 DEF Ranged
    <3>2. interval \in Nat /\ base <= interval /\ interval <= 4 * base
      BY <2>5 DEF Ranged
    <3>3. /\ Stretched(base, r.interval) \in Nat /\ base <= Stretched(base, r.interval)
          /\ Stretched(base, r.interval) <= 4 * base
      BY <1>0, <3>1, StretchedInRange
    <3> HIDE DEF r
    <3> QED
      BY <1>0, <2>4, <3>1, <3>2, <3>3
  <2> QED
    BY <1>0, <2>2, <2>3, <2>5 DEF Ranged
<1>7. ASSUME EditInterval PROVE Ranged'
  <2>1. PICK n \in Intervals : interval' = n /\ base' = n
    BY <1>7 DEF EditInterval
  <2>2. runs' = runs /\ raced' = (raced \/ \E i \in Active : runs[i].st = "running")
    BY <1>7 DEF EditInterval
  <2>3. \A i \in 1..2 : runs[i].st = "running" => i \in Active
    BY DEF Active
  <2>4. n \in Nat /\ n <= 4 * n
    BY <2>1, ScheduleAssumption
  <2>5. ~raced' => \A i \in 1..2 : runs'[i].st # "running"
    BY <2>2, <2>3
  <2> QED
    BY <2>1, <2>4, <2>5 DEF Ranged
<1>8. ASSUME InsertByHand PROVE Ranged'
  BY <1>2, <1>8, NotBoth DEF InsertByHand, row
<1>9. ASSUME \/ ReleaseLeases \/ EditConfig \/ Pause \/ Resume \/ ManualCheck \/ InsertFails
             \/ QuotaFlips \/ Tick \/ UNCHANGED vars
      PROVE  Ranged'
  BY <1>1, <1>9
  DEF ReleaseLeases, EditConfig, Pause, Resume, ManualCheck, InsertFails, QuotaFlips, Tick,
      vars, row, history
<1> QED
  BY <1>3, <1>4, <1>5, <1>6, <1>7, <1>8, <1>9 DEF Next

-----------------------------------------------------------------------------
(* The theorems.                                                           *)

\* pipeline.py: a change is reported between two pages fetched under one configuration,
\* whatever is edited while runs are queued and under way, as long as no two overlap.
THEOREM ComparedAlike == Spec => []LikeWithLike
<1>1. Inv => LikeWithLike
  BY DEF Inv, Paired, LikeWithLike
<1> QED
  BY <1>1, Invariance, PTL

\* adaptive.py: "stretch interval up to 4x base (capped)", and never below the interval
\* asked for, unless an edit met a check under way.
THEOREM StretchBounded == Spec => []IntervalInRange
<1>1. Ranged => IntervalInRange
  BY DEF Ranged, IntervalInRange
<1> QED
  BY <1>1, RangedInit, RangedStep, Invariance, PTL DEF Spec

\* scheduler.py, monitors.py: two runs of a monitor are active at once only through an
\* insert by hand after its own look, however many schedulers claim.
THEOREM SecondRunByHand == Spec => OverlapByHand
<1>1. ASSUME Inv, [Next]_vars
      PROVE  [Cardinality(Active') = 2 /\ Cardinality(Active) < 2
                => asked # "no" /\ asked' = "no"]_vars
  <2> SUFFICES ASSUME Next, ~InsertByHand, Cardinality(Active) < 2
               PROVE  Cardinality(Active') # 2
    BY <1>1 DEF InsertByHand, vars
  <2>1. IsFiniteSet(Active)
    <3>1. IsFiniteSet({1} \cup {2})
      BY FS_Singleton, FS_AddElement
    <3>2. Active \subseteq {1} \cup {2}
      BY DEF Active
    <3> QED
      BY <3>1, <3>2, FS_Subset
  <2>2. Active' \subseteq Active \/ \E i : Active' = {i}
    <3>1. ASSUME NEW s \in Schedulers, Claim(s) PROVE runs' = runs \/ \E i : Active' = {i}
      <4>1. CASE Insert /\ Active = {}
        BY <1>1, <4>1, Inserted DEF Inv
      <4> QED
        BY <3>1, <4>1 DEF Claim, PutOff, OverQuota, Schedule, MayRun
    <3>2. ASSUME NEW i \in 1..2, Start(i) \/ Succeed(i) \/ Fail(i)
          PROVE  Active' \subseteq Active
      <4>1. PICK r : runs' = [runs EXCEPT ![i] = r]
        BY <3>2 DEF Start, Succeed, Fail
      <4>2. i \in Active
        BY <3>2 DEF Start, Succeed, Fail, Active
      <4> QED
        BY <1>1, <4>1, <4>2, Changed DEF Inv, Active
    <3>3. runs' = runs => Active' \subseteq Active
      BY DEF Active
    <3> QED
      BY <3>1, <3>2, <3>3
      DEF Next, ReleaseLeases, EditInterval, EditConfig, Pause, Resume, ManualCheck,
          InsertFails, QuotaFlips, Tick
  <2>3. CASE Active' \subseteq Active
    <3>1. Cardinality(Active') <= Cardinality(Active) /\ IsFiniteSet(Active')
      BY <2>1, <2>3, FS_Subset
    <3>2. Cardinality(Active') \in Nat /\ Cardinality(Active) \in Nat
      BY <2>1, <3>1, FS_CardinalityType
    <3> QED
      BY <3>1, <3>2
  <2>4. CASE \E i : Active' = {i}
    <3>1. PICK i : Active' = {i}
      BY <2>4
    <3>2. Cardinality({i}) = 1
      BY FS_Singleton
    <3> HIDE DEF Active
    <3> QED
      BY <3>1, <3>2
  <2> QED
    BY <2>2, <2>3, <2>4
<1> QED
  BY <1>1, Invariance, PTL DEF Spec, OverlapByHand

-----------------------------------------------------------------------------
(* That every variable keeps its type, and that a check comes in time.     *)

\* A run loaded an interval that a user could ask for, and its stretch.
Loaded ==
  \A i \in 1..2 : runs[i].st = "running" =>
    /\ runs[i].base \in Intervals
    /\ runs[i].interval \in 1..(4 * MaxBase)
    /\ runs[i].quiet \in Nat

ScheduleTyped == TypeOK /\ Loaded

\* A monitor that is left alone: keys of its runs are an interval old when it is due.  When
\* its last claim has found one of them, they are older by the next interval, which at most
\* one run, that of create_monitor, can stretch.
Stretch == IF asked = "create" \/ Active # {} THEN base ELSE 0

LeftAlone ==
  edits = 0 =>
    /\ ~raced /\ asked \in {"no", "create"} /\ skipped \in 0..1
    /\ \A u \in used : u + base <= next
    /\ skipped = 1 =>
         /\ asked = "create" => Active = {}
         /\ \A i, j \in Active : i = j
         /\ \A i \in 1..2 : runs[i].st = "running" => runs[i].interval = interval
         /\ \A u \in used : u + interval + Stretch <= next

-----------------------------------------------------------------------------
(* Types.                                                                  *)

LEMMA Longest == MaxBase \in Intervals /\ MaxBase \in Nat \ {0} /\ \A n \in Intervals : n <= MaxBase
<1>1. \E x \in Intervals : \A y \in Intervals : x >= y
  BY ScheduleAssumption
<1>2. MaxBase \in Intervals /\ \A n \in Intervals : MaxBase >= n
  BY <1>1 DEF MaxBase, Max
<1> QED  BY <1>2, ScheduleAssumption

LEMMA Numbers ==
  /\ MaxBase \in Nat \ {0} /\ 4 * MaxBase \in Nat
  /\ Jitter \in Nat /\ QuotaDelay \in Nat /\ Streak \in Nat \ {0}
  /\ MaxTime \in Nat /\ EditTime \in 0..MaxTime /\ MaxEdits \in Nat
  /\ \A n \in Intervals : n \in Nat \ {0} /\ n <= MaxBase
  BY ScheduleAssumption, Longest

\* A slot begins at most an interval ago.
LEMMA SlotInRange ==
  ASSUME NEW t \in Nat, NEW n \in Nat \ {0}
  PROVE  ClaimSlot(t, n) \in 0..t /\ t - n < ClaimSlot(t, n)
<1>1. t % n \in 0..(n - 1)
  BY SMT
<1>2. t % n <= t
  BY SMT
<1> QED  BY <1>1, <1>2 DEF ClaimSlot

LEMMA ScheduleTypedInit == ASSUME Init PROVE ScheduleTyped
<1> USE Numbers
<1>1. TRUE \in BOOLEAN /\ FALSE \in BOOLEAN
  BY Zenon
<1>2. \A i \in 1..2 : runs[i].st = "none"
  BY DEF Init, NoRun
<1>3. lease \in [by : Schedulers \cup {"none"}, until : 0..(MaxTime + 1)]
  BY DEF Init, NoLease
<1>4. found \in [1..(MaxEdits + 1) -> 0..(MaxEdits + 1)]
  BY DEF Init
<1>5. base \in Intervals /\ interval \in 1..(4 * MaxBase)
  BY DEF Init
<1>6. /\ enabled \in BOOLEAN /\ quota \in BOOLEAN /\ raced \in BOOLEAN /\ overlapped \in BOOLEAN
  BY <1>1, Zenon DEF Init
<1>7. /\ now \in 0..MaxTime /\ next \in 0..(MaxTime + 4 * MaxBase + Jitter + QuotaDelay)
      /\ quiet \in Nat /\ version \in 1..(MaxEdits + 1) /\ edits \in 0..MaxEdits /\ skipped \in Nat
      /\ used \subseteq 0..MaxTime /\ asked \in {"no", "create", "manual"}
  BY DEF Init
<1>8. TypeOK
  BY <1>2, <1>3, <1>4, <1>5, <1>6, <1>7 DEF TypeOK
<1> QED  BY <1>2, <1>8 DEF ScheduleTyped, Loaded

\* The runs keep their types when a run is inserted ...
LEMMA InsertTyped ==
  ASSUME Inv, ScheduleTyped, Active # {1, 2}, Insert
  PROVE  /\ \A i \in 1..2 : runs'[i].st \in {"none", "queued", "running"}
         /\ Loaded' /\ overlapped' \in BOOLEAN
<1>1. /\ Free \in 1..2 /\ runs'[Free].st = "queued"
      /\ \A i \in 1..2 : i # Free => runs'[i] = runs[i]
  BY Inserted DEF Inv
<1>2. overlapped' \in BOOLEAN
  BY Zenon DEF Insert
<1>3. \A i \in 1..2 : runs'[i].st \in {"none", "queued", "running"}
  BY <1>1 DEF ScheduleTyped, TypeOK
<1>4. Loaded'
  <2>1. \A i \in 1..2 : runs'[i].st = "running" => runs[i].st = "running" /\ runs'[i] = runs[i]
    BY <1>1
  <2> QED  BY <2>1 DEF ScheduleTyped, Loaded
<1> QED  BY <1>2, <1>3, <1>4

LEMMA ClaimTyped ==
  ASSUME Inv, ScheduleTyped, NEW s \in Schedulers, Claim(s)
  PROVE  ScheduleTyped'
<1> USE Numbers
<1>0. /\ UNCHANGED <<now, enabled, interval, base, quiet, version, found, quota, asked, edits, raced, compared>>
      /\ TypeOK /\ Loaded
  BY DEF Claim, ScheduleTyped
<1>1. now \in 0..MaxTime /\ interval \in 1..(4 * MaxBase) /\ 4 * MaxBase \in Nat
  BY <1>0 DEF TypeOK
<1>2. \E n \in {now + 1, now + QuotaDelay} \cup {now + interval + j : j \in 0..Jitter} : next' = n
  BY DEF Claim, PutOff, OverQuota, Schedule
<1>3. next' \in 0..(MaxTime + 4 * MaxBase + Jitter + QuotaDelay)
  BY <1>1, <1>2
<1>4. lease' \in [by : Schedulers \cup {"none"}, until : 0..(MaxTime + 1)]
  <2>1. lease' = NoLease \/ lease' = lease \/ lease' = [by |-> s, until |-> now + 1]
    BY DEF Claim, PutOff, OverQuota, Schedule
  <2>2. lease \in [by : Schedulers \cup {"none"}, until : 0..(MaxTime + 1)]
    BY <1>0 DEF TypeOK
  <2>3. now + 1 \in 0..(MaxTime + 1) /\ 0 \in 0..(MaxTime + 1)
    BY <1>1
  <2>4. [by |-> s, until |-> now + 1] \in [by : Schedulers \cup {"none"}, until : 0..(MaxTime + 1)]
    BY <2>3
  <2>5. NoLease \in [by : Schedulers \cup {"none"}, until : 0..(MaxTime + 1)]
    BY <2>3 DEF NoLease
  <2> QED  BY <2>1, <2>2, <2>4, <2>5
<1>5. ClaimSlot(now, interval) \in 0..MaxTime
  BY <1>1, SlotInRange
<1>6. /\ used' \subseteq 0..MaxTime /\ skipped' \in Nat
      /\ UNCHANGED <<runs, overlapped>> \/ (Insert /\ Active = {})
  <2>1. CASE UNCHANGED <<used, runs, overlapped>> /\ skipped' \in {skipped, skipped + 1}
    <3>1. used \subseteq 0..MaxTime /\ skipped \in Nat
      BY <1>0 DEF TypeOK
    <3> QED  BY <2>1, <3>1
  <2>2. CASE skipped' = 0 /\ used' = Recent \cup {ClaimSlot(now, interval)} /\ Insert /\ Active = {}
    BY <1>0, <1>5, <2>2 DEF TypeOK, Recent
  <2> QED  BY <2>1, <2>2 DEF Claim, PutOff, OverQuota, Schedule, MayRun
<1>7. /\ \A i \in 1..2 : runs'[i].st \in {"none", "queued", "running"}
      /\ Loaded' /\ overlapped' \in BOOLEAN
  <2>1. CASE UNCHANGED <<runs, overlapped>>
    BY <1>0, <2>1 DEF TypeOK, Loaded
  <2>2. CASE Insert /\ Active = {}
    <3>1. Active # {1, 2}
      BY <2>2
    <3> QED  BY <2>2, <3>1, InsertTyped
  <2> QED  BY <1>6, <2>1, <2>2
<1> QED  BY <1>0, <1>3, <1>4, <1>6, <1>7 DEF ScheduleTyped, TypeOK

\* A row that is loaded has the types of the row.
LEMMA StartTyped ==
  ASSUME Inv, ScheduleTyped, NEW i \in 1..2, Start(i)
  PROVE  ScheduleTyped'
<1> DEFINE r == [st |-> "running", ver |-> runs[i].ver, conf |-> version,
                 interval |-> interval, base |-> base, quiet |-> quiet]
<1>1. runs' = [runs EXCEPT ![i] = r] /\ RunsOK
      /\ UNCHANGED <<now, row, used, found, quota, asked, edits, history>>
  BY DEF Start, RunsOK, Inv
<1>2. r.st = "running" /\ r.base = base /\ r.interval = interval /\ r.quiet = quiet
  OBVIOUS
<1> HIDE DEF r
<1>3. runs'[i] = r /\ \A j \in 1..2 : j # i => runs'[j] = runs[j]
  BY <1>1, Changed
<1>4. Loaded'
  BY <1>1, <1>2, <1>3 DEF ScheduleTyped, Loaded, TypeOK, row
<1> QED  BY <1>1, <1>2, <1>3, <1>4 DEF ScheduleTyped, TypeOK, row, history

LEMMA EndTyped ==
  ASSUME Inv, ScheduleTyped, NEW i \in 1..2, runs' = [runs EXCEPT ![i] = NoRun]
  PROVE  (\A j \in 1..2 : runs'[j].st \in {"none", "queued", "running"}) /\ Loaded'
<1>1. NoRun.st = "none" /\ RunsOK
  BY DEF NoRun, Inv
<1>2. runs'[i] = NoRun /\ \A j \in 1..2 : j # i => runs'[j] = runs[j]
  BY <1>1, Changed
<1>3. \A j \in 1..2 : runs'[j].st = "running" => runs[j].st = "running" /\ runs'[j] = runs[j]
  BY <1>1, <1>2
<1>4. \A j \in 1..2 : runs'[j].st \in {"none", "queued", "running"}
  BY <1>1, <1>2 DEF ScheduleTyped, TypeOK
<1> QED  BY <1>3, <1>4 DEF ScheduleTyped, Loaded

LEMMA SucceedTyped ==
  ASSUME Inv, ScheduleTyped, NEW i \in 1..2, Succeed(i)
  PROVE  ScheduleTyped'
<1> USE Numbers
<1> DEFINE r == runs[i]
<1>1. /\ r.st = "running" /\ runs' = [runs EXCEPT ![i] = NoRun]
      /\ found' = [found EXCEPT ![r.ver] = r.conf]
      /\ UNCHANGED <<now, enabled, next, lease, base, version, used, quota, asked, edits, skipped, raced,
                     overlapped>>
  BY DEF Succeed
<1>2. PICK changed \in BOOLEAN : Outcome(r, changed)
  BY DEF Succeed
<1>3. r.base \in Intervals /\ r.interval \in 1..(4 * MaxBase) /\ r.quiet \in Nat
  BY <1>1 DEF ScheduleTyped, Loaded
<1>4. /\ interval' \in {interval, r.base, r.interval, Stretched(r.base, r.interval)}
      /\ quiet' \in {quiet, 0, r.quiet + 1}
  BY <1>2 DEF Outcome
<1>5. r.ver \in Versions /\ r.conf \in Versions /\ found \in [Versions -> 0..(MaxEdits + 1)]
  <2>1. /\ r.ver \in 1..version /\ r.conf \in r.ver..version
        /\ version \in 1..(edits + 1) /\ edits \in 0..MaxEdits
    BY <1>1 DEF Inv, RunsOK
  <2>2. found \in [Versions -> 0..(MaxEdits + 1)]
    BY DEF ScheduleTyped, TypeOK, Versions
  <2> HIDE DEF r
  <2> QED  BY <2>1, <2>2 DEF Versions
<1>6. (\A j \in 1..2 : runs'[j].st \in {"none", "queued", "running"}) /\ Loaded'
  BY <1>1, EndTyped
<1> HIDE DEF r
<1>7. interval' \in 1..(4 * MaxBase)
  <2>1. /\ Stretched(r.base, r.interval) \in Nat /\ r.base <= Stretched(r.base, r.interval)
        /\ Stretched(r.base, r.interval) <= 4 * r.base
    <3>1. r.base \in Nat /\ r.interval \in Nat
      BY <1>3
    <3> QED  BY <3>1, StretchedInRange
  <2>2. r.base \in Nat \ {0} /\ r.base <= MaxBase
    BY <1>3
  <2>3. Stretched(r.base, r.interval) \in 1..(4 * MaxBase) /\ r.base \in 1..(4 * MaxBase)
    BY <2>1, <2>2
  <2>4. interval \in 1..(4 * MaxBase)
    BY DEF ScheduleTyped, TypeOK
  <2> QED  BY <1>3, <1>4, <2>3, <2>4
<1>8. quiet' \in Nat
  BY <1>3, <1>4 DEF ScheduleTyped, TypeOK
<1>9. found' \in [1..(MaxEdits + 1) -> 0..(MaxEdits + 1)]
  BY <1>1, <1>5 DEF Versions
<1> QED  BY <1>1, <1>6, <1>7, <1>8, <1>9 DEF ScheduleTyped, TypeOK

LEMMA RequestTyped == ASSUME ScheduleTyped, Request PROVE edits' \in 0..MaxEdits
  BY Numbers DEF ScheduleTyped, TypeOK, Request

LEMMA ScheduleTypedStep == Inv /\ ScheduleTyped /\ [Next]_vars => ScheduleTyped'
<1> SUFFICES ASSUME Inv, ScheduleTyped, [Next]_vars PROVE ScheduleTyped'
  OBVIOUS
<1> USE Numbers
<1>1. ASSUME NEW i \in 1..2, Fail(i) PROVE ScheduleTyped'
  BY <1>1, EndTyped DEF Fail, ScheduleTyped, TypeOK, row
<1>2. ASSUME InsertByHand PROVE ScheduleTyped'
  <2>1. Active # {1, 2} /\ Insert
    BY <1>2, NotBoth DEF InsertByHand
  <2> QED  BY <1>2, <2>1, InsertTyped DEF InsertByHand, ScheduleTyped, TypeOK, row
<1>3. ASSUME EditInterval PROVE ScheduleTyped'
  <2>1. raced' \in BOOLEAN
    BY <1>3, Zenon DEF EditInterval
  <2>2. PICK n \in Intervals : interval' = n /\ base' = n
    BY <1>3 DEF EditInterval
  <2>3. n \in 1..(4 * MaxBase)
    OBVIOUS
  <2> QED  BY <1>3, <2>1, <2>2, <2>3 DEF EditInterval, Request, ScheduleTyped, Loaded, TypeOK
<1>4. ASSUME EditConfig PROVE ScheduleTyped'
  <2>1. version' \in 1..(MaxEdits + 1) /\ edits' \in 0..MaxEdits
    BY <1>4 DEF EditConfig, Request, Inv, RunsOK
  <2> QED  BY <1>4, <2>1 DEF EditConfig, ScheduleTyped, Loaded, TypeOK
<1>5. ASSUME Pause \/ Resume PROVE ScheduleTyped'
  <2>1. enabled' \in BOOLEAN
    BY <1>5, Zenon DEF Pause, Resume
  <2>2. next' \in 0..(MaxTime + 4 * MaxBase + Jitter + QuotaDelay)
    <3>1. now \in 0..MaxTime /\ next \in 0..(MaxTime + 4 * MaxBase + Jitter + QuotaDelay)
      BY DEF ScheduleTyped, TypeOK
    <3>2. next' = next \/ next' = now
      BY <1>5 DEF Pause, Resume
    <3> QED  BY <3>1, <3>2
  <2>3. edits' \in 0..MaxEdits
    <3>1. Request
      BY <1>5 DEF Pause, Resume
    <3> QED  BY <3>1, RequestTyped
  <2> QED  BY <1>5, <2>1, <2>2, <2>3 DEF Pause, Resume, ScheduleTyped, Loaded, TypeOK
<1>6. ASSUME ManualCheck \/ InsertFails PROVE ScheduleTyped'
  <2>1. edits' \in 0..MaxEdits
    <3>1. Request \/ edits' = edits
      BY <1>6 DEF ManualCheck, InsertFails
    <3> QED  BY <3>1, RequestTyped DEF ScheduleTyped, TypeOK
  <2>2. asked' \in {"no", "manual"}
        /\ UNCHANGED <<now, row, used, runs, found, quota, skipped, raced, overlapped, compared>>
    BY <1>6 DEF ManualCheck, InsertFails, history
  <2> QED  BY <2>1, <2>2 DEF ScheduleTyped, Loaded, TypeOK, row
<1>7. ASSUME QuotaFlips PROVE ScheduleTyped'
  <2>1. quota' \in BOOLEAN
    BY <1>7, Zenon DEF QuotaFlips
  <2> QED  BY <1>7, <2>1 DEF QuotaFlips, Request, ScheduleTyped, Loaded, TypeOK, row
<1>8. ASSUME Tick PROVE ScheduleTyped'
  <2>1. now' \in 0..MaxTime
    <3>1. now \in 0..MaxTime
      BY DEF ScheduleTyped, TypeOK
    <3>2. now' = now + 1 /\ now < IF edits = 0 THEN MaxTime ELSE EditTime
      BY <1>8 DEF Tick
    <3> QED  BY <3>1, <3>2
  <2> QED  BY <1>8, <2>1 DEF Tick, ScheduleTyped, Loaded, TypeOK, row
<1>9. ASSUME ReleaseLeases PROVE ScheduleTyped'
  <2>1. lease' \in [by : Schedulers \cup {"none"}, until : 0..(MaxTime + 1)]
    BY <1>9 DEF ReleaseLeases, NoLease
  <2> QED  BY <1>9, <2>1 DEF ReleaseLeases, ScheduleTyped, Loaded, TypeOK, history
<1>10. ASSUME UNCHANGED vars PROVE ScheduleTyped'
  BY <1>10 DEF vars, row, history, ScheduleTyped, Loaded, TypeOK
<1> QED
  BY <1>1, <1>2, <1>3, <1>4, <1>5, <1>6, <1>7, <1>8, <1>9, <1>10, ClaimTyped, StartTyped, SucceedTyped
  DEF Next

\* monitors.py, scheduler.py, adaptive.py: the row of a monitor and its runs keep their types,
\* the interval included, which stays between one tick and four times the longest.
THEOREM ScheduleKeepsTypes == Spec => []TypeOK
<1>1. ScheduleTyped => TypeOK
  BY DEF ScheduleTyped
<1>2. Init => ScheduleTyped
  BY ScheduleTypedInit
<1> QED
  BY <1>1, <1>2, ScheduleTypedStep, Invariance, PTL DEF Spec

-----------------------------------------------------------------------------
(* A monitor that is left alone.                                           *)

LEMMA StretchedByBase ==
  ASSUME NEW b \in Nat, NEW n \in Nat
  PROVE  Stretched(b, n) <= n + b
<1> DEFINE m == Min({4 * b, n + b})
<1>1. m \in {4 * b, n + b} /\ m <= n + b
  <2>1. \E x \in {4 * b, n + b} : \A y \in {4 * b, n + b} : x =< y
    OBVIOUS
  <2> QED  BY <2>1 DEF Min
<1>2. m \in Nat
  BY <1>1
<1> HIDE DEF m
<1> DEFINE x == Max({b, m})
<1>3. x \in {b, m}
  <2>1. \E z \in {b, m} : \A y \in {b, m} : z >= y
    BY <1>2
  <2> QED  BY <2>1 DEF Max
<1>4. Stretched(b, n) = x
  BY DEF Stretched, m
<1> HIDE DEF x
<1> QED  BY <1>1, <1>2, <1>3, <1>4

\* What the steps below rest on, of a monitor that is left alone.
LEMMA AloneFacts ==
  ASSUME Inv, ScheduleTyped, Ranged, LeftAlone, edits = 0
  PROVE  /\ base \in Nat \ {0} /\ interval \in Nat \ {0} /\ base <= interval
         /\ next \in Nat /\ now \in Nat /\ used \subseteq Nat
         /\ RunsOK
<1>1. base \in Intervals /\ next \in Nat /\ now \in Nat /\ used \subseteq Nat
  BY Numbers DEF ScheduleTyped, TypeOK
<1>2. ~raced /\ RunsOK
  BY DEF Inv, LeftAlone
<1>3. interval \in Nat /\ base <= interval
  BY <1>2 DEF Ranged
<1> QED  BY <1>1, <1>2, <1>3, Numbers

LEMMA AloneInit == ASSUME Init PROVE LeftAlone
<1>1. used = {} /\ skipped = 0 /\ ~raced /\ asked \in {"no", "create"}
  BY DEF Init
<1> QED  BY <1>1 DEF LeftAlone

LEMMA AloneClaim ==
  ASSUME Inv, ScheduleTyped, Ranged, LeftAlone, NEW s \in Schedulers, Claim(s)
  PROVE  LeftAlone'
<1> SUFFICES ASSUME edits = 0 PROVE LeftAlone'
  BY DEF LeftAlone, Claim
<1>0. /\ UNCHANGED <<interval, base, asked, edits, raced>> /\ next <= now
      /\ ~raced /\ asked \in {"no", "create"} /\ skipped \in 0..1
      /\ \A u \in used : u + base <= next
  BY DEF Claim, Due, LeftAlone
<1>1. /\ base \in Nat \ {0} /\ interval \in Nat \ {0} /\ base <= interval
      /\ next \in Nat /\ now \in Nat /\ used \subseteq Nat /\ Jitter \in Nat /\ QuotaDelay \in Nat
  BY AloneFacts, ScheduleAssumption
<1> DEFINE slot == ClaimSlot(now, interval)
<1>2. slot \in 0..now /\ now - interval < slot
  BY <1>1, SlotInRange
<1>3. CASE PutOff \/ OverQuota
  <2>1. next' \in Nat /\ next <= next' /\ UNCHANGED <<used, runs, skipped>>
    BY <1>0, <1>1, <1>3 DEF PutOff, OverQuota
  <2>2. Active' = Active /\ Stretch' = Stretch /\ Stretch \in Nat
    BY <1>0, <1>1, <2>1 DEF Active, Stretch
  <2>3. \A u \in used : u + base <= next'
    BY <1>0, <1>1, <2>1
  <2>4. skipped = 1 => \A u \in used : u + interval + Stretch <= next'
    BY <1>1, <2>1, <2>2 DEF LeftAlone
  <2> QED  BY <1>0, <2>1, <2>2, <2>3, <2>4 DEF LeftAlone
<1>4. CASE Schedule(s) /\ Active = {}
  <2>1. PICK j \in 0..Jitter : next' = now + interval + j
    BY <1>4 DEF Schedule
  <2>2. next' \in Nat /\ now + interval <= next'
    BY <1>1, <2>1
  <2>3. CASE slot \in used
    <3>1. skipped' = skipped + 1 /\ UNCHANGED <<used, runs>>
      BY <1>4, <2>3 DEF Schedule
    <3>2. skipped = 0
      <4> SUFFICES ASSUME skipped = 1 PROVE FALSE
        BY <1>0
      <4>1. slot + interval + Stretch <= next /\ Stretch \in Nat
        BY <1>1, <2>3 DEF LeftAlone, Stretch
      <4> QED  BY <1>0, <1>1, <1>2, <4>1
    <3>3. Active' = {} /\ Stretch' \in {0, base}
      BY <1>0, <1>4, <3>1 DEF Active, Stretch
    <3>4. \A u \in used : u + base <= next' /\ u + interval + base <= next' /\ u + interval + 0 <= next'
      BY <1>0, <1>1, <2>2
    <3>5. \A i \in 1..2 : runs'[i].st # "running"
      BY <1>4, <3>1 DEF Active
    <3> QED  BY <1>0, <3>1, <3>2, <3>3, <3>4, <3>5 DEF LeftAlone
  <2>4. CASE slot \notin used
    <3>1. skipped' = 0 /\ used' \subseteq used \cup {slot}
      BY <1>4, <2>4 DEF Schedule, Recent
    <3>2. \A u \in used \cup {slot} : u + base <= next'
      BY <1>0, <1>1, <1>2, <2>2
    <3> QED  BY <1>0, <3>1, <3>2 DEF LeftAlone
  <2> QED  BY <2>3, <2>4
<1> QED  BY <1>3, <1>4 DEF Claim, MayRun

LEMMA AloneInsert ==
  ASSUME Inv, ScheduleTyped, Ranged, LeftAlone, InsertByHand
  PROVE  LeftAlone'
<1> SUFFICES ASSUME edits = 0 PROVE LeftAlone'
  BY DEF LeftAlone, InsertByHand
<1>0. /\ UNCHANGED <<interval, base, next, used, skipped, edits, raced>> /\ asked' = "no" /\ asked # "no"
  BY DEF InsertByHand, row
<1>1. Active # {1, 2} /\ Insert
  BY NotBoth DEF InsertByHand
<1>2. /\ Free \in 1..2 /\ runs'[Free].st = "queued"
      /\ \A i \in 1..2 : i # Free => runs'[i] = runs[i]
      /\ Active' = Active \cup {Free}
  BY <1>1, Inserted DEF Inv
<1>3. ASSUME skipped = 1
      PROVE  /\ \A i, j \in Active' : i = j
             /\ \A i \in 1..2 : runs'[i].st = "running" => runs'[i].interval = interval
             /\ \A u \in used : u + interval + Stretch' <= next
  <2>1. Active = {} /\ asked = "create"
    BY <1>0, <1>3 DEF LeftAlone
  <2>2. Active' = {Free}
    BY <1>2, <2>1
  <2>3. Stretch' = base /\ Stretch = base
    BY <1>0, <2>1, <2>2 DEF Stretch
  <2>4. \A i \in 1..2 : runs'[i].st = "running" => runs[i].st = "running" /\ runs'[i] = runs[i]
    BY <1>2
  <2> QED  BY <1>3, <2>2, <2>3, <2>4 DEF LeftAlone
<1> QED  BY <1>0, <1>3 DEF LeftAlone

LEMMA AloneStart ==
  ASSUME Inv, ScheduleTyped, Ranged, LeftAlone, NEW i \in 1..2, Start(i)
  PROVE  LeftAlone'
<1> DEFINE r == [st |-> "running", ver |-> runs[i].ver, conf |-> version,
                 interval |-> interval, base |-> base, quiet |-> quiet]
<1>1. runs' = [runs EXCEPT ![i] = r] /\ RunsOK /\ runs[i].st = "queued"
      /\ UNCHANGED <<interval, base, next, used, skipped, edits, raced, asked>>
  BY DEF Start, RunsOK, Inv, row, history
<1>2. r.st = "running" /\ r.interval = interval
  OBVIOUS
<1> HIDE DEF r
<1>3. runs'[i] = r /\ \A j \in 1..2 : j # i => runs'[j] = runs[j]
  BY <1>1, Changed
<1>4. Active' = Active
  BY <1>1, <1>2, <1>3 DEF Active
<1>5. Stretch' = Stretch
  BY <1>1, <1>4 DEF Stretch
<1> QED  BY <1>1, <1>2, <1>3, <1>4, <1>5 DEF LeftAlone

LEMMA Sums ==
  ASSUME NEW u \in Nat, NEW a \in Nat, NEW b \in Nat, NEW c \in Nat, NEW d \in Nat,
         u + a + b <= d, c <= a + b
  PROVE  u + c + 0 <= d
  OBVIOUS

LEMMA AloneEnds ==
  ASSUME Inv, ScheduleTyped, Ranged, LeftAlone, NEW i \in 1..2, Succeed(i) \/ Fail(i)
  PROVE  LeftAlone'
<1> SUFFICES ASSUME edits = 0 PROVE LeftAlone'
  BY DEF LeftAlone, Succeed, Fail
<1>0. /\ UNCHANGED <<base, next, used, skipped, edits, raced, asked>>
      /\ runs' = [runs EXCEPT ![i] = NoRun] /\ i \in Active /\ NoRun.st = "none"
  BY DEF Succeed, Fail, row, Active, NoRun
<1>1. /\ base \in Nat \ {0} /\ interval \in Nat \ {0} /\ base <= interval
      /\ next \in Nat /\ used \subseteq Nat /\ RunsOK /\ ~raced
  BY AloneFacts DEF LeftAlone
<1>2. runs'[i] = NoRun /\ \A j \in 1..2 : j # i => runs'[j] = runs[j]
  BY <1>0, <1>1, Changed
<1>3. ASSUME skipped = 1
      PROVE  /\ asked = "no" /\ Active' = {}
             /\ \A j \in 1..2 : runs'[j].st # "running"
             /\ \A u \in used : u + interval' + Stretch' <= next
  <2>1. asked = "no" /\ \A j \in Active : j = i
    BY <1>0, <1>3 DEF LeftAlone
  <2>2. \A j \in 1..2 : runs'[j].st = "none"
    BY <1>0, <1>1, <1>2, <2>1 DEF Active, RunsOK
  <2>3. Active' = {} /\ Stretch' = 0 /\ Stretch = base
    BY <1>0, <2>1, <2>2 DEF Active, Stretch
  <2>4. interval' \in Nat /\ interval' <= interval + base
    <3>1. CASE Fail(i)
      BY <1>1, <3>1 DEF Fail, row
    <3>2. CASE Succeed(i)
      <4> DEFINE r == runs[i]
      <4>1. PICK changed \in BOOLEAN : Outcome(r, changed)
        BY <3>2 DEF Succeed
      <4>2. r.st = "running" /\ r.base = base /\ r.interval = interval
        BY <1>1, <1>3, <3>2 DEF Succeed, LeftAlone, Ranged
      <4>3. interval' \in {interval, r.base, r.interval, Stretched(r.base, r.interval)}
        BY <4>1 DEF Outcome
      <4>4. Stretched(base, interval) \in Nat /\ Stretched(base, interval) <= interval + base
        BY <1>1, StretchedInRange, StretchedByBase
      <4> HIDE DEF r
      <4> QED  BY <1>1, <4>2, <4>3, <4>4
    <3> QED  BY <3>1, <3>2
  <2>5. \A u \in used : u + interval + base <= next
    BY <1>3, <2>3 DEF LeftAlone
  <2>6. ASSUME NEW u \in used PROVE u + interval' + 0 <= next
    <3>1. u \in Nat /\ u + interval + base <= next
      BY <1>1, <2>5
    <3>2. base \in Nat /\ interval \in Nat /\ next \in Nat /\ interval' \in Nat /\ interval' <= interval + base
      BY <1>1, <2>4
    <3> QED  BY <3>1, <3>2, Sums
  <2> QED  BY <2>1, <2>2, <2>3, <2>6
<1> QED  BY <1>0, <1>3 DEF LeftAlone

LEMMA AloneStep == Inv /\ ScheduleTyped /\ Ranged /\ LeftAlone /\ [Next]_vars => LeftAlone'
<1> SUFFICES ASSUME Inv, ScheduleTyped, Ranged, LeftAlone, [Next]_vars PROVE LeftAlone'
  OBVIOUS
<1>1. ASSUME EditInterval \/ EditConfig \/ Pause \/ Resume \/ ManualCheck \/ QuotaFlips PROVE LeftAlone'
  <2>1. edits' = edits + 1 /\ edits \in Nat
    BY <1>1 DEF EditInterval, EditConfig, Pause, Resume, ManualCheck, QuotaFlips, Request, ScheduleTyped, TypeOK
  <2> QED  BY <2>1 DEF LeftAlone
<1>2. ASSUME InsertFails PROVE LeftAlone'
  <2>1. asked' = "no" /\ asked = "create"
        /\ UNCHANGED <<interval, base, next, used, runs, skipped, edits, raced>>
    BY <1>2 DEF InsertFails, row, history
  <2>2. Active' = Active
    BY <2>1 DEF Active
  <2>3. ASSUME edits = 0, skipped = 1 PROVE \A u \in used : u + interval + Stretch' <= next
    <3>1. Active = {} /\ Stretch = base /\ Stretch' = 0
      BY <2>1, <2>2, <2>3 DEF LeftAlone, Stretch
    <3>2. \A u \in used : u + interval + base <= next
      BY <2>3, <3>1 DEF LeftAlone
    <3>3. base \in Nat \ {0} /\ interval \in Nat \ {0} /\ next \in Nat /\ used \subseteq Nat
      BY <2>3, AloneFacts
    <3> QED  BY <3>1, <3>2, <3>3
  <2> QED  BY <2>1, <2>2, <2>3 DEF LeftAlone
<1>3. ASSUME ReleaseLeases \/ Tick \/ UNCHANGED vars PROVE LeftAlone'
  <2>1. UNCHANGED <<interval, base, next, used, runs, skipped, edits, raced, asked>>
    BY <1>3 DEF ReleaseLeases, Tick, vars, row, history
  <2>2. Active' = Active /\ Stretch' = Stretch
    BY <2>1 DEF Active, Stretch
  <2> QED  BY <2>1, <2>2 DEF LeftAlone
<1> QED
  BY <1>1, <1>2, <1>3, AloneClaim, AloneInsert, AloneStart, AloneEnds DEF Next

\* scheduler.py, adaptive.py: a monitor that is left alone finds the slot of its claim taken at
\* most once in a row, whatever its interval and its jitter, and its interval stays in range.
THEOREM NeverForgotten == Spec => []CheckedInTime
<1>1. LeftAlone /\ Ranged => CheckedInTime
  BY DEF LeftAlone, Ranged, CheckedInTime, NotForgotten, IntervalInRange
<1>2. Init => LeftAlone /\ ScheduleTyped
  BY AloneInit, ScheduleTypedInit
<1> QED
  BY <1>1, <1>2, RangedInit, RangedStep, ScheduleTypedStep, AloneStep, Invariance, PTL DEF Spec

=============================================================================
