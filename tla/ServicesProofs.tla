--------------------------- MODULE ServicesProofs ---------------------------
(***************************************************************************)
(* Proofs about the three services, for any workers, limits, addresses and *)
(* bounds: the counter of a domain never stands for slots nobody took and, *)
(* without the fallback, no death blocks the domain; a plain fetch connects *)
(* to validated addresses only; and every variable keeps its type.         *)
(***************************************************************************)
EXTENDS MCServices, FiniteSetTheorems, TLAPS

-----------------------------------------------------------------------------
(* Slots: types.                                                           *)

\* The expiry flag stays Boolean.
LEMMA FlagStep == expiring \in BOOLEAN /\ [Next]_vars => expiring' \in BOOLEAN
<1> SUFFICES ASSUME expiring \in BOOLEAN, [Next]_vars PROVE expiring' \in BOOLEAN
  OBVIOUS
<1>1. CASE Expire
  BY <1>1, Zenon DEF Expire, KeyGone
<1>2. ASSUME NEW w \in Workers, Step(w) PROVE expiring' \in BOOLEAN
  BY <1>2, Zenon DEF Step, Acquire, EvalRaises, Script, FallbackIncr, AfterIncr, FallbackExpire,
       FallbackUndo, Release, Delete, KeyGone, Abandon
<1>3. CASE UNCHANGED vars
  BY <1>3, Zenon DEF vars
<1> QED
  BY <1>1, <1>2, <1>3, Zenon DEF Next

\* Whether scripts run is settled at the start.
LEMMA ScriptsFixed == [Next]_vars => scripts' = scripts
<1> SUFFICES ASSUME [Next]_vars PROVE scripts' = scripts
  OBVIOUS
<1>1. ASSUME NEW w \in Workers, Step(w) PROVE scripts' = scripts
  BY <1>1, Zenon DEF Step, Acquire, EvalRaises, FallbackIncr, FallbackExpire,
       FallbackUndo, Release, Delete, Abandon
<1> QED
  BY <1>1, Zenon DEF Next, Expire, vars

\* The initial state has the types.
LEMMA InitType == Init => TypeOK
<1> SUFFICES ASSUME Init PROVE TypeOK
  OBVIOUS
<1>1. expiring \in BOOLEAN
  BY Zenon DEF Init
<1>2. conc \in Int /\ pc \in [Workers -> Points] /\ lost \in Nat
  BY DEF Init, Points
<1>3. scripts \in {"run", "raise"}
  BY Zenon DEF Init
<1> QED
  BY <1>1, <1>2, <1>3, Zenon DEF TypeOK

\* Every step keeps the types.
LEMMA TypeStep == TypeOK /\ [Next]_vars => TypeOK'
<1> SUFFICES ASSUME TypeOK, [Next]_vars
             PROVE  conc' \in Int /\ pc' \in [Workers -> Points] /\ lost' \in Nat
  BY FlagStep, ScriptsFixed, Zenon DEF TypeOK
<1>0. conc \in Int /\ pc \in [Workers -> Points] /\ lost \in Nat
  BY DEF TypeOK
<1> HIDE DEF TypeOK
<1> USE <1>0 DEF Points, Goto
<1>1. CASE Expire
  BY <1>1 DEF Expire, KeyGone
<1>2. ASSUME NEW w \in Workers, Step(w)
      PROVE  conc' \in Int /\ pc' \in [Workers -> Points] /\ lost' \in Nat
  <2>1. CASE Acquire(w)
    BY <2>1 DEF Acquire, Script
  <2>2. CASE EvalRaises(w)
    BY <2>2 DEF EvalRaises, Script
  <2>3. CASE FallbackIncr(w)
    BY <2>3 DEF FallbackIncr, AfterIncr
  <2>4. CASE FallbackExpire(w)
    BY <2>4 DEF FallbackExpire
  <2>5. CASE FallbackUndo(w)
    BY <2>5 DEF FallbackUndo
  <2>6. CASE Release(w)
    BY <2>6 DEF Release
  <2>7. CASE Delete(w)
    BY <2>7 DEF Delete, KeyGone
  <2>8. CASE Abandon(w)
    BY <2>8 DEF Abandon
  <2> QED
    BY <1>2, <2>1, <2>2, <2>3, <2>4, <2>5, <2>6, <2>7, <2>8 DEF Step
<1>3. CASE UNCHANGED vars
  BY <1>3 DEF vars
<1> QED
  BY <1>1, <1>2, <1>3 DEF Next

\* In every reachable state the counter is an integer, every worker is at a
\* control point of acquire_domain_slot or release_domain_slot, and so on.
THEOREM TypeCorrect == Spec => []TypeOK
<1> QED
  BY InitType, TypeStep, PTL DEF Spec

-----------------------------------------------------------------------------
(* Slots: no phantom slots.                                                *)

\* One worker moves: how many are counted changes by what it was and is.
LEMMA CountedMoves ==
  ASSUME TypeOK, NEW w \in Workers, NEW p \in Points, Goto(w, p)
  PROVE  /\ Cardinality(Counted) \in Nat
         /\ Cardinality(Counted') \in Nat
         /\ pc[w] \in {"expire", "undo", "holding"} /\ p \in {"expire", "undo", "holding"}
              => Cardinality(Counted') = Cardinality(Counted)
         /\ pc[w] \notin {"expire", "undo", "holding"} /\ p \notin {"expire", "undo", "holding"}
              => Cardinality(Counted') = Cardinality(Counted)
         /\ pc[w] \notin {"expire", "undo", "holding"} /\ p \in {"expire", "undo", "holding"}
              => Cardinality(Counted') = Cardinality(Counted) + 1
         /\ pc[w] \in {"expire", "undo", "holding"} /\ p \notin {"expire", "undo", "holding"}
              => Cardinality(Counted') = Cardinality(Counted) - 1
<1> USE DEF TypeOK, Goto, Counted
<1>1. IsFiniteSet(Counted) /\ IsFiniteSet(Counted')
  <2>1. Counted \subseteq Workers /\ Counted' \subseteq Workers
    OBVIOUS
  <2> QED
    BY <2>1, FS_Subset, SlotsAssumption
<1>2. Cardinality(Counted) \in Nat /\ Cardinality(Counted') \in Nat
  BY <1>1, FS_CardinalityType
<1>3. pc[w] \in {"expire", "undo", "holding"} /\ p \in {"expire", "undo", "holding"}
        => Counted' = Counted
  OBVIOUS
<1>4. pc[w] \notin {"expire", "undo", "holding"} /\ p \notin {"expire", "undo", "holding"}
        => Counted' = Counted
  OBVIOUS
<1>5. pc[w] \notin {"expire", "undo", "holding"} /\ p \in {"expire", "undo", "holding"}
        => Cardinality(Counted') = Cardinality(Counted) + 1
  <2> SUFFICES ASSUME pc[w] \notin {"expire", "undo", "holding"},
                      p \in {"expire", "undo", "holding"}
               PROVE  Cardinality(Counted') = Cardinality(Counted) + 1
    OBVIOUS
  <2>1. Counted' = Counted \cup {w} /\ w \notin Counted
    OBVIOUS
  <2> QED
    BY <1>1, <2>1, FS_AddElement
<1>6. pc[w] \in {"expire", "undo", "holding"} /\ p \notin {"expire", "undo", "holding"}
        => Cardinality(Counted') = Cardinality(Counted) - 1
  <2> SUFFICES ASSUME pc[w] \in {"expire", "undo", "holding"},
                      p \notin {"expire", "undo", "holding"}
               PROVE  Cardinality(Counted') = Cardinality(Counted) - 1
    OBVIOUS
  <2>1. Counted' = Counted \ {w} /\ w \in Counted
    OBVIOUS
  <2> QED
    BY <1>1, <2>1, FS_RemoveElement
<1> QED
  BY <1>2, <1>3, <1>4, <1>5, <1>6

\* Every step keeps the counter below the slots held or lost.
LEMMA PhantomStep == TypeOK /\ NoPhantom /\ [Next]_vars => NoPhantom'
<1> SUFFICES ASSUME TypeOK, NoPhantom, [Next]_vars PROVE NoPhantom'
  OBVIOUS
<1>0. conc \in Int /\ lost \in Nat /\ Limit \in Nat
  BY SlotsAssumption DEF TypeOK
<1>1. CASE Expire
  <2>1. IsFiniteSet(Counted')
    BY FS_Subset, SlotsAssumption DEF Counted
  <2>2. Cardinality(Counted') \in Nat
    BY <2>1, FS_CardinalityType
  <2> QED
    BY <1>1, <2>2 DEF Expire, KeyGone, NoPhantom
<1>2. ASSUME NEW w \in Workers, Step(w) PROVE NoPhantom'
  <2>1. CASE Acquire(w)
    BY <1>0, <2>1, CountedMoves DEF Acquire, Script, NoPhantom, Points
  <2>2. CASE EvalRaises(w)
    BY <1>0, <2>2, CountedMoves DEF EvalRaises, Script, NoPhantom, Points
  <2>3. CASE FallbackIncr(w)
    <3>1. PICK p \in {"expire", "undo", "holding"} : Goto(w, p)
      <4>1. CASE conc + 1 = 1
        BY <2>3, <4>1 DEF FallbackIncr, AfterIncr
      <4>2. CASE conc + 1 # 1 /\ conc + 1 > Limit
        BY <2>3, <4>2 DEF FallbackIncr, AfterIncr
      <4>3. CASE conc + 1 # 1 /\ ~(conc + 1 > Limit)
        BY <2>3, <4>3 DEF FallbackIncr, AfterIncr
      <4> QED
        BY <4>1, <4>2, <4>3
    <3>2. Cardinality(Counted) \in Nat /\ Cardinality(Counted') = Cardinality(Counted) + 1
      BY <2>3, <3>1, CountedMoves DEF FallbackIncr, AfterIncr, Points
    <3> QED
      BY <1>0, <2>3, <3>2 DEF FallbackIncr, AfterIncr, NoPhantom
  <2>4. CASE FallbackExpire(w)
    BY <1>0, <2>4, CountedMoves DEF FallbackExpire, NoPhantom, Points
  <2>5. CASE FallbackUndo(w)
    BY <1>0, <2>5, CountedMoves DEF FallbackUndo, NoPhantom, Points
  <2>6. CASE Release(w)
    <3>1. PICK p \in {"delete", "idle"} : Goto(w, p)
      BY <2>6 DEF Release
    <3>2. Cardinality(Counted) \in Nat /\ Cardinality(Counted') = Cardinality(Counted) - 1
      BY <2>6, <3>1, CountedMoves DEF Release, Points
    <3> QED
      BY <1>0, <2>6, <3>2 DEF Release, NoPhantom
  <2>7. CASE Delete(w)
    <3>1. Cardinality(Counted') \in Nat
      BY <2>7, CountedMoves DEF Delete, Points
    <3> QED
      BY <2>7, <3>1 DEF Delete, KeyGone, NoPhantom
  <2>8. CASE Abandon(w)
    <3>1. CASE w \in Counted
      <4>1. Cardinality(Counted) \in Nat /\ Cardinality(Counted') = Cardinality(Counted) - 1
        BY <2>8, <3>1, CountedMoves DEF Abandon, Points, Counted
      <4> QED
        BY <1>0, <2>8, <3>1, <4>1 DEF Abandon, NoPhantom
    <3>2. CASE w \notin Counted
      <4>1. Cardinality(Counted') = Cardinality(Counted)
        BY <2>8, <3>2, CountedMoves DEF Abandon, Points, Counted
      <4> QED
        BY <1>0, <2>8, <3>2, <4>1 DEF Abandon, NoPhantom
    <3> QED
      BY <3>1, <3>2
  <2> QED
    BY <1>2, <2>1, <2>2, <2>3, <2>4, <2>5, <2>6, <2>7, <2>8 DEF Step
<1>3. CASE UNCHANGED vars
  BY <1>3 DEF vars, NoPhantom, Counted
<1> QED
  BY <1>1, <1>2, <1>3 DEF Next

\* A worker is refused only if Limit slots are held or were lost by the death of
\* a worker, whatever expires, dies, races or falls back.
THEOREM NeverPhantom == Spec => []NoPhantom
<1>1. Init => TypeOK /\ NoPhantom
  <2> SUFFICES ASSUME Init PROVE NoPhantom
    BY InitType
  <2>1. Counted = {}
    BY DEF Init, Counted
  <2>2. Cardinality(Counted) = 0
    BY <2>1, FS_EmptySet
  <2> QED
    BY <2>2 DEF Init, NoPhantom
<1>2. TypeOK /\ NoPhantom /\ [Next]_vars => (TypeOK /\ NoPhantom)'
  BY TypeStep, PhantomStep
<1> QED
  BY <1>1, <1>2, PTL DEF Spec

-----------------------------------------------------------------------------
(* Slots: no lockout.                                                      *)

\* While scripts run, the control points of the fallback are never reached.
ScriptOnly ==
  scripts = "run" => \A w \in Workers : pc[w] \notin {"incr", "expire", "undo"}

LockoutInv == TypeOK /\ NoLockout /\ ScriptOnly

\* Without the fallback, every step leaves a positive counter with an expiry.
LEMMA LockoutStep == LockoutInv /\ [Next]_vars => LockoutInv'
<1> SUFFICES ASSUME LockoutInv, [Next]_vars, scripts = "run", scripts' = "run"
             PROVE  NoLockout' /\ ScriptOnly'
  <2>1. ASSUME scripts # "run", scripts' = scripts PROVE NoLockout' /\ ScriptOnly'
    BY <2>1 DEF NoLockout, ScriptOnly
  <2> QED
    BY <2>1, TypeStep, ScriptsFixed DEF LockoutInv
<1> USE DEF LockoutInv, TypeOK, NoLockout, ScriptOnly, Points
<1>1. CASE Expire
  BY <1>1 DEF Expire, KeyGone
<1>2. ASSUME NEW w \in Workers, Step(w) PROVE NoLockout' /\ ScriptOnly'
  <2>1. CASE Acquire(w)
    <3>1. conc' = conc + 1 /\ conc \in Int /\ ScriptOnly'
      BY <2>1 DEF Acquire, Script, Goto
    <3>2. CASE conc + 1 = 1
      <4>1. expiring'
        BY <2>1, <3>2, Zenon DEF Acquire, Script, FirstOfKey
      <4> QED
        BY <3>1, <4>1
    <3>3. CASE conc >= 1
      <4>1. expiring
        BY <3>3
      <4>2. expiring'
        BY <2>1, <4>1, Zenon DEF Acquire, Script
      <4> QED
        BY <3>1, <4>2
    <3>4. CASE conc < 0
      BY <3>1, <3>4
    <3> QED
      BY <3>1, <3>2, <3>3, <3>4
  <2>2. CASE EvalRaises(w) \/ FallbackIncr(w) \/ FallbackExpire(w) \/ FallbackUndo(w)
    BY <2>2 DEF EvalRaises, FallbackIncr, AfterIncr, FallbackExpire, FallbackUndo
  <2>3. CASE Release(w)
    BY <2>3 DEF Release, Goto
  <2>4. CASE Delete(w)
    BY <2>4 DEF Delete, KeyGone, Goto
  <2>5. CASE Abandon(w)
    BY <2>5 DEF Abandon, Goto
  <2> QED
    BY <1>2, <2>1, <2>2, <2>3, <2>4, <2>5 DEF Step
<1>3. CASE UNCHANGED vars
  BY <1>3 DEF vars
<1> QED
  BY <1>1, <1>2, <1>3 DEF Next

\* As long as Redis runs the script, a counter that counts anything expires, so
\* that workers that die with a slot block their domain for a while only.
THEOREM NeverLockedOut == Spec => []NoLockout
<1>1. Init => LockoutInv
  BY InitType DEF Init, LockoutInv, NoLockout, ScriptOnly
<1>2. LockoutInv => NoLockout
  BY DEF LockoutInv
<1> QED
  BY <1>1, <1>2, LockoutStep, PTL DEF Spec

-----------------------------------------------------------------------------
(* The fetch of a page.                                                    *)

\* What is about to be connected to was validated, and what a plain fetch connected to was.
OnlyValidated == ips \cap Blocked = {} /\ (kind # "browser" => reached \cap Blocked = {})

\* Only the plain fetchers connect, and only a browser fetch has a local attempt and an edge;
\* a fetch under way has no outcome yet.
RightWay ==
  /\ at # "idle" => outcome = "none"
  /\ at \in {"robots", "rules", "pin", "connect", "body"} => kind # "browser"
  /\ at \in {"local", "content", "edge", "asked"} => kind = "browser"

\* The edge is asked once by the child and once by its parent, for an error that is worth it.
EdgeCounted ==
  /\ edge \in 0..2 /\ (at \notin {"idle", "asked"} => edge <= 1) /\ (at = "asked" => edge >= 1)
  /\ at \in {"check", "robots", "rules", "pin", "connect", "body"} => edge = 0 /\ local = "none"
  /\ at \notin {"idle", "asked"} /\ level = "child" => edge = 0
  /\ at = "asked" /\ level = "child" => edge = 1
  /\ at = "local" /\ local = "none" => edge = 0
  /\ at = "content" => edge = 0 /\ local = "none"
  /\ at \in {"edge", "asked"} => local \notin {"none", "bot_challenge"}
  /\ local = "bot_challenge" => edge = 0

FetchInv ==
  /\ Fetch!TypeOK /\ OnlyValidated /\ RightWay /\ EdgeCounted /\ Fetch!NoChallengeKept

LEMMA FetchInit == ASSUME Fetch!Init PROVE FetchInv
BY FetchAssumption
DEF Fetch!Init, FetchInv, Fetch!TypeOK, OnlyValidated, RightWay, EdgeCounted, Fetch!NoChallengeKept,
    Fetch!Pages, Fetch!Errors, Fetch!Answering

LEMMA FetchBegins ==
  ASSUME FetchInv, NEW k \in {"page", "binary", "browser"}, NEW w \in {"worker", "api"},
         NEW l \in {"child", "parent"}, Fetch!Begin(k, w, l)
  PROVE  FetchInv'
BY FetchAssumption
DEF Fetch!Begin, FetchInv, Fetch!TypeOK, OnlyValidated, RightWay, EdgeCounted, Fetch!NoChallengeKept,
    Fetch!Pages, Fetch!Errors, Fetch!Answering

LEMMA FetchLooks ==
  ASSUME FetchInv, Fetch!Check \/ Fetch!Robots \/ Fetch!RobotsRead \/ Fetch!Pin
  PROVE  FetchInv'
<1> USE DEF FetchInv, Fetch!TypeOK, OnlyValidated, RightWay, EdgeCounted, Fetch!NoChallengeKept,
            Fetch!Pages, Fetch!Errors, Fetch!Answering, Fetch!Acceptable
<1>1. CASE Fetch!Check
  BY <1>1 DEF Fetch!Check, Fetch!End
<1>2. CASE Fetch!Robots
  <2>1. reached' \subseteq Addresses /\ (kind # "browser" => reached' \cap Blocked = {})
    BY <1>2 DEF Fetch!Robots
  <2>2. at' \in {"pin", "rules"}
    BY <1>2 DEF Fetch!Robots
  <2> QED  BY <1>2, <2>1, <2>2 DEF Fetch!Robots
<1>3. CASE Fetch!RobotsRead
  BY <1>3 DEF Fetch!RobotsRead
<1>4. CASE Fetch!Pin
  BY <1>4 DEF Fetch!Pin, Fetch!Pinned, Fetch!End
<1> QED  BY <1>1, <1>2, <1>3, <1>4

LEMMA FetchConnects ==
  ASSUME FetchInv, Fetch!Connect \/ Fetch!Redirect \/ Fetch!Body
  PROVE  FetchInv'
<1> USE DEF FetchInv, Fetch!TypeOK, OnlyValidated, RightWay, EdgeCounted, Fetch!NoChallengeKept,
            Fetch!Pages, Fetch!Errors, Fetch!Answering
<1>1. CASE Fetch!Connect
  BY <1>1 DEF Fetch!Connect, Fetch!End
<1>2. CASE Fetch!Redirect
  BY <1>2, FetchAssumption DEF Fetch!Redirect, Fetch!Redirected, Fetch!End
<1>3. CASE Fetch!Body
  <2>1. at' = "idle" /\ outcome' \in Fetch!Pages \cup Fetch!Errors
        /\ (kind = "page" => outcome' \notin {"challenge", "masked", "image"})
    BY <1>3 DEF Fetch!Body, Fetch!End, Fetch!Refusal
  <2> QED  BY <1>3, <2>1 DEF Fetch!Body
<1> QED  BY <1>1, <1>2, <1>3

LEMMA FetchBrowses ==
  ASSUME FetchInv,
         \/ Fetch!Surf \/ Fetch!LocalTest \/ Fetch!LocalPage \/ Fetch!LocalFailure
         \/ Fetch!ParentHears \/ Fetch!ParentGivesUp
  PROVE  FetchInv'
<1> USE DEF FetchInv, Fetch!TypeOK, OnlyValidated, RightWay, EdgeCounted, Fetch!NoChallengeKept,
            Fetch!Pages, Fetch!Errors, Fetch!Answering, Fetch!End, Fetch!ChildFails, Fetch!Failed, Fetch!EdgeFor
<1>1. CASE Fetch!Surf
  BY <1>1 DEF Fetch!Surf
<1>2. CASE Fetch!LocalTest
  BY <1>2 DEF Fetch!LocalTest, Fetch!Refusal
<1>3. CASE Fetch!LocalPage
  BY <1>3 DEF Fetch!LocalPage
<1>4. CASE Fetch!LocalFailure
  BY <1>4 DEF Fetch!LocalFailure
<1>5. CASE Fetch!ParentHears
  BY <1>5 DEF Fetch!ParentHears
<1>6. CASE Fetch!ParentGivesUp
  BY <1>6 DEF Fetch!ParentGivesUp
<1> QED  BY <1>1, <1>2, <1>3, <1>4, <1>5, <1>6

LEMMA FetchAsksEdge ==
  ASSUME FetchInv, Fetch!BlockedLater \/ Fetch!AskEdge \/ Fetch!EdgeAnswers \/ Fetch!TimeLimit
  PROVE  FetchInv'
<1> USE DEF FetchInv, Fetch!TypeOK, OnlyValidated, RightWay, EdgeCounted, Fetch!NoChallengeKept,
            Fetch!Pages, Fetch!Errors, Fetch!Answering, Fetch!End, Fetch!ChildFails
<1>1. CASE Fetch!BlockedLater
  BY <1>1 DEF Fetch!BlockedLater
<1>2. CASE Fetch!AskEdge
  BY <1>2 DEF Fetch!AskEdge
<1>3. CASE Fetch!EdgeAnswers
  BY <1>3 DEF Fetch!EdgeAnswers, Fetch!Refusal
<1>4. CASE Fetch!TimeLimit
  BY <1>4 DEF Fetch!TimeLimit
<1> QED  BY <1>1, <1>2, <1>3, <1>4

LEMMA FetchStep == FetchInv /\ [Fetch!Next]_fetching => FetchInv'
<1>1. FetchInv /\ UNCHANGED fetching => FetchInv'
  BY DEF fetching, FetchInv, Fetch!TypeOK, OnlyValidated, RightWay, EdgeCounted, Fetch!NoChallengeKept
<1> QED
  BY <1>1, FetchBegins, FetchLooks, FetchConnects, FetchBrowses, FetchAsksEdge
  DEF Fetch!Next, Fetch!Step, Fetch!Prompt

LEMMA FetchAlways == AllSpec => [](part = "fetch" => FetchInv)
<1> DEFINE I == part = "fetch" => FetchInv
<1>1. AllInit => I
  BY FetchInit DEF AllInit
<1>2. I /\ [AllNext]_allVars => I'
  <2> SUFFICES ASSUME I, [AllNext]_allVars, part' = "fetch" PROVE FetchInv'
    OBVIOUS
  <2>1. part = "fetch" /\ [Fetch!Next]_fetching
    BY DEF AllNext, allVars
  <2> QED  BY <2>1, FetchStep
<1> QED  BY <1>1, <1>2, PTL DEF AllSpec

\* ssrf.py, fetcher.py, browser_fetch.py: for any addresses, whatever the name service answers
\* and whenever, a plain fetch connects to public ones only and records no challenge, the edge
\* returns none that shows in its text, and a page that challenged the local browser is not
\* taken to the edge, which is asked at most twice.
THEOREM FetchesAreSafe == AllSpec => []FetchSafe
<1>1. (part = "fetch" => FetchInv) => FetchSafe
  BY DEF FetchSafe, Fetch!FetchSafe, Fetch!OnlyPublic, Fetch!EdgeSpared, FetchInv, OnlyValidated, EdgeCounted
<1> QED  BY <1>1, FetchAlways, PTL

-----------------------------------------------------------------------------
(* The live stream.                                                        *)

\* The states of a monitor that a writer and a reader pass on are states.
LEMMA NoStateType == Live!NoState \in Live!States
BY LiveAssumption DEF Live!NoState, Live!States, Live!Statuses

LEMMA LiveInit == ASSUME Live!Init PROVE Live!TypeOK
<1>1. redis \in BOOLEAN /\ open \in BOOLEAN /\ hint \in BOOLEAN
  BY Zenon DEF Live!Init
<1> QED  BY <1>1, NoStateType, LiveAssumption DEF Live!Init, Live!TypeOK

LEMMA WrittenType ==
  ASSUME NEW s \in Live!States, Live!Written(s)
  PROVE  flushed' \in Live!States
<1> USE LiveAssumption DEF Live!States, Live!Statuses
<1>1. CASE s.run < MaxRuns /\ flushed' = [s EXCEPT !.run = @ + 1, !.status = "queued"]
  <2>1. s.run + 1 \in 0..MaxRuns
    BY <1>1
  <2> QED  BY <1>1, <2>1
<1>2. CASE \E st \in Live!Statuses : flushed' = [s EXCEPT !.status = st]
  BY <1>2
<1>3. CASE s.change < MaxChanges /\ flushed' = [s EXCEPT !.status = "succeeded", !.change = @ + 1]
  <2>1. s.change + 1 \in 0..MaxChanges
    BY <1>3
  <2> QED  BY <1>3, <2>1
<1> QED  BY <1>1, <1>2, <1>3 DEF Live!Written

LEMMA EmittedType ==
  ASSUME NEW s \in Live!States, shown \in Live!States, NEW change \in 0..MaxChanges
  PROVE  Live!Emitted(s, change) \in Live!States
<1>1. \E r \in Live!States : Live!Emitted(s, change) = [r EXCEPT !.change = change]
  BY DEF Live!Emitted
<1> QED  BY <1>1 DEF Live!States

LEMMA LiveStep == Live!TypeOK /\ [Live!Next]_live => Live!TypeOK'
<1> SUFFICES ASSUME Live!TypeOK, [Live!Next]_live PROVE Live!TypeOK'
  OBVIOUS
<1> USE LiveAssumption DEF Live!TypeOK, Live!writer, Live!publisher, Live!reader, Live!faults
<1>1. CASE Live!Flush
  <2>1. client' \in {"unbuilt", "none", "ok"}
    BY <1>1 DEF Live!Flush, Live!Publish, Live!Built
  <2>2. open' \in BOOLEAN /\ hint' \in BOOLEAN
    BY <1>1, Zenon DEF Live!Flush, Live!Publish
  <2> QED  BY <1>1, <2>1, <2>2, WrittenType DEF Live!Flush
<1>2. CASE Live!Commit \/ Live!Rollback
  BY <1>2, NoStateType DEF Live!Commit, Live!Rollback
<1>3. CASE Live!CircuitCloses \/ Live!RedisFlips
  <2>1. open' \in BOOLEAN /\ redis' \in BOOLEAN
    BY <1>3, Zenon DEF Live!CircuitCloses, Live!RedisFlips
  <2> QED  BY <1>3, <2>1 DEF Live!CircuitCloses, Live!RedisFlips
<1>4. CASE Live!Subscribe \/ Live!Wake \/ Live!Close
  <2>1. hint' \in BOOLEAN
    BY <1>4, Zenon DEF Live!Subscribe, Live!Wake, Live!Close
  <2> QED  BY <1>4, <2>1 DEF Live!Subscribe, Live!Wake, Live!Close
<1>5. CASE Live!ReadRun \/ Live!Blip
  BY <1>5 DEF Live!ReadRun, Live!Blip
<1>6. CASE Live!ReadChange
  <2>1. latest.change \in 0..MaxChanges
    BY DEF Live!States
  <2>2. Live!Emitted(got, latest.change) \in Live!States
    BY <2>1, EmittedType
  <2> QED  BY <1>6, <2>2 DEF Live!ReadChange
<1>7. CASE UNCHANGED live
  BY <1>7 DEF live
<1> QED  BY <1>1, <1>2, <1>3, <1>4, <1>5, <1>6, <1>7 DEF Live!Next

-----------------------------------------------------------------------------
(* The service at work.                                                    *)

\* The service at work keeps the types of its variables, for any values of the constants.
THEOREM ServicesTyped == AllSpec => []TypesOK
<1> DEFINE I == /\ part \in {"slots", "live", "fetch"}
                /\ part = "slots" => TypeOK
                /\ part = "live" => Live!TypeOK
                /\ part = "fetch" => FetchInv
<1>1. AllInit => I
  BY InitType, LiveInit, FetchInit DEF AllInit
<1>2. I /\ [AllNext]_allVars => I'
  <2> SUFFICES ASSUME I, [AllNext]_allVars PROVE I'
    OBVIOUS
  <2>1. part' = part
    BY DEF AllNext, allVars
  <2>2. CASE part = "slots"
    <3>1. [Next]_vars
      BY <2>2 DEF AllNext, allVars
    <3> QED  BY <2>1, <2>2, <3>1, TypeStep
  <2>3. CASE part = "live"
    <3>1. [Live!Next]_live
      BY <2>3 DEF AllNext, allVars
    <3> QED  BY <2>1, <2>3, <3>1, LiveStep
  <2>4. CASE part = "fetch"
    <3>1. [Fetch!Next]_fetching
      BY <2>4 DEF AllNext, allVars
    <3> QED  BY <2>1, <2>4, <3>1, FetchStep
  <2> QED  BY <2>2, <2>3, <2>4
<1>3. I => TypesOK
  <2> SUFFICES ASSUME I PROVE TypesOK
    OBVIOUS
  <2>1. CASE part = "slots"
    BY <2>1 DEF TypesOK
  <2>2. CASE part = "live"
    BY <2>2 DEF TypesOK
  <2>3. CASE part = "fetch"
    BY <2>3 DEF TypesOK, FetchInv
  <2> QED  BY <2>1, <2>2, <2>3
<1> QED  BY <1>1, <1>2, <1>3, PTL DEF AllSpec

=============================================================================
