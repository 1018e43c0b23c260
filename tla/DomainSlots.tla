----------------------------- MODULE DomainSlots -----------------------------
(***************************************************************************)
(* The concurrency slots of one domain (services/domain_guard.py): a       *)
(* counter in Redis with an expiry, taken by every worker before it        *)
(* fetches and given back afterwards (workers/run_guard.py).  Taking a     *)
(* slot is one script; giving it back is two commands; the expiry, set     *)
(* when the counter becomes 1, may pass while slots are held.  A worker    *)
(* that is refused changes nothing, as the script takes its increment      *)
(* back, and its run fails.                                                *)
(***************************************************************************)
EXTENDS Integers, FiniteSets

CONSTANTS
  Workers,       \* worker threads that fetch from the domain
  Limit,         \* per_domain_concurrency
  Expires,       \* the expiry may pass while slots are held
  MaxDrift,      \* bound on how far refusals take the counter below zero
  MaxLost        \* bound on lost

ASSUME SlotsAssumption ==
  /\ IsFiniteSet(Workers)
  /\ Limit \in Nat \ {0}
  /\ Expires \in BOOLEAN
  /\ MaxDrift \in Nat
  /\ MaxLost \in Nat

VARIABLES
  conc,          \* conc:<domain>, 0 when there is no such key
  expiring,      \* the key has an expiry
  pc,            \* control point of each worker
  scripts,       \* "run", or "raise": a call of the script may raise
  lost           \* history: slots taken since the key was made that no worker
                 \* will give back

vars == <<conc, expiring, pc, scripts, lost>>

Points == {"idle", "incr", "expire", "undo", "holding", "delete"}

TypeOK ==
  /\ conc \in Int
  /\ expiring \in BOOLEAN
  /\ pc \in [Workers -> Points]
  /\ scripts \in {"run", "raise"}
  /\ lost \in Nat

Init ==
  /\ conc = 0
  /\ expiring = FALSE
  /\ pc = [w \in Workers |-> "idle"]
  /\ scripts \in {"run", "raise"}
  /\ lost = 0

Goto(w, p) == pc' = [pc EXCEPT ![w] = p]

-----------------------------------------------------------------------------
(* acquire_domain_slot.                                                    *)

\* Faulty variant of FirstOfKey: the value before the increment is meant.
FirstBefore(n) == n = 0

FirstOfKey(n) == n = 1

\* The script: INCR, EXPIRE if the result is 1, DECR again if it is above Limit.
Script ==
  /\ conc < Limit
  /\ conc' = conc + 1
  /\ expiring' = (expiring \/ FirstOfKey(conc + 1))

Acquire(w) ==
  /\ pc[w] = "idle"
  /\ Script
  /\ Goto(w, "holding")
  /\ UNCHANGED <<scripts, lost>>

\* The call raises: the script did not run, or ran and its reply is lost.
EvalRaises(w) ==
  /\ scripts = "raise"
  /\ pc[w] = "idle"
  /\ \/ UNCHANGED <<conc, expiring, lost>>
     \/ Script /\ lost < MaxLost /\ lost' = lost + 1
  /\ Goto(w, "incr")
  /\ UNCHANGED scripts

\* Faulty variant of AfterIncr: a worker above the limit waits for a slot.
AfterIncrWaits(n) == IF n = 1 THEN "expire" ELSE IF n > Limit THEN "waiting" ELSE "holding"

\* What is to be done with the counter at n.
AfterIncr(n) == IF n = 1 THEN "expire" ELSE IF n > Limit THEN "undo" ELSE "holding"

\* The fallback does the same in separate commands.
FallbackIncr(w) ==
  /\ pc[w] = "incr"
  /\ conc' = conc + 1
  /\ Goto(w, AfterIncr(conc + 1))
  /\ UNCHANGED <<expiring, scripts, lost>>

\* EXPIRE does nothing if the key has gone.
FallbackExpire(w) ==
  /\ pc[w] = "expire"
  /\ expiring' = (expiring \/ conc # 0)
  /\ Goto(w, "holding")
  /\ UNCHANGED <<conc, scripts, lost>>

\* Faulty variant of FallbackUndo: refuses without the DECR.
FallbackKeeps(w) ==
  /\ pc[w] = "undo"
  /\ Goto(w, "idle")
  /\ UNCHANGED <<conc, expiring, scripts, lost>>

\* The limit is exceeded: DECR and refuse.  When the key has gone, the DECR takes
\* the new one below zero, here down to -MaxDrift.
FallbackUndo(w) ==
  /\ pc[w] = "undo"
  /\ conc > -MaxDrift
  /\ conc' = conc - 1
  /\ Goto(w, "idle")
  /\ UNCHANGED <<expiring, scripts, lost>>

-----------------------------------------------------------------------------
(* release_domain_slot, and what ends a key or a worker.                   *)

\* DECR, which makes a key without expiry if there is none.
Release(w) ==
  /\ pc[w] = "holding"
  /\ conc' = conc - 1
  /\ Goto(w, IF conc - 1 <= 0 THEN "delete" ELSE "idle")
  /\ UNCHANGED <<expiring, scripts, lost>>

KeyGone == conc' = 0 /\ expiring' = FALSE /\ lost' = 0

\* DELETE of a counter that was seen at zero or below.
Delete(w) ==
  /\ pc[w] = "delete"
  /\ KeyGone
  /\ Goto(w, "idle")
  /\ UNCHANGED scripts

Expire ==
  /\ Expires
  /\ expiring
  /\ KeyGone
  /\ UNCHANGED <<pc, scripts>>

\* Counted in the key by a worker that is still there to take it out again.
Counted == {w \in Workers : pc[w] \in {"expire", "undo", "holding"}}

\* The process is killed, or a Redis error ends the acquire or the release
\* (release_domain_slot swallows it).
Abandon(w) ==
  /\ pc[w] # "idle"
  /\ IF w \in Counted THEN lost < MaxLost /\ lost' = lost + 1 ELSE UNCHANGED lost
  /\ Goto(w, "idle")
  /\ UNCHANGED <<conc, expiring, scripts>>

-----------------------------------------------------------------------------

Step(w) ==
  \/ Acquire(w) \/ EvalRaises(w)
  \/ FallbackIncr(w) \/ FallbackExpire(w) \/ FallbackUndo(w)
  \/ Release(w) \/ Delete(w) \/ Abandon(w)

Next == Expire \/ \E w \in Workers : Step(w)

Spec == Init /\ [][Next]_vars

\* An expiry that has been set passes; workers are owed nothing.
FairSpec == Spec /\ WF_vars(Expire)

-----------------------------------------------------------------------------
(* Correctness.                                                            *)

\* The counter never stands for slots that nobody took: a worker is refused
\* only if Limit slots are held, or were held by workers that died.
NoPhantom == conc <= Cardinality(Counted) + lost

\* No worker's death blocks the domain for good: while scripts run, a counter
\* that counts anything expires.  (With the fallback, a death between INCR and
\* EXPIRE does block it.)
NoLockout == scripts = "run" /\ conc >= 1 => expiring

\* While scripts run, a domain that is full becomes available again, whoever dies.
SlotsComeBack == scripts = "run" => []<>(conc < Limit)

\* Claims of the documentation that the code does not keep.

Holding == {w \in Workers : pc[w] = "holding"}

\* "avoid race over-allocation": no more than Limit workers fetch at once, at
\* least while scripts run.
LimitKept == scripts = "run" => Cardinality(Holding) <= Limit

\* "never let the concurrency counter persist as a negative value": a negative
\* counter is about to be deleted.
NegativeCleared == conc < 0 => \E w \in Workers : pc[w] = "delete"

=============================================================================
