----------------------------- MODULE RunContract -----------------------------
(***************************************************************************)
(* What the rest of the system may rely on about a MonitorRun, whatever    *)
(* process fails: it is inserted once, it is started at most once, it is   *)
(* over for good once it is over, and its ChangeEvent (with the            *)
(* notifications) is published in the step that ends it, or never.         *)
(* "over" stands for both SUCCEEDED and FAILED.                            *)
(***************************************************************************)
CONSTANT Runs

VARIABLES
  phase,      \* phase of each run
  published   \* runs whose ChangeEvent is visible

contractVars == <<phase, published>>

Phases == {"absent", "waiting", "started", "over"}

Start == phase = [r \in Runs |-> "absent"] /\ published = {}

\* The run goes from phase p to phase q; nothing is published.
Advance(r, p, q) ==
  /\ phase[r] = p
  /\ phase' = [phase EXCEPT ![r] = q]
  /\ UNCHANGED published

Create(r)  == Advance(r, "absent", "waiting")
Begin(r)   == Advance(r, "waiting", "started")
Abandon(r) == Advance(r, "waiting", "over")
End(r)     == Advance(r, "started", "over")

EndWithChange(r) ==
  /\ phase[r] = "started"
  /\ phase' = [phase EXCEPT ![r] = "over"]
  /\ published' = published \cup {r}

Step ==
  \E r \in Runs :
    Create(r) \/ Begin(r) \/ Abandon(r) \/ End(r) \/ EndWithChange(r)

Spec == Start /\ [][Step]_contractVars

=============================================================================
