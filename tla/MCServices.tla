----------------------------- MODULE MCServices -----------------------------
(***************************************************************************)
(* Three services that share no state and whose fairness the code grants,  *)
(* checked side by side: the slots of a domain, the live stream of a       *)
(* monitor and the fetch of a page.  The initial state picks one, and the  *)
(* others stay where they are.                                             *)
(***************************************************************************)
EXTENDS DomainSlots

CONSTANTS
  MaxRuns, MaxChanges, MaxBlips, MaxOutages,           \* LiveEvents
  Addresses, Blocked, MaxRedirects, Edge               \* PageFetch

ASSUME LiveAssumption ==
  MaxRuns \in Nat /\ MaxChanges \in Nat /\ MaxBlips \in Nat /\ MaxOutages \in Nat

ASSUME FetchAssumption == MaxRedirects \in Nat

VARIABLES
  part,
  latest, flushed, redis, outages, blips, client, open, waiter, hint, stream, got, shown,
  kind, where, at, ips, redirects, level, local, outcome, reached, edge

Live == INSTANCE LiveEvents
Fetch == INSTANCE PageFetch

live == <<latest, flushed, redis, outages, blips, client, open, waiter, hint, stream, got, shown>>
fetching == <<kind, where, at, ips, redirects, level, local, outcome, reached, edge>>
allVars == <<part, vars, live, fetching>>

AllInit ==
  /\ part \in {"slots", "live", "fetch"}
  /\ Init /\ Live!Init /\ Fetch!Init
  /\ part = "live" \/ redis
  /\ part = "slots" \/ scripts = "run"

AllNext ==
  /\ UNCHANGED part
  /\ \/ part = "slots" /\ Next /\ UNCHANGED <<live, fetching>>
     \/ part = "live" /\ Live!Next /\ UNCHANGED <<vars, fetching>>
     \/ part = "fetch" /\ Fetch!Next /\ UNCHANGED <<vars, live>>

\* Each service under the fairness of its own specification.
AllSpec ==
  /\ AllInit /\ [][AllNext]_allVars
  /\ part = "slots" => WF_vars(Expire)
  /\ part = "live" => Live!Fairness
  /\ part = "fetch" => Fetch!Fairness

-----------------------------------------------------------------------------

\* Every variable of the service at work keeps its type.
TypesOK ==
  CASE part = "slots" -> TypeOK
    [] part = "live"  -> Live!TypeOK
    [] part = "fetch" -> Fetch!TypeOK

\* live_events.py: committed state is shown in the end, whatever hints are lost.
LatestShown == Live!LatestShown

\* ssrf.py, fetcher.py, browser_fetch.py: a plain fetch connects to public addresses only
\* and records no challenge, the edge's page is none, and a page that challenged the local
\* browser is not taken to the edge.
FetchSafe == part = "fetch" => Fetch!FetchSafe

\* fetcher.py, browser_fetch.py: every fetch ends, unless a response to the API
\* or an inline browser keeps it for ever.
FetchEnds == Fetch!FetchEnds

=============================================================================
