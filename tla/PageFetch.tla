------------------------------ MODULE PageFetch ------------------------------
(***************************************************************************)
(* How a page is fetched (services/fetcher.py, browser_fetch.py,           *)
(* playwright_job.py, security/ssrf.py).  A plain fetch follows redirects, *)
(* validates what each host resolves to and connects to the addresses it   *)
(* validated, one after the other.  A browser fetch runs in a child        *)
(* process and may fall back to Chromium on Cloudflare's edge; Chromium    *)
(* resolves the names it connects to by itself.  The answers of the name   *)
(* service may differ from one query to the next.  Timeouts bound the      *)
(* connection and each read, so a response may keep coming for ever.       *)
(***************************************************************************)
EXTENDS Naturals, FiniteSets

CONSTANTS
  Addresses,     \* what a name may resolve to
  Blocked,       \* those that are not public
  MaxRedirects,  \* MAX_REDIRECTS
  Edge           \* CLOUDFLARE_BROWSER_URL is configured

VARIABLES
  kind,          \* fetch_url ("page"), fetch_binary ("binary") or fetch_url_browser
  where,         \* an actor, which has a time limit, or a request of the API
  at,            \* step of the fetch
  ips,           \* validated addresses not tried yet
  redirects,     \* redirects followed
  level,         \* browser: who is fetching, the child process or its parent
  local,         \* browser: error of the local attempt, as seen at this level
  outcome,       \* the page or the error the fetch ends with
  reached,       \* history: addresses connected to
  edge           \* history: fetches asked of the edge

fetchVars == <<kind, where, at, ips, redirects, level, local, outcome, reached, edge>>

Pages == {"text", "challenge", "masked", "image", "huge"}

Errors == {"blocked", "unreachable", "timeout", "redirect_limit", "unsupported", "too_large",
           "bot_challenge", "internal", "interrupted"}

\* A response is under way.
Answering == {"rules", "body"}

TypeOK ==
  /\ kind \in {"page", "binary", "browser"}
  /\ where \in {"worker", "api"}
  /\ at \in {"idle", "check", "robots", "pin", "connect", "local", "content", "edge", "asked"}
             \cup Answering
  /\ ips \subseteq Addresses /\ reached \subseteq Addresses
  /\ redirects \in 0..MaxRedirects /\ edge \in 0..2
  /\ level \in {"child", "parent"}
  /\ local \in Errors \cup {"none"}
  /\ outcome \in Pages \cup Errors \cup {"none"}

Init ==
  /\ kind = "page" /\ where = "worker" /\ at = "idle" /\ ips = {} /\ redirects = 0
  /\ level = "parent" /\ local = "none" /\ outcome = "none"
  /\ reached = {} /\ edge = 0

End(o) == at' = "idle" /\ outcome' = o

-----------------------------------------------------------------------------
(* validate_url_for_fetch and resolve_and_validate.                        *)

Acceptable(dns) == dns # {} /\ dns \cap Blocked = {}

\* A browser fetch is an actor's, inline (level "parent") or in a child process.
Begin(k, w, l) ==
  /\ at = "idle"
  /\ IF k = "browser" THEN w = "worker" ELSE l = "parent"
  /\ kind' = k /\ where' = w /\ level' = l
  /\ at' = "check" /\ ips' = {} /\ redirects' = 0 /\ local' = "none" /\ outcome' = "none"
  /\ reached' = {} /\ edge' = 0

\* The first look at a URL; robots.txt is fetched once, for the pages that ask for it.
Check ==
  /\ at = "check"
  /\ \E dns \in SUBSET Addresses :
       IF ~Acceptable(dns) THEN End("blocked")
       ELSE /\ IF kind = "browser" THEN at' = "local"
               ELSE at' = "pin" \/ (at' = "robots" /\ kind = "page" /\ redirects = 0)
            /\ UNCHANGED outcome
  /\ UNCHANGED <<kind, where, ips, redirects, level, local, reached, edge>>

\* robots.txt goes through the same pinned fetch, and never fails the check.
Robots ==
  /\ at = "robots"
  /\ \E dns \in SUBSET Addresses :
       IF Acceptable(dns) THEN reached' = reached \cup dns /\ at' \in {"pin", "rules"}
       ELSE at' = "pin" /\ UNCHANGED reached
  /\ UNCHANGED <<kind, where, ips, redirects, level, local, outcome, edge>>

RobotsRead ==
  /\ at = "rules" /\ at' = "pin"
  /\ UNCHANGED <<kind, where, ips, redirects, level, local, outcome, reached, edge>>

\* Faulty variant of Pinned: connects to what the second query gives.
PinnedBlindly(dns) == dns # {}

\* _pinned_get resolves again and validates what it connects to.
Pinned(dns) == Acceptable(dns)

Pin ==
  /\ at = "pin"
  /\ \E dns \in SUBSET Addresses :
       IF Pinned(dns) THEN at' = "connect" /\ ips' = dns /\ UNCHANGED outcome
       ELSE End("blocked") /\ UNCHANGED ips
  /\ UNCHANGED <<kind, where, redirects, level, local, reached, edge>>

-----------------------------------------------------------------------------
(* _pinned_get, fetch_url, fetch_binary.                                   *)

\* The next address accepts, or it refuses or stays silent at connect time.
Connect ==
  /\ at = "connect"
  /\ \E a \in ips :
       /\ reached' = reached \cup {a}
       /\ \/ at' = "body" /\ UNCHANGED <<ips, outcome>>
          \/ /\ ips' = ips \ {a}
             /\ IF ips = {a} THEN End("unreachable") ELSE UNCHANGED <<at, outcome>>
  /\ UNCHANGED <<kind, where, redirects, level, local, edge>>

\* Faulty variant of Redirected: the count is not kept.
RedirectedFreely(n) == n

Redirected(n) == n + 1

\* The whole response has come, and it is a redirect.
Redirect ==
  /\ at = "body"
  /\ IF redirects = MaxRedirects THEN End("redirect_limit") /\ UNCHANGED redirects
     ELSE redirects' = Redirected(redirects) /\ at' = "check" /\ UNCHANGED outcome
  /\ UNCHANGED <<kind, where, ips, level, local, reached, edge>>

\* Size, content type and detect_bot_challenge; fetch_binary looks at nothing but the size.
Refusal(p) ==
  CASE p = "huge" -> "too_large"
    [] p = "image" /\ kind # "binary" -> "unsupported"
    [] p \in {"challenge", "masked"} /\ kind # "binary" -> "bot_challenge"
    [] OTHER -> "none"

\* client.get reads the whole response, and only then is anything of it looked at.  It may
\* stop or break off, be a redirect without a location, or be a page.
Body ==
  /\ at = "body"
  /\ \/ \E e \in {"timeout", "internal"} : End(e)
     \/ \E p \in Pages : End(IF Refusal(p) = "none" THEN p ELSE Refusal(p))
  /\ UNCHANGED <<kind, where, ips, redirects, level, local, reached, edge>>

-----------------------------------------------------------------------------
(* fetch_url_browser.                                                      *)

\* "A bot challenge is endpoint-independent": it is not taken to the edge.
EdgeFor(e) == Edge /\ e # "bot_challenge"

\* The child process reports its error and exits.
ChildFails == level' = "parent" /\ at' = "local" /\ UNCHANGED outcome

\* An error of this level: raised, or taken to the edge first.  The parent takes the
\* error of the child for that of the local attempt.
Failed(e) ==
  /\ local' = e
  /\ IF EdgeFor(e) THEN at' = "edge" /\ UNCHANGED <<level, outcome>>
     ELSE IF level = "child" THEN ChildFails
     ELSE End(e) /\ UNCHANGED level

\* A request of the page: its name is validated, and Chromium connects to what it resolves
\* the name to itself.
Surf ==
  /\ at = "local" /\ local = "none"
  /\ \E dns, answer \in SUBSET Addresses :
       Acceptable(dns) /\ answer # {} /\ reached' = reached \cup answer
  /\ UNCHANGED <<kind, where, at, ips, redirects, level, local, outcome, edge>>

\* The page has loaded, and what it shows now is tested.
LocalTest ==
  /\ at = "local" /\ local = "none"
  /\ \E p \in {"text", "challenge", "masked"} :
       IF Refusal(p) = "none" THEN at' = "content" /\ UNCHANGED <<level, local, outcome>>
       ELSE Failed(Refusal(p))
  /\ UNCHANGED <<kind, where, ips, redirects, reached, edge>>

\* What the page shows later is recorded without a test.
LocalPage ==
  /\ at = "content"
  /\ \E p \in {"text", "challenge"} : End(p)
  /\ UNCHANGED <<kind, where, ips, redirects, level, local, reached, edge>>

LocalFailure ==
  /\ at \in {"local", "content"} /\ local = "none"
  /\ \E e \in {"timeout", "too_large", "blocked", "internal"} : Failed(e)
  /\ UNCHANGED <<kind, where, ips, redirects, reached, edge>>

\* The child reported its error.
ParentHears ==
  /\ at = "local" /\ local # "none" /\ level = "parent"
  /\ Failed(local)
  /\ UNCHANGED <<kind, where, ips, redirects, reached, edge>>

\* The parent stops waiting, whatever the child is at, or cannot use what it left: no
\* output, or a final URL that is not public.
ParentGivesUp ==
  /\ at \in {"local", "content", "edge", "asked"} /\ level = "child"
  /\ level' = "parent" /\ at' = "local"
  /\ \E e \in {"timeout", "internal", "blocked"} : local' = e
  /\ UNCHANGED <<kind, where, ips, redirects, outcome, reached, edge>>

\* The URL is validated again ahead of the local attempt of the child, and of the edge.
\* What that raises passes by the ladder; of a child it is heard as an internal error.
BlockedLater ==
  /\ at = "edge" \/ (at = "local" /\ local = "none" /\ level = "child")
  /\ IF level = "child" THEN local' = "internal" /\ ChildFails
     ELSE End("blocked") /\ UNCHANGED <<level, local>>
  /\ UNCHANGED <<kind, where, ips, redirects, reached, edge>>

AskEdge ==
  /\ at = "edge" /\ at' = "asked" /\ edge' = edge + 1
  /\ UNCHANGED <<kind, where, ips, redirects, level, local, outcome, reached>>

\* _fetch_url_cf_browser tests the page's text: the headers are not passed on, so that a
\* challenge that shows only there is taken for a page.  A failure leaves the local error.
EdgeAnswers ==
  /\ at = "asked"
  /\ \/ /\ \E p \in Pages \ {"image"} : (p = "masked" \/ Refusal(p) = "none") /\ End(p)
        /\ UNCHANGED level
     \/ level = "child" /\ ChildFails
     \/ level = "parent" /\ End(local) /\ UNCHANGED level
  /\ UNCHANGED <<kind, where, ips, redirects, local, reached, edge>>

-----------------------------------------------------------------------------

\* Dramatiq raises TimeLimitExceeded in an actor's thread, wherever it is.
TimeLimit ==
  /\ at # "idle" /\ where = "worker"
  /\ End("interrupted")
  /\ UNCHANGED <<kind, where, ips, redirects, level, local, reached, edge>>

\* The browser runs in the actor's own process.
Inline == at \in {"local", "content"} /\ local = "none" /\ level = "parent"

\* Steps with a timeout of their own, or none that could block.
Prompt ==
  \/ Check \/ Robots \/ Pin \/ Connect
  \/ ParentHears \/ ParentGivesUp \/ BlockedLater \/ AskEdge

Step ==
  \/ Prompt
  \/ RobotsRead \/ Redirect \/ Body \/ Surf \/ LocalTest \/ LocalPage \/ LocalFailure
  \/ EdgeAnswers \/ TimeLimit

Next ==
  \/ Step
  \/ \E k \in {"page", "binary", "browser"}, w \in {"worker", "api"}, l \in {"child", "parent"} :
       Begin(k, w, l)

\* A response need not end (httpx bounds each read), nor page.content() return.  The parent
\* waits for its child for a limited time, and an actor's thread is interrupted as soon as
\* it runs, which it does unless it waits inside Playwright.
Fairness ==
  /\ WF_fetchVars(Prompt)
  /\ WF_fetchVars(ParentGivesUp)
  /\ WF_fetchVars(TimeLimit /\ ~Inline)

Spec == Init /\ [][Next]_fetchVars /\ Fairness

-----------------------------------------------------------------------------
(* Correctness.                                                            *)

\* "each hop's IP is pinned": however the name service changes its answers between the
\* check, robots.txt, the redirects and the connection, a plain fetch connects to
\* public addresses only.  Nothing of the kind is claimed of Chromium's own connections.
OnlyPublic == kind # "browser" => reached \cap Blocked = {}

\* A plain fetch records no challenge and no image as a page, and a page rendered by the
\* edge is no challenge that shows in its text.  What the local browser records may be
\* one that came up after the test.
NoChallengeKept ==
  /\ kind = "page" => outcome \notin {"challenge", "masked", "image"}
  /\ edge > 0 => outcome # "challenge"

\* A page that challenged the local browser is not taken to the edge, neither by the
\* child nor by its parent; and no fetch asks the edge more than twice.
EdgeSpared == (local = "bot_challenge" => edge = 0) /\ edge <= 2

\* What a fetch keeps to, on whichever way it goes.
FetchSafe == OnlyPublic /\ NoChallengeKept /\ EdgeSpared

\* Nothing ends the fetch: a response that keeps coming to a request of the API, or a
\* browser without a process of its own that does not answer.
Held == (at \in Answering /\ where = "api") \/ Inline

\* Every fetch ends, or is held up for ever in one of those two places: redirects,
\* addresses, child and edge are all bounded.
FetchEnds == []<>(at = "idle") \/ <>[]Held

\* "a failed local fetch is retried once on Cloudflare's edge".  Does not hold: the
\* child process runs the same function, asks the edge, and its parent asks again.
EdgeOnce == edge <= 1

=============================================================================
