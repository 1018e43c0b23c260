----------------------------- MODULE Enrichment -----------------------------
(***************************************************************************)
(* What a language model says of a change (services/ai_summary.py,         *)
(* subq.py, model_catalog.py), and the provider settings of the workspace  *)
(* it is asked under (routers/workspaces.py update_workspace).             *)
(*                                                                         *)
(* A call asks the gatekeeper, looks into the cache of equal questions,    *)
(* and then walks through the models of one provider, each first in JSON   *)
(* mode and then plain, until one gives content or the budget is spent.    *)
(* Time is counted per call.  The timeout of an attempt does not bound the *)
(* attempt: httpx applies it to each wait for the network by itself.       *)
(***************************************************************************)
EXTENDS Naturals, FiniteSets

CONSTANTS
  Callers,       \* processes with a call under way
  Patches,       \* requests that change the provider settings
  Models,        \* length of the longest candidate list
  MaxAttempts,   \* max_total_attempts
  Deadline,      \* deadline_seconds
  Timeout,       \* timeout, at most, of each wait for the network in an attempt
  Waits,         \* waits of one attempt at one address: connect, TLS, sends, reads
  Lookup,        \* bound of the resolver's own on looking up the provider's host
  Addresses,     \* public addresses of the provider's host
  MaxDrip,       \* bound on the time of an attempt whose answer drips
  MaxCached      \* bound on the answers cached at a time

VARIABLES
  ws,            \* provider settings of the workspace: own key, own base and model
  patch,         \* what each settings request has read and will write
  call,          \* state of each call
  cached         \* ai_dedup: the cached answers, by question

enrichVars == <<ws, patch, call, cached>>

Kinds == {"off", "gate", "heuristic", "llm", "fallback"}

\* What a call returns; asked: the monitor has a watch note or a condition.
Results == [by : Kinds, noise : BOOLEAN, asked : BOOLEAN]

NoAnswer == [by |-> "none"]

Questions == BOOLEAN \X {"workspace", "server"} \X {"workspace", "server"}

\* _dedup_key: what is asked (here, with or without a note) and of whom.
Question(b) == <<b.asked, b.key, b.base>>

Begun == [asked : BOOLEAN, key : {"none", "workspace", "server"}, base : {"workspace", "server"},
          at : {"gate", "cache", "post", "answer"}, model : 1..Models, json : BOOLEAN,
          attempts : 0..MaxAttempts, spent : Nat, drips : BOOLEAN, refused : BOOLEAN]

TypeOK ==
  /\ ws \in [key : BOOLEAN, own : BOOLEAN]
  /\ patch \in [Patches -> SUBSET {"key+", "key-", "own+", "own-"}]
  /\ call \in [Callers -> Begun \cup Results \cup {NoAnswer}]
  /\ cached \in [Questions -> Results \cup {NoAnswer}]

Init ==
  /\ ws = [key |-> FALSE, own |-> FALSE]
  /\ patch = [r \in Patches |-> {}]
  /\ call = [c \in Callers |-> NoAnswer]
  /\ cached = [q \in Questions |-> NoAnswer]

-----------------------------------------------------------------------------
(* update_workspace.                                                       *)

\* The checks are made on the row as read, and only columns whose value differs from
\* what was read are written.  Clearing the key clears base and model, which may also be
\* cleared by themselves; a base or a model of one's own needs a key.
Edits ==
  {(IF ws.key THEN {"key-"} ELSE {}) \cup (IF ws.own THEN {"own-"} ELSE {})}
    \cup {{"key+"}, {"key+", "own+"}}
    \cup (IF ws.own THEN {{"own-"}, {"key+", "own-"}} ELSE {})
    \cup (IF ws.key THEN {{"own+"}} ELSE {})

ReadSettings(r) ==
  /\ patch[r] = {}
  /\ \E e \in Edits \ {{}} : patch' = [patch EXCEPT ![r] = e]
  /\ UNCHANGED <<ws, call, cached>>

WriteSettings(r) ==
  LET e == patch[r] IN
  /\ e # {}
  /\ ws' = [key |-> ("key+" \in e) \/ (ws.key /\ "key-" \notin e),
            own |-> ("own+" \in e) \/ (ws.own /\ "own-" \notin e)]
  /\ patch' = [patch EXCEPT ![r] = {}]
  /\ UNCHANGED <<call, cached>>

-----------------------------------------------------------------------------
(* enrich_change: configuration, gatekeeper, cache.                        *)

\* Faulty variant of EffectiveBase: the override counts by itself.
EffectiveBaseAny(readable) == IF ws.own THEN "workspace" ELSE "server"

\* workspace_llm_config and _effective_llm: an override counts only with a key, and a
\* key only if it can be decrypted.
EffectiveBase(readable) == IF ws.key /\ readable /\ ws.own THEN "workspace" ELSE "server"

EffectiveKey(readable) == IF ws.key /\ readable THEN {"workspace"} ELSE {"none", "server"}

Answer(c, by, noise) ==
  call' = [call EXCEPT ![c] = [by |-> by, noise |-> noise, asked |-> call[c].asked]]

Calling(c, at) == "at" \in DOMAIN call[c] /\ call[c].at = at

\* Summaries may be switched off, there may be no gatekeeper, and the candidate list
\* may be shorter: it then begins with a later model.
Ask(c) ==
  /\ "by" \in DOMAIN call[c]
  /\ \E readable, asked \in BOOLEAN, at \in {"gate", "cache"}, first \in 1..Models :
       \E key \in EffectiveKey(readable) :
         call' = [call EXCEPT ![c] =
           [asked |-> asked, key |-> key, base |-> EffectiveBase(readable), at |-> at,
            model |-> first, json |-> TRUE, attempts |-> 0, spent |-> 0, drips |-> FALSE,
            refused |-> FALSE]]
  /\ UNCHANGED <<ws, patch, cached>>

SwitchedOff(c) ==
  /\ "by" \in DOMAIN call[c]
  /\ \E asked \in BOOLEAN :
       call' = [call EXCEPT ![c] = [by |-> "off", noise |-> FALSE, asked |-> asked]]
  /\ UNCHANGED <<ws, patch, cached>>

\* evaluate_subq_decision: noise ends the call; a signal, or no answer, goes on.
Gate(c) ==
  /\ Calling(c, "gate")
  /\ \/ Answer(c, "gate", TRUE)
     \/ call' = [call EXCEPT ![c].at = "cache"]
  /\ UNCHANGED <<ws, patch, cached>>

\* Without a key the heuristics answer; a cached answer is returned as it is.
LookUp(c) ==
  /\ Calling(c, "cache")
  /\ IF call[c].key = "none" THEN Answer(c, "heuristic", FALSE)
     ELSE IF cached[Question(call[c])] # NoAnswer
     THEN Answer(c, cached[Question(call[c])].by, cached[Question(call[c])].noise)
     ELSE call' = [call EXCEPT ![c].at = "post"]
  /\ UNCHANGED <<ws, patch, cached>>

\* The time to live ends, or Redis and the local dictionary lose the entry.
ExpireAnswer(q) ==
  /\ cached[q] # NoAnswer
  /\ cached' = [cached EXCEPT ![q] = NoAnswer]
  /\ UNCHANGED <<ws, patch, call>>

-----------------------------------------------------------------------------
(* _request_chat_with_failover, _post_with_retries (one attempt), and      *)
(* _pinned_post, which resolves the host and tries every address.          *)

Remaining(c) == Deadline - call[c].spent

Budget(c) == call[c].attempts < MaxAttempts /\ call[c].spent < Deadline

\* Faulty variant of AttemptTimeout: the whole timeout, however little time is left.
AttemptTimeoutFull(c) == Timeout

AttemptTimeout(c) == IF Timeout < Remaining(c) THEN Timeout ELSE Remaining(c)

\* How long an attempt may take: each of its waits is cut off by itself, at each address,
\* and nothing cuts off an answer that comes in more pieces than there are waits to count.
Durations(c, drips) ==
  IF drips THEN 0..MaxDrip ELSE 0..(Lookup + Waits * Addresses * AttemptTimeout(c))

\* Faulty variant of Exhausted: the list is taken for one longer than it is.
ExhaustedLate(c) == ~call[c].json /\ call[c].model > Models

\* Nothing is tried after the last plain attempt of the last model.
Exhausted(c) == ~call[c].json /\ call[c].model = Models

\* On to plain mode, then to the next model.
NextTry(b) ==
  IF b.json THEN [b EXCEPT !.json = FALSE] ELSE [b EXCEPT !.json = TRUE, !.model = @ + 1]

GiveUp(c) ==
  /\ Calling(c, "post") /\ ~Budget(c)
  /\ Answer(c, "fallback", FALSE)
  /\ UNCHANGED <<ws, patch, cached>>

\* The request is on its way, for as long as it takes.
Attempt(c) ==
  /\ Calling(c, "post") /\ Budget(c)
  /\ \E drips \in BOOLEAN : \E s \in Durations(c, drips) :
       call' = [call EXCEPT ![c].at = "answer", ![c].attempts = @ + 1, ![c].spent = @ + s,
                            ![c].drips = @ \/ drips]
  /\ UNCHANGED <<ws, patch, cached>>

\* No address answers, a status that is not 2xx, a body that is not JSON, no content.
Unanswered(c) ==
  /\ Calling(c, "answer")
  /\ IF Exhausted(c) THEN Answer(c, "fallback", FALSE)
     ELSE call' = [call EXCEPT ![c] = NextTry([call[c] EXCEPT !.at = "post"])]
  /\ UNCHANGED <<ws, patch, cached>>

\* Faulty variant of Abort: a refusal in JSON mode is taken for a refusal of the mode.
AbortLater(c) == ~call[c].json

\* 401 and 403 end the call in either mode.
Abort(c) == TRUE

Refused(c) ==
  /\ Calling(c, "answer")
  /\ IF Abort(c) THEN Answer(c, "fallback", FALSE)
     ELSE call' = [call EXCEPT ![c] = NextTry([call[c] EXCEPT !.at = "post", !.refused = TRUE])]
  /\ UNCHANGED <<ws, patch, cached>>

\* What _parse_llm_content finds: as JSON, a condition that is not met is noise whatever
\* else is said; as lines, the later of the two lines decides; as prose, nothing is noise.
Parsed(form, saysNoise, unmet, noiseLast) ==
  CASE form = "json" -> saysNoise \/ unmet
    [] form = "lines" -> IF noiseLast THEN saysNoise ELSE saysNoise \/ unmet
    [] form = "prose" -> FALSE

\* Without a note or a condition nothing is noise to the model.
Heeded(asked, noise) == asked /\ noise

Answered(c) ==
  /\ Calling(c, "answer")
  /\ Cardinality({q \in Questions : cached[q] # NoAnswer} \ {Question(call[c])}) < MaxCached
  /\ \E form \in {"json", "lines", "prose"}, saysNoise, unmet, noiseLast \in BOOLEAN :
       LET noise == Heeded(call[c].asked, Parsed(form, saysNoise, unmet, noiseLast))
           r == [by |-> "llm", noise |-> noise, asked |-> call[c].asked]
       IN /\ call' = [call EXCEPT ![c] = r]
          /\ cached' = [cached EXCEPT ![Question(call[c])] = r]
  /\ UNCHANGED <<ws, patch>>

Next ==
  \/ \E r \in Patches : ReadSettings(r) \/ WriteSettings(r)
  \/ \E q \in Questions : ExpireAnswer(q)
  \/ \E c \in Callers :
       \/ Ask(c) \/ SwitchedOff(c) \/ Gate(c) \/ LookUp(c)
       \/ GiveUp(c) \/ Attempt(c) \/ Unanswered(c) \/ Refused(c) \/ Answered(c)

Spec == Init /\ [][Next]_enrichVars

-----------------------------------------------------------------------------
(* Correctness.                                                            *)

Posting(c) == Calling(c, "post") \/ Calling(c, "answer")

\* The server's key is never used with a workspace's base, also after two settings
\* requests have left a base without a key.
ServerKeyStaysHome ==
  \A c \in Callers : Posting(c) /\ call[c].key = "server" => call[c].base = "server"

\* While no answer drips, a call outlasts its deadline by the last attempt's lookup and all
\* of its waits but one, at most: 45 seconds are no bound on it.
TimeBounded ==
  \A c \in Callers :
    Posting(c) /\ ~call[c].drips => call[c].spent <= Deadline + Lookup + (Waits * Addresses - 1) * Timeout

\* A refused key is not tried again, with another model or in another mode.
RefusedStops == \A c \in Callers : Posting(c) => ~call[c].refused

\* A call stops where it must: soon after its deadline, and at a refusal.
CallBounded == TimeBounded /\ RefusedStops

\* "A workspace LLM API key is required for custom base/model overrides".  Does not
\* hold: one request clears the key while another adds a base on the key it read.
OverrideNeedsKey == ws.own => ws.key

=============================================================================
