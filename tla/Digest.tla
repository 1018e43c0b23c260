------------------------------- MODULE Digest -------------------------------
(***************************************************************************)
(* The daily digest of one workspace (services/digest.py, digest_job.py):  *)
(* during the due hour every pass of the job looks whether there is        *)
(* something to report of the 24 hours before it and inserts one outbox    *)
(* row per channel under the key of the period.  Two jobs may run: the     *)
(* loop and a single pass started by hand.  A weekly digest differs in its *)
(* numbers.  Changes are signals; noise is not reported.                   *)
(***************************************************************************)
EXTENDS Naturals, Sequences, FiniteSets

CONSTANTS
  Jobs,          \* digest processes
  Inboxes,       \* enabled channels of the workspace
  DayLength,     \* ticks of a day; it begins with the due hour
  HourLength,    \* ticks of an hour
  PollGap,       \* ticks from the beginning of the hour in which a polling job ends a pass
  Shown,         \* changes a digest has room for
  Days,          \* bound on the days
  MaxNews        \* bound on the changes

VARIABLES
  clock,
  news,          \* changes: when each was created, and when its commit showed it
  digests,       \* outbox rows: period, channel, the changes they report, start of the pass
  pass,          \* each job: step, start of the pass, what it reports, rows it will insert
  polled,        \* history: a complete pass has ended in this due hour
  steady         \* history: in every due hour one did so within PollGap ticks

digestVars == <<clock, news, digests, pass, polled, steady>>

NoPass == [step |-> "idle", at |-> 0, body |-> {}, due |-> {}]

LastTick == Days * DayLength
NotSeen == LastTick + 1

TypeOK ==
  /\ clock \in 0..LastTick
  /\ DOMAIN news = 1..Cardinality(DOMAIN news) /\ Cardinality(DOMAIN news) <= MaxNews
  /\ \A d \in digests : d.channel \in Inboxes /\ d.body \subseteq DOMAIN news /\ d.at <= clock
  /\ \A j \in Jobs : pass[j].step \in {"idle", "insert"} /\ pass[j].due \subseteq Inboxes
  /\ steady \in BOOLEAN /\ polled \in BOOLEAN

Init ==
  /\ clock = 0 /\ news = <<>> /\ digests = {}
  /\ pass = [j \in Jobs |-> NoPass]
  /\ polled = FALSE /\ steady = TRUE

-----------------------------------------------------------------------------

\* due_digest_workspaces: the hour of the day, and the key of the period.
Due(t) == t % DayLength < HourLength
Period(t) == t \div DayLength

\* One day before the instant of the pass.
Since(t) == IF t < DayLength THEN 0 ELSE t - DayLength

\* Faulty variant of Recent: later than a day before.
RecentAfter(t) == {c \in DOMAIN news : news[c].seen <= clock /\ news[c].created > Since(t)}

\* What a pass that began at t finds now.
Recent(t) == {c \in DOMAIN news : news[c].seen <= clock /\ news[c].created >= Since(t)}

Newer(d, c) == news[d].created > news[c].created \/ (news[d].created = news[c].created /\ d > c)

\* build_digest_body: the newest of them, as many as there is room for.
Reported(t) == {c \in Recent(t) : Cardinality({d \in Recent(t) : Newer(d, c)}) < Shown}

\* Faulty variant of Missing: the key is not looked up.
MissingAll(p) == Inboxes

Missing(p) == {h \in Inboxes : \A d \in digests : <<d.period, d.channel>> # <<p, h>>}

\* run_once, up to the inserts: nothing to report, nothing done, so that a later
\* pass of the hour may still report.
Poll(j) ==
  /\ pass[j].step = "idle" /\ Due(clock)
  /\ IF Recent(clock) = {} THEN polled' = TRUE /\ UNCHANGED pass
     ELSE /\ pass' = [pass EXCEPT ![j] = [step |-> "insert", at |-> clock, body |-> Reported(clock),
                                          due |-> Missing(Period(clock))]]
          /\ UNCHANGED polled
  /\ UNCHANGED <<clock, news, digests, steady>>

\* The model has been asked for a summary meanwhile.  The rows are committed and sent (a
\* message that is lost is the reaper's business); the unique key refuses the whole pass if
\* another job was faster.
Insert(j) ==
  /\ pass[j].step = "insert"
  /\ LET p == pass[j]
         k == Period(p.at)
     IN  /\ digests' = IF p.due \subseteq Missing(k)
                       THEN digests \cup
                         {[period |-> k, channel |-> h, body |-> p.body, at |-> p.at] : h \in p.due}
                       ELSE digests
         /\ polled' = (polled \/ (Due(clock) /\ k = Period(clock)))
  /\ pass' = [pass EXCEPT ![j] = NoPass]
  /\ UNCHANGED <<clock, news, steady>>

\* The process dies or its database does: the pass is rolled back.
PassFails(j) ==
  /\ pass[j].step = "insert"
  /\ pass' = [pass EXCEPT ![j] = NoPass]
  /\ UNCHANGED <<clock, news, digests, polled, steady>>

\* A check creates a change, and commits it.
Change ==
  /\ Cardinality(DOMAIN news) < MaxNews
  /\ news' = Append(news, [created |-> clock, seen |-> NotSeen])
  /\ UNCHANGED <<clock, digests, pass, polled, steady>>

Commit(c) ==
  /\ news[c].seen = NotSeen
  /\ news' = [news EXCEPT ![c].seen = clock]
  /\ UNCHANGED <<clock, digests, pass, polled, steady>>

Tick ==
  /\ clock < LastTick
  /\ clock' = clock + 1
  /\ polled' = (polled /\ Due(clock + 1) /\ Period(clock + 1) = Period(clock))
  /\ steady' = (steady /\ (clock % DayLength = PollGap - 1 => polled))
  /\ UNCHANGED <<news, digests, pass>>

Next ==
  \/ Change \/ Tick \/ \E c \in DOMAIN news : Commit(c)
  \/ \E j \in Jobs : Poll(j) \/ Insert(j) \/ PassFails(j)

Spec == Init /\ [][Next]_digestVars

-----------------------------------------------------------------------------
(* Correctness.                                                            *)

\* One digest per period and channel, however many jobs pass at once.
OneDigest ==
  \A d, e \in digests : d.period = e.period /\ d.channel = e.channel => d = e

\* A digest on every channel in period p reports c, or had no room for it.
Told(c, p) ==
  \A h \in Inboxes : \E d \in digests :
    /\ d.channel = h /\ d.period = p
    /\ \/ c \in d.body
       \/ Cardinality({e \in DOMAIN news : Newer(e, c) /\ news[e].created <= d.at}) >= Shown

\* While each due hour has a complete pass within PollGap ticks, the digest of the hour that
\* begins at n tells of every change that was committed before n and is less than a day old
\* when those ticks are over.
NothingLost ==
  steady =>
    \A c \in DOMAIN news, n \in 0..clock :
      /\ n % DayLength = 0 /\ n + PollGap <= clock
      /\ news[c].seen < n /\ n + PollGap <= news[c].created + DayLength + 1
      => Told(c, Period(n))

\* Digests are complete up to that seam, and each comes once.
DigestComplete == OneDigest /\ NothingLost

\* Every change that was committed before a due hour is in some digest by the end of it.
\* Does not hold: one that a pass of the day before did not see, made or committed after
\* it, may be more than a day old when the next digest looks back.
NoSeam ==
  steady =>
    \A c \in DOMAIN news, n \in 0..clock :
      n % DayLength = 0 /\ n + PollGap <= clock /\ news[c].seen < n => \E p \in 0..Days : Told(c, p)

=============================================================================
