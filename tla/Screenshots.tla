----------------------------- MODULE Screenshots -----------------------------
(***************************************************************************)
(* The picture of one run (workers/browser_checks.py, services/visual.py,  *)
(* services/storage.py).  All pictures of a run are stored under one key:  *)
(* the capture that a visual check has hashed and compared, the one taken  *)
(* later for the alert, and the one taken later for the monitor's page.    *)
(* Notifications that are still pending are pointed at it.                 *)
(***************************************************************************)
EXTENDS Naturals

CONSTANTS
  Capturers,     \* workers that take pictures after the run
  Receivers,     \* enabled channels of the workspace
  MaxFaults,     \* bound on requests to the object store that fail
  MaxShots       \* bound on receipts of capture messages

VARIABLES
  mode,          \* the monitor's mode: "visual" or any other, "page"
  shots,         \* screenshots_enabled
  run,           \* the run: what it is at, and the mode it was loaded in
  picture,       \* object under the run's key: "none", "hashed", taken "later"
  asks,          \* capture messages in flight, by kind
  shooter,       \* what each capturer is at
  payload,       \* outbox row of each channel: its state, if it names the key, and if a capture did
  faults, taken,
  \* history
  stored,        \* the visual check has stored its capture
  blinded,       \* an existing object was not seen
  switched       \* the mode was edited

shotVars == <<mode, shots, run, picture, asks, shooter, payload, faults, taken, stored, blinded,
              switched>>

Kinds == {"alert", "run"}
NoShot == [step |-> "idle"]

TypeOK ==
  /\ mode \in {"visual", "page"} /\ shots \in BOOLEAN
  /\ run \in [at : {"checking", "captured", "committed", "succeeded", "failed", "over"},
              mode : {"visual", "page"}]
  /\ picture \in {"none", "hashed", "later"}
  /\ asks \in [Kinds -> 0..1]
  /\ shooter \in [Capturers -> {NoShot} \cup [step : {"shoot", "attach"}, kind : Kinds]
                                 \cup [step : {"write"}, rows : SUBSET Receivers]]
  /\ payload \in [Receivers -> [st : {"none", "pending", "sent"},
                            names : BOOLEAN, attached : BOOLEAN]]
  /\ faults \in 0..MaxFaults /\ taken \in 0..MaxShots
  /\ stored \in BOOLEAN /\ blinded \in BOOLEAN /\ switched \in BOOLEAN

\* A visual monitor has its screenshots switched on.
Init ==
  /\ mode \in {"visual", "page"} /\ shots \in BOOLEAN /\ (mode = "visual" => shots)
  /\ run = [at |-> "checking", mode |-> mode]
  /\ picture = "none"
  /\ asks = [k \in Kinds |-> 0] /\ shooter = [c \in Capturers |-> NoShot]
  /\ payload = [h \in Receivers |-> [st |-> "none", names |-> FALSE, attached |-> FALSE]]
  /\ faults = 0 /\ taken = 0
  /\ stored = FALSE /\ blinded = FALSE /\ switched = FALSE

-----------------------------------------------------------------------------
(* Capture and store.                                                      *)

\* What a capture in this process comes to.
Inline == {"picture", "blocked", "bot_challenge", "read_timeout", "internal_error"}

\* A child that takes too long, or leaves no picture, is an error of its own.
Captured == Inline \cup {"read_timeout", "internal_error"}

\* put_bytes replaces what is there, whole, or fails.
Put(p, ok) ==
  /\ picture' = IF ok THEN p ELSE picture
  /\ faults' = IF ok THEN faults ELSE faults + 1
  /\ ok \/ faults < MaxFaults

\* object_exists: "never raises", and takes a failed request for a missing object.
Exists(seen) ==
  /\ seen => picture # "none"
  /\ blinded' = (blinded \/ (~seen /\ picture # "none"))
  /\ faults' = IF ~seen /\ picture # "none" THEN faults + 1 ELSE faults
  /\ (~seen /\ picture # "none") => faults < MaxFaults

-----------------------------------------------------------------------------
(* The check.                                                              *)

\* A visual check stores its capture, if it can; any other fetches the page.
CaptureAndHash ==
  /\ run.at = "checking" /\ run.mode = "visual"
  /\ \E c \in Captured, ok \in BOOLEAN :
       IF c = "picture"
       THEN /\ run' = [run EXCEPT !.at = "captured"]
            /\ Put("hashed", ok)
            /\ stored' = ok
       ELSE run' = [run EXCEPT !.at = "failed"] /\ UNCHANGED <<picture, faults, stored>>
  /\ UNCHANGED <<mode, shots, asks, shooter, payload, taken, blinded, switched>>

FetchPage ==
  /\ run.at = "checking" /\ run.mode = "page"
  /\ \E at \in {"captured", "failed"} : run' = [run EXCEPT !.at = at]
  /\ UNCHANGED <<mode, shots, picture, asks, shooter, payload, faults, taken, stored, blinded,
                 switched>>

\* The pipeline commits a change with its notification rows, which name the key before
\* there is a picture under it, or no change.
CommitRun ==
  /\ run.at = "captured"
  /\ \E changed \in BOOLEAN :
       /\ run' = [run EXCEPT !.at = IF changed THEN "committed" ELSE "succeeded"]
       /\ payload' = IF changed
                     THEN [h \in Receivers |-> [st |-> "pending", names |-> shots, attached |-> FALSE]]
                     ELSE payload
  /\ UNCHANGED <<mode, shots, picture, asks, shooter, faults, taken, stored, blinded, switched>>

RunFails ==
  /\ run.at = "captured"
  /\ run' = [run EXCEPT !.at = "failed"]
  /\ UNCHANGED <<mode, shots, picture, asks, shooter, payload, faults, taken, stored, blinded,
                 switched>>

\* _enqueue_alert_screenshot, on the row as it is after the commit: not for a visual
\* monitor, whose check has stored the capture.
AskForAlert ==
  /\ run.at = "committed"
  /\ \E sent \in 0..1 :
       asks' = [asks EXCEPT !["alert"] = IF shots /\ mode # "visual" THEN sent ELSE 0]
  /\ run' = [run EXCEPT !.at = "succeeded"]
  /\ UNCHANGED <<mode, shots, picture, shooter, payload, faults, taken, stored, blinded, switched>>

\* run_browser_check asks for a preview when the run is over, whatever its mode.
AskForPreview ==
  /\ run.at \in {"succeeded", "failed"}
  /\ \E sent \in 0..1 : asks' = [asks EXCEPT !["run"] = IF run.at = "succeeded" THEN sent ELSE 0]
  /\ run' = [run EXCEPT !.at = "over"]
  /\ UNCHANGED <<mode, shots, picture, shooter, payload, faults, taken, stored, blinded, switched>>

-----------------------------------------------------------------------------
(* capture_alert_screenshot and capture_run_screenshot.                    *)

\* Faulty variant of Looks: the preview does not look for a picture.
LooksForAlert(k) == k = "alert" /\ mode = "visual"

\* Whether a picture of the run is looked for before another one is taken.
Looks(k) == k = "run" \/ mode = "visual"

\* Faulty variant of After: the rows are pointed at a picture to come.
AtOnce(k, found) == IF k = "alert" THEN "attach" ELSE IF found THEN "done" ELSE "shoot"

\* A picture that is found is used.
After(k, found) == IF ~found THEN "shoot" ELSE IF k = "alert" THEN "attach" ELSE "done"

\* Faulty variant of Goes: the worker that is done stays at it.
GoesOn(c, k, step) == shooter' = [shooter EXCEPT ![c] = [step |-> step, kind |-> k]]

Goes(c, k, step) ==
  shooter' = [shooter EXCEPT ![c] = IF step = "done" THEN NoShot ELSE [step |-> step, kind |-> k]]

\* A message is received, and may come again.
Receive(c, k) ==
  /\ shooter[c] = NoShot /\ asks[k] > 0 /\ taken < MaxShots
  /\ taken' = taken + 1
  /\ \E again \in 0..1 : asks' = [asks EXCEPT ![k] = again]
  /\ \/ k = "run" /\ ~shots /\ Goes(c, k, "done") /\ UNCHANGED <<faults, blinded>>
     \/ /\ k = "run" => shots
        /\ IF Looks(k)
           THEN \E seen \in BOOLEAN : Exists(seen) /\ Goes(c, k, After(k, seen))
           ELSE Goes(c, k, After(k, FALSE)) /\ UNCHANGED <<faults, blinded>>
  /\ UNCHANGED <<mode, shots, run, picture, payload, stored, switched>>

\* Advisory: what fails is logged.
Shoot(c) ==
  /\ shooter[c].step = "shoot"
  /\ \E p \in Captured, ok \in BOOLEAN :
       IF p = "picture"
       THEN /\ Put("later", ok)
            /\ Goes(c, shooter[c].kind, IF ok THEN After(shooter[c].kind, TRUE) ELSE "done")
       ELSE Goes(c, shooter[c].kind, "done") /\ UNCHANGED <<picture, faults>>
  /\ UNCHANGED <<mode, shots, run, asks, payload, taken, stored, blinded, switched>>

\* _attach_screenshot_to_pending: the rows that are pending are loaded ...
LoadPending(c) ==
  /\ shooter[c].step = "attach"
  /\ shooter' = [shooter EXCEPT ![c] =
       [step |-> "write", rows |-> {h \in Receivers : payload[h].st = "pending"}]]
  /\ UNCHANGED <<mode, shots, run, picture, asks, payload, faults, taken, stored, blinded, switched>>

\* ... and their payload is written, whatever they are by now.
WritePayload(c) ==
  /\ shooter[c].step = "write"
  /\ payload' = [h \in Receivers |-> IF h \in shooter[c].rows
                                     THEN [payload[h] EXCEPT !.names = TRUE, !.attached = TRUE]
                                     ELSE payload[h]]
  /\ shooter' = [shooter EXCEPT ![c] = NoShot]
  /\ UNCHANGED <<mode, shots, run, picture, asks, faults, taken, stored, blinded, switched>>

Deliver(h) ==
  /\ payload[h].st = "pending"
  /\ payload' = [payload EXCEPT ![h].st = "sent"]
  /\ UNCHANGED <<mode, shots, run, picture, asks, shooter, faults, taken, stored, blinded, switched>>

\* update_monitor: a visual monitor has its screenshots switched on.
EditMode ==
  /\ ~switched /\ switched' = TRUE
  /\ mode' \in {"visual", "page"} \ {mode}
  /\ shots' = (shots \/ mode' = "visual")
  /\ UNCHANGED <<run, picture, asks, shooter, payload, faults, taken, stored, blinded>>

Next ==
  \/ CaptureAndHash \/ FetchPage \/ CommitRun \/ RunFails \/ AskForAlert \/ AskForPreview
  \/ EditMode
  \/ \E c \in Capturers :
       \/ Shoot(c) \/ LoadPending(c) \/ WritePayload(c)
       \/ \E k \in Kinds : Receive(c, k)
  \/ \E h \in Receivers : Deliver(h)

Spec == Init /\ [][Next]_shotVars

-----------------------------------------------------------------------------
(* Correctness.                                                            *)

\* "avoid overwriting a capture that has already been hashed and compared": what a
\* visual check has stored stays, through repeated messages and captures at the same
\* time, unless a request to the store failed or the mode was edited meanwhile.
HashedKept == stored /\ ~blinded /\ ~switched => picture = "hashed"

\* A capture points a notification at the key only once there is a picture under it.
AttachedExists == \A h \in Receivers : payload[h].attached => picture # "none"

\* The picture of a run is what was compared, and what captures attach exists.
PictureKept == HashedKept /\ AttachedExists

-----------------------------------------------------------------------------
(* What does not hold.                                                     *)

\* A notification names a picture that exists: not from the commit to the capture, nor
\* after one that fails ("simply leaves the key dangling").
NamesPicture == \A h \in Receivers : payload[h].names => picture # "none"

\* "No-ops for visual mode (the check stored its own capture)": not if storing it
\* failed, and the preview is taken for the compared picture.
ShownWasCompared == run.mode = "visual" /\ ~switched => picture \in {"none", "hashed"}

=============================================================================
