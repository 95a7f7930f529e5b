--------------------------- MODULE DeployProjection --------------------------
(***************************************************************************)
(* How the control plane reads one open deploy row's status off the App    *)
(* resource (store/reconciler.go, observedDeployStatus and what it calls). *)
(* The reading is of snapshots: row and app (Seen) were each listed at     *)
(* some earlier moment, so a verdict may be old when it is written.        *)
(***************************************************************************)
EXTENDS DeployRows, AppRelease

(* What a pass keeps of the App it read: of spec and of status. *)
Seen(a, s) ==
  [gen |-> a.gen, stamp |-> a.stamp, cancel |-> a.cancel, surv |-> a.surv,
   susp |-> a.susp, rel |-> s.rel, active |-> s.active, phase |-> s.phase,
   cond |-> s.cond, buildFail |-> s.buildFail, rollFail |-> s.rollFail,
   pd |-> s.pd]

Snapshots ==
  [gen : Generations, stamp : 0..MaxGen, cancel : 0..MaxGen, surv : 0..MaxGen,
   susp : BOOLEAN, rel : 0..MaxGen, active : 0..MaxGen, phase : Phases,
   cond : 0..MaxGen, buildFail : 0..MaxGen, rollFail : 0..MaxGen,
   pd : [gen : 0..MaxGen, st : {"none", "running", "succeeded", "failed"}]]

(* "" stands for "nothing to record yet". *)
Waiting == ""

BuildPhases == {"created", "queued", "build_in_progress"}

(* The release generation the App reports; before one is recorded its      *)
(* metadata generation stands in.                                          *)
Reported(app) == IF app.rel > 0 THEN app.rel ELSE app.gen

(* releaseIsActive.  Without a reported release the resource has either    *)
(* settled a cancel with nothing served, which acknowledges cond, or       *)
(* settled nothing.                                                        *)
ReleaseIsActive(row, app) ==
  IF app.rel > 0 THEN app.rel = row.gen /\ app.active = row.gen ELSE app.cond = app.gen

(* preDeployStatusAt: the outcome of generation g's step, "none" when the  *)
(* App records another release's.                                          *)
StepOf(app, g) == IF app.pd.gen = g THEN app.pd.st ELSE "none"

CanceledFor(row, app) == app.cancel # 0 /\ app.cancel = row.gen

(* The row is the survivor a cancel named and waits to be rolled again. *)
AwaitingSurvivor(row, app) ==
  /\ app.surv # 0 /\ app.surv = row.gen
  /\ app.rel # app.surv
  /\ app.cancel > app.surv /\ app.stamp = app.cancel

(* A newer cancel settled below this row, which nothing will adopt now. *)
EndedWithNewerCancel(row, app) == app.cancel > row.gen /\ app.rel < row.gen

SuspendEndsRollout(row, app) == app.susp /\ ~ReleaseIsActive(row, app)

TimedOutStatus(row) ==
  CASE row.status \in {"queued", "build_in_progress"} -> "build_failed"
    [] row.status = "pre_deploy_in_progress"          -> "pre_deploy_failed"
    [] OTHER                                          -> "update_failed"

-----------------------------------------------------------------------------
(* supersededDeployStatus: the release the App reports is not the row's *)

(* Variant: a row serves when a newer release does. *)
OvertakenStatusServed(row, app) ==
  IF app.active >= row.gen THEN "live" ELSE "canceled"

(* A newer release is reported: the row's own settled verdict, if one is   *)
(* still on record, decides.                                               *)
OvertakenStatus(row, app) ==
  IF app.active = row.gen THEN "live"
  ELSE IF StepOf(app, row.gen) = "failed" THEN "pre_deploy_failed"
  ELSE IF app.rollFail = row.gen THEN "update_failed"
  ELSE "canceled"

(* No release of the row is reported yet.  The pending row may wait for as *)
(* long as the active release takes.                                       *)
UnadoptedStatus(row, app, timedOut) ==
  IF ~timedOut \/ (row.overlap /\ Reported(app) < row.gen) THEN Waiting
  ELSE IF app.rel > 0 THEN "canceled" ELSE TimedOutStatus(row)

Overtaken(row, app) == app.rel > row.gen

BuildVerdict(row, app) == row.status \in BuildPhases /\ app.buildFail = row.gen

Unmatched(row, app) ==
  \/ BuildVerdict(row, app)
  \/ EndedWithNewerCancel(row, app)
  \/ Reported(app) # row.gen

(* Variant: an overtaken row waits. *)
SupersededStatusWaiting(row, app, timedOut) ==
  IF BuildVerdict(row, app) THEN "build_failed"
  ELSE IF EndedWithNewerCancel(row, app) THEN "canceled"
  ELSE UnadoptedStatus(row, app, timedOut)

SupersededStatus(row, app, timedOut) ==
  IF BuildVerdict(row, app) THEN "build_failed"
  ELSE IF EndedWithNewerCancel(row, app) THEN "canceled"
  ELSE IF Overtaken(row, app) THEN OvertakenStatus(row, app)
  ELSE UnadoptedStatus(row, app, timedOut)

-----------------------------------------------------------------------------
(* The App reports the row's release: its phase is the evidence *)

(* Evidence the Ready condition carries counts for the spec it was written *)
(* against; a release that is active needs no condition.                   *)
PhaseEvidence(row, app, timedOut) ==
  LET current == app.cond = app.gen IN
  CASE app.phase = "queued" /\ current    -> IF timedOut THEN "build_failed" ELSE "queued"
    [] app.phase = "building" /\ current  -> IF timedOut THEN "build_failed"
                                           ELSE "build_in_progress"
    [] app.phase = "deploying" /\ current -> IF timedOut THEN "update_failed"
                                           ELSE "update_in_progress"
    [] app.phase = "running" /\ ReleaseIsActive(row, app) -> "live"
    [] app.phase = "hibernated" /\ ~app.susp /\ app.rel > 0
       /\ ReleaseIsActive(row, app)                     -> "live"
    [] app.phase = "buildFailed" /\ current     -> "build_failed"
    [] app.phase = "preDeployFailed" /\ current -> "pre_deploy_failed"
    [] app.phase = "rolloutFailed" /\ current   -> "update_failed"
    [] OTHER                                  -> Waiting

PhaseStatus(row, app, timedOut) ==
  LET seen == PhaseEvidence(row, app, timedOut)
  IN  IF seen = Waiting /\ timedOut THEN TimedOutStatus(row) ELSE seen

(* A running or failed step, then a recorded rollout failure, outrank the  *)
(* suspension, and that outranks the phase.                                *)
MatchedStatus(row, app, timedOut) ==
  LET step  == StepOf(app, row.gen)
      over  == SuspendEndsRollout(row, app)
  IN  IF step = "running" THEN IF over THEN "canceled"
                               ELSE IF timedOut THEN "pre_deploy_failed"
                               ELSE "pre_deploy_in_progress"
      ELSE IF step = "failed" THEN "pre_deploy_failed"
      ELSE IF app.rollFail = row.gen THEN "update_failed"
      ELSE IF over THEN "canceled"
      ELSE PhaseStatus(row, app, timedOut)

(* observedDeployStatus. *)
ObservedStatus(row, app, timedOut) ==
  IF CanceledFor(row, app) THEN "canceled"
  ELSE IF AwaitingSurvivor(row, app) /\ ~timedOut THEN Waiting
  ELSE IF Unmatched(row, app) THEN SupersededStatus(row, app, timedOut)
  ELSE MatchedStatus(row, app, timedOut)

(* recordDeploy: a suspend ends the release with its row, so it is stamped *)
(* canceled before the row closes.                                         *)
SuspendEnds(row, app, timedOut) ==
  /\ ObservedStatus(row, app, timedOut) = "canceled"
  /\ app.rel <= row.gen
  /\ SuspendEndsRollout(row, app)

(* The step outcome a pass records on the row: only the reported release's *)
(* own.                                                                    *)
StepToRecord(row, app) ==
  IF Reported(app) = row.gen THEN StepOf(app, row.gen) ELSE "none"
=============================================================================
