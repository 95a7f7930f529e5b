----------------------------- MODULE AppRelease -----------------------------
(***************************************************************************)
(* The release protocol of one App custom resource (operator/internal/     *)
(* controller): which requested generation the operator adopts, builds,    *)
(* rolls out and serves, and when it holds, abandons or rolls again.       *)
(*                                                                         *)
(* The resource has two halves, as in Kubernetes: spec, which the control  *)
(* plane writes (its annotations included), and status, which only the     *)
(* operator writes.  A reconcile pass decides on the spec it read at its   *)
(* start (pass) and ends in one status write, so every control-plane write *)
(* can fall in between.                                                    *)
(*                                                                         *)
(* A release's settings and artifact are abstracted to the generation of   *)
(* the write that last changed them: equal fingerprints are equal numbers. *)
(***************************************************************************)
EXTENDS Naturals

CONSTANTS
  MaxGen,        \* bound on metadata.generation
  Kinds          \* the kinds of App considered

(* An App is built from a repository or runs a saved prebuilt image, and a *)
(* pre-deploy command may gate its rollouts.                               *)
ASSUME AppReleaseAssumption ==
  /\ MaxGen \in Nat \ {0}
  /\ Kinds \subseteq [built : BOOLEAN, gated : BOOLEAN]

VARIABLES
  spec,     \* generation, annotations and spec of the App
  status,   \* its status
  pass      \* the spec a reconcile pass in progress read, or NoPass

appVars == <<spec, status, pass>>

Generations == 1..MaxGen

(* status.phase; Building is split by the reason the Ready condition gives *)
(* (waiting for a slot, or a build pod proven running) and Failed by its   *)
(* cause.                                                                  *)
Phases == {"none", "queued", "building", "deploying", "running", "hibernated",
           "buildFailed", "preDeployFailed", "rolloutFailed", "canceled"}

(* Zero stands for an absent annotation, reference, revision or record. *)
Specs ==
  [gen    : Generations,           \* metadata.generation
   stamp  : 0..MaxGen,             \* release generation annotation
   cancel : 0..MaxGen,             \* canceled release generation annotation
   surv   : 0..MaxGen,             \* surviving release generation annotation
   susp   : BOOLEAN,               \* spec.suspended
   want   : Generations,           \* identity of the saved settings
   sel    : 0..MaxGen,             \* spec.releaseConfig's generation
   kind   : Kinds]

AppStatuses ==
  [rel       : 0..MaxGen,          \* releaseGeneration
   fp        : 0..MaxGen,          \* releaseFingerprint
   art       : 0..MaxGen,          \* artifactFingerprint
   active    : 0..MaxGen,          \* activeRevision: the release that serves
   selRel    : 0..MaxGen,          \* selectedReleaseGeneration
   phase     : Phases,
   cond      : 0..MaxGen,          \* the Ready condition's observedGeneration
   buildFail : 0..MaxGen,          \* release the Build condition fails
   rollFail  : 0..MaxGen,          \* release the Rollout condition fails
   pd        : [gen : 0..MaxGen,
                st  : {"none", "running", "succeeded", "failed"}]]

NoPass == [gen |-> 0]

AppTypeOK ==
  /\ spec \in Specs
  /\ status \in AppStatuses
  /\ pass \in Specs \cup {NoPass}

(* The resource as the create path leaves it: generation 1 is stamped and  *)
(* nothing has run.                                                        *)
AppInit ==
  /\ \E kind \in Kinds :
       spec = [gen |-> 1, stamp |-> 1, cancel |-> 0, surv |-> 0, susp |-> FALSE,
               want |-> 1, sel |-> 0, kind |-> kind]
  /\ status = [rel |-> 0, fp |-> 0, art |-> 0, active |-> 0, selRel |-> 0,
               phase |-> "none", cond |-> 0, buildFail |-> 0, rollFail |-> 0,
               pd |-> [gen |-> 0, st |-> "none"]]
  /\ pass = NoPass

-----------------------------------------------------------------------------
(* Control-plane writes, as the spec they leave *)

(* A deploy trigger saves a source to build, Rollback and Restart select a *)
(* recorded release; both stamp the generation the write creates.          *)
Released(a, selects) ==
  [a EXCEPT !.gen = @ + 1, !.stamp = a.gen + 1, !.want = a.gen + 1,
            !.sel = IF selects THEN a.gen + 1 ELSE 0]

(* Variant: the stamp names the release before. *)
ReconfiguredBehind(a, read) ==
  [a EXCEPT !.gen = @ + 1, !.stamp = read, !.want = a.gen + 1]

(* A settings write stamps one more than the generation it had read. *)
Reconfigured(a, read) ==
  [a EXCEPT !.gen = @ + 1, !.stamp = read + 1, !.want = a.gen + 1]

(* Scale and other operational writes move the generation alone. *)
Scaled(a) == [a EXCEPT !.gen = @ + 1]

SuspensionSet(a, suspended) == [a EXCEPT !.gen = @ + 1, !.susp = suspended]

(* markReleaseCanceled: a stamp that moves restates the survivor, one that *)
(* does not can only drop it; a named survivor's commit may replace the    *)
(* saved one, which is a spec change.                                      *)
ReleaseCanceled(a, g, survivor, recommits) ==
  LET moves == g > a.cancel
      named == moves /\ survivor # 0 /\ a.stamp = g
  IN  IF ~moves /\ a.surv # g THEN a
      ELSE [a EXCEPT !.cancel = IF moves THEN g ELSE @,
                     !.surv   = IF named THEN survivor ELSE 0,
                     !.gen    = IF named /\ a.kind.built /\ recommits /\ @ < MaxGen
                                THEN @ + 1 ELSE @]

-----------------------------------------------------------------------------
(* The release decision *)

(* ActiveReleaseConfig: the selection belongs to the newest release known. *)
ActiveSel(a, s) ==
  a.sel # 0 /\ a.sel = IF a.stamp > s.rel THEN a.stamp ELSE s.rel

RequestedGeneration(a, s) == IF a.stamp > s.rel THEN a.stamp ELSE a.gen

LatestRequestCanceled(a, s) ==
  /\ a.cancel # 0
  /\ \/ a.cancel = a.stamp /\ s.rel <= a.cancel
     \/ a.cancel = RequestedGeneration(a, s)

PinnableSourceRelease(a, s) == a.kind.built /\ ~ActiveSel(a, s) /\ ~a.susp

SavedImageRelease(a, s) == ~a.kind.built /\ ~ActiveSel(a, s) /\ ~a.susp

(* Variants: a canceled release, or a failed one, is in flight too. *)
ReleaseInFlightCanceled(a, s) ==
  /\ PinnableSourceRelease(a, s)
  /\ s.rel # s.selRel
  /\ \/ s.phase \in {"queued", "building"}
     \/ s.phase = "deploying" /\ s.rel > s.active
ReleaseInFlightFailed(a, s) ==
  /\ PinnableSourceRelease(a, s)
  /\ s.rel \notin {s.selRel, a.cancel}
  /\ s.phase \in {"queued", "building", "buildFailed"}

ReleaseInFlight(a, s) ==
  /\ PinnableSourceRelease(a, s)
  /\ s.rel \notin {s.selRel, a.cancel}
  /\ \/ s.phase \in {"queued", "building"}
     \/ s.phase = "deploying" /\ s.rel > s.active

(* Variant: a survivor is rolled again whatever has served since. *)
SurvivorInFlightLate(a, s) ==
  /\ a.surv # 0
  /\ LatestRequestCanceled(a, s)
  /\ a.surv < a.cancel
  /\ \/ SavedImageRelease(a, s)
     \/ a.surv = s.rel /\ s.fp # 0 /\ PinnableSourceRelease(a, s)

SurvivorInFlight(a, s) ==
  /\ a.surv # 0
  /\ LatestRequestCanceled(a, s)
  /\ s.active < a.surv /\ a.surv < a.cancel
  /\ \/ SavedImageRelease(a, s)
     \/ a.surv = s.rel /\ s.fp # 0 /\ PinnableSourceRelease(a, s)

(* The canceled branch: the newest request was canceled and nothing it     *)
(* left running is still in flight.                                        *)
SettlesCancel(a, s) == LatestRequestCanceled(a, s) /\ ~SurvivorInFlight(a, s)

(* A release in flight, or a cancel's survivor, keeps its own identity. *)
Pinned(a, s) ==
  IF LatestRequestCanceled(a, s)
  THEN SurvivorInFlight(a, s) /\ a.kind.built
  ELSE s.fp # a.want /\ ReleaseInFlight(a, s)

Adopted(a, s) ==
  LET rel == IF s.fp # a.want THEN RequestedGeneration(a, s) ELSE s.rel
      new == [s EXCEPT !.fp = a.want, !.rel = IF rel = 0 THEN a.gen ELSE rel]
  IN  IF s.fp # a.want /\ ActiveSel(a, [s EXCEPT !.rel = rel])
      THEN [new EXCEPT !.selRel = rel] ELSE new

(* redispatchSurvivor: the saved image rolls again as the survivor's. *)
Redispatched(a, s) == [s EXCEPT !.fp = a.want, !.rel = a.surv]

(* prepareAppReleaseDecision: the status a pass goes on with. *)
Decided(a, s) ==
  CASE SettlesCancel(a, s)                       -> [s EXCEPT !.rel = s.active]
    [] Pinned(a, s)                              -> s
    [] SurvivorInFlight(a, s) /\ ~a.kind.built   -> Redispatched(a, s)
    [] OTHER                                     -> Adopted(a, s)

-----------------------------------------------------------------------------
(* The reconcile pass *)

BeginPass ==
  /\ pass = NoPass
  /\ pass' = spec
  /\ UNCHANGED <<spec, status>>

(* A pass that fails before it records anything is retried. *)
AbandonPass ==
  /\ pass # NoPass
  /\ pass' = NoPass
  /\ UNCHANGED <<spec, status>>

(* The status a pass works on, with its release decided. *)
Now == Decided(pass, status)

Newer(s) == s.rel # s.active

NeedsBuild(a, s) == a.kind.built /\ ~ActiveSel(a, s) /\ s.art # s.fp

(* Variant: a failed build is dispatched again. *)
HasImageRetried(a, s) == TRUE

(* The pass may go on to the runtime: it has an image, or a build that can *)
(* still succeed.                                                          *)
HasImage(a, s) == NeedsBuild(a, s) => s.buildFail # s.rel

Dispatches == pass # NoPass /\ ~SettlesCancel(pass, status)

Shown(s, phase) == [s EXCEPT !.phase = phase, !.cond = pass.gen]

(* settlePriorRelease: a failure over a release that served leaves the     *)
(* phase to that release; otherwise there is only the failure to show.     *)
Failed(s, phase) == Shown(s, IF s.active = 0 THEN phase ELSE "running")

(* updateStatusRetrying re-applies the pass's whole status over whatever   *)
(* spec has come in meanwhile.                                             *)
WriteRetrying(s) ==
  /\ status' = s
  /\ pass' = NoPass
  /\ UNCHANGED spec

(* Variant: nothing is compared. *)
WriteCheckedNever(s) == WriteRetrying(s)

(* A plain status update is refused when the App changed since it was read. *)
WriteChecked(s) == WriteRetrying(IF pass = spec THEN s ELSE status)

(* The canceled branch settles on the release that serves; the step the    *)
(* cancel left running may have ended in the meantime.                     *)
CancelSettles(phase, step) ==
  /\ pass # NoPass
  /\ SettlesCancel(pass, status)
  /\ phase \in IF status.active = 0 THEN {"canceled"}
               ELSE IF pass.susp THEN {"hibernated"} ELSE {"deploying", "running"}
  /\ step \in {status.pd.st} \cup
       IF status.pd.gen = pass.cancel /\ status.pd.st = "running"
       THEN {"succeeded", "failed"} ELSE {}
  /\ LET s == Shown([Now EXCEPT !.pd.st = step], phase)
     IN  IF phase = "deploying" THEN WriteRetrying(s) ELSE WriteChecked(s)

(* A suspended App with an image to fall back on builds nothing. *)
Builds ==
  /\ Dispatches
  /\ NeedsBuild(pass, Now)
  /\ HasImage(pass, Now)
  /\ pass.susp => Now.active = 0

BuildContinues(phase) == Builds /\ WriteRetrying(Shown(Now, phase))

BuildFails ==
  /\ Builds
  /\ WriteRetrying(Failed([Now EXCEPT !.buildFail = Now.rel], "buildFailed"))

(* A failed build is never dispatched again for its release: with nothing   *)
(* served the pass halts as it is, else it holds the release that serves.   *)
BuildHeld ==
  /\ Dispatches
  /\ ~HasImage(pass, Now)
  /\ pass.susp => Now.active = 0
  /\ WriteRetrying(IF Now.active = 0 THEN status ELSE Failed(Now, "buildFailed"))

(* A suspended App parks at zero replicas; what served stays recorded. *)
Parks ==
  /\ Dispatches
  /\ pass.susp
  /\ Now.active = 0 => HasImage(pass, Now)
  /\ WriteChecked(Shown(IF NeedsBuild(pass, Now) /\ Now.active # 0 THEN Now
                        ELSE [Now EXCEPT !.art = Now.fp],
                        "hibernated"))

(* The artifact is resolved: what the pass goes on with. *)
Resolved == [Now EXCEPT !.art = Now.fp]

Runs == Dispatches /\ ~pass.susp /\ HasImage(pass, Now)

StepPending ==
  pass.kind.gated /\ Newer(Now) /\ Now.pd # [gen |-> Now.rel, st |-> "succeeded"]

(* Variant: the step runs again after it failed. *)
StepFailedNever == FALSE

StepFailed == Now.pd = [gen |-> Now.rel, st |-> "failed"]

StepAt(st) == [Resolved EXCEPT !.pd = [gen |-> Now.rel, st |-> st]]

StepRuns ==
  /\ Runs /\ StepPending /\ ~StepFailed
  /\ WriteRetrying(Shown(StepAt("running"), "deploying"))

(* The pass that creates the step's Job shows it running. *)
StepSucceeds ==
  /\ Runs /\ StepPending
  /\ Now.pd = [gen |-> Now.rel, st |-> "running"]
  /\ WriteRetrying(StepAt("succeeded"))

(* A failed step is terminal for its release and is only shown again. *)
StepFails ==
  /\ Runs /\ StepPending
  /\ WriteRetrying(Failed(StepAt("failed"), "preDeployFailed"))

(* Variant: the verdict of a rollout is forgotten. *)
RolloutFailedNever == FALSE

RolloutFailed == Newer(Now) /\ Now.rollFail = Now.rel

Rolls ==
  /\ Runs /\ ~StepPending /\ ~RolloutFailed
  /\ WriteRetrying(Shown(Resolved, "deploying"))

(* settleReady: the release serves, if nothing changed since the pass read. *)
Serves ==
  /\ Runs /\ ~StepPending /\ ~RolloutFailed
  /\ WriteChecked(Shown([Resolved EXCEPT !.active = Now.rel], "running"))

(* The progress deadline passed: over a served release the verdict is kept *)
(* with the retrying write, a first release is stopped with the plain one. *)
RolloutVerdict(s) ==
  IF s.active = 0 THEN WriteChecked(Failed(s, "rolloutFailed"))
  ELSE WriteRetrying(Failed(s, "rolloutFailed"))

RolloutFails ==
  /\ Runs /\ ~StepPending /\ ~RolloutFailed
  /\ Newer(Now)
  /\ RolloutVerdict([Resolved EXCEPT !.rollFail = Now.rel])

RolloutHeld ==
  /\ Runs /\ ~StepPending /\ RolloutFailed
  /\ RolloutVerdict(Resolved)

(* What ends a stage: the stages have deadlines, so a pass that can end    *)
(* one eventually does.                                                    *)
Settles ==
  \/ \E phase \in {"canceled", "hibernated", "running"} :
       CancelSettles(phase, status.pd.st)
  \/ BuildFails \/ Parks \/ StepFails \/ Serves \/ RolloutFails

Operate ==
  \/ \E phase \in Phases, step \in {"none", "running", "succeeded", "failed"} :
       CancelSettles(phase, step)
  \/ \E phase \in {"queued", "building"} : BuildContinues(phase)
  \/ BuildFails
  \/ BuildHeld
  \/ Parks
  \/ StepRuns
  \/ StepSucceeds
  \/ StepFails
  \/ Rolls
  \/ Serves
  \/ RolloutFails
  \/ RolloutHeld
=============================================================================
