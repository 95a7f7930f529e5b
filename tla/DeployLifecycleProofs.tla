------------------------ MODULE DeployLifecycleProofs ------------------------
(***************************************************************************)
(* Proofs about the deploy lifecycle, for any bound on generations, any    *)
(* kinds of App and any replicas, and with every switch of the model, but  *)
(* for two parts: what is said of open rows assumes that settings saves    *)
(* are not stale, and what is said of failures also that no row is closed  *)
(* by the clock alone.                                                     *)
(*                                                                         *)
(* The inductive invariant says of each actor in progress what it may rely *)
(* on although others have gone on: what a pass of the operator read is    *)
(* older than the App (InOrder), a request or a reconciler pass names rows *)
(* that are still there (Filed, Sound), and a reading of the App claims a  *)
(* release live only if it has served (Honest).  The part about requests   *)
(* adds what they leave to be adopted (RInv), the part about failures what *)
(* holds a failed release back, and who knows of it (FInv), the part about *)
(* cancels which rows are open behind the one that was canceled (CInv).    *)
(***************************************************************************)
EXTENDS DeployLifecycle, DeployRowsProofs, FiniteSetTheorems, SequenceTheorems

(* Generations only grow: what is requested, canceled, adopted and served  *)
(* is known to the App, and no pass of the operator is ahead of it.        *)
InOrder ==
  /\ spec.stamp \in 1..spec.gen
  /\ spec.cancel <= spec.gen
  /\ status.active <= status.rel /\ status.rel <= spec.gen
  /\ status.phase \in {"queued", "building", "running"} => status.rel # 0
  /\ pass # NoPass =>
       /\ pass.gen <= spec.gen
       /\ pass.stamp \in 1..pass.gen /\ pass.cancel <= pass.gen
       /\ status.rel <= pass.gen

(* The table is sound in itself (see DeployRowsProofs). *)
TableSound ==
  /\ SoundTable(Generations, deploys)
  /\ Indexed(deploys)
  /\ PendingNewest(deploys)

(* A row is filed under its generation, which the App has reached, and a   *)
(* release is recorded once at most.                                       *)
Filed ==
  /\ \A g \in Generations :
       deploys[g] # NoRow => deploys[g].gen = g /\ g <= spec.gen
  /\ \A e \in opening :
       /\ e.gen \in 2..spec.gen
       /\ deploys[e.gen] = NoRow
       /\ \A f \in opening : f.gen = e.gen => f = e
  /\ settings # {} => StaleSettings
  /\ \A read \in settings : read <= spec.gen
  /\ \A c \in Cancelers : cancels[c] # NoCancel => deploys[cancels[c].gen] # NoRow

(* A reading of the App, now or by a pass, shows as active only what has   *)
(* served, and shows a release running only if it names one.               *)
Shows(app, known) ==
  /\ app.active \in known \cup {0}
  /\ app.phase = "running" => app.rel # 0

(* What a pass holds of a row it listed: the row exists, there is something *)
(* to record of it, and it is to be recorded live only if it has served.   *)
Founded(j, table, known) ==
  /\ table[j.row.gen] # NoRow
  /\ Due(j)
  /\ j.verdict = "live" => j.row.gen \in known

Sound(rec, table, known) ==
  /\ rec.at = "listed" => Shows(rec.app, known)
  /\ rec.at = "recording" =>
       /\ Len(rec.todo) <= 2
       /\ \A i \in 1..Len(rec.todo) : Founded(rec.todo[i], table, known)
       /\ rec.settle.step # "none" => rec.settle.gen # 0
       /\ rec.todo = <<>> => rec.settle.step # "none"

Honest == status.active \in served \cup {0} /\ LiveWasServed

IInv ==
  /\ TypeOK
  /\ InOrder
  /\ TableSound
  /\ Filed
  /\ \A r \in Reconcilers : Sound(recs[r], deploys, served)
  /\ Honest

(* No row and no release to be recorded is newer than the saved settings.  *)
AllRequested ==
  /\ \A g \in Generations : deploys[g] # NoRow => g <= spec.want
  /\ \A e \in opening : e.gen <= spec.want

(* Nothing is stamped, canceled or adopted ahead of the saved settings.    *)
SavedAsRequested ==
  /\ spec.stamp <= spec.want /\ spec.cancel <= spec.want
  /\ status.fp <= spec.want /\ spec.want <= spec.gen

(* Until the operator has adopted the saved settings it reports an earlier *)
(* release; once it has, and they were stamped as what they are, it        *)
(* reports that release, the one that serves, or one which a cancel has    *)
(* left behind, and none at all only when that release was canceled.       *)
Adopting ==
  /\ status.fp # spec.want => status.rel < spec.want
  /\ status.fp = spec.want /\ spec.stamp = spec.want =>
       /\ \/ status.rel = spec.stamp \/ status.rel = status.active
          \/ status.rel < spec.cancel
       /\ status.rel = 0 => spec.cancel = spec.stamp

(* A pass of the operator works on what an earlier state of the App asked  *)
(* for, and was scheduled before the next release was requested.           *)
PassBehind ==
  pass # NoPass =>
    /\ pass.stamp <= pass.want /\ pass.cancel <= pass.want
    /\ pass.want <= spec.want /\ pass.cancel <= spec.cancel
    /\ pass.want = spec.want => pass.stamp = spec.stamp
    /\ pass.want # spec.want => pass.gen < spec.want
    /\ status.fp <= pass.want
    /\ status.rel = 0 /\ status.fp = pass.want /\ pass.stamp = pass.want =>
         pass.cancel = pass.stamp

RInv == AllRequested /\ SavedAsRequested /\ Adopting /\ PassBehind

(* Where no settings save is stale, every one stamps the write it makes.   *)
Stamped ==
  /\ settings = {}
  /\ spec.stamp = spec.want
  /\ pass # NoPass => pass.stamp = pass.want

SInv == RInv /\ Stamped

-----------------------------------------------------------------------------
(* The operator's decision *)

(* The release the pass in progress goes on with. *)
DecidedSettles ==
  SettlesCancel(pass, status) /\ Now.rel = status.active /\ Now.fp = status.fp

DecidedPins ==
  /\ ~SettlesCancel(pass, status)
  /\ Now.rel = status.rel /\ Now.fp = status.fp
  /\ \/ LatestRequestCanceled(pass, status)
        /\ pass.surv = status.rel /\ pass.surv # 0 /\ pass.surv < pass.cancel
     \/ /\ ReleaseInFlight(pass, status)
        /\ status.fp # pass.want

DecidedRedispatches ==
  /\ ~SettlesCancel(pass, status) /\ LatestRequestCanceled(pass, status)
  /\ Now.rel = pass.surv /\ Now.fp = pass.want
  /\ pass.surv # 0 /\ status.active < pass.surv /\ pass.surv < pass.cancel

DecidedAdopts ==
  /\ ~SettlesCancel(pass, status) /\ ~LatestRequestCanceled(pass, status)
  /\ Now.fp = pass.want
  /\ \/ /\ status.fp # pass.want
        /\ Now.rel = RequestedGeneration(pass, status)
     \/ status.fp = pass.want /\ status.rel # 0 /\ Now.rel = status.rel
     \/ status.fp = pass.want /\ status.rel = 0 /\ Now.rel = pass.gen

(* A decision keeps the phase and what serves, and is one of four. *)
LEMMA NowCases ==
  ASSUME AppTypeOK, pass # NoPass
  PROVE  /\ Now \in AppStatuses
         /\ Now.active = status.active /\ Now.phase = status.phase
         /\ \/ DecidedSettles \/ DecidedPins
            \/ DecidedRedispatches \/ DecidedAdopts
<1>0. pass \in Specs /\ status \in AppStatuses /\ MaxGen \in Nat \ {0}
  BY AppReleaseAssumption DEF AppTypeOK
<1>1. CASE SettlesCancel(pass, status)
  <2>1. Now = [status EXCEPT !.rel = status.active]
    BY <1>1 DEF Now, Decided, SettlesCancel, Pinned
  <2>. QED BY <1>0, <1>1, <2>1 DEF AppStatuses, DecidedSettles
<1>2. CASE ~SettlesCancel(pass, status) /\ Pinned(pass, status)
  <2>1. Now = status
    BY <1>2 DEF Now, Decided, Pinned, SurvivorInFlight
  <2>2. DecidedPins
    BY <1>0, <1>2, <2>1 DEF DecidedPins, Pinned, SurvivorInFlight,
       SavedImageRelease, Specs, AppStatuses
  <2>. QED BY <1>0, <2>1, <2>2
<1>3. CASE /\ ~SettlesCancel(pass, status) /\ ~Pinned(pass, status)
           /\ SurvivorInFlight(pass, status) /\ ~pass.kind.built
  <2>1. Now = [status EXCEPT !.fp = pass.want, !.rel = pass.surv]
    BY <1>3 DEF Now, Decided, Redispatched
  <2>2. DecidedRedispatches
    BY <1>0, <1>3, <2>1 DEF DecidedRedispatches, SurvivorInFlight, AppStatuses
  <2>3. pass.want \in 0..MaxGen /\ pass.surv \in 0..MaxGen
    BY <1>0 DEF Specs, Generations
  <2>. QED BY <1>0, <2>1, <2>2, <2>3 DEF AppStatuses
<1>4. CASE /\ ~SettlesCancel(pass, status) /\ ~Pinned(pass, status)
           /\ ~(SurvivorInFlight(pass, status) /\ ~pass.kind.built)
  <2>1. Now = Adopted(pass, status)
    BY <1>4 DEF Now, Decided
  <2>2. ~LatestRequestCanceled(pass, status)
    BY <1>4 DEF SettlesCancel, Pinned
  <2> DEFINE rel == IF status.fp # pass.want THEN RequestedGeneration(pass, status)
                    ELSE status.rel
             new == [status EXCEPT !.fp = pass.want, !.rel = IF rel = 0 THEN pass.gen ELSE rel]
  <2>3. Now = new \/ Now = [new EXCEPT !.selRel = rel]
    BY <2>1 DEF Adopted
  <2>4. /\ RequestedGeneration(pass, status) \in Generations
        /\ pass.want \in Generations /\ pass.gen \in Generations
        /\ pass.gen # 0 /\ RequestedGeneration(pass, status) # 0
    BY <1>0 DEF Specs, AppStatuses, Generations, RequestedGeneration
  <2>5. rel \in 0..MaxGen /\ (IF rel = 0 THEN pass.gen ELSE rel) \in 0..MaxGen
    BY <1>0, <2>4 DEF AppStatuses, Generations
  <2>6. new \in AppStatuses /\ [new EXCEPT !.selRel = rel] \in AppStatuses
    <3>1. PICK f, g, h : /\ f = pass.want /\ g = (IF rel = 0 THEN pass.gen ELSE rel)
                         /\ h = rel
      OBVIOUS
    <3>2. f \in 0..MaxGen /\ g \in 0..MaxGen /\ h \in 0..MaxGen
      BY <1>0, <2>4, <2>5, <3>1 DEF Generations
    <3>3. new = [status EXCEPT !.fp = f, !.rel = g]
      BY <3>1
    <3>4. [status EXCEPT !.fp = f, !.rel = g] \in AppStatuses
      BY <1>0, <3>2 DEF AppStatuses
    <3>5. [[status EXCEPT !.fp = f, !.rel = g] EXCEPT !.selRel = h] \in AppStatuses
      BY <3>2, <3>4 DEF AppStatuses
    <3>. QED BY ONLY <3>1, <3>3, <3>4, <3>5
  <2>7. /\ Now.active = status.active /\ Now.phase = status.phase
        /\ Now.fp = pass.want /\ Now.rel = IF rel = 0 THEN pass.gen ELSE rel
    BY <1>0, <2>3 DEF AppStatuses
  <2>8. DecidedAdopts
    BY <1>4, <2>2, <2>4, <2>7 DEF DecidedAdopts
  <2>. QED BY <2>3, <2>6, <2>7, <2>8
<1>. QED BY <1>1, <1>2, <1>3, <1>4

-----------------------------------------------------------------------------
(* What a pass of the operator writes *)

(* A status that keeps the decision and what serves. *)
Keeps(s) ==
  /\ s \in AppStatuses
  /\ s.rel = Now.rel /\ s.fp = Now.fp /\ s.active = status.active

(* Showing a phase, or a failure, keeps both. *)
LEMMA ShownKeeps ==
  ASSUME AppTypeOK, pass # NoPass, NEW s, Keeps(s), NEW phase \in Phases
  PROVE  /\ Keeps(Shown(s, phase)) /\ Shown(s, phase).phase = phase
         /\ Keeps(Failed(s, phase))
<1>1. pass.gen \in 0..MaxGen
  BY AppReleaseAssumption DEF AppTypeOK, Specs, Generations
<1>2. PICK g : g = pass.gen
  OBVIOUS
<1>3. ASSUME NEW p \in Phases PROVE Keeps(Shown(s, p)) /\ Shown(s, p).phase = p
  <2>1. Shown(s, p) = [s EXCEPT !.phase = p, !.cond = g] /\ g \in 0..MaxGen
    BY <1>1, <1>2 DEF Shown
  <2>. QED BY <2>1 DEF Keeps, AppStatuses
<1>4. "running" \in Phases
  BY DEF Phases
<1>. QED BY <1>3, <1>4 DEF Failed

(* The four kinds of outcome: the status stays, the App settles a cancel,  *)
(* the pass goes on with its release, or that release serves.              *)
PassSettles ==
  /\ SettlesCancel(pass, status)
  /\ status'.rel = status.active /\ status'.fp = status.fp
  /\ status'.active = status.active
  /\ status'.phase \notin {"queued", "building"}
  /\ status'.phase = "running" => status.active # 0

PassWorks ==
  /\ ~SettlesCancel(pass, status)
  /\ status'.rel = Now.rel /\ status'.fp = Now.fp
  /\ status'.active = status.active

PassServes ==
  /\ ~SettlesCancel(pass, status)
  /\ pass = spec /\ ~pass.susp
  /\ status'.rel = Now.rel /\ status'.fp = Now.fp
  /\ status'.active = Now.rel

PassOutcome ==
  /\ pass # NoPass /\ pass' = NoPass /\ spec' = spec
  /\ status' \in AppStatuses
  /\ status' = status \/ PassSettles \/ PassWorks \/ PassServes

(* A status write, retried or checked, of a status that keeps the decision. *)
LEMMA KeptWrite ==
  ASSUME AppTypeOK, Dispatches, NEW s, Keeps(s), WriteRetrying(s) \/ WriteChecked(s)
  PROVE  PassOutcome
<1>1. pass' = NoPass /\ spec' = spec /\ status' \in {s, status}
  BY DEF WriteRetrying, WriteChecked
<1>2. pass # NoPass /\ ~SettlesCancel(pass, status)
  BY DEF Dispatches
<1>3. CASE status' = s
  BY <1>1, <1>2, <1>3 DEF PassOutcome, PassWorks, Keeps
<1>. QED BY <1>1, <1>2, <1>3 DEF PassOutcome, AppTypeOK

(* What the status of a pass becomes as it goes on is kept throughout. *)
LEMMA StagesKeep ==
  ASSUME AppTypeOK, pass # NoPass
  PROVE  /\ Keeps(Now) /\ Keeps(Resolved)
         /\ \A st \in {"running", "succeeded", "failed"} : Keeps(StepAt(st))
         /\ Keeps([Now EXCEPT !.buildFail = Now.rel])
         /\ Keeps([Resolved EXCEPT !.rollFail = Now.rel])
<1>1. Now \in AppStatuses /\ Now.active = status.active
  BY NowCases
<1>2. Keeps(Now)
  BY <1>1 DEF Keeps
<1>3. Now.rel \in 0..MaxGen /\ Now.fp \in 0..MaxGen
  BY <1>1 DEF AppStatuses
<1>4. PICK n, rel, fp : n = Now /\ rel = Now.rel /\ fp = Now.fp
  OBVIOUS
<1>5. Keeps(Resolved)
  <2>1. Resolved = [n EXCEPT !.art = fp]
    BY <1>4 DEF Resolved
  <2>. QED BY <1>2, <1>3, <1>4, <2>1 DEF Keeps, AppStatuses
<1>6. PICK r : r = Resolved
  OBVIOUS
<1>7. ASSUME NEW st \in {"running", "succeeded", "failed"} PROVE Keeps(StepAt(st))
  <2>1. StepAt(st) = [r EXCEPT !.pd = [gen |-> rel, st |-> st]]
    BY <1>4, <1>6 DEF StepAt
  <2>. QED BY <1>3, <1>4, <1>5, <1>6, <2>1 DEF Keeps, AppStatuses
<1>8. Keeps([n EXCEPT !.buildFail = rel])
  BY <1>2, <1>3, <1>4 DEF Keeps, AppStatuses
<1>9. Keeps([r EXCEPT !.rollFail = rel])
  BY <1>3, <1>4, <1>5, <1>6 DEF Keeps, AppStatuses
<1>. QED BY <1>2, <1>4, <1>5, <1>6, <1>7, <1>8, <1>9

(* The canceled branch settles on what serves. *)
LEMMA CancelSettlesOutcome ==
  ASSUME AppTypeOK, NEW phase \in Phases, NEW step, CancelSettles(phase, step)
  PROVE  PassOutcome
<1>1. /\ pass # NoPass /\ SettlesCancel(pass, status)
      /\ phase \in {"canceled", "hibernated", "deploying", "running"}
      /\ phase = "running" => status.active # 0
      /\ step \in {status.pd.st, "succeeded", "failed"}
  BY DEF CancelSettles
<1>2. Now \in AppStatuses /\ Now.rel = status.active /\ Now.fp = status.fp
      /\ Now.active = status.active
  BY <1>1, NowCases DEF DecidedSettles, DecidedPins, DecidedRedispatches, DecidedAdopts
<1>3. step \in {"none", "running", "succeeded", "failed"}
  BY <1>1 DEF AppTypeOK, AppStatuses
<1>4. PICK n, g : n = Now /\ g = pass.gen
  OBVIOUS
<1>5. PICK s : s = Shown([Now EXCEPT !.pd.st = step], phase)
  OBVIOUS
<1>6. s = [[n EXCEPT !.pd.st = step] EXCEPT !.phase = phase, !.cond = g]
  BY <1>4, <1>5 DEF Shown
<1>7. g \in 0..MaxGen
  BY <1>1, <1>4, AppReleaseAssumption DEF AppTypeOK, Specs, Generations
<1>8. /\ s \in AppStatuses /\ s.rel = status.active /\ s.fp = status.fp
      /\ s.active = status.active /\ s.phase = phase
  <2>1. n \in AppStatuses
    BY <1>2, <1>4
  <2>2. PICK m : m = [n EXCEPT !.pd.st = step]
    OBVIOUS
  <2>3. m \in AppStatuses
    BY <1>3, <2>1, <2>2 DEF AppStatuses
  <2>4. m.rel = n.rel /\ m.fp = n.fp /\ m.active = n.active
    BY <2>1, <2>2 DEF AppStatuses
  <2>5. s = [m EXCEPT !.phase = phase, !.cond = g]
    BY <1>6, <2>2
  <2>6. s \in AppStatuses
    BY <1>7, <2>3, <2>5 DEF AppStatuses
  <2>7. s.rel = m.rel /\ s.fp = m.fp /\ s.active = m.active /\ s.phase = phase
    BY <2>3, <2>5 DEF AppStatuses
  <2>. QED BY <1>2, <1>4, <2>4, <2>6, <2>7
<1>9. pass' = NoPass /\ spec' = spec /\ status' \in {s, status}
  BY <1>5 DEF CancelSettles, WriteRetrying, WriteChecked
<1>10. CASE status' = s
  BY <1>1, <1>8, <1>9, <1>10 DEF PassOutcome, PassSettles
<1>. QED BY <1>1, <1>9, <1>10 DEF PassOutcome, AppTypeOK

(* A step outcome, a rollout verdict and a failure keep the decision. *)
LEMMA VerdictOutcome ==
  ASSUME AppTypeOK, Dispatches, NEW s, Keeps(s), NEW phase \in Phases,
         \/ WriteRetrying(Shown(s, phase))
         \/ WriteRetrying(Failed(s, phase))
         \/ WriteChecked(Shown(s, phase))
         \/ phase = "rolloutFailed" /\ RolloutVerdict(s)
  PROVE  PassOutcome
<1>1. Keeps(Shown(s, phase)) /\ Keeps(Failed(s, phase))
  BY ShownKeeps DEF Dispatches
<1>2. PICK shown, failed : shown = Shown(s, phase) /\ failed = Failed(s, phase)
  OBVIOUS
<1>3. \/ WriteRetrying(shown) \/ WriteRetrying(failed)
      \/ WriteChecked(shown) \/ WriteChecked(failed)
  BY <1>2 DEF RolloutVerdict
<1>4. Keeps(shown) /\ Keeps(failed)
  BY <1>1, <1>2
<1>. QED BY <1>3, <1>4, KeptWrite

(* The release serves only if nothing has changed since the pass read. *)
LEMMA ServesOutcome ==
  ASSUME AppTypeOK, Serves
  PROVE  PassOutcome
<1>1. /\ pass # NoPass /\ ~SettlesCancel(pass, status) /\ ~pass.susp
      /\ WriteChecked(Shown([Resolved EXCEPT !.active = Now.rel], "running"))
  BY DEF Serves, Runs, Dispatches
<1>2. Keeps(Resolved) /\ Keeps(Now)
  BY <1>1, StagesKeep
<1>3. PICK n, r, rel, g : n = Now /\ r = Resolved /\ rel = Now.rel /\ g = pass.gen
  OBVIOUS
<1>4. PICK s : s = Shown([Resolved EXCEPT !.active = Now.rel], "running")
  OBVIOUS
<1>5. s = [[r EXCEPT !.active = rel] EXCEPT !.phase = "running", !.cond = g]
  BY <1>3, <1>4 DEF Shown
<1>6. g \in 0..MaxGen /\ rel \in 0..MaxGen
  BY <1>1, <1>2, <1>3, AppReleaseAssumption DEF AppTypeOK, Specs, Generations, Keeps, AppStatuses
<1>7. s \in AppStatuses /\ s.rel = Now.rel /\ s.fp = Now.fp /\ s.active = Now.rel
  BY <1>2, <1>3, <1>5, <1>6 DEF Keeps, AppStatuses, Phases
<1>8. pass' = NoPass /\ spec' = spec /\ status' = IF pass = spec THEN s ELSE status
  BY <1>1, <1>4 DEF WriteRetrying, WriteChecked
<1>. QED BY <1>1, <1>7, <1>8 DEF PassOutcome, PassServes, AppTypeOK

(* Every pass has one of the four outcomes. *)
LEMMA OperateOutcome ==
  ASSUME AppTypeOK, Operate
  PROVE  PassOutcome
<1>1. ASSUME NEW phase \in Phases,
             NEW step \in {"none", "running", "succeeded", "failed"},
             CancelSettles(phase, step)
      PROVE  PassOutcome
  BY <1>1, CancelSettlesOutcome
<1>2. CASE Serves
  BY <1>2, ServesOutcome
<1>3. ASSUME Dispatches,
             \/ \E phase \in {"queued", "building"} : BuildContinues(phase)
             \/ BuildFails \/ BuildHeld \/ Parks \/ StepRuns \/ StepSucceeds
             \/ StepFails \/ Rolls \/ RolloutFails \/ RolloutHeld
      PROVE  PassOutcome
  <2>0. pass # NoPass
    BY <1>3 DEF Dispatches
  <2>1. /\ Keeps(Now) /\ Keeps(Resolved)
        /\ Keeps(StepAt("running")) /\ Keeps(StepAt("succeeded"))
        /\ Keeps(StepAt("failed"))
        /\ Keeps([Now EXCEPT !.buildFail = Now.rel])
        /\ Keeps([Resolved EXCEPT !.rollFail = Now.rel])
    BY <2>0, StagesKeep
  <2>2. {"queued", "building", "buildFailed", "hibernated", "deploying",
         "preDeployFailed", "rolloutFailed"} \subseteq Phases
    BY DEF Phases
  <2>3. ASSUME NEW phase \in {"queued", "building"}, BuildContinues(phase)
        PROVE  PassOutcome
    BY <1>3, <2>1, <2>2, <2>3, VerdictOutcome DEF BuildContinues
  <2>4. CASE BuildFails
    <3>1. PICK s : s = [Now EXCEPT !.buildFail = Now.rel]
      OBVIOUS
    <3>. QED BY <1>3, <2>1, <2>2, <2>4, <3>1, VerdictOutcome DEF BuildFails
  <2>5. CASE BuildHeld
    <3>1. WriteRetrying(status) \/ WriteRetrying(Failed(Now, "buildFailed"))
      BY <2>5 DEF BuildHeld
    <3>2. CASE WriteRetrying(status)
      BY <1>3, <2>0, <3>2 DEF WriteRetrying, PassOutcome, AppTypeOK
    <3>. QED BY <1>3, <2>1, <2>2, <3>1, <3>2, VerdictOutcome
  <2>6. CASE Parks
    <3>1. [Now EXCEPT !.art = Now.fp] = Resolved
      BY DEF Resolved
    <3>2. WriteChecked(Shown(Now, "hibernated")) \/ WriteChecked(Shown(Resolved, "hibernated"))
      BY <2>6, <3>1 DEF Parks
    <3>. QED BY <1>3, <2>1, <2>2, <3>2, VerdictOutcome
  <2>7. CASE StepRuns
    BY <1>3, <2>1, <2>2, <2>7, VerdictOutcome DEF StepRuns
  <2>8. CASE StepSucceeds
    BY <1>3, <2>1, <2>8, KeptWrite DEF StepSucceeds
  <2>9. CASE StepFails
    BY <1>3, <2>1, <2>2, <2>9, VerdictOutcome DEF StepFails
  <2>10. CASE Rolls
    BY <1>3, <2>1, <2>2, <2>10, VerdictOutcome DEF Rolls
  <2>11. CASE RolloutFails
    <3>1. PICK s : s = [Resolved EXCEPT !.rollFail = Now.rel]
      OBVIOUS
    <3>. QED BY <1>3, <2>1, <2>2, <2>11, <3>1, VerdictOutcome DEF RolloutFails
  <2>12. CASE RolloutHeld
    BY <1>3, <2>1, <2>2, <2>12, VerdictOutcome DEF RolloutHeld
  <2>. QED BY <1>3, <2>3, <2>4, <2>5, <2>6, <2>7, <2>8, <2>9, <2>10, <2>11, <2>12
<1>. QED
  BY <1>1, <1>2, <1>3 DEF Operate, BuildContinues, BuildFails, BuildHeld, Builds, Parks,
     StepRuns, StepSucceeds, StepFails, Rolls, RolloutFails, RolloutHeld, Runs

-----------------------------------------------------------------------------
(* The order of generations *)

(* The release a pass goes on with was requested when it began, and none   *)
(* that serves is newer.                                                   *)
LEMMA NowOrder ==
  ASSUME AppTypeOK, InOrder, pass # NoPass, ~SettlesCancel(pass, status)
  PROVE  Now.rel \in 1..pass.gen /\ status.active <= Now.rel
<1>1. /\ spec \in Specs /\ pass \in Specs /\ status \in AppStatuses
      /\ MaxGen \in Nat \ {0}
  BY AppReleaseAssumption DEF AppTypeOK
<1>2. /\ pass.gen \in Nat \ {0} /\ pass.stamp \in Nat /\ pass.cancel \in Nat
      /\ pass.surv \in Nat /\ status.rel \in Nat /\ status.active \in Nat
  BY <1>1 DEF Specs, AppStatuses, Generations
<1>3. /\ status.active <= status.rel
      /\ status.phase \in {"queued", "building", "running"} => status.rel # 0
      /\ pass.stamp <= pass.gen /\ pass.cancel <= pass.gen /\ status.rel <= pass.gen
  BY DEF InOrder
<1>4. CASE DecidedPins
  <2>1. CASE ReleaseInFlight(pass, status)
    <3>1. status.rel # 0
      BY <1>2, <1>3, <2>1 DEF ReleaseInFlight
    <3>. QED BY <1>2, <1>3, <1>4, <3>1 DEF DecidedPins
  <2>. QED BY <1>2, <1>3, <1>4, <2>1 DEF DecidedPins
<1>5. CASE DecidedRedispatches
  BY <1>2, <1>3, <1>5 DEF DecidedRedispatches
<1>6. CASE DecidedAdopts
  BY <1>2, <1>3, <1>6 DEF DecidedAdopts, RequestedGeneration
<1>. QED BY <1>4, <1>5, <1>6, NowCases DEF DecidedSettles

(* What a pass writes keeps the order, and what serves moves forward only. *)
LEMMA OutcomeOrder ==
  ASSUME AppTypeOK, InOrder, PassOutcome
  PROVE  AppTypeOK' /\ InOrder' /\ status'.active >= status.active
<1>1. /\ spec \in Specs /\ pass \in Specs /\ status \in AppStatuses
      /\ MaxGen \in Nat \ {0}
      /\ pass # NoPass /\ pass' = NoPass /\ spec' = spec /\ status' \in AppStatuses
  BY AppReleaseAssumption DEF AppTypeOK, PassOutcome
<1>2. /\ pass.gen \in Nat /\ spec.gen \in Nat /\ status.rel \in Nat
      /\ status.active \in Nat
  BY <1>1 DEF Specs, AppStatuses, Generations
<1>3. /\ spec.stamp \in 1..spec.gen /\ spec.cancel <= spec.gen
      /\ status.active <= status.rel /\ status.rel <= spec.gen
      /\ status.phase \in {"queued", "building", "running"} => status.rel # 0
      /\ pass.gen <= spec.gen
  BY <1>1 DEF InOrder
<1>4. /\ status'.active <= status'.rel /\ status'.rel <= spec.gen
      /\ status'.phase \in {"queued", "building", "running"} => status'.rel # 0
      /\ status'.active >= status.active
  <2>1. CASE status' = status
    BY <1>2, <1>3, <2>1
  <2>2. CASE PassSettles
    BY <1>2, <1>3, <2>2 DEF PassSettles
  <2>3. CASE PassWorks \/ PassServes
    <3>1. /\ Now.rel \in 1..pass.gen /\ status.active <= Now.rel
          /\ status'.rel = Now.rel /\ status'.active \in {status.active, Now.rel}
      BY <1>1, <2>3, NowOrder DEF PassWorks, PassServes
    <3>. QED BY <1>2, <1>3, <3>1
  <2>. QED BY <2>1, <2>2, <2>3 DEF PassOutcome
<1>. QED BY <1>1, <1>3, <1>4 DEF InOrder, AppTypeOK

(* A write of the control plane moves the App on. *)
Grown(a) ==
  /\ a \in Specs /\ a.gen >= spec.gen
  /\ a.stamp \in 1..a.gen /\ a.cancel <= a.gen

(* Every write that requests or changes something moves the App on.        *)
LEMMA RequestsGrow ==
  ASSUME AppTypeOK, InOrder, spec.gen < MaxGen,
         NEW read \in Generations, read <= spec.gen, NEW b \in BOOLEAN
  PROVE  /\ Grown(Released(spec, b)) /\ Released(spec, b).gen = spec.gen + 1
         /\ Grown(Reconfigured(spec, read)) /\ Reconfigured(spec, read).gen = spec.gen + 1
         /\ Grown(Scaled(spec)) /\ Grown(SuspensionSet(spec, b))
<1>1. spec \in Specs /\ MaxGen \in Nat \ {0}
  BY AppReleaseAssumption DEF AppTypeOK
<1>2. PICK g, h, k : g = spec.gen /\ h = g + 1 /\ k = read + 1
  OBVIOUS
<1>3. g \in Nat /\ h \in Generations /\ h \in Nat /\ k \in 1..h /\ k \in 0..MaxGen /\ h \in 0..MaxGen
  BY <1>1, <1>2 DEF Specs, Generations
<1>4. /\ spec.cancel \in Nat /\ spec.cancel <= h /\ spec.stamp \in 1..h
  BY <1>1, <1>2, <1>3 DEF InOrder, Specs, Generations
<1>5. PICK sel \in 0..MaxGen : sel = IF b THEN h ELSE 0
  <2>1. 0 \in 0..MaxGen
    BY <1>1
  <2>. QED BY <1>3, <2>1, Zenon
<1>6. Released(spec, b) = [spec EXCEPT !.gen = h, !.stamp = h, !.want = h, !.sel = sel]
  BY <1>2, <1>5 DEF Released
<1>7. Reconfigured(spec, read) = [spec EXCEPT !.gen = h, !.stamp = k, !.want = h]
  BY <1>2 DEF Reconfigured
<1>8. Scaled(spec) = [spec EXCEPT !.gen = h]
  BY <1>2 DEF Scaled
<1>9. SuspensionSet(spec, b) = [spec EXCEPT !.gen = h, !.susp = b]
  BY <1>2 DEF SuspensionSet
<1>10. Grown([spec EXCEPT !.gen = h, !.stamp = h, !.want = h, !.sel = sel])
  <2>1. PICK a : a = [spec EXCEPT !.gen = h, !.stamp = h, !.want = h, !.sel = sel]
    OBVIOUS
  <2>2. a \in Specs /\ a.gen = h /\ a.stamp = h /\ a.cancel = spec.cancel
    BY ONLY <1>1, <1>3, <1>5, <2>1 DEF Specs
  <2>. QED BY <1>2, <1>3, <1>4, <2>1, <2>2 DEF Grown
<1>11. Grown([spec EXCEPT !.gen = h, !.stamp = k, !.want = h])
  <2>1. PICK a : a = [spec EXCEPT !.gen = h, !.stamp = k, !.want = h]
    OBVIOUS
  <2>2. a \in Specs /\ a.gen = h /\ a.stamp = k /\ a.cancel = spec.cancel
    BY ONLY <1>1, <1>3, <2>1 DEF Specs
  <2>. QED BY <1>2, <1>3, <1>4, <2>1, <2>2 DEF Grown
<1>12. Grown([spec EXCEPT !.gen = h]) /\ Grown([spec EXCEPT !.gen = h, !.susp = b])
  <2>1. PICK a, c : a = [spec EXCEPT !.gen = h] /\ c = [spec EXCEPT !.gen = h, !.susp = b]
    OBVIOUS
  <2>2. a \in Specs /\ a.gen = h /\ a.stamp = spec.stamp /\ a.cancel = spec.cancel
    BY ONLY <1>1, <1>3, <2>1 DEF Specs
  <2>3. c \in Specs /\ c.gen = h /\ c.stamp = spec.stamp /\ c.cancel = spec.cancel
    BY ONLY <1>1, <1>3, <2>1, b \in BOOLEAN DEF Specs
  <2>. QED BY <1>2, <1>3, <1>4, <2>1, <2>2, <2>3 DEF Grown
<1>13. /\ [spec EXCEPT !.gen = h, !.stamp = h, !.want = h, !.sel = sel].gen = h
       /\ [spec EXCEPT !.gen = h, !.stamp = k, !.want = h].gen = h
  BY <1>1 DEF Specs
<1>. QED BY <1>2, <1>6, <1>7, <1>8, <1>9, <1>10, <1>11, <1>12, <1>13

(* A cancel stamp names a release the App has reached. *)
LEMMA CancelGrows ==
  ASSUME AppTypeOK, InOrder, NEW g \in Generations, g <= spec.gen,
         NEW survivor \in 0..MaxGen, NEW recommits \in BOOLEAN
  PROVE  Grown(ReleaseCanceled(spec, g, survivor, recommits))
<1>1. spec \in Specs /\ MaxGen \in Nat \ {0}
  BY AppReleaseAssumption DEF AppTypeOK
<1>2. Grown(spec)
  BY <1>1 DEF Grown, InOrder, Specs, Generations
<1>3. spec.cancel \in 0..MaxGen /\ spec.gen \in Generations
  BY <1>1 DEF Specs
<1>5. PICK c, s, h :
        /\ c = (IF g > spec.cancel THEN g ELSE spec.cancel)
        /\ s = (IF g > spec.cancel /\ survivor # 0 /\ spec.stamp = g THEN survivor ELSE 0)
        /\ h = IF /\ g > spec.cancel /\ survivor # 0 /\ spec.stamp = g
                  /\ spec.kind.built /\ recommits /\ spec.gen < MaxGen
               THEN spec.gen + 1 ELSE spec.gen
  OBVIOUS
<1>6. \/ ReleaseCanceled(spec, g, survivor, recommits) = spec
      \/ ReleaseCanceled(spec, g, survivor, recommits)
           = [spec EXCEPT !.cancel = c, !.surv = s, !.gen = h]
  BY <1>5 DEF ReleaseCanceled
<1>7. /\ c \in 0..MaxGen /\ c <= spec.gen /\ s \in 0..MaxGen
      /\ h \in Generations /\ h >= spec.gen
  <2>1. c \in 0..MaxGen /\ c <= spec.gen /\ s \in 0..MaxGen
    BY <1>1, <1>2, <1>3, <1>5 DEF Grown, Generations
  <2>2. h \in Generations /\ h >= spec.gen
    BY <1>1, <1>3, <1>5 DEF Generations
  <2>. QED BY <2>1, <2>2
<1>8. Grown([spec EXCEPT !.cancel = c, !.surv = s, !.gen = h])
  <2>1. PICK a : a = [spec EXCEPT !.cancel = c, !.surv = s, !.gen = h]
    OBVIOUS
  <2>2. a \in Specs /\ a.gen = h /\ a.stamp = spec.stamp /\ a.cancel = c
    BY ONLY <1>1, <1>7, <2>1 DEF Specs
  <2>3. /\ h \in Nat /\ spec.gen \in Nat /\ c \in Nat
        /\ spec.stamp \in 1..spec.gen
    BY <1>1, <1>2, <1>7 DEF Grown, Specs, Generations
  <2>. QED BY <1>7, <2>1, <2>2, <2>3 DEF Grown
<1>. QED BY <1>2, <1>6, <1>8

(* Such a write keeps the order. *)
LEMMA GrownOrder ==
  ASSUME AppTypeOK, InOrder, NEW a, Grown(a), spec' = a, UNCHANGED <<status, pass>>
  PROVE  AppTypeOK' /\ InOrder' /\ spec.gen <= spec'.gen
<1>1. /\ spec \in Specs /\ pass \in Specs \cup {NoPass} /\ status \in AppStatuses
      /\ a \in Specs /\ MaxGen \in Nat \ {0}
  BY AppReleaseAssumption DEF AppTypeOK, Grown
<1>2. /\ spec.gen \in Nat /\ a.gen \in Nat /\ status.rel \in Nat
      /\ pass # NoPass => pass.gen \in Nat
  BY <1>1 DEF Specs, AppStatuses, Generations
<1>. QED BY <1>1, <1>2 DEF Grown, InOrder, AppTypeOK

-----------------------------------------------------------------------------
(* The judgements of a reconciler pass *)

(* What a pass may judge of a row, and that it judges it live only when the *)
(* App showed the row's release as active.                                 *)
LEMMA JudgedSound ==
  ASSUME AppReleaseAssumption, NEW row \in ListedRecords, NEW app \in Snapshots,
         NEW known, Shows(app, known), NEW timedOut \in BOOLEAN
  PROVE  /\ Judged(row, app, timedOut) \in Judgements
         /\ Judged(row, app, timedOut).row = row
         /\ Judged(row, app, timedOut).verdict = "live" => row.gen \in known
<1>1. /\ row.gen \in Nat \ {0} /\ app.rel \in Nat /\ app.active \in Nat /\ app.gen \in Nat
      /\ row.status \in OpenStatuses
  BY DEF ListedRecords, Snapshots, Generations, AppReleaseAssumption
<1>2. /\ app.active \in known \cup {0}
      /\ app.phase = "running" => app.rel # 0
  BY DEF Shows
<1>3. TimedOutStatus(row) \in FailureStatuses
  BY DEF TimedOutStatus, FailureStatuses
<1>4. OvertakenStatus(row, app) \in Statuses
      /\ (OvertakenStatus(row, app) = "live" => row.gen \in known)
  <2>1. CASE app.active = row.gen
    <3>1. OvertakenStatus(row, app) = "live" /\ row.gen \in known
      BY <1>1, <1>2, <2>1 DEF OvertakenStatus
    <3>. QED BY <3>1 DEF Statuses, TerminalStatuses
  <2>2. CASE app.active # row.gen
    <3>1. OvertakenStatus(row, app) \in {"pre_deploy_failed", "update_failed", "canceled"}
      BY <2>2 DEF OvertakenStatus
    <3>. QED BY <3>1 DEF Statuses, TerminalStatuses, FailureStatuses
  <2>. QED BY <2>1, <2>2
<1>5. UnadoptedStatus(row, app, timedOut) \in (Statuses \ {"live"}) \cup {Waiting}
  BY <1>3 DEF UnadoptedStatus, Statuses, TerminalStatuses, FailureStatuses, OpenStatuses
<1>6. SupersededStatus(row, app, timedOut) \in Statuses \cup {Waiting}
      /\ (SupersededStatus(row, app, timedOut) = "live" => row.gen \in known)
  BY <1>4, <1>5 DEF SupersededStatus, Statuses, TerminalStatuses, FailureStatuses, OpenStatuses,
     Waiting
<1>7. PhaseEvidence(row, app, timedOut) \in Statuses \cup {Waiting}
      /\ (PhaseEvidence(row, app, timedOut) = "live" => row.gen \in known)
  <2> DEFINE seen == PhaseEvidence(row, app, timedOut)
  <2>1. CASE app.phase \in {"running", "hibernated"} /\ ReleaseIsActive(row, app) /\ app.rel > 0
    <3>1. row.gen \in known
      BY <1>1, <1>2, <2>1 DEF ReleaseIsActive
    <3>2. seen \in {"live", Waiting}
      BY <2>1 DEF PhaseEvidence
    <3>. QED BY <3>1, <3>2 DEF Statuses, TerminalStatuses, Waiting
  <2>2. CASE /\ app.phase \in {"running", "hibernated"}
             /\ ~(ReleaseIsActive(row, app) /\ app.rel > 0)
    <3>1. app.phase = "running" => ~ReleaseIsActive(row, app)
      BY <1>1, <1>2, <2>2
    <3>2. seen = Waiting
      BY <2>2, <3>1 DEF PhaseEvidence
    <3>. QED BY <3>2 DEF Waiting
  <2>3. CASE app.phase \notin {"running", "hibernated"}
    <3>1. seen \in {"build_failed", "queued", "build_in_progress", "update_failed",
                    "update_in_progress", "pre_deploy_failed", Waiting}
      <4>1. PICK current \in BOOLEAN : current = (app.cond = app.gen)
        OBVIOUS
      <4>2. PICK ph : ph = app.phase
        OBVIOUS
      <4>. QED BY <2>3, <4>1, <4>2 DEF PhaseEvidence
    <3>. QED BY <3>1 DEF Statuses, TerminalStatuses, FailureStatuses, OpenStatuses, Waiting
  <2>. QED BY <2>1, <2>2, <2>3
<1>8. MatchedStatus(row, app, timedOut) \in Statuses \cup {Waiting}
      /\ (MatchedStatus(row, app, timedOut) = "live" => row.gen \in known)
  BY <1>3, <1>7 DEF MatchedStatus, PhaseStatus, Statuses, TerminalStatuses, FailureStatuses,
     OpenStatuses, Waiting
<1>9. ObservedStatus(row, app, timedOut) \in Statuses \cup {Waiting}
      /\ (ObservedStatus(row, app, timedOut) = "live" => row.gen \in known)
  BY <1>6, <1>8 DEF ObservedStatus, Statuses, TerminalStatuses, FailureStatuses, OpenStatuses,
     Waiting
<1>10. StepToRecord(row, app) \in {"none", "running", "succeeded", "failed"}
  BY DEF StepToRecord, StepOf, Snapshots
<1>11. SuspendEnds(row, app, timedOut) \in BOOLEAN
  BY DEF SuspendEnds
<1>. QED BY <1>9, <1>10, <1>11 DEF Judged, Judgements

(* Up to two judgements of different generations can be put in order. *)
LEMMA QueueOrders ==
  ASSUME NEW J,
         \/ J = {} \/ \E x \in J : J = {x}
         \/ \E x \in J, y \in J : J = {x, y} /\ x.row.gen < y.row.gen,
         \A x \in J : x.row.gen \in Nat
  PROVE  /\ Cardinality(J) \in 0..2
         /\ (\A x, y \in J : x = y) => Cardinality(J) <= 1
         /\ Queue(J) \in [1..Cardinality(J) -> J]
<1> DEFINE Ordered(q) == \A m, n \in DOMAIN q : m < n => q[m].row.gen < q[n].row.gen
<1>1. CASE J = {}
  <2>1. Cardinality(J) = 0
    BY <1>1, FS_EmptySet
  <2>2. PICK q : q = [i \in 1..0 |-> 0]
    OBVIOUS
  <2>3. q \in [1..Cardinality(J) -> J] /\ Ordered(q)
    BY <2>1, <2>2
  <2>4. Queue(J) \in [1..Cardinality(J) -> J]
    BY <2>3, Zenon DEF Queue
  <2>. QED BY <2>1, <2>4
<1>2. ASSUME NEW x \in J, J = {x}
      PROVE  Cardinality(J) = 1 /\ Queue(J) \in [1..Cardinality(J) -> J]
  <2>1. Cardinality(J) = 1
    BY <1>2, FS_Singleton
  <2>2. PICK q : q = [i \in 1..1 |-> x]
    OBVIOUS
  <2>3. q \in [1..Cardinality(J) -> J] /\ Ordered(q)
    BY <1>2, <2>1, <2>2
  <2>4. Queue(J) \in [1..Cardinality(J) -> J]
    BY <2>3, Zenon DEF Queue
  <2>. QED BY <2>1, <2>4
<1>3. ASSUME NEW x \in J, NEW y \in J, J = {x, y}, x.row.gen < y.row.gen
      PROVE  Cardinality(J) = 2 /\ x # y /\ Queue(J) \in [1..Cardinality(J) -> J]
  <2>0. x.row.gen \in Nat /\ y.row.gen \in Nat /\ x # y
    BY <1>3
  <2>1. Cardinality(J) = 2
    <3>1. Cardinality({x}) = 1 /\ IsFiniteSet({x})
      BY FS_Singleton
    <3>2. J = {x} \cup {y} /\ y \notin {x}
      BY <1>3, <2>0
    <3>3. Cardinality({x} \cup {y}) = Cardinality({x}) + 1
      BY <3>1, <3>2, FS_AddElement
    <3>. QED BY <3>1, <3>2, <3>3
  <2>2. PICK q : q = [i \in 1..2 |-> IF i = 1 THEN x ELSE y]
    OBVIOUS
  <2>3. q \in [1..Cardinality(J) -> J] /\ Ordered(q)
    BY <1>3, <2>1, <2>2
  <2>4. Queue(J) \in [1..Cardinality(J) -> J]
    BY <2>3, Zenon DEF Queue
  <2>. QED BY <2>0, <2>1, <2>4
<1>. QED BY <1>1, <1>2, <1>3

(* The rows an index lets a pass find open: none, one, or an executing and *)
(* a pending one.                                                          *)
Few(rows) ==
  \/ rows = {}
  \/ \E a \in rows : rows = {a}
  \/ \E a \in rows, b \in rows : rows = {a, b} /\ a.gen < b.gen

(* Every judgement in a list is of one of these rows, by one reading.      *)
JudgedFrom(todo, rows, app) ==
  \A i \in 1..Len(todo) :
    \E row \in rows, b \in IF Timeouts THEN BOOLEAN ELSE {FALSE} :
      todo[i] = Judged(row, app, b)

(* What a pass queues of such rows is sound. *)
LEMMA QueuesSound ==
  ASSUME AppReleaseAssumption, NEW rows \in SUBSET ListedRecords, Few(rows),
         NEW table, NEW known, \A row \in rows : table[row.gen] # NoRow,
         NEW app \in Snapshots, Shows(app, known), NEW todo \in Queues(rows, app)
  PROVE  /\ todo \in Seq(Judgements) /\ Len(todo) <= 2
         /\ (\A a, b \in rows : a = b) => Len(todo) <= 1
         /\ \A i \in 1..Len(todo) : Founded(todo[i], table, known)
         /\ JudgedFrom(todo, rows, app)
<1>1. PICK late \in [rows -> IF Timeouts THEN BOOLEAN ELSE {FALSE}] :
        todo = Queue({j \in {Judged(row, app, late[row]) : row \in rows} : Due(j)})
  BY Zenon DEF Queues
<1>2. \A row \in rows : late[row] \in BOOLEAN
  OBVIOUS
<1>3. PICK J : J = {j \in {Judged(row, app, late[row]) : row \in rows} : Due(j)}
  OBVIOUS
<1>4. todo = Queue(J)
  BY <1>1, <1>3
<1>5. ASSUME NEW j \in J
      PROVE  \E row \in rows : j = Judged(row, app, late[row]) /\ j.row = row
  <2>1. PICK row \in rows : j = Judged(row, app, late[row])
    BY <1>3, <1>5
  <2>. QED BY <2>1 DEF Judged
<1>6. \A j \in J : j \in Judgements /\ Founded(j, table, known) /\ j.row.gen \in Nat /\ j.row \in rows
  <2> SUFFICES ASSUME NEW j \in J
               PROVE  j \in Judgements /\ Founded(j, table, known) /\ j.row.gen \in Nat /\ j.row \in rows
    OBVIOUS
  <2>1. PICK row \in rows : j = Judged(row, app, late[row]) /\ j.row = row
    BY <1>5
  <2>2. PICK b \in BOOLEAN : b = late[row]
    BY <1>2
  <2>3. j = Judged(row, app, b) /\ row \in ListedRecords
    BY <2>1, <2>2
  <2>4. j \in Judgements /\ (j.verdict = "live" => row.gen \in known)
    BY <2>2, <2>3, JudgedSound
  <2>5. Due(j)
    BY <1>3
  <2>6. row.gen \in Nat
    BY <2>3 DEF ListedRecords, Generations, AppReleaseAssumption
  <2>. QED BY <2>1, <2>4, <2>5, <2>6 DEF Founded
<1>7. \A i, j \in J : i.row = j.row => i = j
  <2> SUFFICES ASSUME NEW i \in J, NEW j \in J, i.row = j.row PROVE i = j
    OBVIOUS
  <2>1. PICK row \in rows : i = Judged(row, app, late[row]) /\ i.row = row
    BY <1>5
  <2>2. PICK col \in rows : j = Judged(col, app, late[col]) /\ j.row = col
    BY <1>5
  <2>. QED BY <2>1, <2>2
<1>8. \/ J = {} \/ \E x \in J : J = {x}
      \/ \E x \in J, y \in J : J = {x, y} /\ x.row.gen < y.row.gen
  <2>1. CASE rows = {}
    BY <1>6, <2>1
  <2>2. ASSUME NEW a \in rows, rows = {a} PROVE <1>8
    BY <1>6, <1>7, <2>2
  <2>3. ASSUME NEW a \in rows, NEW b \in rows, rows = {a, b}, a.gen < b.gen PROVE <1>8
    <3>1. \A i \in J : i.row = a \/ i.row = b
      BY <1>6, <2>3
    <3>2. CASE \A i \in J : i.row = a
      BY <1>7, <3>2
    <3>3. CASE \A i \in J : i.row = b
      BY <1>7, <3>3
    <3>4. ASSUME NEW x \in J, NEW y \in J, x.row = a, y.row = b PROVE <1>8
      <4>1. J = {x, y}
        BY <1>7, <3>1, <3>4
      <4>. QED BY <2>3, <3>4, <4>1
    <3>. QED BY <3>1, <3>2, <3>3, <3>4
  <2>. QED BY <2>1, <2>2, <2>3 DEF Few
<1>9. /\ Cardinality(J) \in 0..2
      /\ (\A x, y \in J : x = y) => Cardinality(J) <= 1
      /\ todo \in [1..Cardinality(J) -> J]
  BY <1>4, <1>6, <1>8, QueueOrders
<1>10. (\A a, b \in rows : a = b) => Cardinality(J) <= 1
  BY <1>6, <1>7, <1>9
<1>11. todo \in Seq(J) /\ Len(todo) = Cardinality(J)
  BY <1>9, LenProperties, SeqDef
<1>12. \A j \in J : \E row \in rows, b \in IF Timeouts THEN BOOLEAN ELSE {FALSE} :
                     j = Judged(row, app, b)
  BY <1>5
<1>13. JudgedFrom(todo, rows, app)
  <2>1. \A i \in 1..Len(todo) : todo[i] \in J
    BY <1>11
  <2>. QED BY <1>12, <2>1, Zenon DEF JudgedFrom
<1>. QED BY <1>6, <1>9, <1>10, <1>11, <1>13

-----------------------------------------------------------------------------
(* The table, the requests and the passes as others go on *)

(* The table's part of the invariant, as the lemmas on its transactions    *)
(* have it.                                                                *)
LEMMA TableIsStore ==
  ASSUME IInv
  PROVE  /\ SoundStore(Generations, Generations, deploys)
         /\ Generations \in SUBSET (Nat \ {0}) /\ MaxGen \in Nat \ {0}
         /\ spec \in Specs /\ spec.gen \in Generations /\ status \in AppStatuses
BY AppReleaseAssumption
   DEF IInv, TypeOK, AppTypeOK, TableSound, SoundStore, Table, Generations, Specs

(* Filed, part by part. *)
RowsFiled == \A g \in Generations : deploys[g] # NoRow => deploys[g].gen = g /\ g <= spec.gen

OpeningFiled ==
  \A e \in opening :
    /\ e.gen \in 2..spec.gen
    /\ deploys[e.gen] = NoRow
    /\ \A f \in opening : f.gen = e.gen => f = e

SettingsFiled ==
  /\ settings # {} => StaleSettings
  /\ \A read \in settings : read <= spec.gen

CancelsFiled ==
  \A c \in Cancelers : cancels[c] # NoCancel => deploys[cancels[c].gen] # NoRow

(* The parts are the whole.                                                *)
LEMMA FiledParts == Filed <=> RowsFiled /\ OpeningFiled /\ SettingsFiled /\ CancelsFiled
BY DEF Filed, RowsFiled, OpeningFiled, SettingsFiled, CancelsFiled

(* A pass in progress stays sound while rows stay and history grows. *)
LEMMA SoundKept ==
  ASSUME NEW rec \in Recordings \cup {NoRecord}, NEW table, NEW known, Sound(rec, table, known),
         NEW new, \A g \in Generations : table[g] # NoRow => new[g] # NoRow,
         NEW more, known \subseteq more
  PROVE  Sound(rec, new, more)
<1>1. CASE rec.at = "listed"
  BY <1>1 DEF Sound, Shows
<1>2. CASE rec.at = "recording"
  <2>1. PICK todo \in Seq(Judgements) : todo = rec.todo
    BY <1>2 DEF Recordings, NoRecord
  <2>2. ASSUME NEW i \in 1..Len(todo), Founded(todo[i], table, known)
        PROVE  Founded(todo[i], new, more)
    <3>1. PICK j \in Judgements : j = todo[i]
      BY <2>1
    <3>2. j.row.gen \in Generations
      BY DEF Judgements, ListedRecords
    <3>3. Founded(j, new, more)
      BY <2>2, <3>1, <3>2 DEF Founded
    <3>. QED BY <3>1, <3>3
  <2>. QED BY <1>2, <2>1, <2>2 DEF Sound
<1>. QED BY <1>1, <1>2 DEF Recordings, NoRecord, Sound

(* The passes and the cancel requests in progress, in type and in content. *)
RecsSound ==
  /\ recs \in [Reconcilers -> Recordings \cup {NoRecord}]
  /\ \A r \in Reconcilers : Sound(recs[r], deploys, served)

CancelsSound ==
  /\ cancels \in [Cancelers -> CancelRequests \cup {NoCancel}]
  /\ CancelsFiled

(* Every pass stays sound, the one that moves for the reason given. *)
LEMMA RecsKept ==
  ASSUME IInv, recs' = recs,
         \A g \in Generations : deploys[g] # NoRow => deploys'[g] # NoRow,
         served \subseteq served'
  PROVE  RecsSound'
<1>1. \A r \in Reconcilers : /\ recs[r] \in Recordings \cup {NoRecord}
                             /\ Sound(recs[r], deploys, served)
  BY DEF IInv, TypeOK
<1>2. \A r \in Reconcilers : Sound(recs[r], deploys', served')
  <2> SUFFICES ASSUME NEW r \in Reconcilers PROVE Sound(recs[r], deploys', served')
    OBVIOUS
  <2>. QED BY <1>1, SoundKept
<1>. QED BY <1>2 DEF RecsSound, IInv, TypeOK

(* One pass moves, to a record that is sound; the others stay sound.       *)
LEMMA RecsMove ==
  ASSUME IInv, NEW r \in Reconcilers, NEW rec \in Recordings \cup {NoRecord},
         recs' = [recs EXCEPT ![r] = rec], Sound(rec, deploys', served'),
         \A g \in Generations : deploys[g] # NoRow => deploys'[g] # NoRow,
         served \subseteq served'
  PROVE  RecsSound'
<1>1. \A q \in Reconcilers : /\ recs[q] \in Recordings \cup {NoRecord}
                             /\ Sound(recs[q], deploys, served)
  BY DEF IInv, TypeOK
<1>2. recs' \in [Reconcilers -> Recordings \cup {NoRecord}]
  BY DEF IInv, TypeOK
<1>3. ASSUME NEW q \in Reconcilers PROVE Sound(recs'[q], deploys', served')
  <2>1. CASE q = r
    BY <2>1 DEF IInv, TypeOK
  <2>2. CASE q # r
    <3>1. recs'[q] = recs[q]
      BY <2>2 DEF IInv, TypeOK
    <3>2. Sound(recs[q], deploys', served')
      BY <1>1, SoundKept
    <3>. QED BY <3>1, <3>2
  <2>. QED BY <2>1, <2>2
<1>. QED BY <1>2, <1>3 DEF RecsSound

(* The parts make the whole. *)
LEMMA Assembled ==
  ASSUME AppTypeOK', InOrder', SoundStore(Generations, Generations, deploys'),
         (opening \subseteq Releases)', (settings \subseteq Generations)',
         RowsFiled', OpeningFiled', SettingsFiled', CancelsSound', RecsSound',
         (served \subseteq Generations)', (ended \subseteq Ends)', Honest'
  PROVE  IInv'
<1>1. TypeOK'
  BY DEF TypeOK, CancelsSound, RecsSound, SoundStore, Table
<1>2. TableSound'
  BY DEF TableSound, SoundStore
<1>3. Filed'
  BY DEF RowsFiled, OpeningFiled, SettingsFiled, CancelsFiled, CancelsSound, Filed
<1>. QED BY <1>1, <1>2, <1>3 DEF IInv, RecsSound

(* A step of the App, of a cancel request or of a pass, the table and the  *)
(* releases to be inserted aside.                                          *)
LEMMA AppSteps ==
  ASSUME IInv, AppTypeOK', InOrder', spec.gen <= spec'.gen,
         UNCHANGED deploys, opening' \subseteq opening,
         settings' \subseteq settings \cup {spec.gen}, settings' # {} => StaleSettings,
         CancelsSound', RecsSound',
         served \subseteq served', (served \subseteq Generations)',
         status'.active \in served' \cup {0}, (ended \subseteq Ends)'
  PROVE  IInv'
<1>1. /\ SoundStore(Generations, Generations, deploys) /\ spec.gen \in Nat
      /\ spec.gen \in Generations /\ \A g \in Generations : g \in Nat
  BY TableIsStore
<1>2. spec'.gen \in Nat
  BY AppReleaseAssumption DEF AppTypeOK, Specs, Generations
<1>3. RowsFiled /\ OpeningFiled /\ SettingsFiled /\ opening \subseteq Releases
      /\ settings \subseteq Generations
  BY FiledParts DEF IInv, TypeOK
<1>4. RowsFiled'
  BY <1>1, <1>2, <1>3 DEF RowsFiled
<1>5. OpeningFiled' /\ (opening \subseteq Releases)'
  BY <1>1, <1>2, <1>3 DEF OpeningFiled
<1>6. SettingsFiled' /\ (settings \subseteq Generations)'
  BY <1>1, <1>2, <1>3 DEF SettingsFiled
<1>7. Honest'
  BY DEF IInv, Honest, LiveWasServed
<1>. QED BY <1>1, <1>3, <1>4, <1>5, <1>6, <1>7, Assembled

(* A release is opened: the App has a new generation, and its row is to be *)
(* inserted.                                                               *)
LEMMA OpeningSteps ==
  ASSUME IInv, NEW a, Grown(a), a.gen = spec.gen + 1, Writes(a), NEW trigger \in Triggers,
         opening' = opening \cup {[gen |-> spec.gen + 1, trigger |-> trigger]},
         settings' \subseteq settings,
         UNCHANGED <<deploys, cancels, recs, ended>>
  PROVE  IInv'
<1>1. /\ SoundStore(Generations, Generations, deploys) /\ spec.gen \in Nat
      /\ spec.gen \in Generations /\ \A g \in Generations : g \in Nat \ {0}
      /\ AppTypeOK /\ InOrder
  BY TableIsStore DEF IInv, TypeOK
<1>2. spec' = a /\ UNCHANGED <<status, pass, served>>
  BY DEF Writes
<1>3. AppTypeOK' /\ InOrder' /\ spec'.gen = spec.gen + 1 /\ spec'.gen \in Generations
  BY <1>1, <1>2, GrownOrder DEF Grown, Specs
<1>4. RowsFiled /\ OpeningFiled /\ SettingsFiled /\ CancelsFiled
  BY FiledParts DEF IInv
<1>5. RowsFiled' /\ deploys[spec.gen + 1] = NoRow
  BY <1>1, <1>3, <1>4 DEF RowsFiled
<1>6. OpeningFiled'
  <2>1. PICK new : new = [gen |-> spec.gen + 1, trigger |-> trigger]
    OBVIOUS
  <2>2. new.gen = spec.gen + 1 /\ opening' = opening \cup {new}
    BY <2>1
  <2>3. \A e \in opening : e.gen \in 2..spec.gen /\ deploys[e.gen] = NoRow
                           /\ \A f \in opening : f.gen = e.gen => f = e
    BY <1>4 DEF OpeningFiled
  <2>. QED BY <1>1, <1>3, <1>5, <2>2, <2>3 DEF OpeningFiled
<1>7. SettingsFiled' /\ (settings \subseteq Generations)'
  BY <1>1, <1>3, <1>4 DEF SettingsFiled, IInv, TypeOK
<1>8. CancelsSound'
  BY <1>4 DEF CancelsSound, CancelsFiled, IInv, TypeOK
<1>9. RecsSound'
  BY <1>2, RecsKept
<1>10. (opening \subseteq Releases)'
  BY <1>3 DEF Releases, IInv, TypeOK
<1>11. Honest' /\ (served \subseteq Generations)' /\ (ended \subseteq Ends)'
  BY <1>2 DEF IInv, TypeOK, Honest, LiveWasServed
<1>. QED BY <1>1, <1>3, <1>5, <1>6, <1>7, <1>8, <1>9, <1>10, <1>11, Assembled

(* A transaction moves rows: one may be recorded live only if it served.   *)
LEMMA TableSteps ==
  ASSUME IInv, NEW d \in Generations, NEW s, s = "live" => d \in served,
         Moves(Generations, Generations, deploys, deploys', d, s),
         UNCHANGED <<spec, status, pass, opening, settings, served, ended>>,
         CancelsSound', RecsSound'
  PROVE  IInv'
<1>1. RowsFiled /\ OpeningFiled /\ SettingsFiled
  BY FiledParts DEF IInv
<1>2. \A g \in Generations :
        /\ deploys'[g].gen = deploys[g].gen
        /\ deploys[g] # NoRow <=> deploys'[g] # NoRow
        /\ Served(deploys'[g]) => Served(deploys[g]) \/ (g = d /\ s = "live")
  <2> SUFFICES ASSUME NEW g \in Generations
               PROVE  /\ deploys'[g].gen = deploys[g].gen
                      /\ deploys[g] # NoRow <=> deploys'[g] # NoRow
                      /\ Served(deploys'[g]) => Served(deploys[g]) \/ (g = d /\ s = "live")
    OBVIOUS
  <2>1. PICK v : v = IF g = d THEN s ELSE ""
    OBVIOUS
  <2>2. Follows(deploys[g], deploys'[g], v)
    BY <2>1 DEF Moves
  <2>. QED BY <2>1, <2>2 DEF Follows
<1>3. RowsFiled'
  BY <1>1, <1>2 DEF RowsFiled
<1>4. OpeningFiled' /\ (opening \subseteq Releases)'
  <2>1. \A e \in opening : e.gen \in Generations
    BY DEF IInv, TypeOK, Releases
  <2>. QED BY <1>1, <1>2, <2>1 DEF OpeningFiled, IInv, TypeOK
<1>5. SettingsFiled'
  BY <1>1 DEF SettingsFiled
<1>6. Honest'
  BY <1>2 DEF IInv, Honest, LiveWasServed, Served
<1>7. AppTypeOK' /\ InOrder'
  BY DEF IInv, TypeOK, AppTypeOK, InOrder
<1>8. SoundStore(Generations, Generations, deploys')
  BY DEF Moves
<1>. QED BY <1>3, <1>4, <1>5, <1>6, <1>7, <1>8, Assembled DEF IInv, TypeOK

(* What an insert leaves of the table. *)
LEMMA InsertGains ==
  ASSUME IInv, NEW g \in Generations, NEW trigger \in Triggers, deploys[g] = NoRow,
         deploys' = InsertRow(deploys, g, g, trigger)
  PROVE  Gains(Generations, Generations, deploys, deploys', g, g, trigger)
<1>1. SoundStore(Generations, Generations, deploys) /\ Generations \in SUBSET (Nat \ {0})
  BY TableIsStore
<1>2. PICK t, u : t = deploys /\ u = deploys'
  OBVIOUS
<1>3. t[g] = NoRow /\ u = InsertRow(t, g, g, trigger)
  BY <1>2
<1>4. Gains(Generations, Generations, t, u, g, g, trigger)
  BY <1>1, <1>2, <1>3, InsertEffect
<1>. QED BY <1>2, <1>4

(* A row is inserted for a release that has none. *)
LEMMA InsertSteps ==
  ASSUME IInv, NEW g \in Generations, g <= spec.gen, NEW trigger \in Triggers,
         deploys[g] = NoRow, deploys' = InsertRow(deploys, g, g, trigger),
         opening' \subseteq opening, \A e \in opening' : e.gen # g,
         UNCHANGED <<spec, status, pass, settings, cancels, recs, served, ended>>
  PROVE  IInv'
<1>1. /\ SoundStore(Generations, Generations, deploys')
      /\ \A e \in Generations \ {g} : Follows(deploys[e], deploys'[e], "")
      /\ deploys'[g] # NoRow /\ deploys'[g].gen = g /\ ~Served(deploys'[g])
  BY InsertGains DEF Gains
<1>2. \A e \in Generations \ {g} :
        /\ deploys'[e].gen = deploys[e].gen
        /\ deploys[e] # NoRow <=> deploys'[e] # NoRow
        /\ Served(deploys'[e]) => Served(deploys[e])
  BY <1>1 DEF Follows
<1>3. RowsFiled /\ OpeningFiled /\ SettingsFiled /\ CancelsFiled
  BY FiledParts DEF IInv
<1>4. RowsFiled'
  BY <1>1, <1>2, <1>3 DEF RowsFiled
<1>5. OpeningFiled' /\ (opening \subseteq Releases)'
  <2>1. \A e \in opening : e.gen \in Generations
    BY DEF IInv, TypeOK, Releases
  <2>. QED BY <1>2, <1>3, <2>1 DEF OpeningFiled, IInv, TypeOK
<1>6. SettingsFiled'
  BY <1>3 DEF SettingsFiled
<1>7. CancelsSound'
  <2>1. \A c \in Cancelers : cancels[c] # NoCancel => cancels[c].gen \in Generations
    BY DEF IInv, TypeOK, CancelRequests
  <2>. QED BY <1>1, <1>2, <1>3, <2>1 DEF CancelsSound, CancelsFiled, IInv, TypeOK
<1>8. \A e \in Generations : deploys[e] # NoRow => deploys'[e] # NoRow
  BY <1>1, <1>2
<1>9. RecsSound'
  BY <1>8, RecsKept
<1>10. Honest'
  BY <1>1, <1>2 DEF IInv, Honest, LiveWasServed, Served
<1>11. AppTypeOK' /\ InOrder'
  BY DEF IInv, TypeOK, AppTypeOK, InOrder
<1>. QED BY <1>1, <1>4, <1>5, <1>6, <1>7, <1>9, <1>10, <1>11, Assembled DEF IInv, TypeOK

-----------------------------------------------------------------------------
(* Every step preserves the invariant *)

(* What a step that leaves the App, the table and its readers alone keeps. *)
LEMMA Undisturbed ==
  ASSUME IInv
  PROVE  /\ AppTypeOK /\ InOrder /\ spec \in Specs /\ status \in AppStatuses
         /\ UNCHANGED <<spec, status, pass>> => AppTypeOK' /\ InOrder' /\ spec.gen <= spec'.gen
         /\ UNCHANGED <<deploys, cancels>> => CancelsSound'
         /\ UNCHANGED <<deploys, recs>> /\ served \subseteq served' => RecsSound'
         /\ served \subseteq Generations /\ ended \subseteq Ends
         /\ status.active \in served \cup {0}
         /\ settings # {} => StaleSettings
<1>1. AppTypeOK /\ InOrder /\ spec \in Specs /\ status \in AppStatuses
  BY DEF IInv, TypeOK, AppTypeOK
<1>2. ASSUME UNCHANGED <<spec, status, pass>>
      PROVE  AppTypeOK' /\ InOrder' /\ spec.gen <= spec'.gen
  <2>1. spec.gen \in Nat
    BY <1>1, AppReleaseAssumption DEF Specs, Generations
  <2>. QED BY <1>1, <1>2, <2>1 DEF AppTypeOK, InOrder
<1>3. ASSUME UNCHANGED <<deploys, cancels>> PROVE CancelsSound'
  BY <1>3 DEF CancelsSound, CancelsFiled, IInv, TypeOK, Filed
<1>4. ASSUME UNCHANGED <<deploys, recs>>, served \subseteq served' PROVE RecsSound'
  BY <1>4, RecsKept
<1>5. /\ served \subseteq Generations /\ ended \subseteq Ends
      /\ status.active \in served \cup {0}
      /\ settings # {} => StaleSettings
  BY DEF IInv, TypeOK, Honest, Filed
<1>. QED BY <1>1, <1>2, <1>3, <1>4, <1>5

(* Deploy triggers and configuration changes. *)
LEMMA OpeningInv ==
  ASSUME IInv,
         \/ \E trigger \in Triggers \ {"config"} : OpenRelease(trigger)
         \/ "config" \in Triggers /\ ChangeConfig
         \/ SettingsPatch
  PROVE  IInv'
<1>1. AppTypeOK /\ InOrder /\ spec \in Specs /\ spec.gen \in Generations /\ spec.gen <= spec.gen
  BY TableIsStore, Undisturbed DEF Generations
<1>2. ASSUME NEW trigger \in Triggers, OpenRelease(trigger) PROVE IInv'
  <2>1. PICK b \in BOOLEAN : b = (trigger = "selected")
    OBVIOUS
  <2>2. /\ spec.gen < MaxGen /\ Writes(Released(spec, b))
        /\ opening' = opening \cup {[gen |-> spec.gen + 1, trigger |-> trigger]}
        /\ UNCHANGED <<deploys, settings, cancels, recs, ended>>
    BY <1>2, <2>1 DEF OpenRelease
  <2>3. PICK a : a = Released(spec, b)
    OBVIOUS
  <2>4. Grown(a) /\ a.gen = spec.gen + 1 /\ Writes(a)
    BY <1>1, <2>2, <2>3, RequestsGrow
  <2>. QED BY <2>2, <2>4, OpeningSteps
<1>3. ASSUME NEW read \in Generations, read <= spec.gen, "config" \in Triggers, Patches(read),
             settings' \subseteq settings
      PROVE  IInv'
  <2>1. /\ spec.gen < MaxGen /\ Writes(Reconfigured(spec, read))
        /\ opening' = opening \cup {[gen |-> spec.gen + 1, trigger |-> "config"]}
        /\ UNCHANGED <<deploys, cancels, recs, ended>>
    BY <1>3 DEF Patches
  <2>2. PICK a : a = Reconfigured(spec, read)
    OBVIOUS
  <2>3. Grown(a) /\ a.gen = spec.gen + 1 /\ Writes(a)
    <3>1. TRUE \in BOOLEAN
      OBVIOUS
    <3>. QED BY <1>1, <1>3, <2>1, <2>2, <3>1, RequestsGrow
  <2>. QED BY <1>3, <2>1, <2>3, OpeningSteps
<1>4. CASE "config" \in Triggers /\ ChangeConfig
  BY <1>1, <1>3, <1>4 DEF ChangeConfig
<1>5. CASE SettingsPatch
  <2>1. PICK read \in settings : Patches(read) /\ settings' = {}
    BY <1>5 DEF SettingsPatch
  <2>2. read \in Generations /\ read <= spec.gen /\ "config" \in Triggers
    BY LifecycleAssumption DEF IInv, TypeOK, Filed
  <2>. QED BY <1>3, <2>1, <2>2
<1>. QED BY <1>2, <1>4, <1>5

(* Other requests that write the App, and a settings save that reads it. *)
LEMMA OperationalInv ==
  ASSUME IInv, Scale \/ Suspend \/ Resume \/ SettingsRead \/ DropOpened
  PROVE  IInv'
<1>1. /\ AppTypeOK /\ InOrder /\ spec \in Specs /\ spec.gen \in Generations
      /\ spec.gen <= spec.gen
  BY TableIsStore, Undisturbed DEF Generations
<1>2. ASSUME NEW a, Grown(a), Operational(a) PROVE IInv'
  <2>1. spec' = a /\ UNCHANGED <<status, pass, served, deploys, opening, settings, cancels, recs, ended>>
    BY <1>2 DEF Operational, Writes
  <2>2. AppTypeOK' /\ InOrder' /\ spec.gen <= spec'.gen
    BY <1>1, <1>2, <2>1, GrownOrder
  <2>. QED BY <2>1, <2>2, Undisturbed, AppSteps
<1>3. ASSUME spec.gen < MaxGen
      PROVE  Grown(Scaled(spec)) /\ \A b \in BOOLEAN : Grown(SuspensionSet(spec, b))
  BY <1>1, <1>3, RequestsGrow
<1>4. CASE Scale
  BY <1>2, <1>3, <1>4 DEF Scale, Operational
<1>5. CASE Suspend \/ Resume
  <2>1. PICK b \in BOOLEAN : Operational(SuspensionSet(spec, b))
    BY <1>5 DEF Suspend, Resume
  <2>. QED BY <1>2, <1>3, <2>1 DEF Operational
<1>6. CASE SettingsRead
  BY <1>6, Undisturbed, AppSteps DEF SettingsRead
<1>7. CASE DropOpened
  BY <1>7, Undisturbed, AppSteps DEF DropOpened
<1>. QED BY <1>4, <1>5, <1>6, <1>7

(* The App's first row, and the row of a release that was opened. *)
LEMMA InsertsInv ==
  ASSUME IInv, (~Created /\ CreateApp) \/ InsertOpened
  PROVE  IInv'
<1>1. spec.gen \in Nat \ {0} /\ MaxGen \in Nat \ {0} /\ TriggersAssumption
  BY TableIsStore, TriggersAssumption DEF Generations
<1>2. CASE ~Created /\ CreateApp
  <2>1. 1 \in Generations /\ 1 <= spec.gen /\ deploys[1] = NoRow
    BY <1>1, <1>2 DEF Created, Generations
  <2>2. \A e \in opening : e.gen # 1
    BY DEF IInv, Filed
  <2>. QED BY <1>1, <1>2, <2>1, <2>2, InsertSteps DEF CreateApp, TriggersAssumption
<1>3. CASE InsertOpened
  <2>1. PICK e \in opening :
          /\ deploys' = InsertRow(deploys, e.gen, e.gen, e.trigger)
          /\ opening' = opening \ {e}
          /\ UNCHANGED <<spec, status, pass, settings, cancels, recs, served, ended>>
    BY <1>3 DEF InsertOpened
  <2>2. PICK g, trigger : g = e.gen /\ trigger = e.trigger
    OBVIOUS
  <2>3. g \in Generations /\ trigger \in Triggers
    BY <2>2 DEF IInv, TypeOK, Releases
  <2>4. g <= spec.gen /\ deploys[g] = NoRow /\ \A f \in opening : f.gen = g => f = e
    BY <1>1, <2>2 DEF IInv, Filed
  <2>5. \A f \in opening' : f.gen # g
    BY <2>1, <2>4
  <2>6. deploys' = InsertRow(deploys, g, g, trigger)
    BY <2>1, <2>2
  <2>. QED BY <2>1, <2>3, <2>4, <2>5, <2>6, InsertSteps
<1>. QED BY <1>2, <1>3

(* A status the table lets a row reach, as an effect on the whole table.   *)
LEMMA TransitionMoves ==
  ASSUME IInv, NEW g \in Generations, deploys[g] # NoRow, NEW s \in Statuses,
         deploys' = TransitionRow(deploys, g, s)
  PROVE  Moves(Generations, Generations, deploys, deploys', g, s)
<1>1. SoundStore(Generations, Generations, deploys) /\ Generations \in SUBSET (Nat \ {0})
  BY TableIsStore
<1>2. PICK t, u : t = deploys /\ u = deploys'
  OBVIOUS
<1>3. t[g] # NoRow /\ u = TransitionRow(t, g, s)
  BY <1>2
<1>4. Moves(Generations, Generations, t, u, g, s)
  BY <1>1, <1>2, <1>3, TransitionEffect
<1>. QED BY <1>2, <1>4

(* Rows that moved are still there, and no others are. *)
LEMMA RowsStay ==
  ASSUME NEW d, NEW s, Moves(Generations, Generations, deploys, deploys', d, s)
  PROVE  \A g \in Generations : deploys[g] # NoRow <=> deploys'[g] # NoRow
<1> SUFFICES ASSUME NEW g \in Generations PROVE deploys[g] # NoRow <=> deploys'[g] # NoRow
  OBVIOUS
<1>1. PICK v : v = IF g = d THEN s ELSE ""
  OBVIOUS
<1>2. Follows(deploys[g], deploys'[g], v)
  BY <1>1 DEF Moves
<1>. QED BY <1>2 DEF Follows

(* Cancel requests. *)
LEMMA CancelsInv ==
  ASSUME IInv, NEW c \in Cancelers,
         \/ \E d \in Generations : CancelReads(c, d)
         \/ CancelStamps(c) \/ CancelCloses(c)
  PROVE  IInv'
<1>1. /\ cancels \in [Cancelers -> CancelRequests \cup {NoCancel}]
      /\ \A b \in Cancelers : cancels[b] # NoCancel => deploys[cancels[b].gen] # NoRow
  BY DEF IInv, TypeOK, Filed
<1>2. MaxGen \in Nat \ {0} /\ Generations \in SUBSET (Nat \ {0})
      /\ AppTypeOK /\ InOrder /\ spec.gen \in Generations
  BY TableIsStore, Undisturbed
<1>3. ASSUME NEW d \in Generations, CancelReads(c, d) PROVE IInv'
  <2>1. PICK survivor \in IF Survivors(d) = {} THEN {0} ELSE Survivors(d) :
          cancels' = [cancels EXCEPT ![c] = [at |-> "read", gen |-> d, survivor |-> survivor]]
    BY <1>3 DEF CancelReads
  <2>2. survivor \in 0..MaxGen
    <3>1. DOMAIN deploys = Generations
      BY DEF IInv, TypeOK
    <3>. QED BY <1>2, <2>1, <3>1 DEF Survivors, ActiveRows, OpenRows, Generations
  <2>3. PICK q : q = [at |-> "read", gen |-> d, survivor |-> survivor]
    OBVIOUS
  <2>4. q \in CancelRequests /\ q.gen = d /\ cancels' = [cancels EXCEPT ![c] = q]
    BY <2>1, <2>2, <2>3 DEF CancelRequests
  <2>5. deploys[d] # NoRow
    BY <1>3 DEF CancelReads, IsOpen, NoRow, OpenStatuses
  <2>6. UNCHANGED <<spec, status, pass, deploys, opening, settings, recs, served, ended>>
    BY <1>3 DEF CancelReads
  <2>7. CancelsSound'
    BY <1>1, <2>4, <2>5, <2>6 DEF CancelsSound, CancelsFiled
  <2>. QED BY <2>6, <2>7, Undisturbed, AppSteps
<1>4. ASSUME cancels[c].at \in {"read", "stamped"}
      PROVE  /\ cancels[c] \in CancelRequests /\ deploys[cancels[c].gen] # NoRow
             /\ cancels[c].gen \in Generations /\ cancels[c].survivor \in 0..MaxGen
             /\ cancels[c].gen <= spec.gen
  <2>1. cancels[c] \in CancelRequests
    BY <1>1, <1>4 DEF NoCancel
  <2>2. cancels[c] # NoCancel
    BY <1>4 DEF NoCancel
  <2>. QED BY <1>1, <2>1, <2>2 DEF CancelRequests, IInv, Filed
<1>5. CASE CancelStamps(c)
  <2>1. PICK recommits \in BOOLEAN :
          Writes(ReleaseCanceled(spec, cancels[c].gen, cancels[c].survivor, recommits))
    BY <1>5 DEF CancelStamps
  <2>2. /\ cancels[c].at = "read" /\ cancels' = [cancels EXCEPT ![c].at = "stamped"]
        /\ ended' = ended \cup {[gen |-> cancels[c].gen, by |-> "cancel"]}
        /\ UNCHANGED <<deploys, opening, settings, recs>>
    BY <1>5 DEF CancelStamps
  <2>3. PICK g, survivor, a : /\ g = cancels[c].gen /\ survivor = cancels[c].survivor
                              /\ a = ReleaseCanceled(spec, cancels[c].gen, cancels[c].survivor, recommits)
    OBVIOUS
  <2>4. g \in Generations /\ g <= spec.gen /\ survivor \in 0..MaxGen
    BY <1>4, <2>2, <2>3
  <2>5. Grown(ReleaseCanceled(spec, g, survivor, recommits))
    BY <1>2, <2>4, CancelGrows
  <2>6. Grown(a) /\ spec' = a /\ UNCHANGED <<status, pass, served>>
    BY <2>1, <2>3, <2>5 DEF Writes
  <2>7. AppTypeOK' /\ InOrder' /\ spec.gen <= spec'.gen
    BY <1>2, <2>6, GrownOrder
  <2>8. CancelsSound'
    <3>1. PICK q \in CancelRequests : q = cancels[c]
      BY <1>4, <2>2
    <3>2. cancels' = [cancels EXCEPT ![c] = [q EXCEPT !.at = "stamped"]]
      BY <1>1, <2>2, <3>1
    <3>3. [q EXCEPT !.at = "stamped"] \in CancelRequests
          /\ [q EXCEPT !.at = "stamped"].gen = cancels[c].gen
      BY <3>1 DEF CancelRequests
    <3>. QED BY <1>1, <1>4, <2>2, <3>2, <3>3 DEF CancelsSound, CancelsFiled
  <2>9. (ended \subseteq Ends)'
    BY <2>2, <2>3, <2>4, Undisturbed DEF Ends
  <2>. QED BY <2>2, <2>6, <2>7, <2>8, <2>9, Undisturbed, AppSteps
<1>6. CASE CancelCloses(c)
  <2>1. /\ cancels[c].at = "stamped"
        /\ deploys' = TransitionRow(deploys, cancels[c].gen, "canceled")
        /\ cancels' = [cancels EXCEPT ![c] = NoCancel]
        /\ UNCHANGED <<spec, status, pass, opening, settings, recs, served, ended>>
    BY <1>6 DEF CancelCloses
  <2>2. PICK g : g = cancels[c].gen
    OBVIOUS
  <2>3. g \in Generations /\ deploys[g] # NoRow /\ deploys' = TransitionRow(deploys, g, "canceled")
    BY <1>4, <2>1, <2>2
  <2>4. PICK s \in Statuses : s = "canceled"
    BY DEF Statuses, TerminalStatuses
  <2>5. Moves(Generations, Generations, deploys, deploys', g, s)
    BY <2>3, <2>4, TransitionMoves
  <2>6. CancelsSound'
    <3>1. \A b \in Cancelers : cancels[b] # NoCancel => cancels[b].gen \in Generations
      BY <1>1 DEF CancelRequests
    <3>. QED BY <1>1, <2>1, <2>5, <3>1, RowsStay DEF CancelsSound, CancelsFiled
  <2>7. RecsSound'
    BY <2>1, <2>5, RowsStay, RecsKept
  <2>. QED BY <2>1, <2>3, <2>4, <2>5, <2>6, <2>7, TableSteps
<1>. QED BY <1>3, <1>5, <1>6

(* Passes of the operator. *)
LEMMA OperatorInv ==
  ASSUME IInv, PassBegins \/ PassAbandons \/ PassEnds
  PROVE  IInv' /\ status'.active >= status.active
<1>1. /\ AppTypeOK /\ InOrder /\ spec \in Specs /\ status \in AppStatuses
      /\ status.active \in Nat /\ MaxGen \in Nat \ {0}
  BY Undisturbed, AppReleaseAssumption DEF AppStatuses
<1>2. AppTypeOK' /\ InOrder' /\ spec' = spec /\ status'.active >= status.active
  <2>1. CASE PassBegins
    <3>1. pass' = spec /\ UNCHANGED <<spec, status>>
      BY <2>1 DEF PassBegins, Operates, BeginPass
    <3>2. spec.gen \in Nat /\ spec.stamp \in 1..spec.gen
      BY <1>1 DEF InOrder, Specs, Generations
    <3>. QED BY <1>1, <3>1, <3>2 DEF AppTypeOK, InOrder
  <2>2. CASE PassAbandons
    BY <1>1, <2>2 DEF PassAbandons, Operates, AbandonPass, AppTypeOK, InOrder
  <2>3. CASE PassEnds
    <3>1. Operate
      BY <2>3 DEF PassEnds, Operates
    <3>2. PassOutcome
      BY <1>1, <3>1, OperateOutcome
    <3>. QED BY <1>1, <3>2, OutcomeOrder DEF PassOutcome
  <2>. QED BY <2>1, <2>2, <2>3
<1>3. /\ served' = served \cup ({status'.active} \ {0})
      /\ UNCHANGED <<deploys, opening, settings, cancels, recs, ended>>
  BY DEF PassBegins, PassAbandons, PassEnds, Operates
<1>4. status'.active \in 0..MaxGen
  BY <1>2 DEF AppTypeOK, AppStatuses
<1>5. /\ served \subseteq served' /\ served' \subseteq Generations
      /\ status'.active \in served' \cup {0}
  BY <1>1, <1>3, <1>4, Undisturbed DEF Generations
<1>6. spec.gen <= spec'.gen
  BY <1>1, <1>2 DEF Specs, Generations
<1>7. CancelsSound' /\ RecsSound' /\ (ended \subseteq Ends)'
  BY <1>3, <1>5, Undisturbed
<1>8. opening' \subseteq opening /\ settings' \subseteq settings \cup {spec.gen}
      /\ (settings' # {} => StaleSettings)
  BY <1>3, Undisturbed
<1>. QED BY <1>2, <1>3, <1>5, <1>6, <1>7, <1>8, AppSteps

(* What a pass reads of the App is a sound reading, the cancel a pass      *)
(* stamped itself included.                                                *)
LEMMA SeenShows ==
  ASSUME IInv, NEW a \in Specs
  PROVE  Seen(a, status) \in Snapshots /\ Shows(Seen(a, status), served)
<1>1. status \in AppStatuses /\ InOrder /\ status.active \in served \cup {0}
  BY Undisturbed
<1>2. Seen(a, status) \in Snapshots
  BY <1>1 DEF Seen, Snapshots, Specs, AppStatuses
<1>3. /\ Seen(a, status).active = status.active /\ Seen(a, status).rel = status.rel
      /\ Seen(a, status).phase = status.phase
  BY DEF Seen
<1>. QED BY <1>1, <1>2, <1>3 DEF Shows, InOrder

(* The outcome of a canceled release's step, if the App has one. *)
LEMMA SettledSound ==
  ASSUME NEW app \in Snapshots
  PROVE  /\ Settled(app) \in Settlements
         /\ Settled(app).step # "none" => Settled(app).gen # 0
<1>1. app.cancel \in 0..MaxGen /\ 0 \in 0..MaxGen
  BY AppReleaseAssumption DEF Snapshots
<1>2. PICK step : step = StepOf(app, app.cancel)
  OBVIOUS
<1>3. CASE app.cancel # 0 /\ step \in {"succeeded", "failed"}
  <2>1. Settled(app) = [gen |-> app.cancel, step |-> step]
    BY <1>2, <1>3 DEF Settled
  <2>. QED BY <1>1, <1>3, <2>1 DEF Settlements
<1>4. CASE ~(app.cancel # 0 /\ step \in {"succeeded", "failed"})
  <2>1. Settled(app) = [gen |-> 0, step |-> "none"]
    BY <1>2, <1>4 DEF Settled
  <2>. QED BY <1>1, <2>1 DEF Settlements
<1>. QED BY <1>3, <1>4

(* What is left to do of a sound list is a sound pass. *)
LEMMA RecordingSound ==
  ASSUME NEW todo \in Seq(Judgements), Len(todo) <= 2, NEW table, NEW known,
         \A i \in 1..Len(todo) : Founded(todo[i], table, known),
         NEW settle \in Settlements, settle.step # "none" => settle.gen # 0
  PROVE  /\ Recording(todo, settle) \in Recordings \cup {NoRecord}
         /\ Sound(Recording(todo, settle), table, known)
<1>1. CASE todo = <<>> /\ settle.step = "none"
  <2>1. Recording(todo, settle) = NoRecord
    BY <1>1 DEF Recording
  <2>. QED BY <2>1 DEF Sound, NoRecord
<1>2. CASE ~(todo = <<>> /\ settle.step = "none")
  <2>1. PICK rec : rec = [at |-> "recording", todo |-> todo, settle |-> settle]
    OBVIOUS
  <2>2. Recording(todo, settle) = rec
    BY <1>2, <2>1 DEF Recording
  <2>3. rec \in Recordings /\ rec.at = "recording" /\ rec.todo = todo /\ rec.settle = settle
    BY <2>1 DEF Recordings
  <2>. QED BY <1>2, <2>2, <2>3 DEF Sound
<1>. QED BY <1>1, <1>2

(* A list without its head is sound if the list was. *)
LEMMA TailSound ==
  ASSUME NEW todo \in Seq(Judgements), todo # <<>>, Len(todo) <= 2, NEW table, NEW known,
         \A i \in 1..Len(todo) : Founded(todo[i], table, known)
  PROVE  /\ Tail(todo) \in Seq(Judgements) /\ Len(Tail(todo)) <= 2
         /\ \A i \in 1..Len(Tail(todo)) : Founded(Tail(todo)[i], table, known)
<1>1. Len(todo) \in 1..2 /\ Tail(todo) \in Seq(Judgements) /\ Len(Tail(todo)) = Len(todo) - 1
  <2>1. Len(todo) \in Nat \ {0}
    BY EmptySeq
  <2>2. Tail(todo) \in Seq(Judgements) /\ Len(Tail(todo)) = Len(todo) - 1
    BY HeadTailProperties
  <2>. QED BY <2>1, <2>2
<1>2. \A i \in 1..Len(Tail(todo)) : Tail(todo)[i] = todo[i + 1] /\ i + 1 \in 1..Len(todo)
  BY <1>1
<1>. QED BY <1>1, <1>2

(* The open rows are as few as the indexes allow. *)
LEMMA ListedFew ==
  ASSUME IInv
  PROVE  /\ ListedRows \in SUBSET ListedRecords /\ Few(ListedRows)
         /\ \A row \in ListedRows : deploys[row.gen] # NoRow
<1>1. /\ deploys \in Table(Generations, Generations) /\ DOMAIN deploys = Generations
      /\ Indexed(deploys) /\ PendingNewest(deploys) /\ Generations \in SUBSET (Nat \ {0})
  BY TableIsStore DEF SoundStore, Table
<1> DEFINE rec(d) == [status |-> deploys[d].status, gen |-> d, overlap |-> deploys[d].overlap]
<1>2. ListedRows = {rec(d) : d \in OpenRows(deploys)}
  BY DEF ListedRows
<1>3. ASSUME NEW d \in OpenRows(deploys)
      PROVE  /\ d \in Generations /\ rec(d) \in ListedRecords /\ rec(d).gen = d
             /\ deploys[d] # NoRow
             /\ d \in ActiveRows(deploys) \cup PendingRows(deploys)
  <2>1. d \in Generations /\ deploys[d].status \in OpenStatuses
    BY <1>1, <1>3 DEF OpenRows, IsOpen
  <2>2. deploys[d] # NoRow
    BY <2>1 DEF NoRow, OpenStatuses
  <2>3. deploys[d] \in RowsOver(Generations)
    BY <1>1, <2>1, <2>2 DEF Table
  <2>4. deploys[d].overlap => deploys[d].status = "queued"
    BY <1>1, <2>1 DEF Indexed
  <2>. QED BY <1>1, <1>3, <2>1, <2>2, <2>3, <2>4
           DEF ListedRecords, RowsOver, ActiveRows, PendingRows
<1>4. ListedRows \in SUBSET ListedRecords /\ \A row \in ListedRows : deploys[row.gen] # NoRow
  BY <1>2, <1>3
<1>5. /\ \A x, y \in ActiveRows(deploys) : x = y
      /\ \A x, y \in PendingRows(deploys) : x = y
      /\ \A p \in PendingRows(deploys), a \in OpenRows(deploys) : a # p => a < p
  <2>1. \A p \in PendingRows(deploys), a \in OpenRows(deploys) :
          a # p => deploys[a].gen < deploys[p].gen
    BY <1>1 DEF PendingNewest
  <2>2. \A d \in Generations : deploys[d] # NoRow => deploys[d].gen = d
    BY DEF IInv, Filed
  <2>3. PendingRows(deploys) \subseteq OpenRows(deploys)
    BY DEF PendingRows, OpenRows, IsOpen, OpenStatuses
  <2>4. \A d \in OpenRows(deploys) : deploys[d].gen = d
    BY <1>3, <2>2
  <2>5. \A p \in PendingRows(deploys), a \in OpenRows(deploys) : a # p => a < p
    BY <2>1, <2>3, <2>4
  <2>. QED BY <1>1, <2>5 DEF Indexed, AtMostOne
<1>6. CASE OpenRows(deploys) = {}
  BY <1>2, <1>6 DEF Few
<1>7. ASSUME NEW d \in OpenRows(deploys), \A e \in OpenRows(deploys) : e = d
      PROVE  Few(ListedRows)
  <2>1. OpenRows(deploys) = {d}
    BY <1>7
  <2>2. ListedRows = {rec(d)}
    BY <1>2, <2>1
  <2>. QED BY <2>2 DEF Few
<1>8. ASSUME NEW d \in OpenRows(deploys), NEW e \in OpenRows(deploys), d # e
      PROVE  Few(ListedRows)
  <2>1. PICK a \in OpenRows(deploys), p \in PendingRows(deploys) :
          OpenRows(deploys) = {a, p} /\ a # p
    <3>1. \A x \in OpenRows(deploys) : x \in ActiveRows(deploys) \/ x \in PendingRows(deploys)
      BY <1>3
    <3>2. PICK p \in PendingRows(deploys) : p \in {d, e}
      BY <1>5, <1>8, <3>1
    <3>3. PICK a \in {d, e} : a # p
      BY <1>8
    <3>4. a \in ActiveRows(deploys) /\ a \in OpenRows(deploys)
      BY <1>5, <3>1, <3>2, <3>3
    <3>5. \A x \in OpenRows(deploys) : x = a \/ x = p
      BY <1>5, <3>1, <3>4
    <3>6. p \in OpenRows(deploys)
      BY <3>2
    <3>. QED BY <3>3, <3>4, <3>5, <3>6
  <2>2. p \in OpenRows(deploys) /\ a < p
    BY <1>5, <2>1
  <2>3. ListedRows = {rec(a), rec(p)} /\ rec(a).gen < rec(p).gen
    BY <1>2, <1>3, <2>1, <2>2
  <2>4. PICK x, y : x = rec(a) /\ y = rec(p)
    OBVIOUS
  <2>. QED BY <2>3, <2>4 DEF Few
<1>. QED BY <1>4, <1>6, <1>7, <1>8

(* A pass in progress, and the rows it holds. *)
LEMMA BusyFacts ==
  ASSUME IInv, NEW r \in Reconcilers, recs[r].at = "recording"
  PROVE  /\ recs[r].todo \in Seq(Judgements) /\ Len(recs[r].todo) <= 2
         /\ \A i \in 1..Len(recs[r].todo) : Founded(recs[r].todo[i], deploys, served)
         /\ recs[r].settle \in Settlements
         /\ recs[r].settle.step # "none" => recs[r].settle.gen # 0
         /\ recs[r].todo = <<>> => recs[r].settle.step # "none"
         /\ recs[r] = [at |-> "recording", todo |-> recs[r].todo, settle |-> recs[r].settle]
         /\ recs[r].todo # <<>> =>
              /\ Current(r) \in Judgements /\ Founded(Current(r), deploys, served)
              /\ Current(r).row.gen \in Generations /\ Current(r).row \in ListedRecords
<1>1. PICK rec : rec = recs[r]
  OBVIOUS
<1>2. rec \in Recordings /\ rec.at = "recording" /\ Sound(rec, deploys, served)
  BY <1>1 DEF IInv, TypeOK, NoRecord
<1>3. /\ rec.todo \in Seq(Judgements) /\ rec.settle \in Settlements
      /\ rec = [at |-> "recording", todo |-> rec.todo, settle |-> rec.settle]
  BY <1>2 DEF Recordings
<1>4. /\ Len(rec.todo) <= 2
      /\ \A i \in 1..Len(rec.todo) : Founded(rec.todo[i], deploys, served)
      /\ rec.settle.step # "none" => rec.settle.gen # 0
      /\ rec.todo = <<>> => rec.settle.step # "none"
  BY <1>2 DEF Sound
<1>5. ASSUME rec.todo # <<>>
      PROVE  /\ Head(rec.todo) \in Judgements /\ Founded(Head(rec.todo), deploys, served)
             /\ Head(rec.todo).row.gen \in Generations /\ Head(rec.todo).row \in ListedRecords
  <2>1. Len(rec.todo) \in Nat \ {0}
    BY <1>3, <1>5, EmptySeq
  <2>2. Head(rec.todo) = rec.todo[1] /\ 1 \in 1..Len(rec.todo)
    BY <1>3, <1>5, <2>1
  <2>3. PICK j : j = rec.todo[1]
    OBVIOUS
  <2>4. j \in Judgements /\ Founded(j, deploys, served)
    BY <1>3, <1>4, <2>2, <2>3
  <2>5. j.row \in ListedRecords /\ j.row.gen \in Generations
    BY <2>4 DEF Judgements, ListedRecords
  <2>. QED BY <2>2, <2>3, <2>4, <2>5
<1>. QED BY <1>1, <1>3, <1>4, <1>5 DEF Current

(* A step of a pass that leaves the App and the table alone. *)
LEMMA QuietRecord ==
  ASSUME IInv, NEW r \in Reconcilers, NEW rec \in Recordings \cup {NoRecord},
         recs' = [recs EXCEPT ![r] = rec], Sound(rec, deploys, served),
         UNCHANGED <<spec, status, pass, deploys, opening, settings, cancels, served, ended>>
  PROVE  IInv'
<1>1. Sound(rec, deploys', served')
  BY Zenon
<1>2. RecsSound'
  BY <1>1, RecsMove
<1>. QED BY <1>2, Undisturbed, AppSteps

(* A pass lists the App and the rows, loses its stamp, or dies. *)
LEMMA RecordReadsInv ==
  ASSUME IInv, NEW r \in Reconcilers,
         RecordLists(r) \/ RecordReadsRows(r) \/ RecordStampLost(r) \/ RecordDies(r)
  PROVE  IInv'
<1>0. spec \in Specs
  BY Undisturbed
<1>1. CASE RecordLists(r)
  <2>1. PICK rec : rec = [at |-> "listed", app |-> Seen(spec, status)]
    OBVIOUS
  <2>2. rec \in Recordings /\ Sound(rec, deploys, served)
    BY <1>0, <2>1, SeenShows DEF Recordings, Sound
  <2>. QED BY <1>1, <2>1, <2>2, QuietRecord DEF RecordLists
<1>2. CASE RecordReadsRows(r)
  <2>1. recs[r].at = "listed"
    BY <1>2 DEF RecordReadsRows
  <2>2. PICK app : app = recs[r].app
    OBVIOUS
  <2>3. app \in Snapshots /\ Shows(app, served)
    <3>1. recs[r] \in Recordings \cup {NoRecord} /\ Sound(recs[r], deploys, served)
      BY DEF IInv, TypeOK
    <3>. QED BY <2>1, <2>2, <3>1 DEF Recordings, NoRecord, Sound
  <2>4. PICK todo \in Queues(ListedRows, app) :
          recs' = [recs EXCEPT ![r] = Recording(todo, Settled(@.app))]
    BY <1>2, <2>2 DEF RecordReadsRows
  <2>5. recs' = [recs EXCEPT ![r] = Recording(todo, Settled(app))]
    BY <2>2, <2>4
  <2>6. /\ todo \in Seq(Judgements) /\ Len(todo) <= 2
        /\ \A i \in 1..Len(todo) : Founded(todo[i], deploys, served)
    BY <2>3, ListedFew, QueuesSound, AppReleaseAssumption
  <2>7. PICK settle \in Settlements : /\ settle = Settled(app)
                                      /\ settle.step # "none" => settle.gen # 0
    BY <2>3, SettledSound
  <2>8. PICK rec : rec = Recording(todo, settle)
    OBVIOUS
  <2>9. rec \in Recordings \cup {NoRecord} /\ Sound(rec, deploys, served)
    BY <2>6, <2>7, <2>8, RecordingSound
  <2>. QED BY <1>2, <2>5, <2>7, <2>8, <2>9, QuietRecord DEF RecordReadsRows
<1>3. CASE RecordStampLost(r)
  <2>1. recs[r].at = "recording" /\ recs[r].todo # <<>>
    BY <1>3 DEF RecordStampLost, Busy
  <2>2. PICK rest : rest = Tail(recs[r].todo)
    OBVIOUS
  <2>3. /\ rest \in Seq(Judgements) /\ Len(rest) <= 2
        /\ \A i \in 1..Len(rest) : Founded(rest[i], deploys, served)
    BY <2>1, <2>2, BusyFacts, TailSound
  <2>4. PICK settle \in Settlements : /\ settle = recs[r].settle
                                      /\ settle.step # "none" => settle.gen # 0
    BY <2>1, BusyFacts
  <2>5. PICK rec : rec = Recording(rest, settle)
    OBVIOUS
  <2>6. rec \in Recordings \cup {NoRecord} /\ Sound(rec, deploys, served)
    BY <2>3, <2>4, <2>5, RecordingSound
  <2>. QED BY <1>3, <2>2, <2>4, <2>5, <2>6, QuietRecord DEF RecordStampLost, Continues
<1>4. CASE RecordDies(r)
  BY <1>4, QuietRecord DEF RecordDies, Sound, NoRecord
<1>. QED BY <1>1, <1>2, <1>3, <1>4

(* The rows that a pass has still to record, after the first.              *)
LaterRows(todo) == {j.row : j \in {todo[i] : i \in 2..Len(todo)}}

(* There is at most one, and it is still there.                            *)
LEMMA RestRows ==
  ASSUME IInv, NEW r \in Reconcilers, recs[r].at = "recording", recs[r].todo # <<>>,
         NEW rows, rows = LaterRows(recs[r].todo)
  PROVE  /\ rows \in SUBSET ListedRecords /\ (\A b \in rows : deploys[b.gen] # NoRow)
         /\ (\A b, c \in rows : b = c) /\ Few(rows)
<1>1. PICK todo \in Seq(Judgements) : todo = recs[r].todo /\ Len(todo) <= 2
  BY BusyFacts
<1>2. Len(todo) \in 0..2
  <2>1. PICK n \in Nat : n = Len(todo)
    OBVIOUS
  <2>2. n <= 2
    BY <1>1, <2>1
  <2>3. n \in 0..2
    BY <2>2
  <2>. QED BY <2>1, <2>3
<1>3. \A i \in 2..Len(todo) : i = 2 /\ todo[2] \in Judgements /\ Founded(todo[2], deploys, served)
  <2>1. \A i \in 1..Len(todo) : Founded(todo[i], deploys, served)
    BY <1>1, BusyFacts
  <2>2. \A i \in 1..Len(todo) : todo[i] \in Judgements
    OBVIOUS
  <2>. QED BY <1>2, <2>1, <2>2
<1>4. \A b \in rows : b = todo[2].row /\ b \in ListedRecords /\ deploys[b.gen] # NoRow
  <2>1. \A j \in Judgements : j.row \in ListedRecords
    BY DEF Judgements
  <2>. QED BY <1>1, <1>3, <2>1 DEF Founded, LaterRows
<1>. QED BY <1>4 DEF Few

(* A pass stamps the release a suspend ended, and judges the rest afresh.  *)
LEMMA RecordStampsInv ==
  ASSUME IInv, NEW r \in Reconcilers, RecordStamps(r)
  PROVE  IInv'
<1>1. recs[r].at = "recording" /\ recs[r].todo # <<>>
  BY DEF RecordStamps, Busy
<1>2. PICK todo \in Seq(Judgements) : todo = recs[r].todo /\ Len(todo) <= 2
  BY <1>1, BusyFacts
<1>3. PICK row : row = Current(r).row
  OBVIOUS
<1>4. row \in ListedRecords /\ row.gen \in Generations /\ deploys[row.gen] # NoRow
  BY <1>1, <1>3, BusyFacts DEF Founded
<1>5. /\ AppTypeOK /\ InOrder /\ MaxGen \in Nat \ {0} /\ row.gen <= spec.gen
      /\ row.gen \in Generations /\ 0 \in 0..MaxGen /\ FALSE \in BOOLEAN
  BY <1>4, Undisturbed, TableIsStore DEF IInv, Filed
<1>6. PICK g : g = row.gen
  OBVIOUS
<1>7. Writes(ReleaseCanceled(spec, g, 0, FALSE)) /\ Grown(ReleaseCanceled(spec, g, 0, FALSE))
  BY <1>3, <1>5, <1>6, CancelGrows DEF RecordStamps
<1>8. PICK a : a = ReleaseCanceled(spec, g, 0, FALSE)
  OBVIOUS
<1>9. Grown(a) /\ spec' = a /\ UNCHANGED <<status, pass, served>>
  BY <1>7, <1>8 DEF Writes
<1>10. AppTypeOK' /\ InOrder' /\ spec.gen <= spec'.gen
  BY <1>5, <1>9, GrownOrder
<1>11. PICK app : app = Seen(a, status)
  OBVIOUS
<1>12. app \in Snapshots /\ Shows(app, served)
  BY <1>9, <1>11, SeenShows DEF Grown
<1>13. PICK rows : rows = {j.row : j \in {todo[i] : i \in 2..Len(todo)}}
  OBVIOUS
<1>14. PICK rest \in Queues(rows, app) :
         Continues(r, <<[row |-> row, stamps |-> FALSE, verdict |-> "canceled",
                         step |-> StepToRecord(row, app)]>> \o rest,
                   Settled(app))
  BY <1>2, <1>3, <1>9, <1>11, <1>13 DEF RecordStamps
<1>15. /\ rest \in Seq(Judgements) /\ Len(rest) <= 1
       /\ \A i \in 1..Len(rest) : Founded(rest[i], deploys, served)
  <2>1. /\ rows \in SUBSET ListedRecords /\ (\A b \in rows : deploys[b.gen] # NoRow)
        /\ (\A b, c \in rows : b = c) /\ Few(rows)
    <3>1. rows = LaterRows(recs[r].todo)
      BY <1>2, <1>13 DEF LaterRows
    <3>. QED BY <1>1, <3>1, RestRows
  <2>. QED BY <1>12, <2>1, QueuesSound, AppReleaseAssumption
<1>16. PICK j : j = [row |-> row, stamps |-> FALSE, verdict |-> "canceled",
                     step |-> StepToRecord(row, app)]
  OBVIOUS
<1>17. j \in Judgements /\ Founded(j, deploys, served)
  <2>1. StepToRecord(row, app) \in {"none", "running", "succeeded", "failed"}
    BY <1>12 DEF StepToRecord, StepOf, Snapshots
  <2>2. j \in Judgements /\ j.row = row /\ j.verdict = "canceled"
    BY <1>4, <1>16, <2>1 DEF Judgements, Statuses, TerminalStatuses
  <2>. QED BY <1>4, <2>2 DEF Founded, Due, Waiting
<1>18. PICK all : all = <<j>> \o rest
  OBVIOUS
<1>19. /\ all \in Seq(Judgements) /\ Len(all) <= 2
       /\ \A i \in 1..Len(all) : Founded(all[i], deploys, served)
  <2>1. <<j>> \in Seq(Judgements) /\ Len(<<j>>) = 1 /\ <<j>>[1] = j /\ Len(rest) \in 0..1
    <3>1. Len(rest) \in Nat
      BY <1>15
    <3>. QED BY <1>15, <1>17, <3>1
  <2>2. all \in Seq(Judgements) /\ Len(all) = 1 + Len(rest)
        /\ \A i \in 1..Len(all) : all[i] = IF i <= 1 THEN <<j>>[i] ELSE rest[i - 1]
    BY <1>15, <1>18, <2>1, ConcatProperties
  <2>3. ASSUME NEW i \in 1..Len(all) PROVE Founded(all[i], deploys, served)
    <3>1. CASE i = 1
      BY <1>17, <2>1, <2>2, <3>1
    <3>2. CASE i # 1
      BY <1>15, <2>1, <2>2, <3>2
    <3>. QED BY <3>1, <3>2
  <2>. QED BY <2>1, <2>2, <2>3
<1>20. PICK settle \in Settlements : /\ settle = Settled(app)
                                     /\ settle.step # "none" => settle.gen # 0
  BY <1>12, SettledSound
<1>21. PICK rec : rec = Recording(all, settle)
  OBVIOUS
<1>22. rec \in Recordings \cup {NoRecord} /\ Sound(rec, deploys, served)
  BY <1>19, <1>20, <1>21, RecordingSound
<1>23. recs' = [recs EXCEPT ![r] = rec]
  BY <1>14, <1>16, <1>18, <1>20, <1>21 DEF Continues
<1>24. ended' = ended \cup {[gen |-> g, by |-> "suspend"]}
       /\ UNCHANGED <<deploys, opening, settings, cancels>>
  BY <1>3, <1>6 DEF RecordStamps
<1>25. RecsSound'
  <2>1. Sound(rec, deploys', served')
    BY <1>9, <1>22, <1>24, Zenon
  <2>. QED BY <1>9, <1>22, <1>23, <1>24, <2>1, RecsMove
<1>26. (ended \subseteq Ends)'
  BY <1>4, <1>6, <1>24, Undisturbed DEF Ends
<1>. QED BY <1>9, <1>10, <1>24, <1>25, <1>26, Undisturbed, AppSteps

(* A pass goes on to the rest of its list while rows move. *)
LEMMA PassGoesOn ==
  ASSUME IInv, NEW r \in Reconcilers, recs[r].at = "recording", recs[r].todo # <<>>,
         Continues(r, Tail(recs[r].todo), recs[r].settle),
         NEW d, NEW s, Moves(Generations, Generations, deploys, deploys', d, s),
         served' = served
  PROVE  RecsSound'
<1>1. PICK rest : rest = Tail(recs[r].todo)
  OBVIOUS
<1>2. PICK settle \in Settlements : /\ settle = recs[r].settle
                                    /\ settle.step # "none" => settle.gen # 0
  BY BusyFacts
<1>3. /\ rest \in Seq(Judgements) /\ Len(rest) <= 2
      /\ \A i \in 1..Len(rest) : Founded(rest[i], deploys, served)
  BY <1>1, BusyFacts, TailSound
<1>4. PICK rec : rec = Recording(rest, settle)
  OBVIOUS
<1>5. rec \in Recordings \cup {NoRecord} /\ Sound(rec, deploys, served)
  BY <1>2, <1>3, <1>4, RecordingSound
<1>6. \A g \in Generations : deploys[g] # NoRow => deploys'[g] # NoRow
  BY RowsStay
<1>7. Sound(rec, deploys', served) /\ recs' = [recs EXCEPT ![r] = rec]
  BY <1>1, <1>2, <1>4, <1>5, <1>6, SoundKept DEF Continues
<1>8. Sound(rec, deploys', served')
  BY <1>7, Zenon
<1>. QED BY <1>5, <1>6, <1>7, <1>8, RecsMove

(* Writes of the step column are moves without a verdict. *)
LEMMA StepColumnMoves ==
  ASSUME IInv, NEW d \in Generations, OnlyStepChanges(Generations, Generations, deploys, deploys')
  PROVE  Moves(Generations, Generations, deploys, deploys', d, "")
<1>1. SoundStore(Generations, Generations, deploys) /\ Generations \in SUBSET (Nat \ {0})
  BY TableIsStore
<1>2. PICK t, u : t = deploys /\ u = deploys'
  OBVIOUS
<1>3. OnlyStepChanges(Generations, Generations, t, u) /\ SoundStore(Generations, Generations, t)
  BY <1>1, <1>2
<1>4. Moves(Generations, Generations, t, u, d, "")
  BY <1>1, <1>3, StepColumnEffect
<1>. QED BY <1>2, <1>4

(* A pass records the outcome of a step on its row. *)
LEMMA RecordSetsStepMoves ==
  ASSUME IInv, NEW r \in Reconcilers, RecordSetsStep(r)
  PROVE  /\ Current(r).row.gen \in Generations /\ deploys[Current(r).row.gen] # NoRow
         /\ Current(r).step \in PreDeployStatuses \ {"none"}
         /\ Moves(Generations, Generations, deploys, deploys', Current(r).row.gen, "")
<1>1. recs[r].at = "recording" /\ recs[r].todo # <<>> /\ Current(r).step # "none"
  BY DEF RecordSetsStep, Busy
<1>2. PICK j \in Judgements : j = Current(r)
  BY <1>1, BusyFacts
<1>3. PICK g \in Generations, step \in PreDeployStatuses \ {"none"} :
        g = j.row.gen /\ step = j.step
  BY <1>1, <1>2 DEF Judgements, ListedRecords, PreDeployStatuses
<1>4. deploys[g] # NoRow /\ deploys' = PreDeploySet(deploys, g, step)
  BY <1>1, <1>2, <1>3, BusyFacts DEF RecordSetsStep, Founded
<1>5. /\ deploys \in Table(Generations, Generations) /\ SoundTable(Generations, deploys)
      /\ step \in PreDeployStatuses
  BY <1>3, TableIsStore DEF SoundStore
<1>6. OnlyStepChanges(Generations, Generations, deploys, PreDeploySet(deploys, g, step))
  BY <1>4, <1>5, PreDeploySetStep
<1>7. OnlyStepChanges(Generations, Generations, deploys, deploys')
  BY <1>4, <1>6
<1>. QED BY <1>2, <1>3, <1>4, <1>7, StepColumnMoves

(* A pass moves a row to the status it judged. *)
LEMMA RecordMovesRowMoves ==
  ASSUME IInv, NEW r \in Reconcilers, RecordMovesRow(r)
  PROVE  /\ Current(r).row.gen \in Generations /\ deploys[Current(r).row.gen] # NoRow
         /\ Current(r).verdict \in Statuses
         /\ Current(r).verdict = "live" => Current(r).row.gen \in served
         /\ Moves(Generations, Generations, deploys, deploys',
                  Current(r).row.gen, Current(r).verdict)
<1>1. /\ recs[r].at = "recording" /\ recs[r].todo # <<>>
      /\ ~Current(r).stamps /\ Current(r).step = "none"
  BY DEF RecordMovesRow, Busy
<1>2. PICK j \in Judgements : j = Current(r) /\ Founded(j, deploys, served)
  BY <1>1, BusyFacts
<1>3. PICK g \in Generations : g = j.row.gen
  BY <1>2 DEF Judgements, ListedRecords
<1>4. PICK s \in Statuses : s = j.verdict
  BY <1>1, <1>2 DEF Founded, Due, Judgements
<1>5. deploys[g] # NoRow /\ (s = "live" => g \in served)
  BY <1>2, <1>3, <1>4 DEF Founded
<1>6. deploys' = TransitionRow(deploys, g, s)
  BY <1>2, <1>3, <1>4 DEF RecordMovesRow
<1>. QED BY <1>2, <1>3, <1>4, <1>5, <1>6, TransitionMoves

(* A pass settles the step that a cancel left running. *)
LEMMA RecordSettlesStepMoves ==
  ASSUME IInv, NEW r \in Reconcilers, RecordSettlesStep(r)
  PROVE  /\ recs[r].settle.gen \in Generations
         /\ recs[r].settle.step \in {"succeeded", "failed"}
         /\ Moves(Generations, Generations, deploys, deploys', recs[r].settle.gen, "")
<1>1. recs[r].at = "recording" /\ recs[r].todo = <<>>
  BY DEF RecordSettlesStep
<1>2. PICK settle \in Settlements :
        settle = recs[r].settle /\ settle.step # "none" /\ settle.gen # 0
  BY <1>1, BusyFacts
<1>3. PICK g \in Generations, step \in {"succeeded", "failed"} :
        g = settle.gen /\ step = settle.step
  BY <1>2, AppReleaseAssumption DEF Settlements, Generations
<1>4. /\ deploys \in Table(Generations, Generations) /\ SoundTable(Generations, deploys)
  BY TableIsStore DEF SoundStore
<1>5. OnlyStepChanges(Generations, Generations, deploys, CanceledStepSettled(deploys, g, step))
  BY <1>4, CanceledStepSettledStep
<1>6. OnlyStepChanges(Generations, Generations, deploys, deploys')
  BY <1>2, <1>3, <1>5 DEF RecordSettlesStep
<1>. QED BY <1>2, <1>3, <1>6, StepColumnMoves

(* What a pass writes to the table keeps the invariant. *)
LEMMA RecordWritesInv ==
  ASSUME IInv, NEW r \in Reconcilers,
         RecordSetsStep(r) \/ RecordMovesRow(r) \/ RecordSettlesStep(r)
  PROVE  IInv'
<1>1. ASSUME NEW d \in Generations, NEW s, s = "live" => d \in served,
             Moves(Generations, Generations, deploys, deploys', d, s), RecsSound',
             UNCHANGED <<spec, status, pass, opening, settings, cancels, served, ended>>
      PROVE  IInv'
  <2>1. CancelsSound'
    <3>1. \A c \in Cancelers : cancels[c] # NoCancel => /\ cancels[c].gen \in Generations
                                                        /\ deploys[cancels[c].gen] # NoRow
      BY DEF IInv, TypeOK, CancelRequests, Filed
    <3>. QED BY <1>1, <3>1, RowsStay DEF CancelsSound, CancelsFiled, IInv, TypeOK
  <2>. QED BY <1>1, <2>1, TableSteps
<1>2. CASE RecordSetsStep(r)
  <2>1. PICK g \in Generations : /\ g = Current(r).row.gen
                                 /\ Moves(Generations, Generations, deploys, deploys', g, "")
    BY <1>2, RecordSetsStepMoves
  <2>2. /\ recs[r].at = "recording" /\ recs[r].todo # <<>>
        /\ UNCHANGED <<spec, status, pass, opening, settings, cancels, served, ended>>
    BY <1>2 DEF RecordSetsStep, Busy
  <2>3. CASE Current(r).verdict = Waiting
    <3>1. Continues(r, Tail(recs[r].todo), recs[r].settle)
      BY <1>2, <2>3 DEF RecordSetsStep
    <3>2. RecsSound'
      BY <2>1, <2>2, <3>1, PassGoesOn
    <3>. QED BY <1>1, <2>1, <2>2, <3>2
  <2>4. CASE Current(r).verdict # Waiting
    <3>1. recs' = [recs EXCEPT ![r].todo[1].step = "none"]
      BY <1>2, <2>4 DEF RecordSetsStep
    <3>2. PICK todo \in Seq(Judgements), settle \in Settlements :
            /\ recs[r] = [at |-> "recording", todo |-> todo, settle |-> settle]
            /\ Len(todo) <= 2 /\ todo # <<>>
            /\ \A i \in 1..Len(todo) : Founded(todo[i], deploys, served)
            /\ settle.step # "none" => settle.gen # 0
      BY <2>2, BusyFacts
    <3>3. todo[1].verdict # Waiting /\ Current(r) = todo[1]
      BY <2>4, <3>2 DEF Current
    <3>4. PICK all : all = [todo EXCEPT ![1].step = "none"]
      OBVIOUS
    <3>5. Len(todo) \in Nat \ {0} /\ 1 \in 1..Len(todo) /\ todo[1] \in Judgements
      <4>1. Len(todo) \in Nat \ {0}
        BY <3>2, EmptySeq
      <4>. QED BY <4>1
    <3>6. PICK j : j = [todo[1] EXCEPT !.step = "none"]
      OBVIOUS
    <3>7. j \in Judgements /\ j.row = todo[1].row /\ j.verdict = todo[1].verdict
      BY <3>5, <3>6 DEF Judgements
    <3>8. Founded(j, deploys, served)
      BY <3>2, <3>3, <3>5, <3>7 DEF Founded, Due
    <3>9. all = [todo EXCEPT ![1] = j]
      BY <3>4, <3>6
    <3>10. /\ all \in Seq(Judgements) /\ Len(all) = Len(todo)
           /\ \A i \in 1..Len(all) : all[i] = IF i = 1 THEN j ELSE todo[i]
      BY <3>5, <3>7, <3>9, ExceptSeq
    <3>11. \A i \in 1..Len(all) : Founded(all[i], deploys, served)
      BY <3>2, <3>8, <3>10
    <3>12. PICK rec : rec = [at |-> "recording", todo |-> all, settle |-> settle]
      OBVIOUS
    <3>13. recs' = [recs EXCEPT ![r] = rec]
      <4>1. recs' = [recs EXCEPT ![r] = [recs[r] EXCEPT !.todo =
                        [recs[r].todo EXCEPT ![1] = [recs[r].todo[1] EXCEPT !.step = "none"]]]]
        BY <3>1
      <4>2. recs[r].todo = todo
        BY <3>2
      <4>3. [recs[r] EXCEPT !.todo = all] = rec
        BY <3>2, <3>12
      <4>. QED BY <3>6, <3>9, <4>1, <4>2, <4>3
    <3>14. all # <<>>
      BY <3>5, <3>10
    <3>15. rec \in Recordings /\ Sound(rec, deploys, served)
      BY <3>2, <3>10, <3>11, <3>12, <3>14 DEF Recordings, Sound
    <3>16. \A g1 \in Generations : deploys[g1] # NoRow => deploys'[g1] # NoRow
      BY <2>1, RowsStay
    <3>17. Sound(rec, deploys', served)
      BY <3>15, <3>16, SoundKept
    <3>18. Sound(rec, deploys', served') /\ served' = served
      BY <2>2, <3>17, Zenon
    <3>19. RecsSound'
      BY <3>13, <3>15, <3>16, <3>18, RecsMove
    <3>. QED BY <1>1, <2>1, <2>2, <3>19
  <2>. QED BY <2>3, <2>4
<1>3. CASE RecordMovesRow(r)
  <2>1. PICK g \in Generations, s \in Statuses :
          /\ s = "live" => g \in served
          /\ Moves(Generations, Generations, deploys, deploys', g, s)
    BY <1>3, RecordMovesRowMoves
  <2>2. /\ recs[r].at = "recording" /\ recs[r].todo # <<>>
        /\ Continues(r, Tail(recs[r].todo), recs[r].settle)
        /\ UNCHANGED <<spec, status, pass, opening, settings, cancels, served, ended>>
    BY <1>3 DEF RecordMovesRow, Busy
  <2>3. RecsSound'
    BY <2>1, <2>2, PassGoesOn
  <2>. QED BY <1>1, <2>1, <2>2, <2>3
<1>4. CASE RecordSettlesStep(r)
  <2>1. PICK g \in Generations : Moves(Generations, Generations, deploys, deploys', g, "")
    BY <1>4, RecordSettlesStepMoves
  <2>2. /\ recs' = [recs EXCEPT ![r] = NoRecord]
        /\ UNCHANGED <<spec, status, pass, opening, settings, cancels, served, ended>>
    BY <1>4 DEF RecordSettlesStep
  <2>3. RecsSound'
    <3>1. \A h \in Generations : deploys[h] # NoRow => deploys'[h] # NoRow
      BY <2>1, RowsStay
    <3>2. Sound(NoRecord, deploys', served')
      BY DEF Sound, NoRecord
    <3>. QED BY <2>2, <3>1, <3>2, RecsMove
  <2>. QED BY <1>1, <2>1, <2>2, <2>3
<1>. QED BY <1>2, <1>3, <1>4

-----------------------------------------------------------------------------
(* Theorems, for every value of the constants *)

(* The App as it is created, with an empty table, is sound. *)
LEMMA InitInv == Init => IInv
<1> SUFFICES ASSUME Init PROVE IInv
  OBVIOUS
<1>1. MaxGen \in Nat \ {0} /\ 1 \in Generations /\ 0 \in 0..MaxGen /\ 1 \in 0..MaxGen
  BY AppReleaseAssumption DEF Generations
<1>2. PICK kind \in Kinds :
        spec = [gen |-> 1, stamp |-> 1, cancel |-> 0, surv |-> 0, susp |-> FALSE,
                want |-> 1, sel |-> 0, kind |-> kind]
  BY DEF Init, AppInit
<1>3. /\ status = [rel |-> 0, fp |-> 0, art |-> 0, active |-> 0, selRel |-> 0,
                   phase |-> "none", cond |-> 0, buildFail |-> 0, rollFail |-> 0,
                   pd |-> [gen |-> 0, st |-> "none"]]
      /\ pass = NoPass
  BY DEF Init, AppInit
<1>4. AppTypeOK
  <2>1. spec \in Specs
    BY <1>1, <1>2 DEF Specs
  <2>2. status \in AppStatuses
    BY <1>1, <1>3 DEF AppStatuses, Phases
  <2>. QED BY <1>3, <2>1, <2>2 DEF AppTypeOK
<1>5. InOrder
  BY <1>2, <1>3 DEF InOrder
<1>6. /\ deploys = [g \in Generations |-> NoRow] /\ opening = {} /\ settings = {}
      /\ cancels = [c \in Cancelers |-> NoCancel]
      /\ recs = [r \in Reconcilers |-> NoRecord] /\ served = {} /\ ended = {}
  BY DEF Init
<1>7. TypeOK
  BY <1>4, <1>6 DEF TypeOK
<1>8. TableSound
  <2>1. NoRow.status = "absent" /\ NoRow.overlap = FALSE
    BY DEF NoRow
  <2>2. OpenRows(deploys) = {} /\ ActiveRows(deploys) = {} /\ PendingRows(deploys) = {}
    BY <1>6, <2>1 DEF OpenRows, ActiveRows, PendingRows, IsOpen, OpenStatuses
  <2>3. SoundTable(Generations, deploys)
    BY <1>6, <2>1 DEF SoundTable, SoundRow, TerminalStatuses, FailureStatuses
  <2>4. Indexed(deploys)
    BY <1>6, <2>1, <2>2 DEF Indexed, AtMostOne
  <2>5. PendingNewest(deploys)
    BY <2>2 DEF PendingNewest
  <2>. QED BY <2>3, <2>4, <2>5 DEF TableSound
<1>9. Filed
  BY <1>6 DEF Filed
<1>10. \A r \in Reconcilers : Sound(recs[r], deploys, served)
  BY <1>6 DEF Sound, NoRecord
<1>11. Honest
  BY <1>3, <1>6 DEF Honest, LiveWasServed, NoRow
<1>. QED BY <1>5, <1>7, <1>8, <1>9, <1>10, <1>11 DEF IInv

(* Every step preserves the invariant. *)
LEMMA NextInv == IInv /\ [Next]_vars => IInv'
<1> SUFFICES ASSUME IInv, [Next]_vars PROVE IInv'
  OBVIOUS
<1>1. CASE UNCHANGED vars
  BY <1>1, Undisturbed, AppSteps DEF vars
<1>2. CASE ~Created /\ CreateApp
  BY <1>2, InsertsInv
<1>3. CASE Steps
  <2>1. ASSUME NEW r \in Reconcilers, Records(r) \/ RecordDies(r) PROVE IInv'
    BY <2>1, RecordReadsInv, RecordStampsInv, RecordWritesInv DEF Records
  <2>2. ASSUME NEW c \in Cancelers,
               \/ \E d \in Generations : CancelReads(c, d)
               \/ CancelStamps(c) \/ CancelCloses(c)
        PROVE  IInv'
    BY <2>2, CancelsInv
  <2>3. CASE \/ \E trigger \in Triggers \ {"config"} : OpenRelease(trigger)
             \/ "config" \in Triggers /\ ChangeConfig
             \/ SettingsPatch
    BY <2>3, OpeningInv
  <2>4. CASE SettingsRead \/ DropOpened \/ Scale \/ Suspend \/ Resume
    BY <2>4, OperationalInv
  <2>5. CASE InsertOpened
    BY <2>5, InsertsInv
  <2>6. CASE PassBegins \/ PassAbandons \/ PassEnds
    BY <2>6, OperatorInv
  <2>. QED BY <1>3, <2>1, <2>2, <2>3, <2>4, <2>5, <2>6 DEF Steps
<1>. QED BY <1>1, <1>2, <1>3 DEF Next, CreateApp

(* The inductive invariant holds whatever the bound on generations, the    *)
(* kinds of App, the replicas and the switches.                            *)
THEOREM Invariance == Spec => []IInv
BY InitInv, NextInv, PTL DEF Spec

(* Every variable keeps its type. *)
THEOREM TypeCorrect == Spec => []TypeOK
<1>1. IInv => TypeOK
  BY DEF IInv
<1>. QED BY <1>1, Invariance, PTL

(* No reading of the App, however old, makes the history claim that a      *)
(* release has served which never did.                                     *)
THEOREM LiveIsHonest == Spec => []LiveWasServed
<1>1. IInv => LiveWasServed
  BY DEF IInv, Honest
<1>. QED BY <1>1, Invariance, PTL

(* Only the end of an operator pass changes the status.                    *)
LEMMA StatusMoves == [Next]_vars /\ status' # status => PassEnds
<1> SUFFICES ASSUME [Next]_vars, status' # status, ~PassEnds PROVE FALSE
  OBVIOUS
<1>1. CASE CreateApp \/ UNCHANGED vars
  BY <1>1 DEF CreateApp, vars
<1>2. ASSUME NEW r \in Reconcilers, Records(r) \/ RecordDies(r) PROVE FALSE
  BY <1>2 DEF Records, RecordDies, RecordLists, RecordReadsRows, RecordStamps, Writes,
     RecordStampLost, RecordSetsStep, RecordMovesRow, RecordSettlesStep
<1>3. ASSUME NEW c \in Cancelers,
             \/ \E d \in Generations : CancelReads(c, d)
             \/ CancelStamps(c) \/ CancelCloses(c)
      PROVE  FALSE
  BY <1>3 DEF CancelReads, CancelStamps, CancelCloses, Writes
<1>4. CASE \/ \E trigger \in Triggers \ {"config"} : OpenRelease(trigger)
           \/ ChangeConfig \/ SettingsRead \/ SettingsPatch
  BY <1>4 DEF OpenRelease, ChangeConfig, Patches, SettingsRead, SettingsPatch, Writes
<1>5. CASE InsertOpened \/ DropOpened \/ Scale \/ Suspend \/ Resume
  BY <1>5 DEF InsertOpened, DropOpened, Scale, Suspend, Resume, Operational, Writes
<1>6. CASE PassBegins \/ PassAbandons
  BY <1>6 DEF PassBegins, PassAbandons, Operates, BeginPass, AbandonPass
<1>. QED BY <1>1, <1>2, <1>3, <1>4, <1>5, <1>6 DEF Next, Steps

(* The release that serves is only ever replaced by a newer one, through   *)
(* pins, survivors, redispatches and settled cancels.                      *)
THEOREM ReleasesServeForward == Spec => ServesForward
<1>1. ASSUME IInv, [Next]_vars PROVE status'.active >= status.active
  <2>1. CASE status' = status
    <3>1. status.active \in Nat
      BY <1>1, Undisturbed, AppReleaseAssumption DEF AppStatuses
    <3>. QED BY <2>1, <3>1
  <2>2. CASE status' # status
    BY <1>1, <2>2, StatusMoves, OperatorInv
  <2>. QED BY <2>1, <2>2
<1>2. IInv /\ [Next]_vars => [status'.active >= status.active]_vars
  BY <1>1
<1>. QED BY <1>2, Invariance, PTL DEF Spec, ServesForward

(* A pass that began before a suspend finishes no rollout after it: what   *)
(* starts to serve does so while the App is not suspended.                 *)
THEOREM SuspendStops == Spec => SuspendedServesNothingNew
<1>1. ASSUME IInv, [Next]_vars, NEW g \in Generations, StartsServing(g) PROVE ~spec.susp
  <2>1. status'.active # status.active
    BY <1>1 DEF StartsServing
  <2>2. Operate
    BY <1>1, <2>1, StatusMoves DEF PassEnds, Operates
  <2>3. PassOutcome
    BY <1>1, <2>2, Undisturbed, OperateOutcome
  <2>. QED BY <2>1, <2>3 DEF PassOutcome, PassSettles, PassWorks, PassServes
<1>2. IInv /\ [Next]_vars => [\A g \in Generations : StartsServing(g) => ~spec.susp]_vars
  BY <1>1
<1>. QED BY <1>2, Invariance, PTL DEF Spec, SuspendedServesNothingNew

-----------------------------------------------------------------------------
(* The deploy store's specification *)

(* The store's specification speaks of the same rows and transactions.     *)
LEMMA SameRows ==
  /\ Store!NoRow = NoRow /\ Store!Statuses = Statuses
  /\ Store!OpenStatuses = OpenStatuses /\ Store!PreDeployStatuses = PreDeployStatuses
BY DEF Store!NoRow, NoRow, Store!Statuses, Statuses, Store!OpenStatuses, OpenStatuses,
   Store!TerminalStatuses, TerminalStatuses, Store!FailureStatuses, FailureStatuses,
   Store!PreDeployStatuses, PreDeployStatuses

(* An insert is the same transaction in both.                              *)
LEMMA SameInsert ==
  ASSUME NEW t, NEW d, NEW g, NEW trigger
  PROVE  Store!InsertRow(t, d, g, trigger) = InsertRow(t, d, g, trigger)
BY DEF Store!InsertRow, InsertRow, Store!NoRow, NoRow, Store!PendingCanceled, PendingCanceled,
   Store!Superseded, Superseded, Store!SettledStep, SettledStep,
   Store!PendingRows, PendingRows, Store!ActiveRows, ActiveRows, Store!OpenRows, OpenRows,
   Store!IsOpen, IsOpen, Store!OpenStatuses, OpenStatuses, Store!TerminalStatuses,
   TerminalStatuses, Store!FailureStatuses, FailureStatuses

(* So is a transition.                                                     *)
LEMMA SameTransition ==
  ASSUME NEW t, NEW d, NEW s
  PROVE  Store!TransitionRow(t, d, s) = TransitionRow(t, d, s)
BY DEF Store!TransitionRow, TransitionRow, Store!Requested, Requested, Store!Adopts, Adopts,
   Store!Moved, Moved, Store!Deactivated, Deactivated, Store!CanTransition, CanTransition,
   Store!Predecessors, Predecessors, Store!Indexed, Indexed, Store!AtMostOne, AtMostOne,
   Store!SettledStep, SettledStep,
   Store!PendingRows, PendingRows, Store!ActiveRows, ActiveRows, Store!OpenRows, OpenRows,
   Store!IsOpen, IsOpen, Store!OpenStatuses, OpenStatuses, Store!TerminalStatuses,
   TerminalStatuses, Store!FailureStatuses, FailureStatuses

(* So are the writes of the step column.                                   *)
LEMMA SameStepColumn ==
  ASSUME NEW t, NEW d, NEW step
  PROVE  /\ Store!PreDeploySet(t, d, step) = PreDeploySet(t, d, step)
         /\ Store!CanceledStepSettled(t, d, step) = CanceledStepSettled(t, d, step)
BY DEF Store!PreDeploySet, PreDeploySet, Store!CanceledStepSettled, CanceledStepSettled,
   Store!IsOpen, IsOpen, Store!OpenStatuses, OpenStatuses

(* A step of the table is one of the store's transactions. *)
LEMMA StoreCreates ==
  ASSUME IInv, (~Created /\ CreateApp) \/ InsertOpened
  PROVE  Store!Next
<1>1. spec.gen \in Nat \ {0} /\ MaxGen \in Nat \ {0} /\ TriggersAssumption
  BY TableIsStore, TriggersAssumption DEF Generations
<1>2. ASSUME NEW g \in Generations, NEW trigger \in Triggers, deploys[g] = NoRow,
             deploys' = InsertRow(deploys, g, g, trigger)
      PROVE  Store!Next
  BY <1>2, SameInsert, SameRows DEF Store!Next, Store!Create
<1>3. CASE ~Created /\ CreateApp
  <2>1. 1 \in Generations /\ deploys[1] = NoRow
    BY <1>1, <1>3 DEF Created, Generations
  <2>. QED BY <1>1, <1>2, <1>3, <2>1 DEF CreateApp, TriggersAssumption
<1>4. CASE InsertOpened
  <2>1. PICK e \in opening : deploys' = InsertRow(deploys, e.gen, e.gen, e.trigger)
    BY <1>4 DEF InsertOpened
  <2>2. PICK g, trigger : g = e.gen /\ trigger = e.trigger
    OBVIOUS
  <2>3. g \in Generations /\ trigger \in Triggers
    BY <2>2 DEF IInv, TypeOK, Releases
  <2>4. deploys[g] = NoRow
    BY <2>2 DEF IInv, Filed
  <2>5. deploys' = InsertRow(deploys, g, g, trigger)
    BY <2>1, <2>2
  <2>. QED BY <1>2, <2>3, <2>4, <2>5
<1>. QED BY <1>3, <1>4

(* A row's change of status is the store's transition.                     *)
LEMMA StoreMoves ==
  ASSUME NEW g \in Generations, deploys[g] # NoRow, NEW s \in Statuses,
         deploys' = TransitionRow(deploys, g, s)
  PROVE  Store!Next
BY SameTransition, SameRows DEF Store!Next, Store!Transition

(* What a reconciler pass writes is one of the store's transactions.       *)
LEMMA StoreRecords ==
  ASSUME IInv, NEW r \in Reconcilers, Records(r) \/ RecordDies(r)
  PROVE  Store!Next \/ UNCHANGED deploys
<1>1. CASE RecordSetsStep(r)
  <2>1. PICK g, step : g = Current(r).row.gen /\ step = Current(r).step
    OBVIOUS
  <2>2. g \in Generations /\ deploys[g] # NoRow /\ step \in PreDeployStatuses \ {"none"}
    BY <1>1, <2>1, RecordSetsStepMoves
  <2>3. deploys' = PreDeploySet(deploys, g, step)
    BY <1>1, <2>1 DEF RecordSetsStep
  <2>4. Store!SetPreDeploy(g, step)
    BY <2>2, <2>3, SameStepColumn, SameRows DEF Store!SetPreDeploy
  <2>. QED BY <2>2, <2>4, SameRows DEF Store!Next
<1>2. CASE RecordMovesRow(r)
  <2>1. PICK g, s : g = Current(r).row.gen /\ s = Current(r).verdict
    OBVIOUS
  <2>2. g \in Generations /\ deploys[g] # NoRow /\ s \in Statuses
    BY <1>2, <2>1, RecordMovesRowMoves
  <2>3. deploys' = TransitionRow(deploys, g, s)
    BY <1>2, <2>1 DEF RecordMovesRow
  <2>. QED BY <2>2, <2>3, StoreMoves
<1>3. CASE RecordSettlesStep(r)
  <2>1. PICK g, step : g = recs[r].settle.gen /\ step = recs[r].settle.step
    OBVIOUS
  <2>2. g \in Generations /\ step \in {"succeeded", "failed"}
    BY <1>3, <2>1, RecordSettlesStepMoves
  <2>3. deploys' = CanceledStepSettled(deploys, g, step)
    BY <1>3, <2>1 DEF RecordSettlesStep
  <2>4. Store!SettleCanceled(g, step)
    BY <2>3, SameStepColumn DEF Store!SettleCanceled
  <2>. QED BY <2>2, <2>4 DEF Store!Next
<1>. QED
  BY <1>1, <1>2, <1>3 DEF Records, RecordDies, RecordLists, RecordReadsRows, RecordStamps,
     RecordStampLost

(* What a cancel request writes is one of the store's transactions.        *)
LEMMA StoreCancels ==
  ASSUME IInv, NEW c \in Cancelers,
         \/ \E d \in Generations : CancelReads(c, d)
         \/ CancelStamps(c) \/ CancelCloses(c)
  PROVE  Store!Next \/ UNCHANGED deploys
<1>1. CASE CancelCloses(c)
  <2>1. cancels[c] # NoCancel /\ cancels[c] \in CancelRequests \cup {NoCancel}
    BY <1>1 DEF CancelCloses, NoCancel, IInv, TypeOK
  <2>2. PICK g : g = cancels[c].gen
    OBVIOUS
  <2>3. g \in Generations /\ deploys[g] # NoRow
    BY <2>1, <2>2 DEF CancelRequests, IInv, Filed
  <2>4. deploys' = TransitionRow(deploys, g, "canceled") /\ "canceled" \in Statuses
    BY <1>1, <2>2 DEF CancelCloses, Statuses, TerminalStatuses
  <2>. QED BY <2>3, <2>4, StoreMoves
<1>. QED BY <1>1 DEF CancelReads, CancelStamps

(* Every row is inserted and moved as the store's transactions allow,      *)
(* whatever replicas and requests interleave.                              *)
THEOREM ImplementsStore == Spec => StoreSpec
<1>1. Init => Store!Init
  BY SameRows DEF Init, Store!Init
<1>2. ASSUME IInv, [Next]_vars PROVE [Store!Next]_deploys
  <2>1. CASE ~Created /\ CreateApp
    BY <1>2, <2>1, StoreCreates
  <2>2. CASE Steps
    <3>1. ASSUME NEW r \in Reconcilers, Records(r) \/ RecordDies(r)
          PROVE  Store!Next \/ UNCHANGED deploys
      BY <1>2, <3>1, StoreRecords
    <3>2. ASSUME NEW c \in Cancelers,
                 \/ \E d \in Generations : CancelReads(c, d)
                 \/ CancelStamps(c) \/ CancelCloses(c)
          PROVE  Store!Next \/ UNCHANGED deploys
      BY <1>2, <3>2, StoreCancels
    <3>3. CASE \/ \E trigger \in Triggers \ {"config"} : OpenRelease(trigger)
               \/ ChangeConfig \/ SettingsRead \/ SettingsPatch
               \/ DropOpened \/ Scale \/ Suspend \/ Resume
      BY <3>3 DEF OpenRelease, ChangeConfig, SettingsRead, SettingsPatch, Patches, DropOpened,
         Scale, Suspend, Resume, Operational
    <3>4. CASE InsertOpened
      BY <1>2, <3>4, StoreCreates
    <3>5. CASE PassBegins \/ PassAbandons \/ PassEnds
      BY <3>5 DEF PassBegins, PassAbandons, PassEnds, Operates
    <3>. QED BY <2>2, <3>1, <3>2, <3>3, <3>4, <3>5 DEF Steps
  <2>3. CASE UNCHANGED vars
    BY <2>3 DEF vars
  <2>. QED BY <1>2, <2>1, <2>2, <2>3 DEF Next, CreateApp
<1>. QED BY <1>1, <1>2, Invariance, PTL DEF Spec, StoreSpec, Store!Spec

-----------------------------------------------------------------------------
(* Requests, and what becomes of them *)

(* Each write of the control plane leaves the App as it was requested: it  *)
(* keeps what was requested, or saves new settings, whose stamp is not     *)
(* ahead of them, and behind them only in a stale save; and it cancels     *)
(* nothing that was not requested.                                         *)
Asks(a) ==
  /\ spec.cancel <= a.cancel /\ a.cancel <= a.want /\ a.want <= a.gen
  /\ \/ a.want = spec.want /\ a.stamp = spec.stamp
     \/ /\ a.want = spec.gen + 1 /\ a.stamp <= a.want
        /\ settings = {} => a.stamp = a.want

(* Triggers, configuration changes, stale ones too, and operational writes *)
(* ask so.                                                                 *)
LEMMA RequestsAsk ==
  ASSUME IInv, SavedAsRequested, NEW b \in BOOLEAN, NEW read \in Generations,
         read <= spec.gen, read = spec.gen \/ settings # {}
  PROVE  /\ Asks(Released(spec, b)) /\ Released(spec, b).want = spec.gen + 1
         /\ Asks(Reconfigured(spec, read))
         /\ Reconfigured(spec, read).want = spec.gen + 1
         /\ Asks(Scaled(spec)) /\ Asks(SuspensionSet(spec, b)) /\ Asks(spec)
<1>1. /\ spec \in Specs /\ spec.gen \in Nat /\ spec.stamp \in Nat /\ spec.cancel \in Nat
      /\ spec.want \in Nat /\ read \in Nat
      /\ spec.cancel <= spec.want /\ spec.want <= spec.gen
  BY Undisturbed, AppReleaseAssumption DEF InOrder, Specs, Generations, SavedAsRequested
<1>2. PICK h, k : h = spec.gen + 1 /\ k = read + 1
  OBVIOUS
<1>3. PICK sel : sel = IF b THEN h ELSE 0
  OBVIOUS
<1>4. PICK a, c : /\ a = [spec EXCEPT !.gen = h, !.stamp = h, !.want = h, !.sel = sel]
                  /\ c = [spec EXCEPT !.gen = h, !.stamp = k, !.want = h]
  OBVIOUS
<1>5. Released(spec, b) = a /\ Reconfigured(spec, read) = c
  BY <1>2, <1>3, <1>4 DEF Released, Reconfigured
<1>6. a.stamp = h /\ a.want = h /\ a.cancel = spec.cancel /\ a.gen = h
  BY <1>1, <1>4 DEF Specs
<1>7. c.stamp = k /\ c.want = h /\ c.cancel = spec.cancel /\ c.gen = h
  BY <1>1, <1>4 DEF Specs
<1>8. Asks(a) /\ Asks(c) /\ Asks(spec)
  BY <1>1, <1>2, <1>6, <1>7 DEF Asks
<1>9. PICK e, f : e = [spec EXCEPT !.gen = h] /\ f = [spec EXCEPT !.gen = h, !.susp = b]
  OBVIOUS
<1>10. Scaled(spec) = e /\ SuspensionSet(spec, b) = f
  BY <1>2, <1>9 DEF Scaled, SuspensionSet
<1>11. /\ e.stamp = spec.stamp /\ e.want = spec.want /\ e.cancel = spec.cancel
       /\ f.stamp = spec.stamp /\ f.want = spec.want /\ f.cancel = spec.cancel
       /\ e.gen = h /\ f.gen = h
  BY <1>1, <1>9 DEF Specs
<1>12. Asks(e) /\ Asks(f)
  BY <1>1, <1>2, <1>11 DEF Asks
<1>. QED BY <1>2, <1>5, <1>6, <1>7, <1>8, <1>10, <1>12

(* A step that leaves the App alone asks for nothing new. *)
LEMMA NothingAsked == ASSUME IInv, SavedAsRequested PROVE Asks(spec)
<1>1. spec.gen \in Generations /\ spec.gen <= spec.gen /\ TRUE \in BOOLEAN
  BY TableIsStore DEF Generations
<1>. QED BY <1>1, RequestsAsk

(* So does a cancel stamp of a release that was requested.                 *)
LEMMA CancelAsks ==
  ASSUME IInv, SavedAsRequested, NEW g \in Generations, g <= spec.want,
         NEW survivor, NEW recommits \in BOOLEAN
  PROVE  Asks(ReleaseCanceled(spec, g, survivor, recommits))
<1>1. /\ spec \in Specs /\ spec.gen \in Nat /\ spec.stamp \in Nat /\ spec.cancel \in Nat
      /\ spec.want \in Nat /\ spec.cancel <= spec.want /\ spec.want <= spec.gen
      /\ g \in Nat
  BY Undisturbed, AppReleaseAssumption DEF InOrder, Specs, Generations, SavedAsRequested
<1>2. PICK c, s, h :
        /\ c = (IF g > spec.cancel THEN g ELSE spec.cancel)
        /\ s = (IF g > spec.cancel /\ survivor # 0 /\ spec.stamp = g THEN survivor ELSE 0)
        /\ h = IF /\ g > spec.cancel /\ survivor # 0 /\ spec.stamp = g
                  /\ spec.kind.built /\ recommits /\ spec.gen < MaxGen
               THEN spec.gen + 1 ELSE spec.gen
  OBVIOUS
<1>3. PICK a : a = [spec EXCEPT !.cancel = c, !.surv = s, !.gen = h]
  OBVIOUS
<1>4. ReleaseCanceled(spec, g, survivor, recommits) \in {spec, a}
  BY <1>2, <1>3 DEF ReleaseCanceled
<1>5. a.stamp = spec.stamp /\ a.want = spec.want /\ a.cancel = c /\ a.gen = h
  BY <1>1, <1>3 DEF Specs
<1>6. c \in Nat /\ spec.cancel <= c /\ c <= spec.want /\ spec.want <= h
  BY <1>1, <1>2
<1>7. Asks(a) /\ Asks(spec)
  BY <1>1, <1>5, <1>6 DEF Asks
<1>. QED BY <1>4, <1>7

(* A step of a request or of a reconciler: what it writes to the App was   *)
(* asked for, and it records only rows of releases that were requested.    *)
Requests ==
  /\ Asks(spec') /\ UNCHANGED <<status, pass>>
  /\ \A g \in Generations : deploys'[g] # NoRow => deploys[g] # NoRow \/ g <= spec.want
  /\ \A e \in opening' : e \in opening \/ e.gen = spec'.want

(* Such a step keeps what is known of requests and of the operator.        *)
LEMMA RequestsKeepRInv ==
  ASSUME IInv, IInv', RInv, Requests
  PROVE  RInv'
<1>1. /\ spec.gen \in Nat /\ spec.stamp \in Nat \ {0} /\ spec.cancel \in Nat
      /\ spec.want \in Nat /\ spec.want <= spec.gen /\ spec.cancel <= spec.want
      /\ status.rel \in Nat /\ status.active \in Nat /\ status.fp \in Nat
      /\ status.rel <= spec.gen
      /\ pass # NoPass => /\ pass.gen \in Nat /\ pass.stamp \in Nat /\ pass.cancel \in Nat
                          /\ pass.want \in Nat /\ pass.gen <= spec.gen
  <2>1. pass # NoPass => pass \in Specs
    BY Undisturbed DEF AppTypeOK
  <2>2. spec.want <= spec.gen /\ spec.cancel <= spec.want
    BY DEF RInv, SavedAsRequested
  <2>. QED BY <2>1, <2>2, Undisturbed, AppReleaseAssumption
           DEF InOrder, Specs, AppStatuses, Generations
<1>2. /\ spec'.stamp \in Nat /\ spec'.cancel \in Nat /\ spec'.want \in Nat
      /\ spec.cancel <= spec'.cancel /\ spec'.cancel <= spec'.want
      /\ spec'.want <= spec'.gen
      /\ \/ spec'.want = spec.want /\ spec'.stamp = spec.stamp
         \/ spec'.want = spec.gen + 1 /\ spec'.stamp <= spec'.want
      /\ UNCHANGED <<status, pass>>
  <2>1. spec' \in Specs
    BY DEF IInv, TypeOK, AppTypeOK
  <2>. QED BY <2>1, AppReleaseAssumption DEF Requests, Asks, Specs, Generations
<1>3. /\ \A g \in Generations : g \in Nat
      /\ \A e \in opening : e.gen \in Nat
  <2>1. \A g \in Generations : g \in Nat
    BY AppReleaseAssumption DEF Generations
  <2>. QED BY <2>1 DEF IInv, TypeOK, Releases
<1>4. spec.want <= spec'.want
  BY <1>1, <1>2
<1>5. AllRequested' /\ SavedAsRequested'
  <2>1. SavedAsRequested'
    BY <1>1, <1>2, <1>4 DEF RInv, SavedAsRequested
  <2>2. \A g \in Generations : deploys'[g] # NoRow => g <= spec'.want
    BY <1>1, <1>2, <1>3, <1>4 DEF RInv, AllRequested, Requests
  <2>3. \A e \in opening' : e.gen <= spec'.want
    BY <1>1, <1>2, <1>3, <1>4 DEF RInv, AllRequested, Requests
  <2>. QED BY <2>1, <2>2, <2>3 DEF AllRequested
<1>6. Adopting'
  BY <1>1, <1>2 DEF RInv, SavedAsRequested, Adopting
<1>7. PassBehind'
  BY <1>1, <1>2 DEF RInv, PassBehind
<1>. QED BY <1>5, <1>6, <1>7 DEF RInv

(* What is known of a pass of the operator that ends.                      *)
LEMMA PassKnown ==
  ASSUME IInv, pass # NoPass
  PROVE  /\ spec.gen \in Nat /\ spec.stamp \in Nat \ {0} /\ spec.cancel \in Nat
         /\ spec.want \in Nat \ {0}
         /\ status.rel \in Nat /\ status.active \in Nat /\ status.fp \in Nat
         /\ pass.gen \in Nat /\ pass.stamp \in Nat \ {0} /\ pass.cancel \in Nat
         /\ pass.want \in Nat \ {0} /\ pass.surv \in Nat
         /\ spec.stamp <= spec.gen /\ pass.gen <= spec.gen /\ pass.stamp <= pass.gen
         /\ status.rel <= pass.gen /\ status.active <= status.rel
<1>1. pass \in Specs
  BY Undisturbed DEF AppTypeOK
<1>. QED BY <1>1, Undisturbed, AppReleaseAssumption DEF InOrder, Specs, AppStatuses, Generations

(* The canceled branch ends on what serves.                                *)
LEMMA SettlingAdopts ==
  ASSUME IInv, RInv, PassOutcome, PassSettles
  PROVE  (SavedAsRequested /\ Adopting /\ PassBehind)'
<1>1. pass # NoPass /\ pass' = NoPass /\ spec' = spec
  BY DEF PassOutcome
<1>2. /\ status'.rel = status.active /\ status'.fp = status.fp
      /\ status'.active = status.active /\ LatestRequestCanceled(pass, status)
  BY DEF PassSettles, SettlesCancel
<1>3. ASSUME status.fp = spec.want, spec.stamp = spec.want, status.active = 0
      PROVE  spec.cancel = spec.stamp
  <2>1. pass.want = spec.want /\ pass.stamp = spec.stamp
    BY <1>1, <1>3, PassKnown DEF RInv, PassBehind
  <2>2. pass.cancel = pass.stamp
    BY <1>1, <1>2, <1>3, <2>1, PassKnown
       DEF RInv, PassBehind, LatestRequestCanceled, RequestedGeneration
  <2>. QED BY <1>1, <1>3, <2>1, <2>2, PassKnown DEF RInv, PassBehind, SavedAsRequested
<1>4. SavedAsRequested' /\ PassBehind'
  BY <1>1, <1>2 DEF RInv, SavedAsRequested, PassBehind
<1>5. Adopting'
  BY <1>1, <1>2, <1>3, PassKnown DEF RInv, Adopting
<1>. QED BY <1>4, <1>5

(* A pass that goes on ends on the release it decided.                     *)
LEMMA WorkingAdopts ==
  ASSUME IInv, RInv, PassOutcome, PassWorks \/ PassServes
  PROVE  (SavedAsRequested /\ Adopting /\ PassBehind)'
<1>1. pass # NoPass /\ pass' = NoPass /\ spec' = spec
  BY DEF PassOutcome
<1>2. /\ status'.rel = Now.rel /\ status'.fp = Now.fp
      /\ status'.active \in {status.active, Now.rel}
      /\ ~SettlesCancel(pass, status)
  BY DEF PassWorks, PassServes
<1>3. Now.rel \in Nat \ {0}
  BY <1>1, <1>2, NowOrder, Undisturbed, PassKnown
<1>4. /\ Now.fp <= spec.want
      /\ Now.fp # spec.want => Now.rel < spec.want
      /\ Now.fp = spec.want /\ spec.stamp = spec.want =>
           Now.rel = spec.stamp \/ Now.rel = status'.active \/ Now.rel < spec.cancel
  <2>1. CASE DecidedPins
    BY <1>2, <1>3, <2>1 DEF DecidedPins, RInv, SavedAsRequested, Adopting
  <2>2. CASE DecidedRedispatches
    BY <1>1, <2>2, PassKnown DEF DecidedRedispatches, RInv, SavedAsRequested, PassBehind
  <2>3. CASE DecidedAdopts
    <3>1. CASE status.fp # pass.want
      BY <1>1, <2>3, <3>1, PassKnown
         DEF DecidedAdopts, RequestedGeneration, RInv, PassBehind, Adopting
    <3>2. CASE status.fp = pass.want /\ status.rel # 0
      BY <1>1, <1>2, <2>3, <3>2, PassKnown DEF DecidedAdopts, RInv, PassBehind, Adopting
    <3>3. CASE status.fp = pass.want /\ status.rel = 0
      BY <1>1, <2>3, <3>3, PassKnown DEF DecidedAdopts, LatestRequestCanceled, RInv, PassBehind
    <3>. QED BY <3>1, <3>2, <3>3
  <2>. QED BY <1>1, <1>2, <2>1, <2>2, <2>3, NowCases, Undisturbed DEF DecidedSettles
<1>5. SavedAsRequested' /\ PassBehind'
  BY <1>1, <1>2, <1>4 DEF RInv, SavedAsRequested, PassBehind
<1>6. Adopting'
  BY <1>1, <1>2, <1>3, <1>4 DEF Adopting
<1>. QED BY <1>5, <1>6

(* Steps of the operator keep what is known of it.                         *)
LEMMA OperatorAdopts ==
  ASSUME IInv, RInv, PassBegins \/ PassAbandons \/ PassEnds
  PROVE  RInv' /\ UNCHANGED <<spec, settings>> /\ pass' \in {NoPass, spec, pass}
<1>1. UNCHANGED <<deploys, opening, settings>>
  BY DEF PassBegins, PassAbandons, PassEnds, Operates
<1>2. /\ (SavedAsRequested /\ Adopting /\ PassBehind)'
      /\ spec' = spec /\ pass' \in {NoPass, spec, pass}
  <2>1. CASE PassBegins
    <3>1. pass' = spec /\ UNCHANGED <<spec, status>>
      BY <2>1 DEF PassBegins, Operates, BeginPass
    <3>2. /\ spec.stamp \in Nat /\ spec.cancel \in Nat /\ spec.gen \in Nat
          /\ spec.want \in Nat /\ status.fp \in Nat
      BY Undisturbed, AppReleaseAssumption DEF Specs, AppStatuses, Generations
    <3>. QED BY <3>1, <3>2 DEF RInv, SavedAsRequested, Adopting, PassBehind
  <2>2. CASE PassAbandons
    BY <2>2 DEF PassAbandons, Operates, AbandonPass, RInv, SavedAsRequested, Adopting,
       PassBehind
  <2>3. CASE PassEnds
    <3>1. PassOutcome
      BY <2>3, Undisturbed, OperateOutcome DEF PassEnds, Operates
    <3>2. CASE status' = status
      BY <3>1, <3>2 DEF PassOutcome, RInv, SavedAsRequested, Adopting, PassBehind
    <3>. QED BY <3>1, <3>2, SettlingAdopts, WorkingAdopts DEF PassOutcome
  <2>. QED BY <2>1, <2>2, <2>3
<1>3. AllRequested'
  BY <1>1, <1>2 DEF RInv, AllRequested
<1>. QED BY <1>1, <1>2, <1>3 DEF RInv

(* Triggers, configuration changes and operational writes. *)
LEMMA WritesRequest ==
  ASSUME IInv, RInv,
         \/ \E trigger \in Triggers \ {"config"} : OpenRelease(trigger)
         \/ ChangeConfig \/ SettingsRead \/ SettingsPatch
         \/ DropOpened \/ Scale \/ Suspend \/ Resume
  PROVE  Requests
<1>1. /\ SavedAsRequested /\ Asks(spec) /\ TRUE \in BOOLEAN /\ FALSE \in BOOLEAN
      /\ spec.gen \in Generations /\ spec.gen <= spec.gen
  BY NothingAsked, TableIsStore DEF RInv, Generations
<1>2. ASSUME NEW trigger \in Triggers, OpenRelease(trigger) PROVE Requests
  <2>1. PICK b \in BOOLEAN : b = (trigger = "selected")
    OBVIOUS
  <2>2. /\ Writes(Released(spec, b))
        /\ opening' = opening \cup {[gen |-> spec.gen + 1, trigger |-> trigger]}
        /\ UNCHANGED <<deploys, settings>>
    BY <1>2, <2>1 DEF OpenRelease
  <2>3. PICK a : a = Released(spec, b)
    OBVIOUS
  <2>4. Asks(a) /\ a.want = spec.gen + 1 /\ Writes(a)
    BY <1>1, <2>2, <2>3, RequestsAsk
  <2>. QED BY <2>2, <2>4 DEF Requests, Writes
<1>3. ASSUME NEW read \in Generations, read <= spec.gen, read = spec.gen \/ settings # {},
             Patches(read)
      PROVE  Requests
  <2>1. /\ Writes(Reconfigured(spec, read))
        /\ opening' = opening \cup {[gen |-> spec.gen + 1, trigger |-> "config"]}
        /\ UNCHANGED deploys
    BY <1>3 DEF Patches
  <2>2. PICK a : a = Reconfigured(spec, read)
    OBVIOUS
  <2>3. Asks(a) /\ a.want = spec.gen + 1 /\ Writes(a)
    BY <1>1, <1>3, <2>1, <2>2, RequestsAsk
  <2>. QED BY <2>1, <2>3 DEF Requests, Writes
<1>4. CASE ChangeConfig
  BY <1>1, <1>3, <1>4 DEF ChangeConfig
<1>5. CASE SettingsPatch
  <2>1. PICK read \in settings : Patches(read)
    BY <1>5 DEF SettingsPatch
  <2>2. read \in Generations /\ read <= spec.gen
    BY <2>1 DEF IInv, TypeOK, Filed
  <2>. QED BY <1>3, <2>1, <2>2
<1>6. CASE Scale \/ Suspend \/ Resume
  <2>1. PICK a : Asks(a) /\ Operational(a)
    BY <1>1, <1>6, RequestsAsk DEF Scale, Suspend, Resume
  <2>. QED BY <2>1 DEF Requests, Operational, Writes
<1>7. CASE DropOpened \/ SettingsRead
  BY <1>1, <1>7 DEF Requests, DropOpened, SettingsRead
<1>. QED BY <1>2, <1>4, <1>5, <1>6, <1>7

(* Rows that are inserted. *)
LEMMA InsertsRequest ==
  ASSUME IInv, RInv, (~Created /\ CreateApp) \/ InsertOpened
  PROVE  Requests
<1>1. Asks(spec)
  BY NothingAsked DEF RInv
<1>2. /\ MaxGen \in Nat \ {0} /\ TriggersAssumption /\ 1 <= spec.want
  BY TableIsStore, TriggersAssumption DEF Generations, Specs
<1>3. ASSUME NEW g \in Generations, g <= spec.want, NEW trigger \in Triggers, deploys[g] = NoRow,
             deploys' = InsertRow(deploys, g, g, trigger), opening' \subseteq opening,
             UNCHANGED <<spec, status, pass>>
      PROVE  Requests
  <2>1. \A e \in Generations \ {g} : deploys[e] # NoRow <=> deploys'[e] # NoRow
    BY <1>3, InsertGains DEF Gains, Follows
  <2>. QED BY <1>1, <1>3, <2>1 DEF Requests
<1>4. CASE ~Created /\ CreateApp
  <2>1. 1 \in Generations /\ deploys[1] = NoRow
    BY <1>2, <1>4 DEF Created, Generations
  <2>. QED BY <1>2, <1>3, <1>4, <2>1 DEF CreateApp, TriggersAssumption
<1>5. CASE InsertOpened
  <2>1. PICK e \in opening :
          /\ deploys' = InsertRow(deploys, e.gen, e.gen, e.trigger)
          /\ opening' = opening \ {e}
          /\ UNCHANGED <<spec, status, pass>>
    BY <1>5 DEF InsertOpened
  <2>2. PICK g, trigger : g = e.gen /\ trigger = e.trigger
    OBVIOUS
  <2>3. g \in Generations /\ trigger \in Triggers
    BY <2>2 DEF IInv, TypeOK, Releases
  <2>4. deploys[g] = NoRow /\ g <= spec.want
    BY <2>2 DEF IInv, Filed, RInv, AllRequested
  <2>5. deploys' = InsertRow(deploys, g, g, trigger)
    BY <2>1, <2>2
  <2>. QED BY <1>3, <2>1, <2>3, <2>4, <2>5
<1>. QED BY <1>4, <1>5

(* Cancel requests. *)
LEMMA CancelsRequest ==
  ASSUME IInv, RInv, NEW c \in Cancelers,
         \/ \E d \in Generations : CancelReads(c, d)
         \/ CancelStamps(c) \/ CancelCloses(c)
  PROVE  Requests
<1>1. SavedAsRequested /\ Asks(spec)
  BY NothingAsked DEF RInv
<1>2. ASSUME cancels[c].at \in {"read", "stamped"}
      PROVE  /\ deploys[cancels[c].gen] # NoRow
             /\ cancels[c].gen \in Generations /\ cancels[c].gen <= spec.want
  <2>1. cancels[c] # NoCancel /\ cancels[c] \in CancelRequests
    BY <1>2 DEF NoCancel, IInv, TypeOK
  <2>. QED BY <2>1 DEF CancelRequests, IInv, Filed, RInv, AllRequested
<1>3. PICK g, survivor : g = cancels[c].gen /\ survivor = cancels[c].survivor
  OBVIOUS
<1>4. CASE CancelStamps(c)
  <2>1. PICK recommits \in BOOLEAN :
          Writes(ReleaseCanceled(spec, cancels[c].gen, cancels[c].survivor, recommits))
    BY <1>4 DEF CancelStamps
  <2>2. g \in Generations /\ g <= spec.want
    BY <1>2, <1>3, <1>4 DEF CancelStamps
  <2>3. Asks(ReleaseCanceled(spec, g, survivor, recommits))
    BY <1>1, <2>2, CancelAsks
  <2>4. Asks(spec') /\ UNCHANGED <<status, pass>>
    BY <1>3, <2>1, <2>3 DEF Writes
  <2>. QED BY <1>4, <2>4 DEF Requests, CancelStamps
<1>5. CASE CancelCloses(c)
  <2>1. g \in Generations /\ deploys[g] # NoRow /\ deploys' = TransitionRow(deploys, g, "canceled")
    BY <1>2, <1>3, <1>5 DEF CancelCloses
  <2>2. PICK s \in Statuses : s = "canceled"
    BY DEF Statuses, TerminalStatuses
  <2>3. \A h \in Generations : deploys[h] # NoRow <=> deploys'[h] # NoRow
    BY <2>1, <2>2, TransitionMoves, RowsStay
  <2>. QED BY <1>1, <1>5, <2>3 DEF Requests, CancelCloses
<1>6. CASE \E d \in Generations : CancelReads(c, d)
  BY <1>1, <1>6 DEF Requests, CancelReads
<1>. QED BY <1>4, <1>5, <1>6

(* Reconciler passes. *)
LEMMA RecordsRequest ==
  ASSUME IInv, RInv, NEW r \in Reconcilers, Records(r) \/ RecordDies(r)
  PROVE  Requests
<1>1. SavedAsRequested /\ Asks(spec) /\ FALSE \in BOOLEAN
  BY NothingAsked DEF RInv
<1>2. CASE RecordStamps(r)
  <2>1. recs[r].at = "recording" /\ recs[r].todo # <<>>
    BY <1>2 DEF RecordStamps, Busy
  <2>2. PICK g : g = Current(r).row.gen
    OBVIOUS
  <2>3. g \in Generations /\ g <= spec.want
    BY <2>1, <2>2, BusyFacts DEF Founded, RInv, AllRequested
  <2>4. Asks(ReleaseCanceled(spec, g, 0, FALSE))
    BY <1>1, <2>3, CancelAsks
  <2>5. Asks(spec') /\ UNCHANGED <<status, pass, deploys, opening>>
    BY <1>2, <2>2, <2>4 DEF RecordStamps, Writes
  <2>. QED BY <2>5 DEF Requests
<1>3. CASE RecordSetsStep(r)
  <2>1. \A h \in Generations : deploys[h] # NoRow <=> deploys'[h] # NoRow
    BY <1>3, RecordSetsStepMoves, RowsStay
  <2>. QED BY <1>1, <1>3, <2>1 DEF Requests, RecordSetsStep
<1>4. CASE RecordMovesRow(r)
  <2>1. \A h \in Generations : deploys[h] # NoRow <=> deploys'[h] # NoRow
    BY <1>4, RecordMovesRowMoves, RowsStay
  <2>. QED BY <1>1, <1>4, <2>1 DEF Requests, RecordMovesRow
<1>5. CASE RecordSettlesStep(r)
  <2>1. \A h \in Generations : deploys[h] # NoRow <=> deploys'[h] # NoRow
    BY <1>5, RecordSettlesStepMoves, RowsStay
  <2>. QED BY <1>1, <1>5, <2>1 DEF Requests, RecordSettlesStep
<1>6. CASE RecordLists(r) \/ RecordReadsRows(r) \/ RecordStampLost(r) \/ RecordDies(r)
  BY <1>1, <1>6 DEF Requests, RecordLists, RecordReadsRows, RecordStampLost, RecordDies
<1>. QED BY <1>2, <1>3, <1>4, <1>5, <1>6 DEF Records

(* Every step that is not the operator's is a request or a recording.      *)
LEMMA StepsRequest ==
  ASSUME IInv, RInv, [Next]_vars
  PROVE  UNCHANGED vars \/ Requests \/ PassBegins \/ PassAbandons \/ PassEnds
<1>1. CASE ~Created /\ CreateApp
  BY <1>1, InsertsRequest
<1>2. CASE Steps
  <2>1. ASSUME NEW r \in Reconcilers, Records(r) \/ RecordDies(r) PROVE Requests
    BY <2>1, RecordsRequest
  <2>2. ASSUME NEW c \in Cancelers,
               \/ \E d \in Generations : CancelReads(c, d)
               \/ CancelStamps(c) \/ CancelCloses(c)
        PROVE  Requests
    BY <2>2, CancelsRequest
  <2>3. CASE \/ \E trigger \in Triggers \ {"config"} : OpenRelease(trigger)
             \/ ChangeConfig \/ SettingsRead \/ SettingsPatch
             \/ DropOpened \/ Scale \/ Suspend \/ Resume
    BY <2>3, WritesRequest
  <2>4. CASE InsertOpened
    BY <2>4, InsertsRequest
  <2>. QED BY <1>2, <2>1, <2>2, <2>3, <2>4 DEF Steps
<1>. QED BY <1>1, <1>2 DEF Next, CreateApp

(* Every step keeps what is known of requests and of the operator.         *)
LEMMA NextRInv ==
  ASSUME IInv, RInv, [Next]_vars
  PROVE  RInv'
<1>1. IInv'
  BY NextInv
<1>2. CASE UNCHANGED vars
  BY <1>2 DEF vars, RInv, AllRequested, SavedAsRequested, Adopting, PassBehind
<1>. QED BY <1>1, <1>2, StepsRequest, RequestsKeepRInv, OperatorAdopts

(* Nothing is requested or adopted at first but the first release.         *)
LEMMA InitRInv == Init => RInv
BY DEF Init, AppInit, RInv, AllRequested, SavedAsRequested, Adopting, PassBehind, NoPass

(* What is known of requests and of the operator, stale saves included.    *)
THEOREM RequestsInvariance == Spec => [](IInv /\ RInv)
<1>1. Init => IInv /\ RInv
  BY InitInv, InitRInv
<1>2. IInv /\ RInv /\ [Next]_vars => (IInv /\ RInv)'
  BY NextInv, NextRInv
<1>. QED BY <1>1, <1>2, PTL DEF Spec

(* While the newest settings are stamped as what they are, no release      *)
(* starts to serve while its own cancel stamp stands: it is not pinned,    *)
(* adopted again or named its own survivor, and the checked write of a     *)
(* pass which began before the cancel is refused.                          *)
THEOREM CanceledStays == Spec => CanceledStaysEnded
<1>1. ASSUME IInv, RInv, [Next]_vars, NEW g \in Generations, g = spec.cancel,
             spec.stamp = spec.want, StartsServing(g)
      PROVE  FALSE
  <2>1. g # 0 /\ status'.active = g /\ status.active # g
    BY <1>1 DEF StartsServing
  <2>2. Operate
    BY <1>1, <2>1, StatusMoves DEF PassEnds, Operates
  <2>3. PassOutcome
    BY <1>1, <2>2, Undisturbed, OperateOutcome
  <2>4. /\ pass # NoPass /\ pass = spec /\ Now.rel = g /\ ~SettlesCancel(pass, status)
    BY <2>1, <2>3 DEF PassOutcome, PassSettles, PassWorks, PassServes
  <2>5. CASE DecidedPins
    BY <1>1, <2>4, <2>5, PassKnown DEF DecidedPins, ReleaseInFlight
  <2>6. CASE DecidedRedispatches
    BY <1>1, <2>4, <2>6, PassKnown DEF DecidedRedispatches
  <2>7. CASE DecidedAdopts
    <3>1. CASE status.fp # pass.want
      BY <1>1, <2>1, <2>4, <2>7, <3>1 DEF DecidedAdopts, LatestRequestCanceled
    <3>2. CASE status.fp = pass.want /\ status.rel # 0
      BY <1>1, <2>1, <2>4, <2>7, <3>2, PassKnown
         DEF DecidedAdopts, LatestRequestCanceled, RInv, SavedAsRequested, Adopting
    <3>3. CASE status.fp = pass.want /\ status.rel = 0
      BY <1>1, <2>4, <2>7, <3>3, PassKnown
         DEF DecidedAdopts, LatestRequestCanceled, RInv, PassBehind
    <3>. QED BY <3>1, <3>2, <3>3
  <2>. QED BY <1>1, <2>4, <2>5, <2>6, <2>7, NowCases, Undisturbed DEF DecidedSettles
<1>2. IInv /\ RInv /\ [Next]_vars =>
        [\A g \in Generations :
           g = spec.cancel /\ spec.stamp = spec.want => ~StartsServing(g)]_vars
  BY <1>1
<1>. QED BY <1>2, RequestsInvariance, PTL DEF Spec, CanceledStaysEnded

-----------------------------------------------------------------------------
(* Without stale settings saves *)

(* Every step stamps the settings it saves. *)
LEMMA NextSInv ==
  ASSUME StaleSettings = FALSE, IInv, SInv, [Next]_vars
  PROVE  SInv'
<1>1. IInv' /\ RInv'
  BY NextInv, NextRInv DEF SInv
<1>2. settings' = {}
  BY <1>1 DEF IInv, Filed
<1>3. CASE Requests
  BY <1>1, <1>2, <1>3 DEF Requests, Asks, SInv, Stamped
<1>4. CASE PassBegins \/ PassAbandons \/ PassEnds
  BY <1>1, <1>2, <1>4, OperatorAdopts DEF SInv, Stamped
<1>5. CASE UNCHANGED vars
  BY <1>1, <1>2, <1>5 DEF vars, SInv, Stamped
<1>. QED BY <1>3, <1>4, <1>5, StepsRequest DEF SInv

LEMMA InitSInv == Init => SInv
<1>1. Init => Stamped
  BY DEF Init, AppInit, Stamped
<1>. QED BY <1>1, InitRInv DEF SInv

(* What is known of requests and of the operator, in every run in which    *)
(* settings saves stamp the write they make.                               *)
THEOREM StampsInvariance ==
  ASSUME StaleSettings = FALSE
  PROVE  Spec => [](IInv /\ SInv)
<1>1. Init => IInv /\ SInv
  BY InitInv, InitSInv
<1>2. IInv /\ SInv /\ [Next]_vars => (IInv /\ SInv)'
  BY NextInv, NextSInv
<1>. QED BY <1>1, <1>2, PTL DEF Spec

(* An open row names a release that the stamp, or a later one, asks the    *)
(* operator for.                                                           *)
THEOREM OpenRowsAreRequested ==
  ASSUME StaleSettings = FALSE
  PROVE  Spec => []OpenRowIsRequested
<1>1. IInv /\ SInv => OpenRowIsRequested
  BY DEF SInv, RInv, Stamped, AllRequested, OpenRowIsRequested, IsOpen, NoRow, OpenStatuses
<1>. QED BY <1>1, StampsInvariance, PTL

-----------------------------------------------------------------------------
(* What has failed stays failed *)

(* What the status, or a reading of it, records of a release that failed.  *)
StepFailing(s, g) == s.pd = [gen |-> g, st |-> "failed"]
Failing(s, g) == s.buildFail = g \/ s.rollFail = g \/ StepFailing(s, g)

(* A phase that shows a failure shows the recorded one. *)
Tells(s) ==
  /\ s.phase \in {"buildFailed", "preDeployFailed", "rolloutFailed"} => s.rel # 0
  /\ s.phase = "buildFailed" => s.buildFail = s.rel
  /\ s.phase = "preDeployFailed" => StepFailing(s, s.rel)
  /\ s.phase = "rolloutFailed" => s.rollFail = s.rel /\ s.pd.st # "running"

(* What a reconciler pass has read, or is to record, of a failed step and  *)
(* of a failure.                                                           *)
StepFound(rec, g) ==
  \/ rec.at = "listed" /\ StepFailing(rec.app, g)
  \/ /\ rec.at = "recording"
     /\ \/ \E i \in 1..Len(rec.todo) :
             /\ rec.todo[i].row.gen = g
             /\ rec.todo[i].step = "failed" \/ rec.todo[i].verdict = "pre_deploy_failed"
        \/ rec.settle = [gen |-> g, step |-> "failed"]

Found(rec, g) ==
  \/ rec.at = "listed" /\ Failing(rec.app, g)
  \/ /\ rec.at = "recording"
     /\ \E i \in 1..Len(rec.todo) :
          rec.todo[i].row.gen = g /\ rec.todo[i].verdict \in FailureStatuses

(* A failed step, and a failure, of release g that someone knows of: the   *)
(* App, a reconciler pass or the release's row.                            *)
StepKnown(g) ==
  \/ StepFailing(status, g)
  \/ \E r \in Reconcilers : StepFound(recs[r], g)
  \/ deploys[g].preDeploy = "failed"

Known(g) ==
  \/ Failing(status, g)
  \/ \E r \in Reconcilers : Found(recs[r], g)
  \/ deploys[g].status \in FailureStatuses
  \/ StepKnown(g)

(* No release is ahead of the settings adopted with it, and one behind them *)
(* that does not serve is a saved image which a cancel had rolled again.   *)
Ranked ==
  /\ status.rel <= status.fp
  /\ status.buildFail <= status.fp /\ status.rollFail <= status.fp
  /\ status.pd.gen <= status.fp
  /\ status.active < status.rel /\ status.rel < status.fp =>
       /\ ~spec.kind.built
       /\ spec.stamp = status.fp => spec.cancel = spec.stamp
       /\ pass # NoPass /\ pass.stamp = status.fp => pass.cancel = pass.stamp

(* Only Apps that build fail to, and only gated ones have steps. *)
KindHolds ==
  /\ pass # NoPass => pass.kind = spec.kind
  /\ status.buildFail # 0 => spec.kind.built
  /\ status.pd.st # "none" => spec.kind.gated

(* A release whose build failed was not selected. *)
Selected ==
  /\ pass # NoPass /\ pass.stamp = spec.stamp => pass.sel = spec.sel
  /\ status.buildFail # 0 =>
       /\ spec.stamp = status.buildFail => spec.sel # spec.stamp
       /\ pass # NoPass /\ pass.stamp = status.buildFail => pass.sel # pass.stamp

(* What keeps the release the operator works on from being rolled out. *)
Stuck ==
  \/ status.rollFail = status.rel
  \/ StepFailing(status, status.rel)
  \/ status.buildFail = status.rel /\ status.art # status.fp

FailedIsStuck ==
  \A g \in Generations : Known(g) =>
    /\ g <= status.fp
    /\ status.rel = g /\ status.fp = g /\ status.active < g => Stuck

(* What has served is no newer than what serves; a cancel that stands has  *)
(* landed; a step in progress, or one that failed, is of no release that   *)
(* has served, unless a later cancel rolled that one again.                *)
StepsServe ==
  /\ \A g \in served : g <= status.active
  /\ spec.cancel # 0 => \E e \in ended : e.gen = spec.cancel
  /\ status.pd.st \in {"running", "failed"} => status.pd.gen \notin served
  /\ \A g \in Generations : StepKnown(g) /\ g \in served =>
       ~spec.kind.built /\ \E e \in ended : g < e.gen

FInv ==
  /\ Tells(status)
  /\ \A r \in Reconcilers : recs[r].at = "listed" => Tells(recs[r].app)
  /\ Ranked /\ KindHolds /\ Selected /\ FailedIsStuck /\ StepsServe

(* What a decision leaves of the status it started from. *)
LEMMA NowRecords ==
  ASSUME AppTypeOK, pass # NoPass
  PROVE  /\ Now.art = status.art /\ Now.pd = status.pd
         /\ Now.buildFail = status.buildFail /\ Now.rollFail = status.rollFail
<1>0. status \in AppStatuses
  BY DEF AppTypeOK
<1>1. CASE SettlesCancel(pass, status)
  <2>1. Now = [status EXCEPT !.rel = status.active]
    BY <1>1 DEF Now, Decided, SettlesCancel, Pinned
  <2>. QED BY <1>0, <2>1 DEF AppStatuses
<1>2. CASE ~SettlesCancel(pass, status) /\ Pinned(pass, status)
  BY <1>2 DEF Now, Decided, Pinned, SurvivorInFlight
<1>3. CASE /\ ~SettlesCancel(pass, status) /\ ~Pinned(pass, status)
           /\ SurvivorInFlight(pass, status) /\ ~pass.kind.built
  <2>1. Now = [status EXCEPT !.fp = pass.want, !.rel = pass.surv]
    BY <1>3 DEF Now, Decided, Redispatched
  <2>. QED BY <1>0, <2>1 DEF AppStatuses
<1>4. CASE /\ ~SettlesCancel(pass, status) /\ ~Pinned(pass, status)
           /\ ~(SurvivorInFlight(pass, status) /\ ~pass.kind.built)
  <2>1. Now = Adopted(pass, status)
    BY <1>4 DEF Now, Decided
  <2>2. PICK f, g, h : \/ Now = [status EXCEPT !.fp = f, !.rel = g]
                       \/ Now = [[status EXCEPT !.fp = f, !.rel = g] EXCEPT !.selRel = h]
    BY <2>1 DEF Adopted
  <2>. QED BY <1>0, <2>2 DEF AppStatuses
<1>. QED BY <1>1, <1>2, <1>3, <1>4

(* The release a pass goes on with is the one the status reports, pinned   *)
(* or adopted before; or a survivor rolled again; or one newly requested.  *)
GoesOn ==
  /\ Now.rel = status.rel /\ Now.fp = status.fp
  /\ \/ pass.kind.built /\ ~ActiveSel(pass, Now)
     \/ status.fp = pass.stamp /\ ~LatestRequestCanceled(pass, status)

RollsAgain ==
  /\ ~pass.kind.built /\ Now.rel = pass.surv /\ Now.fp = pass.stamp
  /\ status.active < pass.surv /\ pass.surv < pass.cancel /\ pass.cancel = pass.stamp

TakesUp ==
  /\ status.fp < pass.stamp /\ Now.rel = pass.stamp /\ Now.fp = pass.stamp

(* A pass that does not settle a cancel goes on in one of these three      *)
(* ways.                                                                   *)
LEMMA NowReleases ==
  ASSUME IInv, SInv, FInv, pass # NoPass, ~SettlesCancel(pass, status)
  PROVE  GoesOn \/ RollsAgain \/ TakesUp
<1>1. /\ AppTypeOK /\ pass \in Specs /\ status \in AppStatuses
      /\ pass.want = pass.stamp /\ pass.cancel <= pass.stamp
      /\ status.fp <= pass.stamp /\ status.rel <= status.fp
      /\ status.rel = 0 /\ status.fp = pass.stamp => pass.cancel = pass.stamp
      /\ {pass.gen, pass.cancel, pass.surv, pass.stamp, status.rel, status.fp,
          status.active} \subseteq Nat
      /\ pass.stamp # 0 /\ pass.stamp <= pass.gen
  BY PassKnown, Undisturbed DEF SInv, RInv, Stamped, PassBehind, FInv, Ranked, AppTypeOK
<1>2. CASE Pinned(pass, status)
  <2>1. Now = status
    BY <1>2 DEF Now, Decided, Pinned, SurvivorInFlight
  <2>2. pass.kind.built /\ ~ActiveSel(pass, status)
    BY <1>1, <1>2 DEF Pinned, SurvivorInFlight, SavedImageRelease, PinnableSourceRelease,
                 ReleaseInFlight, Specs
  <2>. QED BY <2>1, <2>2 DEF GoesOn
<1>3. CASE ~Pinned(pass, status) /\ SurvivorInFlight(pass, status) /\ ~pass.kind.built
  <2>1. Now = [status EXCEPT !.fp = pass.want, !.rel = pass.surv]
    BY <1>3 DEF Now, Decided, Redispatched
  <2>2. Now.rel = pass.surv /\ Now.fp = pass.stamp
    BY <1>1, <2>1 DEF AppStatuses
  <2>3. pass.cancel = pass.stamp
    BY <1>1, <1>3 DEF SurvivorInFlight, LatestRequestCanceled, RequestedGeneration
  <2>. QED BY <1>3, <2>2, <2>3 DEF RollsAgain, SurvivorInFlight
<1>4. CASE ~Pinned(pass, status) /\ ~(SurvivorInFlight(pass, status) /\ ~pass.kind.built)
  <2>1. Now = Adopted(pass, status)
    BY <1>4 DEF Now, Decided
  <2>2. ~LatestRequestCanceled(pass, status)
    BY <1>4 DEF SettlesCancel, Pinned
  <2>3. CASE status.fp # pass.stamp
    <3>1. RequestedGeneration(pass, status) = pass.stamp
      BY <1>1, <2>3 DEF RequestedGeneration
    <3>2. PICK h : \/ Now = [status EXCEPT !.fp = pass.stamp, !.rel = pass.stamp]
                   \/ Now = [[status EXCEPT !.fp = pass.stamp, !.rel = pass.stamp] EXCEPT !.selRel = h]
      BY <1>1, <2>1, <2>3, <3>1 DEF Adopted
    <3>3. Now.rel = pass.stamp /\ Now.fp = pass.stamp
      BY <1>1, <3>2 DEF AppStatuses
    <3>. QED BY <1>1, <2>3, <3>3 DEF TakesUp
  <2>4. CASE status.fp = pass.stamp
    <3>1. status.rel # 0
      BY <1>1, <2>2, <2>4 DEF LatestRequestCanceled
    <3>2. Now = [status EXCEPT !.fp = pass.want, !.rel = status.rel]
      BY <1>1, <2>1, <2>4, <3>1 DEF Adopted
    <3>3. Now.rel = status.rel /\ Now.fp = status.fp
      BY <1>1, <2>4, <3>2 DEF AppStatuses
    <3>. QED BY <2>2, <2>4, <3>3 DEF GoesOn
  <2>. QED BY <2>3, <2>4
<1>. QED BY <1>2, <1>3, <1>4

(* What a pass that goes on may have noted in status s: a failed build, a  *)
(* resolved artifact, a rollout's verdict, the outcome of a step.          *)
Notes(s) ==
  /\ \/ s.buildFail = status.buildFail
     \/ s.buildFail = Now.rel /\ NeedsBuild(pass, Now) /\ s.art = status.art
  /\ \/ s.art = status.art
     \/ s.art = Now.fp /\ HasImage(pass, Now)
  /\ s.rollFail \in {status.rollFail, Now.rel}
  /\ \/ s.pd = status.pd
     \/ /\ pass.kind.gated /\ Newer(Now) /\ s.active = status.active
        /\ \E st \in {"running", "succeeded", "failed"} :
             /\ s.pd = [gen |-> Now.rel, st |-> st]
             /\ StepFailing(status, Now.rel) => st = "failed"

(* It shows a failure that it has noted, or that it was shown while the    *)
(* step of its release ran.                                                *)
PhaseLeft(s) ==
  s.phase = status.phase /\ status.pd = [gen |-> Now.rel, st |-> "running"]

ShowsNoted(s) ==
  \/ PhaseLeft(s)
  \/ s.phase \notin {"buildFailed", "preDeployFailed", "rolloutFailed"}
  \/ s.phase = "buildFailed" /\ s.buildFail = Now.rel
  \/ s.phase = "preDeployFailed" /\ StepFailing(s, Now.rel)
  \/ /\ s.phase = "rolloutFailed" /\ s.rollFail = Now.rel
     /\ s.pd = status.pd
     /\ pass.kind.gated => s.pd.st = "succeeded"

(* It serves only a release that nothing holds back. *)
ServesReady(s) ==
  s.active # status.active =>
    /\ s.active = Now.rel /\ s.pd = status.pd
    /\ HasImage(pass, Now) /\ ~RolloutFailed /\ ~StepPending

Recorded(s) == Notes(s) /\ ShowsNoted(s) /\ ServesReady(s)

(* The step's outcome is noted with the status a canceled release leaves.  *)
SettledRecords(s) ==
  /\ s.phase \notin {"buildFailed", "preDeployFailed", "rolloutFailed"}
  /\ s.art = status.art
  /\ s.buildFail = status.buildFail /\ s.rollFail = status.rollFail
  /\ \/ s.pd = status.pd
     \/ /\ status.pd.st = "running"
        /\ \E st \in {"succeeded", "failed"} : s.pd = [gen |-> status.pd.gen, st |-> st]

(* Showing a phase changes nothing that was noted. *)
LEMMA ShownNotes ==
  ASSUME NEW s \in AppStatuses, NEW phase \in Phases
  PROVE  /\ Shown(s, phase).phase = phase
         /\ Failed(s, phase).phase \in {phase, "running"}
         /\ \A t \in {Shown(s, phase), Failed(s, phase)} :
              /\ t.art = s.art /\ t.buildFail = s.buildFail /\ t.rollFail = s.rollFail
              /\ t.pd = s.pd /\ t.active = s.active
<1>1. PICK g : g = pass.gen
  OBVIOUS
<1>2. ASSUME NEW ph
      PROVE  LET t == [s EXCEPT !.phase = ph, !.cond = g]
             IN  /\ t.art = s.art /\ t.buildFail = s.buildFail /\ t.rollFail = s.rollFail
                 /\ t.pd = s.pd /\ t.active = s.active /\ t.phase = ph
  BY DEF AppStatuses
<1>. QED BY <1>1, <1>2 DEF Shown, Failed

(* What each stage of a pass leaves to show has been noted. *)
LEMMA StagesNote ==
  ASSUME AppTypeOK, pass # NoPass
  PROVE  /\ Now \in AppStatuses /\ Notes(Now)
         /\ Resolved \in AppStatuses /\ Resolved.pd = status.pd
         /\ Resolved.buildFail = status.buildFail /\ Resolved.rollFail = status.rollFail
         /\ Resolved.art = Now.fp /\ Resolved.active = status.active
         /\ HasImage(pass, Now) => Notes(Resolved)
<1>1. Keeps(Now) /\ Keeps(Resolved) /\ Now.active = status.active
  BY NowCases, StagesKeep
<1>2. PICK n, fp : n = Now /\ fp = Now.fp
  OBVIOUS
<1>3. Resolved = [n EXCEPT !.art = fp]
  BY <1>2 DEF Resolved
<1>4. n \in AppStatuses
  BY <1>1, <1>2 DEF Keeps
<1>5. /\ Resolved.pd = n.pd /\ Resolved.buildFail = n.buildFail
      /\ Resolved.rollFail = n.rollFail /\ Resolved.art = fp /\ Resolved.active = n.active
  BY <1>3, <1>4 DEF AppStatuses
<1>6. /\ Resolved.pd = status.pd /\ Resolved.buildFail = status.buildFail
      /\ Resolved.rollFail = status.rollFail /\ Resolved.art = Now.fp
      /\ Resolved.active = status.active
  BY <1>1, <1>2, <1>5, NowRecords
<1>. QED BY <1>1, <1>6, NowRecords DEF Keeps, Notes

(* A stage that shows phase ph on what it noted has recorded both. *)
LEMMA StageRecords ==
  ASSUME AppTypeOK, pass # NoPass, NEW s \in AppStatuses, Notes(s), s.active = status.active,
         NEW phase \in Phases,
         \/ phase \notin {"buildFailed", "preDeployFailed", "rolloutFailed"}
         \/ phase = "buildFailed" /\ s.buildFail = Now.rel
         \/ phase = "preDeployFailed" /\ StepFailing(s, Now.rel)
         \/ /\ phase = "rolloutFailed" /\ s.rollFail = Now.rel
            /\ s.pd = status.pd
            /\ pass.kind.gated => s.pd.st = "succeeded"
  PROVE  Recorded(Shown(s, phase)) /\ Recorded(Failed(s, phase))
<1>1. ASSUME NEW t, t.art = s.art, t.buildFail = s.buildFail, t.rollFail = s.rollFail,
             t.pd = s.pd, t.active = s.active, t.phase \in {phase, "running"}
      PROVE  Recorded(t)
  <2>1. Notes(t) /\ ServesReady(t)
    BY <1>1 DEF Notes, ServesReady
  <2>2. ShowsNoted(t)
    BY <1>1 DEF ShowsNoted, StepFailing
  <2>. QED BY <2>1, <2>2 DEF Recorded
<1>2. PICK t, u : t = Shown(s, phase) /\ u = Failed(s, phase)
  OBVIOUS
<1>. QED BY <1>1, <1>2, ShownNotes

(* What a pass records that goes on, or settles a canceled release.        *)
PassRecords ==
  \/ status' = status
  \/ SettlesCancel(pass, status) /\ SettledRecords(status')
  \/ ~SettlesCancel(pass, status) /\ Recorded(status')

(* A build that goes on, fails or has failed, and the park of a suspended  *)
(* App.                                                                    *)
LEMMA BuildRecords ==
  ASSUME AppTypeOK,
         \/ \E phase \in {"queued", "building"} : BuildContinues(phase)
         \/ BuildFails \/ BuildHeld \/ Parks
  PROVE  PassRecords
<1>1. pass # NoPass /\ ~SettlesCancel(pass, status)
  BY DEF BuildContinues, BuildFails, BuildHeld, Parks, Builds, Dispatches
<1>2. /\ Now \in AppStatuses /\ Notes(Now) /\ Now.active = status.active
      /\ Resolved \in AppStatuses /\ Resolved.active = status.active
      /\ HasImage(pass, Now) => Notes(Resolved)
  BY <1>1, StagesNote, NowCases
<1>3. CASE \E phase \in {"queued", "building"} : BuildContinues(phase)
  <2>1. PICK phase \in {"queued", "building"} : status' = Shown(Now, phase)
    BY <1>3 DEF BuildContinues, WriteRetrying
  <2>2. phase \in Phases
    BY DEF Phases
  <2>. QED BY <1>1, <1>2, <2>1, <2>2, StageRecords DEF PassRecords
<1>4. CASE BuildFails
  <2>1. PICK n, rel : n = Now /\ rel = Now.rel
    OBVIOUS
  <2>2. PICK s : s = [n EXCEPT !.buildFail = rel]
    OBVIOUS
  <2>3. /\ s \in AppStatuses /\ s.buildFail = rel /\ s.art = n.art /\ s.pd = n.pd
        /\ s.rollFail = n.rollFail /\ s.active = n.active
    BY <1>2, <2>1, <2>2 DEF AppStatuses
  <2>4. Notes(s)
    BY <1>1, <1>4, <2>1, <2>3, NowRecords DEF Notes, BuildFails, Builds
  <2>5. status' = Failed(s, "buildFailed") /\ "buildFailed" \in Phases
    BY <1>4, <2>1, <2>2 DEF BuildFails, WriteRetrying, Phases
  <2>. QED BY <1>1, <1>2, <2>1, <2>3, <2>4, <2>5, StageRecords DEF PassRecords
<1>5. CASE BuildHeld
  <2>1. status' = status \/ status' = Failed(Now, "buildFailed")
    BY <1>5 DEF BuildHeld, WriteRetrying
  <2>2. Now.buildFail = Now.rel /\ "buildFailed" \in Phases
    BY <1>5 DEF BuildHeld, HasImage, Phases
  <2>. QED BY <1>1, <1>2, <2>1, <2>2, StageRecords DEF PassRecords
<1>6. CASE Parks
  <2>1. \/ status' = status
        \/ status' = Shown(Now, "hibernated")
        \/ status' = Shown(Resolved, "hibernated") /\ HasImage(pass, Now)
    BY <1>6 DEF Parks, WriteChecked, WriteRetrying, Resolved, HasImage
  <2>2. "hibernated" \in Phases
    BY DEF Phases
  <2>. QED BY <1>1, <1>2, <2>1, <2>2, StageRecords DEF PassRecords
<1>. QED BY <1>3, <1>4, <1>5, <1>6

(* The stages of a pre-deploy step. *)
LEMMA StepRecords ==
  ASSUME AppTypeOK, StepRuns \/ StepSucceeds \/ StepFails
  PROVE  PassRecords
<1>1. /\ pass # NoPass /\ ~SettlesCancel(pass, status) /\ HasImage(pass, Now)
      /\ pass.kind.gated /\ Newer(Now)
  BY DEF StepRuns, StepSucceeds, StepFails, Runs, Dispatches, StepPending
<1>2. /\ Now \in AppStatuses /\ Now.active = status.active /\ Now.pd = status.pd
      /\ Now.phase = status.phase
      /\ Resolved \in AppStatuses /\ Resolved.active = status.active
      /\ Notes(Resolved)
  BY <1>1, StagesNote, NowCases, NowRecords
<1>3. PICK n, r, rel : n = Now /\ r = Resolved /\ rel = Now.rel
  OBVIOUS
<1>4. rel \in 0..MaxGen
  BY <1>2, <1>3 DEF AppStatuses
<1>5. ASSUME NEW st \in {"running", "succeeded", "failed"},
             StepFailing(status, rel) => st = "failed"
      PROVE  /\ StepAt(st) \in AppStatuses /\ StepAt(st).active = status.active
             /\ StepAt(st).pd = [gen |-> rel, st |-> st] /\ StepAt(st).phase = r.phase
             /\ Notes(StepAt(st))
  <2>1. PICK s : s = StepAt(st)
    OBVIOUS
  <2>2. s = [r EXCEPT !.pd = [gen |-> rel, st |-> st]]
    BY <1>3, <2>1 DEF StepAt
  <2>3. /\ s \in AppStatuses /\ s.active = r.active /\ s.art = r.art /\ s.phase = r.phase
        /\ s.buildFail = r.buildFail /\ s.rollFail = r.rollFail
        /\ s.pd = [gen |-> rel, st |-> st]
    BY <1>2, <1>3, <1>4, <2>2 DEF AppStatuses
  <2>4. Notes(s)
    BY <1>1, <1>2, <1>3, <1>5, <2>3 DEF Notes
  <2>. QED BY <1>2, <1>3, <2>1, <2>3, <2>4
<1>6. CASE StepRuns
  <2>1. ~StepFailing(status, rel) /\ status' = Shown(StepAt("running"), "deploying")
    BY <1>2, <1>3, <1>6 DEF StepRuns, StepFailed, StepFailing, WriteRetrying
  <2>2. "deploying" \in Phases
    BY DEF Phases
  <2>. QED BY <1>1, <1>5, <2>1, <2>2, StageRecords DEF PassRecords
<1>7. CASE StepSucceeds
  <2>1. status.pd = [gen |-> rel, st |-> "running"] /\ status' = StepAt("succeeded")
    BY <1>2, <1>3, <1>7 DEF StepSucceeds, WriteRetrying
  <2>2. ~StepFailing(status, rel)
    BY <2>1 DEF StepFailing
  <2>3. r.phase = status.phase
    <3>1. PICK fp : fp = Now.fp
      OBVIOUS
    <3>2. r = [n EXCEPT !.art = fp]
      BY <1>3, <3>1 DEF Resolved
    <3>. QED BY <1>2, <1>3, <3>2 DEF AppStatuses
  <2>4. PhaseLeft(status') /\ Notes(status') /\ status'.active = status.active
    BY <1>3, <1>5, <2>1, <2>2, <2>3 DEF PhaseLeft
  <2>. QED BY <1>1, <2>4 DEF PassRecords, Recorded, ShowsNoted, ServesReady
<1>8. CASE StepFails
  <2>1. status' = Failed(StepAt("failed"), "preDeployFailed")
    BY <1>8 DEF StepFails, WriteRetrying
  <2>2. "preDeployFailed" \in Phases
    BY DEF Phases
  <2>3. StepFailing(StepAt("failed"), Now.rel)
    BY <1>3, <1>5 DEF StepFailing
  <2>. QED BY <1>1, <1>5, <2>1, <2>2, <2>3, StageRecords DEF PassRecords
<1>. QED BY <1>6, <1>7, <1>8

(* The stages of a rollout. *)
LEMMA RolloutRecords ==
  ASSUME AppTypeOK, Rolls \/ Serves \/ RolloutFails \/ RolloutHeld
  PROVE  PassRecords
<1>1. /\ pass # NoPass /\ ~SettlesCancel(pass, status) /\ HasImage(pass, Now) /\ ~StepPending
  BY DEF Rolls, Serves, RolloutFails, RolloutHeld, Runs, Dispatches
<1>2. /\ Now \in AppStatuses /\ Now.active = status.active /\ Now.pd = status.pd
      /\ Now.rollFail = status.rollFail
      /\ Resolved \in AppStatuses /\ Resolved.active = status.active
      /\ Resolved.pd = status.pd /\ Resolved.rollFail = status.rollFail
      /\ Notes(Resolved)
  BY <1>1, StagesNote, NowCases, NowRecords
<1>3. PICK r, rel : r = Resolved /\ rel = Now.rel
  OBVIOUS
<1>4. rel \in 0..MaxGen
  BY <1>2, <1>3 DEF AppStatuses
<1>5. {"deploying", "running", "rolloutFailed"} \subseteq Phases
  BY DEF Phases
<1>6. CASE Rolls
  BY <1>1, <1>2, <1>5, <1>6, StageRecords DEF Rolls, WriteRetrying, PassRecords
<1>7. CASE Serves
  <2>1. PICK s : s = [r EXCEPT !.active = rel]
    OBVIOUS
  <2>2. /\ s \in AppStatuses /\ s.active = rel /\ s.art = r.art /\ s.pd = r.pd
        /\ s.buildFail = r.buildFail /\ s.rollFail = r.rollFail
    BY <1>2, <1>3, <1>4, <2>1 DEF AppStatuses
  <2>3. status' = status \/ status' = Shown(s, "running")
    BY <1>3, <1>7, <2>1 DEF Serves, WriteChecked, WriteRetrying
  <2>4. PICK t : t = Shown(s, "running")
    OBVIOUS
  <2>5. /\ t.phase = "running" /\ t.art = r.art /\ t.buildFail = r.buildFail
        /\ t.rollFail = r.rollFail /\ t.pd = r.pd /\ t.active = rel
    BY <1>5, <2>2, <2>4, ShownNotes
  <2>6. Notes(t)
    BY <1>2, <1>3, <2>5 DEF Notes
  <2>7. ~RolloutFailed
    BY <1>7 DEF Serves
  <2>8. Recorded(t)
    BY <1>1, <1>2, <1>3, <2>5, <2>6, <2>7 DEF Recorded, ShowsNoted, ServesReady
  <2>. QED BY <1>1, <2>3, <2>4, <2>8 DEF PassRecords
<1>8. ASSUME NEW s \in AppStatuses, Notes(s), s.active = status.active, s.pd = status.pd,
             s.rollFail = Now.rel, Newer(Now), RolloutVerdict(s)
      PROVE  PassRecords
  <2>1. status' = status \/ status' = Failed(s, "rolloutFailed")
    BY <1>8 DEF RolloutVerdict, WriteChecked, WriteRetrying
  <2>2. pass.kind.gated => s.pd.st = "succeeded"
    BY <1>1, <1>2, <1>8 DEF StepPending
  <2>. QED BY <1>1, <1>5, <1>8, <2>1, <2>2, StageRecords DEF PassRecords
<1>9. CASE RolloutFails
  <2>1. PICK s : s = [r EXCEPT !.rollFail = rel]
    OBVIOUS
  <2>2. /\ s \in AppStatuses /\ s.active = r.active /\ s.art = r.art /\ s.pd = r.pd
        /\ s.buildFail = r.buildFail /\ s.rollFail = rel
    BY <1>2, <1>3, <1>4, <2>1 DEF AppStatuses
  <2>3. Notes(s)
    BY <1>2, <1>3, <2>2 DEF Notes
  <2>. QED BY <1>2, <1>3, <1>8, <1>9, <2>1, <2>2, <2>3 DEF RolloutFails
<1>10. CASE RolloutHeld
  BY <1>2, <1>8, <1>10 DEF RolloutHeld, RolloutFailed
<1>. QED BY <1>6, <1>7, <1>9, <1>10

(* The canceled branch. *)
LEMMA CancelRecords ==
  ASSUME AppTypeOK, NEW phase \in Phases, NEW step, CancelSettles(phase, step)
  PROVE  PassRecords
<1>1. /\ pass # NoPass /\ SettlesCancel(pass, status)
      /\ phase \in {"canceled", "hibernated", "deploying", "running"}
      /\ step # status.pd.st => status.pd.st = "running" /\ step \in {"succeeded", "failed"}
  BY DEF CancelSettles
<1>2. PICK n, s : n = Now /\ s = [n EXCEPT !.pd.st = step]
  OBVIOUS
<1>3. n \in AppStatuses /\ n.pd = status.pd /\ step \in {"none", "running", "succeeded", "failed"}
  BY <1>1, <1>2, NowCases, NowRecords DEF AppStatuses
<1>4. /\ s \in AppStatuses /\ s.art = n.art /\ s.buildFail = n.buildFail
      /\ s.rollFail = n.rollFail
      /\ s.pd = [status.pd EXCEPT !.st = step]
  BY <1>2, <1>3 DEF AppStatuses
<1>5. \/ s.pd = status.pd
      \/ /\ status.pd.st = "running"
         /\ \E st \in {"succeeded", "failed"} : s.pd = [gen |-> status.pd.gen, st |-> st]
  BY <1>1, <1>3, <1>4 DEF AppTypeOK, AppStatuses
<1>6. status' = status \/ status' = Shown(s, phase)
  BY <1>2 DEF CancelSettles, WriteChecked, WriteRetrying
<1>7. SettledRecords(Shown(s, phase))
  <2>1. PICK t : t = Shown(s, phase)
    OBVIOUS
  <2>2. /\ t.phase = phase /\ t.art = s.art /\ t.pd = s.pd
        /\ t.buildFail = s.buildFail /\ t.rollFail = s.rollFail
    BY <1>4, <2>1, ShownNotes
  <2>3. /\ s.art = status.art /\ s.buildFail = status.buildFail
        /\ s.rollFail = status.rollFail
    BY <1>1, <1>2, <1>4, NowRecords
  <2>. QED BY <1>1, <1>5, <2>1, <2>2, <2>3 DEF SettledRecords
<1>. QED BY <1>1, <1>6, <1>7 DEF PassRecords

(* A pass that works records no other failure than of the release it goes  *)
(* on with, and serves only what is ready (reconcileBuild,                 *)
(* reconcilePreDeploy, settleReady).                                       *)
LEMMA OperateRecords ==
  ASSUME AppTypeOK, Operate
  PROVE  PassRecords
BY BuildRecords, StepRecords, RolloutRecords, CancelRecords DEF Operate

-----------------------------------------------------------------------------
(* A pass of the operator rolls no failed release out *)

(* What a pass that goes on may rely on. *)
LEMMA PassFacts ==
  ASSUME IInv, SInv, FInv, pass # NoPass
  PROVE  /\ {pass.gen, pass.stamp, pass.cancel, pass.surv, spec.stamp, spec.cancel, status.rel,
             status.fp, status.active, status.buildFail, status.rollFail,
             status.pd.gen} \subseteq Nat
         /\ pass.stamp # 0 /\ status.fp <= pass.stamp /\ pass.stamp <= spec.stamp
         /\ pass.cancel <= pass.stamp /\ pass.cancel <= spec.cancel /\ spec.cancel <= spec.stamp
         /\ pass.kind = spec.kind /\ pass \in Specs
         /\ status.rel <= status.fp /\ status.buildFail <= status.fp
         /\ status.rollFail <= status.fp /\ status.pd.gen <= status.fp
         /\ status.active <= status.rel
<1>1. status.buildFail \in Nat /\ status.rollFail \in Nat /\ status.pd.gen \in Nat
  BY Undisturbed, TableIsStore DEF AppStatuses
<1>2. pass \in Specs
  BY Undisturbed DEF AppTypeOK
<1>. QED BY <1>1, <1>2, PassKnown
         DEF SInv, RInv, Stamped, SavedAsRequested, PassBehind, FInv, Ranked, KindHolds

(* The release a pass goes on with is no older than the one that serves,   *)
(* nor newer than the settings adopted with it, which only move on.        *)
LEMMA NowRanked ==
  ASSUME IInv, SInv, FInv, pass # NoPass, ~SettlesCancel(pass, status)
  PROVE  /\ Now.rel \in Nat \ {0} /\ Now.fp \in Nat
         /\ status.active <= Now.rel /\ Now.rel <= Now.fp
         /\ status.fp <= Now.fp /\ Now.fp <= pass.stamp
<1>1. Now.rel \in 1..pass.gen /\ status.active <= Now.rel
  BY Undisturbed, NowOrder
<1>. QED BY <1>1, PassFacts, NowReleases DEF GoesOn, RollsAgain, TakesUp

(* What holds the release back that the status reports holds the pass back. *)
LEMMA StuckHolds ==
  ASSUME IInv, SInv, FInv, pass # NoPass, ~SettlesCancel(pass, status), GoesOn,
         status.rel = status.fp, Stuck
  PROVE  \/ status.rollFail = Now.rel
         \/ StepFailing(status, Now.rel)
         \/ /\ status.buildFail = Now.rel /\ status.art # Now.fp
            /\ ~HasImage(pass, Now)
<1>1. Now.rel = status.rel /\ Now.fp = status.fp /\ Now.rel # 0
  BY NowRanked DEF GoesOn
<1>2. CASE status.buildFail = status.rel /\ status.art # status.fp
  <2>1. spec.kind.built /\ pass.kind.built
    BY <1>1, <1>2, PassFacts DEF FInv, KindHolds
  <2>2. ~ActiveSel(pass, Now)
    <3>1. CASE status.fp = pass.stamp
      <4>1. pass.sel # pass.stamp
        BY <1>1, <1>2, <3>1 DEF FInv, Selected
      <4>. QED BY <1>1, <3>1, <4>1 DEF ActiveSel
    <3>. QED BY <3>1 DEF GoesOn
  <2>3. Now.art = status.art /\ Now.buildFail = status.buildFail
    BY Undisturbed, NowRecords
  <2>. QED BY <1>1, <1>2, <2>1, <2>2, <2>3 DEF HasImage, NeedsBuild
<1>. QED BY <1>1, <1>2 DEF Stuck

(* A release known to have failed serves only after a cancel named it to   *)
(* be rolled again.                                                        *)
LEMMA FailedServes ==
  ASSUME IInv, SInv, FInv, PassOutcome, PassRecords,
         NEW g \in Generations, Known(g), status'.active = g, status.active # g
  PROVE  ~spec.kind.built /\ g = spec.surv /\ g < spec.cancel
<1>1. /\ pass # NoPass /\ pass = spec /\ ~SettlesCancel(pass, status) /\ g = Now.rel
      /\ Recorded(status')
  BY DEF PassOutcome, PassSettles, PassWorks, PassServes, PassRecords
<1>2. HasImage(pass, Now) /\ ~RolloutFailed /\ ~StepPending
  BY <1>1 DEF Recorded, ServesReady
<1>3. Newer(Now) /\ status.active < Now.rel /\ g <= status.fp
      /\ Now.pd = status.pd /\ Now.rollFail = status.rollFail
  BY <1>1, NowRanked, NowCases, NowRecords, PassFacts, Undisturbed DEF Newer, FInv, FailedIsStuck
<1>4. CASE RollsAgain
  BY <1>1, <1>4 DEF RollsAgain
<1>5. CASE TakesUp
  BY <1>1, <1>3, <1>5, PassFacts DEF TakesUp
<1>6. CASE GoesOn
  <2>1. status.rel = g /\ status.active < status.rel
    BY <1>1, <1>3, <1>6 DEF GoesOn
  <2>2. CASE status.fp = g
    <3>1. Stuck
      BY <1>1, <2>1, <2>2 DEF FInv, FailedIsStuck
    <3>2. status.rollFail # Now.rel
      BY <1>2, <1>3 DEF RolloutFailed
    <3>3. ~StepFailing(status, Now.rel)
      <4>1. pass.kind.gated => status.pd = [gen |-> Now.rel, st |-> "succeeded"]
        BY <1>2, <1>3 DEF StepPending
      <4>. QED BY <1>1, <4>1, PassFacts DEF StepFailing, FInv, KindHolds
    <3>. QED BY <1>1, <1>2, <1>6, <2>1, <2>2, <3>1, <3>2, <3>3, StuckHolds
  <2>3. CASE status.fp # g
    <3>1. /\ status.rel < status.fp /\ ~pass.kind.built
          /\ pass.stamp = status.fp => pass.cancel = pass.stamp
      BY <1>1, <1>3, <2>1, <2>3, PassFacts DEF FInv, Ranked
    <3>2. status.fp = pass.stamp /\ ~LatestRequestCanceled(pass, status)
      BY <1>6, <3>1 DEF GoesOn
    <3>3. pass.cancel = pass.stamp /\ status.rel <= pass.cancel /\ pass.cancel # 0
      BY <1>1, <3>1, <3>2, PassFacts
    <3>. QED BY <3>2, <3>3 DEF LatestRequestCanceled
  <2>. QED BY <2>2, <2>3
<1>. QED BY <1>1, <1>4, <1>5, <1>6, NowReleases

(* A pass of the operator ends, as the rest of the system sees it.         *)
PassEnd ==
  /\ PassOutcome /\ PassRecords
  /\ served' = served \cup ({status'.active} \ {0})
  /\ UNCHANGED <<deploys, recs, ended>>

GoingOn ==
  /\ PassEnd /\ status' # status
  /\ ~SettlesCancel(pass, status) /\ Recorded(status')

Settling ==
  /\ PassEnd /\ status' # status
  /\ SettlesCancel(pass, status) /\ SettledRecords(status')

(* What is known of failures afterwards was known, or the pass noted it.   *)
LEMMA KnownByPass ==
  ASSUME UNCHANGED <<deploys, recs>>, NEW g \in Generations
  PROVE  /\ Known(g)' => Known(g) \/ Failing(status', g)
         /\ StepKnown(g)' => StepKnown(g) \/ StepFailing(status', g)
<1>1. StepKnown(g)' => StepKnown(g) \/ StepFailing(status', g)
  BY DEF StepKnown
<1>. QED BY <1>1 DEF Known, Failing

(* What a pass that goes on leaves. *)
LEMMA GoingOnFacts ==
  ASSUME IInv, SInv, FInv, GoingOn
  PROVE  /\ pass # NoPass /\ pass' = NoPass /\ spec' = spec
         /\ status'.rel = Now.rel /\ status'.fp = Now.fp
         /\ \/ status'.active = status.active
            \/ status'.active = Now.rel /\ pass = spec /\ status'.pd = status.pd
               /\ HasImage(pass, Now) /\ ~RolloutFailed /\ ~StepPending
         /\ status' \in AppStatuses
<1>1. PassOutcome /\ status' # status /\ ~SettlesCancel(pass, status)
  BY DEF GoingOn, PassEnd
<1>. QED BY <1>1 DEF PassOutcome, PassSettles, PassWorks, PassServes, GoingOn, Recorded, ServesReady

(* What a pass that settles a canceled release leaves. *)
LEMMA SettlingFacts ==
  ASSUME IInv, SInv, FInv, Settling
  PROVE  /\ pass # NoPass /\ pass' = NoPass /\ spec' = spec
         /\ status'.rel = status.active /\ status'.fp = status.fp
         /\ status'.active = status.active
<1>1. PassOutcome /\ status' # status /\ SettlesCancel(pass, status)
  BY DEF Settling, PassEnd
<1>. QED BY <1>1 DEF PassOutcome, PassSettles, PassWorks, PassServes

(* A pass that goes on leaves no release ahead of the settings adopted     *)
(* with it.                                                                *)
LEMMA RankedGoesOn ==
  ASSUME IInv, SInv, FInv, GoingOn
  PROVE  Ranked'
<1>1. Notes(status')
  BY DEF GoingOn, Recorded
<1>2. /\ status'.buildFail <= Now.fp /\ status'.rollFail <= Now.fp
      /\ status'.pd.gen <= Now.fp
  <2>1. status'.buildFail \in {status.buildFail, Now.rel}
        /\ status'.rollFail \in {status.rollFail, Now.rel}
        /\ status'.pd.gen \in {status.pd.gen, Now.rel}
    BY <1>1 DEF Notes
  <2>. QED BY <2>1, GoingOnFacts, PassFacts, NowRanked DEF GoingOn
<1>3. ASSUME status'.active < Now.rel, Now.rel < Now.fp
      PROVE  ~spec.kind.built /\ (spec.stamp = Now.fp => spec.cancel = spec.stamp)
  <2>1. status'.active = status.active
    BY <1>3, GoingOnFacts, NowRanked DEF GoingOn
  <2>2. CASE GoesOn
    BY <1>3, <2>1, <2>2 DEF GoesOn, FInv, Ranked
  <2>3. CASE RollsAgain
    BY <2>3, GoingOnFacts, PassFacts DEF RollsAgain
  <2>4. CASE TakesUp
    BY <1>3, <2>4, GoingOnFacts, PassFacts DEF TakesUp
  <2>. QED BY <2>2, <2>3, <2>4, GoingOnFacts, NowReleases DEF GoingOn
<1>4. Now.rel <= Now.fp
  BY GoingOnFacts, NowRanked DEF GoingOn
<1>. QED BY <1>2, <1>3, <1>4, GoingOnFacts DEF Ranked

(* It fails the build of an App that builds only, and of no selected       *)
(* release.                                                                *)
LEMMA KindGoesOn ==
  ASSUME IInv, SInv, FInv, GoingOn
  PROVE  (KindHolds /\ Selected)'
<1>1. Notes(status') /\ pass # NoPass /\ pass' = NoPass /\ spec' = spec
      /\ pass.kind = spec.kind /\ Now.rel \in Nat \ {0} /\ Now.rel <= pass.stamp
      /\ pass.stamp <= spec.stamp
  BY GoingOnFacts, PassFacts, NowRanked DEF GoingOn, Recorded
<1>2. CASE status'.buildFail = status.buildFail
  BY <1>1, <1>2 DEF FInv, KindHolds, Selected, Notes
<1>3. CASE status'.buildFail # status.buildFail
  <2>1. status'.buildFail = Now.rel /\ pass.kind.built /\ ~ActiveSel(pass, Now)
    BY <1>1, <1>3 DEF Notes, NeedsBuild
  <2>2. spec.stamp = Now.rel => spec.sel # spec.stamp
    <3>1. ASSUME spec.stamp = Now.rel PROVE spec.sel # spec.stamp
      <4>1. pass.stamp = spec.stamp
        BY <1>1, <3>1, PassFacts
      <4>2. pass.sel = spec.sel
        BY <1>1, <4>1 DEF FInv, Selected
      <4>. QED BY <1>1, <2>1, <3>1, <4>1, <4>2 DEF ActiveSel
    <3>. QED BY <3>1
  <2>3. status'.pd.st # "none" => spec.kind.gated
    BY <1>1 DEF FInv, KindHolds, Notes
  <2>. QED BY <1>1, <2>1, <2>2, <2>3 DEF KindHolds, Selected
<1>. QED BY <1>2, <1>3

(* The phase it leaves shows the failure it recorded, or found. *)
LEMMA TellsGoesOn ==
  ASSUME IInv, SInv, FInv, GoingOn
  PROVE  Tells(status)'
<1>1. /\ ShowsNoted(status') /\ Notes(status') /\ status'.rel = Now.rel
      /\ pass # NoPass /\ Now.rel # 0 /\ pass.kind = spec.kind
  BY GoingOnFacts, PassFacts, NowRanked DEF GoingOn, Recorded
<1>2. CASE PhaseLeft(status')
  <2>1. status.pd = [gen |-> Now.rel, st |-> "running"] /\ status'.phase = status.phase
    BY <1>2 DEF PhaseLeft
  <2>2. status.phase \notin {"preDeployFailed", "rolloutFailed"}
    BY <2>1 DEF FInv, Tells, StepFailing
  <2>3. CASE status.phase = "buildFailed"
    <3>1. status.buildFail = status.rel /\ status.rel # 0 /\ spec.kind.built
      BY <2>3 DEF FInv, Tells, KindHolds
    <3>2. Now.rel = status.rel
      <4>1. Now.rel <= status.fp
        BY <1>1, <2>1, PassFacts
      <4>2. GoesOn
        BY <1>1, <3>1, <4>1, NowReleases, PassFacts DEF GoingOn, RollsAgain, TakesUp
      <4>. QED BY <4>2 DEF GoesOn
    <3>3. status'.buildFail = status'.rel
      BY <1>1, <3>1, <3>2 DEF Notes
    <3>. QED BY <1>1, <2>1, <2>2, <3>3 DEF Tells
  <2>4. CASE status.phase # "buildFailed"
    BY <2>1, <2>2, <2>4 DEF Tells
  <2>. QED BY <2>3, <2>4
<1>3. CASE status'.phase = "rolloutFailed" /\ ~PhaseLeft(status')
  <2>1. status'.rollFail = Now.rel /\ status'.pd = status.pd
        /\ (pass.kind.gated => status'.pd.st = "succeeded")
    BY <1>1, <1>3 DEF ShowsNoted
  <2>2. status'.pd.st # "running"
    BY <1>1, <2>1 DEF FInv, KindHolds
  <2>. QED BY <1>1, <1>3, <2>1, <2>2 DEF Tells
<1>4. CASE status'.phase # "rolloutFailed" /\ ~PhaseLeft(status')
  BY <1>1, <1>4 DEF ShowsNoted, Tells
<1>. QED BY <1>2, <1>3, <1>4

(* What failed a release still holds it back, and what fails one now does. *)
LEMMA StuckGoesOn ==
  ASSUME IInv, SInv, FInv, GoingOn
  PROVE  FailedIsStuck'
<1>1. /\ Notes(status') /\ ~SettlesCancel(pass, status) /\ UNCHANGED <<deploys, recs>>
      /\ pass # NoPass /\ status'.rel = Now.rel /\ status'.fp = Now.fp
      /\ Now.art = status.art
  BY GoingOnFacts, NowRecords, Undisturbed DEF GoingOn, PassEnd, Recorded
<1>2. ASSUME NEW g \in Generations, Known(g)
      PROVE  g <= Now.fp /\ (Now.rel = g /\ Now.fp = g /\ status'.active < g => Stuck')
  <2>1. g <= status.fp /\ g \in Nat
    BY <1>2, AppReleaseAssumption DEF FInv, FailedIsStuck, Generations
  <2>2. ASSUME Now.rel = g, Now.fp = g, status'.active < g PROVE Stuck'
    <3>1. GoesOn
      BY <1>1, <2>1, <2>2, NowReleases, PassFacts DEF RollsAgain, TakesUp
    <3>2. status.active < g
      BY <2>1, <2>2, GoingOnFacts
    <3>3. status.rel = g /\ status.fp = g /\ Stuck
      BY <1>2, <2>2, <3>1, <3>2 DEF GoesOn, FInv, FailedIsStuck
    <3>4. \/ status.rollFail = Now.rel
          \/ StepFailing(status, Now.rel)
          \/ /\ status.buildFail = Now.rel /\ status.art # Now.fp
             /\ ~HasImage(pass, Now)
      BY <1>1, <3>1, <3>3, StuckHolds
    <3>5. CASE status.rollFail = Now.rel
      BY <1>1, <3>5 DEF Stuck, Notes
    <3>6. CASE StepFailing(status, Now.rel)
      BY <1>1, <3>6 DEF Stuck, Notes, StepFailing
    <3>7. CASE /\ status.buildFail = Now.rel /\ status.art # Now.fp
               /\ ~HasImage(pass, Now)
      BY <1>1, <3>7 DEF Stuck, Notes
    <3>. QED BY <3>4, <3>5, <3>6, <3>7
  <2>. QED BY <1>1, <2>1, <2>2, NowRanked, PassFacts
<1>3. ASSUME NEW g \in Generations, ~Known(g), Failing(status', g)
      PROVE  g = Now.rel /\ g <= Now.fp /\ Stuck'
  <2>1. ~Failing(status, g)
    BY <1>3 DEF Known
  <2>2. CASE status'.buildFail = g
    BY <1>1, <2>1, <2>2, NowRanked DEF Failing, Notes, NeedsBuild, Stuck
  <2>3. CASE status'.rollFail = g
    BY <1>1, <2>1, <2>3, NowRanked DEF Failing, Notes, Stuck
  <2>4. CASE StepFailing(status', g)
    <3>1. status'.pd # status.pd
      BY <2>1, <2>4 DEF Failing, StepFailing
    <3>2. g = Now.rel
      BY <1>1, <2>4, <3>1 DEF Notes, StepFailing
    <3>. QED BY <1>1, <2>4, <3>2, NowRanked DEF Stuck
  <2>. QED BY <1>3, <2>2, <2>3, <2>4 DEF Failing
<1>4. ASSUME NEW g \in Generations, Known(g)'
      PROVE  /\ g <= status'.fp
             /\ status'.rel = g /\ status'.fp = g /\ status'.active < g => Stuck'
  BY <1>1, <1>2, <1>3, <1>4, KnownByPass
<1>. QED BY <1>4 DEF FailedIsStuck

(* It starts or ends no step of a release that has served, and serves none *)
(* whose step failed, but one which a cancel had rolled again.             *)
LEMMA StepsGoesOn ==
  ASSUME IInv, SInv, FInv, GoingOn
  PROVE  StepsServe'
<1>1. /\ PassOutcome /\ PassRecords /\ UNCHANGED <<deploys, recs, ended>>
      /\ served' = served \cup ({status'.active} \ {0})
      /\ Notes(status') /\ ~SettlesCancel(pass, status) /\ spec' = spec
      /\ pass # NoPass
  BY GoingOnFacts DEF GoingOn, PassEnd, Recorded
<1>2. \A g \in served : g \in Nat \ {0} /\ g <= status.active
  BY Undisturbed, AppReleaseAssumption DEF FInv, StepsServe, Generations
<1>3. status.active <= status'.active /\ status.active \in Nat /\ Now.rel \in Nat \ {0}
  BY <1>1, GoingOnFacts, NowRanked, PassFacts
<1>4. (\A g \in served : g <= status.active)'
  BY <1>1, <1>2, <1>3, GoingOnFacts
<1>5. ASSUME status'.pd.st \in {"running", "failed"}
      PROVE  status'.pd.gen \notin served'
  <2>1. CASE status'.pd # status.pd
    <3>1. status'.pd.gen = Now.rel /\ Newer(Now) /\ status'.active = status.active
      BY <1>1, <2>1 DEF Notes
    <3>2. status.active < Now.rel
      BY <1>1, <3>1, NowRanked, NowCases, PassFacts, Undisturbed DEF Newer
    <3>. QED BY <1>1, <1>2, <1>3, <3>1, <3>2
  <2>2. CASE status'.pd = status.pd
    <3>1. status.pd.gen \notin served
      BY <1>5, <2>2 DEF FInv, StepsServe
    <3>2. CASE status'.active = status.active
      BY <1>1, <2>2, <3>1, <3>2, Undisturbed
    <3>3. CASE status'.active # status.active
      <4>1. status'.active = Now.rel /\ ~StepPending /\ Now.pd = status.pd
            /\ Now.active = status.active
        BY <1>1, <3>3, GoingOnFacts, NowRecords, NowCases, Undisturbed
      <4>2. pass.kind.gated => status.pd.st = "succeeded"
        BY <3>3, <4>1 DEF StepPending, Newer
      <4>. QED BY <1>1, <1>5, <2>2, <4>2, PassFacts DEF FInv, KindHolds
    <3>. QED BY <3>2, <3>3
  <2>. QED BY <2>1, <2>2
<1>6. ASSUME NEW g \in Generations, StepKnown(g)', g \in served'
      PROVE  ~spec.kind.built /\ \E e \in ended : g < e.gen
  <2>1. ~StepFailing(status', g)
    BY <1>5, <1>6 DEF StepFailing
  <2>2. StepKnown(g)
    BY <1>1, <1>6, <2>1, KnownByPass
  <2>3. CASE g \in served
    BY <2>2, <2>3 DEF FInv, StepsServe
  <2>4. CASE g \notin served
    <3>1. status'.active = g /\ status.active # g
      BY <1>1, <1>6, <2>4, Undisturbed, AppReleaseAssumption DEF Generations
    <3>2. ~spec.kind.built /\ g < spec.cancel
      BY <1>1, <2>2, <3>1, FailedServes DEF Known
    <3>3. \E e \in ended : e.gen = spec.cancel
      BY <1>1, <3>2, PassFacts, AppReleaseAssumption DEF FInv, StepsServe, Generations
    <3>. QED BY <3>2, <3>3
  <2>. QED BY <2>3, <2>4
<1>7. spec'.cancel # 0 => \E e \in ended' : e.gen = spec'.cancel
  BY <1>1 DEF FInv, StepsServe
<1>. QED BY <1>1, <1>4, <1>5, <1>6, <1>7 DEF StepsServe

(* A pass that settles a canceled release notes at most how its step ended. *)
LEMMA SettlingKeepsFInv ==
  ASSUME IInv, SInv, FInv, Settling
  PROVE  FInv'
<1>1. /\ SettledRecords(status') /\ UNCHANGED <<spec, deploys, recs, ended>>
      /\ served' = served \cup ({status'.active} \ {0})
      /\ pass # NoPass /\ pass' = NoPass
      /\ status'.rel = status.active /\ status'.fp = status.fp
      /\ status'.active = status.active
      /\ status'.buildFail = status.buildFail /\ status'.rollFail = status.rollFail
      /\ status'.pd.gen = status.pd.gen
      /\ status.pd.st = "none" => status'.pd.st = "none"
  BY SettlingFacts DEF Settling, PassEnd, SettledRecords
<1>2. served' = served
  BY <1>1, Undisturbed
<1>3. Tells(status)'
  BY <1>1 DEF Tells, SettledRecords
<1>4. Ranked'
  BY <1>1, PassFacts DEF FInv, Ranked
<1>5. (KindHolds /\ Selected)'
  BY <1>1 DEF FInv, KindHolds, Selected
<1>6. ASSUME NEW g \in Generations, StepFailing(status', g)
      PROVE  StepFailing(status, g) \/ (g = status.pd.gen /\ status.pd.st = "running")
  BY <1>1, <1>6 DEF StepFailing, SettledRecords
<1>7. FailedIsStuck'
  <2>1. ASSUME NEW g \in Generations, Known(g)'
        PROVE  g <= status.fp
    <3>1. Known(g) \/ Failing(status', g)
      BY <1>1, <2>1, KnownByPass
    <3>2. CASE Known(g)
      BY <3>2 DEF FInv, FailedIsStuck
    <3>3. CASE Failing(status', g)
      BY <1>1, <1>6, <3>3, PassFacts DEF Failing, StepFailing
    <3>. QED BY <3>1, <3>2, <3>3
  <2>2. \A g \in Generations : status'.rel = g => ~(status'.active < g)
    BY <1>1, PassFacts
  <2>. QED BY <1>1, <2>1, <2>2 DEF FailedIsStuck
<1>8. status'.pd.st \in {"running", "failed"} => status'.pd.gen \notin served'
  BY <1>1, <1>2 DEF SettledRecords, FInv, StepsServe
<1>9. StepsServe'
  <2>1. ASSUME NEW g \in Generations, StepKnown(g)', g \in served'
        PROVE  ~spec.kind.built /\ \E e \in ended : g < e.gen
    <3>1. ~StepFailing(status', g)
      BY <1>8, <2>1 DEF StepFailing
    <3>2. StepKnown(g)
      BY <1>1, <2>1, <3>1, KnownByPass
    <3>. QED BY <1>2, <2>1, <3>2 DEF FInv, StepsServe
  <2>. QED BY <1>1, <1>2, <1>8, <2>1 DEF FInv, StepsServe
<1>10. \A r \in Reconcilers : recs'[r].at = "listed" => Tells(recs'[r].app)
  BY <1>1 DEF FInv
<1>. QED BY <1>3, <1>4, <1>5, <1>7, <1>9, <1>10 DEF FInv

(* A pass that begins reads the spec, one that leaves the status as it was *)
(* forgets it.                                                             *)
LEMMA IdlePassKeepsFInv ==
  ASSUME IInv, SInv, FInv, pass' \in {NoPass, spec},
         UNCHANGED <<spec, status, deploys, recs, served, ended>>
  PROVE  FInv'
<1>1. spec # NoPass
  <2>1. spec.gen # 0 /\ NoPass.gen = 0
    BY Undisturbed, AppReleaseAssumption DEF Specs, Generations, NoPass
  <2>. QED BY <2>1
<1>2. (Ranked /\ KindHolds /\ Selected)'
  BY <1>1 DEF FInv, Ranked, KindHolds, Selected
<1>3. \A g \in Generations : (Known(g)' <=> Known(g)) /\ (StepKnown(g)' <=> StepKnown(g))
  <2>1. \A g \in Generations : StepKnown(g)' <=> StepKnown(g)
    BY DEF StepKnown
  <2>. QED BY <2>1 DEF Known
<1>4. (FailedIsStuck /\ StepsServe)'
  BY <1>3 DEF FInv, FailedIsStuck, StepsServe, Stuck
<1>. QED BY <1>2, <1>4 DEF FInv, Tells

(* The operator keeps what is known of failures, whatever its passes do. *)
LEMMA OperatorKeepsFInv ==
  ASSUME IInv, SInv, FInv, PassBegins \/ PassAbandons \/ PassEnds
  PROVE  FInv'
<1>1. CASE PassBegins \/ PassAbandons
  <2>1. /\ pass' \in {NoPass, spec} /\ UNCHANGED <<spec, status, deploys, recs, ended>>
        /\ served' = served \cup ({status'.active} \ {0})
    BY <1>1 DEF PassBegins, PassAbandons, Operates, BeginPass, AbandonPass
  <2>2. served' = served
    BY <2>1, Undisturbed
  <2>. QED BY <2>1, <2>2, IdlePassKeepsFInv
<1>2. CASE PassEnds
  <2>1. Operate /\ PassEnd
    BY <1>2, Undisturbed, OperateOutcome, OperateRecords DEF PassEnds, Operates, PassEnd
  <2>2. CASE status' = status
    <3>1. pass' = NoPass /\ UNCHANGED <<spec, deploys, recs, ended>>
      BY <2>1 DEF PassEnd, PassOutcome
    <3>2. served' = served
      BY <2>1, <2>2, Undisturbed DEF PassEnd
    <3>. QED BY <2>2, <3>1, <3>2, IdlePassKeepsFInv
  <2>3. CASE Settling
    BY <2>3, SettlingKeepsFInv
  <2>4. CASE GoingOn
    <3>1. recs' = recs
      BY <2>1 DEF PassEnd
    <3>2. \A r \in Reconcilers : recs'[r].at = "listed" => Tells(recs'[r].app)
      BY <3>1 DEF FInv
    <3>. QED BY <2>4, <3>2, TellsGoesOn, RankedGoesOn, KindGoesOn, StuckGoesOn, StepsGoesOn
             DEF FInv
  <2>. QED BY <2>1, <2>2, <2>3, <2>4 DEF PassEnd, PassRecords, Settling, GoingOn
<1>. QED BY <1>1, <1>2

-----------------------------------------------------------------------------
(* Requests and reconcilers bring no failure to light that was not known   *)

(* The rows that u shows as failed, or with a failed step, beyond those of *)
(* t are those of S, of T.                                                 *)
FailsMore(Deploys, t, u, S, T) ==
  \A d \in Deploys :
    /\ u[d].status \in FailureStatuses => t[d].status \in FailureStatuses \/ d \in S
    /\ u[d].preDeploy = "failed" => t[d].preDeploy = "failed" \/ d \in T

(* A transition fails the row it moves only, and only to that status; the  *)
(* step that it settles fails with the status that says so.                *)
LEMMA TransitionFails ==
  ASSUME NEW Deploys, NEW Gens, NEW t \in Table(Deploys, Gens),
         NEW d \in Deploys, t[d] # NoRow, NEW s \in Statuses
  PROVE  FailsMore(Deploys, t, TransitionRow(t, d, s),
                   IF s \in FailureStatuses THEN {d} ELSE {},
                   IF s = "pre_deploy_failed" THEN {d} ELSE {})
<1>1. DOMAIN t = Deploys /\ t[d] \in RowsOver(Gens)
  BY DEF Table
<1>2. PICK u : u = Requested(t, d, s)
  OBVIOUS
<1>3. CASE Adopts(t[d], s)
  <2>1. u = [t EXCEPT ![d].overlap = FALSE]
    BY <1>2, <1>3 DEF Requested
  <2>2. /\ u[d].status = t[d].status /\ u[d].preDeploy = t[d].preDeploy
        /\ \A e \in Deploys \ {d} : u[e] = t[e]
    BY <1>1, <2>1 DEF RowsOver, Table
  <2>. QED BY <1>2, <2>2 DEF FailsMore, TransitionRow
<1>4. CASE ~Adopts(t[d], s) /\ CanTransition(t[d].status, s)
  <2>1. u = [e \in Deploys |->
               IF e = d THEN Moved(t[d], s)
               ELSE IF s = "live" THEN Deactivated(t[e]) ELSE t[e]]
    BY <1>1, <1>2, <1>4 DEF Requested
  <2>2. /\ u[d].status = s
        /\ u[d].preDeploy = "failed" => t[d].preDeploy = "failed" \/ s = "pre_deploy_failed"
    BY <1>1, <2>1 DEF Moved, SettledStep, RowsOver
  <2>3. ASSUME NEW e \in Deploys \ {d}
        PROVE  /\ u[e].status \in FailureStatuses => t[e].status \in FailureStatuses
               /\ u[e].preDeploy = t[e].preDeploy
    <3>1. CASE t[e].status = "live"
      <4>1. t[e] \in RowsOver(Gens)
        BY <3>1 DEF Table, NoRow
      <4>. QED BY <2>1, <3>1, <4>1 DEF Deactivated, RowsOver, FailureStatuses
    <3>2. CASE t[e].status # "live"
      BY <2>1, <3>2 DEF Deactivated
    <3>. QED BY <3>1, <3>2
  <2>. QED BY <1>2, <2>2, <2>3 DEF FailsMore, TransitionRow
<1>5. CASE ~Adopts(t[d], s) /\ ~CanTransition(t[d].status, s)
  BY <1>5 DEF Requested, TransitionRow, FailsMore
<1>. QED BY <1>3, <1>4, <1>5

(* An insert fails no row. *)
LEMMA InsertFails ==
  ASSUME NEW Deploys, NEW Gens, NEW t \in Table(Deploys, Gens),
         NEW d \in Deploys, NEW g, NEW trigger
  PROVE  FailsMore(Deploys, t, InsertRow(t, d, g, trigger), {}, {})
<1>1. DOMAIN t = Deploys
  BY DEF Table
<1>2. PICK u : u = InsertRow(t, d, g, trigger)
  OBVIOUS
<1>3. PICK kept : kept = PendingCanceled(t)
  OBVIOUS
<1>4. ASSUME NEW e \in Deploys
      PROVE  /\ kept[e].status \in FailureStatuses => t[e].status \in FailureStatuses
             /\ kept[e].preDeploy = "failed" => t[e].preDeploy = "failed"
  <2>1. CASE e \in PendingRows(t)
    <3>1. t[e] \in RowsOver(Gens)
      BY <2>1 DEF PendingRows, Table, NoRow
    <3>. QED BY <1>1, <1>3, <2>1, <3>1 DEF PendingCanceled, Superseded, SettledStep, RowsOver,
         FailureStatuses
  <2>2. CASE e \notin PendingRows(t)
    BY <1>1, <1>3, <2>2 DEF PendingCanceled
  <2>. QED BY <2>1, <2>2
<1>5. DOMAIN kept = Deploys
  BY <1>1, <1>3 DEF PendingCanceled
<1>6. PICK st, b : \/ u = [t EXCEPT ![d] = [NoRow EXCEPT !.gen = g, !.trigger = trigger,
                                                        !.status = "canceled"]]
                   \/ /\ st \in {"created", "queued"}
                      /\ u = [kept EXCEPT ![d] = [NoRow EXCEPT !.gen = g, !.trigger = trigger,
                                                    !.status = st, !.overlap = b]]
  BY <1>2, <1>3 DEF InsertRow
<1>7. /\ u[d].status \notin FailureStatuses /\ u[d].preDeploy # "failed"
      /\ \A e \in Deploys \ {d} : u[e] = t[e] \/ u[e] = kept[e]
  BY <1>1, <1>5, <1>6 DEF NoRow, FailureStatuses
<1>. QED BY <1>2, <1>4, <1>7 DEF FailsMore

(* The writers of the step column fail no row. *)
LEMMA StepColumnFails ==
  ASSUME NEW Deploys, NEW Gens, NEW t \in Table(Deploys, Gens),
         NEW d \in Deploys, NEW step
  PROVE  /\ t[d] # NoRow =>
              FailsMore(Deploys, t, PreDeploySet(t, d, step), {},
                        IF step = "failed" THEN {d} ELSE {})
         /\ (\A e \in Deploys : t[e] # NoRow => t[e].gen = e) =>
              FailsMore(Deploys, t, CanceledStepSettled(t, d, step), {},
                        IF step = "failed" THEN {d} ELSE {})
<1>1. DOMAIN t = Deploys /\ (t[d] # NoRow => t[d] \in RowsOver(Gens))
  BY DEF Table
<1>4. ASSUME t[d] # NoRow
      PROVE  FailsMore(Deploys, t, PreDeploySet(t, d, step), {},
                       IF step = "failed" THEN {d} ELSE {})
  <2>1. PICK u : u = [t EXCEPT ![d].preDeploy = step]
    OBVIOUS
  <2>2. /\ u[d].status = t[d].status /\ u[d].preDeploy = step
        /\ \A e \in Deploys \ {d} : u[e] = t[e]
    BY <1>1, <1>4, <2>1 DEF RowsOver, Table
  <2>3. PreDeploySet(t, d, step) \in {u, t}
    BY <2>1 DEF PreDeploySet
  <2>. QED BY <2>2, <2>3 DEF FailsMore
<1>5. ASSUME \A e \in Deploys : t[e] # NoRow => t[e].gen = e
      PROVE  FailsMore(Deploys, t, CanceledStepSettled(t, d, step), {},
                       IF step = "failed" THEN {d} ELSE {})
  <2>1. PICK v : v = CanceledStepSettled(t, d, step)
    OBVIOUS
  <2>2. v = [e \in Deploys |->
               IF t[e].gen = d /\ t[e].status = "canceled" /\ t[e].preDeploy = "canceled"
               THEN [t[e] EXCEPT !.preDeploy = step] ELSE t[e]]
    BY <1>1, <2>1 DEF CanceledStepSettled
  <2>3. ASSUME NEW e \in Deploys
        PROVE  \/ v[e] = t[e]
               \/ e = d /\ v[e].status = t[e].status /\ v[e].preDeploy = step
    <3>1. CASE t[e].gen = d /\ t[e].status = "canceled" /\ t[e].preDeploy = "canceled"
      <4>1. t[e] \in RowsOver(Gens) /\ t[e] # NoRow
        BY <3>1 DEF Table, NoRow
      <4>2. e = d
        BY <1>5, <3>1, <4>1
      <4>. QED BY <2>2, <3>1, <4>1, <4>2 DEF RowsOver
    <3>. QED BY <2>2, <3>1
  <2>. QED BY <2>1, <2>3 DEF FailsMore
<1>. QED BY <1>4, <1>5

(* What a pass judges of a row as failed the App it read showed as failed. *)
LEMMA JudgedFails ==
  ASSUME AppReleaseAssumption, NEW row \in ListedRecords, NEW app \in Snapshots, Tells(app)
  PROVE  LET j == Judged(row, app, FALSE)
         IN  /\ j.row = row
             /\ j.verdict \in FailureStatuses => Failing(app, row.gen)
             /\ j.verdict = "pre_deploy_failed" => StepFailing(app, row.gen)
             /\ j.step = "failed" => StepFailing(app, row.gen)
<1>1. StepOf(app, row.gen) = "failed" => StepFailing(app, row.gen)
  BY DEF StepOf, StepFailing, Snapshots
<1>2. row.gen \in Nat \ {0} /\ app.rel \in Nat /\ app.gen \in Nat
  BY AppReleaseAssumption DEF ListedRecords, Snapshots, Generations
<1> DEFINE Backed(v) == /\ v \in FailureStatuses => Failing(app, row.gen)
                        /\ v = "pre_deploy_failed" => StepFailing(app, row.gen)
<1>3. Backed(OvertakenStatus(row, app))
  BY <1>1 DEF OvertakenStatus, Failing, FailureStatuses
<1>4. Backed(SupersededStatus(row, app, FALSE))
  <2>1. BuildVerdict(row, app) => Failing(app, row.gen)
    BY DEF BuildVerdict, Failing
  <2>2. UnadoptedStatus(row, app, FALSE) = Waiting
    BY DEF UnadoptedStatus
  <2>. QED BY <1>3, <2>1, <2>2 DEF SupersededStatus, Waiting, FailureStatuses
<1>5. ASSUME Reported(app) = row.gen
      PROVE  Backed(MatchedStatus(row, app, FALSE))
  <2>1. Backed(PhaseEvidence(row, app, FALSE))
    <3>1. PICK current \in BOOLEAN : current = (app.cond = app.gen)
      OBVIOUS
    <3>2. CASE app.phase \in {"buildFailed", "preDeployFailed", "rolloutFailed"}
      <4>1. app.rel = row.gen
        BY <1>2, <1>5, <3>2 DEF Tells, Reported
      <4>. QED BY <3>1, <3>2, <4>1 DEF PhaseEvidence, Tells, Failing, Waiting
    <3>3. CASE app.phase \notin {"buildFailed", "preDeployFailed", "rolloutFailed"}
      <4>1. PhaseEvidence(row, app, FALSE) \notin FailureStatuses
        <5>1. PICK ph, hib : ph = app.phase
                             /\ hib = (~app.susp /\ app.rel > 0 /\ ReleaseIsActive(row, app))
          OBVIOUS
        <5>. QED BY <3>1, <3>3, <5>1 DEF PhaseEvidence, Waiting, FailureStatuses
      <4>. QED BY <4>1 DEF FailureStatuses
    <3>. QED BY <3>2, <3>3
  <2>2. PhaseStatus(row, app, FALSE) = PhaseEvidence(row, app, FALSE)
    BY DEF PhaseStatus
  <2>. QED BY <1>1, <2>1, <2>2 DEF MatchedStatus, Failing, FailureStatuses
<1>6. Backed(ObservedStatus(row, app, FALSE))
  BY <1>4, <1>5 DEF ObservedStatus, Unmatched, Waiting, FailureStatuses
<1>. QED BY <1>1, <1>6 DEF Judged, StepToRecord

(* What a pass is to record of a row, and all that it is to record, tells  *)
(* of known failures only.                                                 *)
JudgedKnown(j) ==
  /\ j.verdict \in FailureStatuses => Known(j.row.gen)
  /\ j.step = "failed" \/ j.verdict = "pre_deploy_failed" => StepKnown(j.row.gen)

TodoKnown(todo) == \A i \in 1..Len(todo) : JudgedKnown(todo[i])

SettleKnown(settle) == settle.step = "failed" => StepKnown(settle.gen)

AppKnown(app) ==
  /\ Tells(app)
  /\ \A g \in Generations : /\ Failing(app, g) => Known(g)
                            /\ StepFailing(app, g) => StepKnown(g)

Learns(rec) ==
  /\ rec.at = "listed" => AppKnown(rec.app)
  /\ rec.at = "recording" => TodoKnown(rec.todo) /\ SettleKnown(rec.settle)

RowsKnown(t) ==
  \A g \in Generations :
    /\ t[g].status \in FailureStatuses => Known(g)
    /\ t[g].preDeploy = "failed" => StepKnown(g)

(* What a pass has read, or is to record, is known. *)
LEMMA PassesKnow ==
  ASSUME IInv, FInv, NEW r \in Reconcilers
  PROVE  Learns(recs[r])
<1>1. \A g : /\ StepFound(recs[r], g) => StepKnown(g)
             /\ Found(recs[r], g) => Known(g)
  BY DEF StepKnown, Known
<1>2. CASE recs[r].at = "listed"
  <2>1. \A g : /\ Failing(recs[r].app, g) => Found(recs[r], g)
               /\ StepFailing(recs[r].app, g) => StepFound(recs[r], g)
    BY <1>2 DEF Found, StepFound
  <2>. QED BY <1>1, <1>2, <2>1 DEF Learns, AppKnown, FInv
<1>3. CASE recs[r].at = "recording"
  <2>1. ASSUME NEW i \in 1..Len(recs[r].todo)
        PROVE  JudgedKnown(recs[r].todo[i])
    <3>1. PICK g : g = recs[r].todo[i].row.gen
      OBVIOUS
    <3>2. recs[r].todo[i].verdict \in FailureStatuses => Found(recs[r], g)
      BY <1>3, <3>1 DEF Found
    <3>3. recs[r].todo[i].step = "failed" \/ recs[r].todo[i].verdict = "pre_deploy_failed"
            => StepFound(recs[r], g)
      BY <1>3, <3>1 DEF StepFound
    <3>. QED BY <1>1, <3>1, <3>2, <3>3 DEF JudgedKnown
  <2>2. SettleKnown(recs[r].settle)
    <3>1. recs[r].settle \in Settlements
      BY <1>3, BusyFacts
    <3>2. ASSUME recs[r].settle.step = "failed" PROVE StepKnown(recs[r].settle.gen)
      <4>1. recs[r].settle = [gen |-> recs[r].settle.gen, step |-> "failed"]
        BY <3>1, <3>2 DEF Settlements
      <4>2. StepFound(recs[r], recs[r].settle.gen)
        BY <1>3, <4>1 DEF StepFound
      <4>. QED BY <1>1, <4>2
    <3>. QED BY <3>2 DEF SettleKnown
  <2>. QED BY <1>3, <2>1, <2>2 DEF Learns, TodoKnown
<1>. QED BY <1>2, <1>3 DEF Learns

(* Such a pass finds nothing else. *)
LEMMA LearnsFinds ==
  ASSUME NEW rec, Learns(rec), NEW g \in Generations
  PROVE  (Found(rec, g) => Known(g)) /\ (StepFound(rec, g) => StepKnown(g))
<1>1. CASE rec.at = "listed"
  BY <1>1 DEF Learns, AppKnown, Found, StepFound, Known
<1>2. CASE rec.at = "recording"
  <2>1. \A i \in 1..Len(rec.todo) : JudgedKnown(rec.todo[i])
    BY <1>2 DEF Learns, TodoKnown
  <2>2. StepFound(rec, g) => StepKnown(g)
    BY <1>2, <2>1 DEF Learns, SettleKnown, StepFound, JudgedKnown
  <2>. QED BY <1>2, <2>1, <2>2 DEF Found, JudgedKnown, Known
<1>. QED BY <1>1, <1>2 DEF Found, StepFound

(* What a step of a pass or a request leaves of what is known. *)
NothingNew ==
  /\ \A g \in Generations : (Known(g)' => Known(g)) /\ (StepKnown(g)' => StepKnown(g))
  /\ \A r \in Reconcilers : recs'[r].at = "listed" => Tells(recs'[r].app)

(* When the status stays, and the rows and the passes know no more than    *)
(* was known, nothing new is known.                                        *)
LEMMA KnownBefore ==
  ASSUME IInv, FInv, UNCHANGED status, RowsKnown(deploys'),
         \A r \in Reconcilers : Learns(recs'[r])
  PROVE  NothingNew
<1>1. ASSUME NEW g \in Generations, StepKnown(g)' PROVE StepKnown(g)
  <2>1. CASE StepFailing(status', g)
    BY <2>1 DEF StepKnown
  <2>2. ASSUME NEW r \in Reconcilers, StepFound(recs'[r], g) PROVE StepKnown(g)
    BY <2>2, LearnsFinds
  <2>3. CASE deploys'[g].preDeploy = "failed"
    BY <2>3 DEF RowsKnown
  <2>. QED BY <1>1, <2>1, <2>2, <2>3 DEF StepKnown
<1>2. ASSUME NEW g \in Generations, Known(g)' PROVE Known(g)
  <2>1. CASE Failing(status', g)
    BY <2>1 DEF Known
  <2>2. ASSUME NEW r \in Reconcilers, Found(recs'[r], g) PROVE Known(g)
    BY <2>2, LearnsFinds
  <2>3. CASE deploys'[g].status \in FailureStatuses
    BY <2>3 DEF RowsKnown
  <2>4. CASE StepKnown(g)'
    BY <1>1, <2>4 DEF Known
  <2>. QED BY <1>2, <2>1, <2>2, <2>3, <2>4 DEF Known
<1>. QED BY <1>1, <1>2 DEF NothingNew, Learns, AppKnown

(* A row that shows a failure makes it known. *)
LEMMA RowsAreKnown == RowsKnown(deploys)
BY DEF RowsKnown, Known, StepKnown

(* One pass moves, the others know what they knew. *)
LEMMA PassLearns ==
  ASSUME IInv, FInv, UNCHANGED status, RowsKnown(deploys'),
         NEW r \in Reconcilers, NEW rec, recs' = [recs EXCEPT ![r] = rec], Learns(rec)
  PROVE  NothingNew
<1>1. recs \in [Reconcilers -> Recordings \cup {NoRecord}]
  BY DEF IInv, TypeOK
<1>2. \A x \in Reconcilers : recs'[x] = IF x = r THEN rec ELSE recs[x]
  BY <1>1
<1>3. \A x \in Reconcilers : Learns(recs'[x])
  BY <1>2, PassesKnow
<1>. QED BY <1>3, KnownBefore

(* A step of a request that touches neither rows nor passes. *)
LEMMA NothingLearned ==
  ASSUME IInv, FInv, UNCHANGED <<status, recs>>, RowsKnown(deploys')
  PROVE  NothingNew
BY PassesKnow, KnownBefore

(* What is left to do of what is known. *)
LEMMA RecordingLearns ==
  ASSUME NEW todo, TodoKnown(todo), NEW settle, SettleKnown(settle)
  PROVE  Learns(Recording(todo, settle))
BY DEF Recording, NoRecord, Learns

(* What is left of a list to record is known, and so is its head. *)
LEMMA TailKnown ==
  ASSUME NEW todo \in Seq(Judgements), todo # <<>>, TodoKnown(todo)
  PROVE  TodoKnown(Tail(todo)) /\ JudgedKnown(Head(todo))
<1>1. \A i \in 1..Len(Tail(todo)) : i + 1 \in 1..Len(todo) /\ Tail(todo)[i] = todo[i + 1]
  OBVIOUS
<1>2. 1 \in 1..Len(todo) /\ Head(todo) = todo[1]
  OBVIOUS
<1>. QED BY <1>1, <1>2 DEF TodoKnown

(* What a pass judges of rows, and of a canceled release's step, it knows  *)
(* from the App.                                                           *)
LEMMA QueuesKnown ==
  ASSUME Timeouts = FALSE, NEW app \in Snapshots, AppKnown(app),
         NEW rows \in SUBSET ListedRecords, NEW todo, JudgedFrom(todo, rows, app)
  PROVE  TodoKnown(todo) /\ SettleKnown(Settled(app))
<1>1. ASSUME NEW i \in 1..Len(todo) PROVE JudgedKnown(todo[i])
  <2>1. PICK row \in rows : todo[i] = Judged(row, app, FALSE)
    BY DEF JudgedFrom
  <2>2. row.gen \in Generations /\ row \in ListedRecords /\ Tells(app)
    BY DEF ListedRecords, AppKnown
  <2>3. PICK j : j = Judged(row, app, FALSE)
    OBVIOUS
  <2>4. /\ j.row = row
        /\ j.verdict \in FailureStatuses => Failing(app, row.gen)
        /\ j.verdict = "pre_deploy_failed" => StepFailing(app, row.gen)
        /\ j.step = "failed" => StepFailing(app, row.gen)
    BY <2>2, <2>3, JudgedFails, AppReleaseAssumption
  <2>. QED BY <2>1, <2>2, <2>3, <2>4 DEF JudgedKnown, AppKnown
<1>2. SettleKnown(Settled(app))
  <2>1. ASSUME Settled(app).step = "failed" PROVE StepKnown(Settled(app).gen)
    <3>1. /\ app.cancel # 0 /\ StepOf(app, app.cancel) = "failed"
          /\ Settled(app).gen = app.cancel
      BY <2>1 DEF Settled
    <3>2. StepFailing(app, app.cancel) /\ app.cancel \in Generations
      BY <3>1, AppReleaseAssumption DEF StepOf, StepFailing, Snapshots, Generations
    <3>. QED BY <3>1, <3>2 DEF AppKnown
  <2>. QED BY <2>1 DEF SettleKnown
<1>. QED BY <1>1, <1>2 DEF TodoKnown

(* A reading of the App, as it is, tells what is known. *)
LEMMA SeenKnown ==
  ASSUME IInv, FInv, NEW a \in Specs
  PROVE  Seen(a, status) \in Snapshots /\ AppKnown(Seen(a, status))
<1>1. PICK app : app = Seen(a, status)
  OBVIOUS
<1>2. /\ app.rel = status.rel /\ app.phase = status.phase /\ app.pd = status.pd
      /\ app.buildFail = status.buildFail /\ app.rollFail = status.rollFail
  BY <1>1 DEF Seen
<1>3. \A g : (Failing(app, g) <=> Failing(status, g)) /\ (StepFailing(app, g) <=> StepFailing(status, g))
  BY <1>2 DEF Failing, StepFailing
<1>4. Tells(app)
  BY <1>2 DEF FInv, Tells, StepFailing
<1>. QED BY <1>1, <1>3, <1>4, SeenShows DEF AppKnown, Known, StepKnown

(* The selection is written with the stamp only, a cancel with its record, *)
(* and nothing starts to serve.                                            *)
Rewrites ==
  /\ spec'.kind = spec.kind /\ (spec'.stamp = spec.stamp => spec'.sel = spec.sel)
  /\ spec'.cancel # spec.cancel => \E e \in ended' : e.gen = spec'.cancel
  /\ served' = served /\ ended \subseteq ended'

(* Triggers, configuration changes and operational writes rewrite the App  *)
(* so.                                                                     *)
LEMMA WritesRewrite ==
  ASSUME StaleSettings = FALSE, IInv, SInv, FInv,
         \/ \E trigger \in Triggers \ {"config"} : OpenRelease(trigger)
         \/ ChangeConfig \/ SettingsRead \/ SettingsPatch
         \/ DropOpened \/ Scale \/ Suspend \/ Resume
  PROVE  Rewrites /\ NothingNew
<1>1. spec \in Specs /\ spec.gen \in Nat /\ spec.stamp # spec.gen + 1
  BY TableIsStore DEF IInv, InOrder, Generations
<1>2. UNCHANGED <<deploys, recs, status, served, ended>> /\ settings = {}
  BY DEF OpenRelease, ChangeConfig, Patches, SettingsRead, SettingsPatch, DropOpened,
     Scale, Suspend, Resume, Operational, Writes, SInv, Stamped
<1>3. NothingNew
  BY <1>2, RowsAreKnown, NothingLearned
<1>4. spec' = spec => Rewrites
  BY <1>2 DEF Rewrites
<1>5. ASSUME NEW b \in BOOLEAN
      PROVE  LET a == Released(spec, b)
             IN  a.kind = spec.kind /\ a.stamp = spec.gen + 1 /\ a.cancel = spec.cancel
  BY <1>1 DEF Released, Specs
<1>6. LET a == Reconfigured(spec, spec.gen)
      IN  a.kind = spec.kind /\ a.stamp = spec.gen + 1 /\ a.cancel = spec.cancel
  BY <1>1 DEF Reconfigured, Specs
<1>7. ASSUME NEW b \in BOOLEAN
      PROVE  \A a \in {Scaled(spec), SuspensionSet(spec, b)} :
               /\ a.kind = spec.kind /\ a.stamp = spec.stamp /\ a.cancel = spec.cancel
               /\ a.sel = spec.sel
  BY <1>1 DEF Scaled, SuspensionSet, Specs
<1>8. ASSUME NEW trigger \in Triggers, OpenRelease(trigger) PROVE Rewrites
  <2>1. PICK b \in BOOLEAN : b = (trigger = "selected")
    OBVIOUS
  <2>2. spec' = Released(spec, b)
    BY <1>8, <2>1 DEF OpenRelease, Writes
  <2>. QED BY <1>1, <1>2, <1>5, <2>2 DEF Rewrites
<1>9. ASSUME ChangeConfig PROVE Rewrites
  <2>1. spec' = Reconfigured(spec, spec.gen)
    BY <1>9 DEF ChangeConfig, Patches, Writes
  <2>. QED BY <1>1, <1>2, <1>6, <2>1 DEF Rewrites
<1>10. ASSUME Scale \/ Suspend \/ Resume PROVE Rewrites
  <2>1. PICK b \in BOOLEAN : spec' \in {Scaled(spec), SuspensionSet(spec, b)}
    BY <1>10 DEF Scale, Suspend, Resume, Operational, Writes
  <2>. QED BY <1>1, <1>2, <1>7, <2>1 DEF Rewrites
<1>11. ASSUME SettingsRead \/ DropOpened PROVE Rewrites
  BY <1>4, <1>11 DEF SettingsRead, DropOpened
<1>. QED BY <1>2, <1>3, <1>8, <1>9, <1>10, <1>11 DEF SettingsPatch

(* A cancel stamp rewrites the App's cancel only. *)
LEMMA CancelRewrites ==
  ASSUME IInv, NEW g, NEW survivor, NEW recommits \in BOOLEAN, NEW by,
         Writes(ReleaseCanceled(spec, g, survivor, recommits)),
         ended' = ended \cup {[gen |-> g, by |-> by]}
  PROVE  Rewrites
<1>1. spec \in Specs
  BY DEF IInv, TypeOK, AppTypeOK
<1>2. PICK moves : moves = (g > spec.cancel)
  OBVIOUS
<1>3. \/ spec' = spec
      \/ \E s, n : spec' = [spec EXCEPT !.cancel = IF moves THEN g ELSE @,
                                       !.surv = s, !.gen = n]
  BY <1>2 DEF ReleaseCanceled, Writes
<1>4. ended \subseteq ended' /\ \E e \in ended' : e.gen = g
  <2>1. PICK e : e = [gen |-> g, by |-> by]
    OBVIOUS
  <2>2. e.gen = g /\ ended' = ended \cup {e}
    BY <2>1
  <2>. QED BY <2>2
<1>5. spec'.cancel \in {spec.cancel, g}
  BY <1>1, <1>3 DEF Specs
<1>6. spec'.cancel # spec.cancel => \E e \in ended' : e.gen = spec'.cancel
  BY <1>4, <1>5
<1>7. spec'.kind = spec.kind /\ (spec'.stamp = spec.stamp => spec'.sel = spec.sel)
  BY <1>1, <1>3 DEF Specs
<1>. QED BY <1>4, <1>6, <1>7 DEF Rewrites, Writes

(* Rows that are inserted. *)
LEMMA InsertsRewrite ==
  ASSUME IInv, FInv, (~Created /\ CreateApp) \/ InsertOpened
  PROVE  Rewrites /\ NothingNew
<1>1. UNCHANGED <<spec, status, recs, served, ended>>
  BY DEF CreateApp, InsertOpened
<1>2. PICK d, trigger : d \in Generations /\ deploys' = InsertRow(deploys, d, d, trigger)
  <2>1. CASE ~Created /\ CreateApp
    <3>1. 1 \in Generations
      BY TableIsStore DEF Generations
    <3>. QED BY <2>1, <3>1 DEF CreateApp
  <2>2. CASE InsertOpened
    BY <2>2 DEF InsertOpened, IInv, TypeOK, Releases
  <2>. QED BY <2>1, <2>2
<1>3. FailsMore(Generations, deploys, deploys', {}, {})
  BY <1>2, TableIsStore, InsertFails DEF SoundStore
<1>4. RowsKnown(deploys')
  BY <1>3, RowsAreKnown DEF FailsMore, RowsKnown
<1>. QED BY <1>1, <1>4, NothingLearned DEF Rewrites

(* Cancel requests. *)
LEMMA CancelsRewrite ==
  ASSUME IInv, FInv, NEW c \in Cancelers,
         \/ \E d \in Generations : CancelReads(c, d)
         \/ CancelStamps(c) \/ CancelCloses(c)
  PROVE  Rewrites /\ NothingNew
<1>1. CASE CancelStamps(c)
  <2>1. PICK recommits \in BOOLEAN :
          Writes(ReleaseCanceled(spec, cancels[c].gen, cancels[c].survivor, recommits))
    BY <1>1 DEF CancelStamps
  <2>2. /\ ended' = ended \cup {[gen |-> cancels[c].gen, by |-> "cancel"]}
        /\ UNCHANGED <<status, deploys, recs>>
    BY <1>1 DEF CancelStamps, Writes
  <2>. QED BY <2>1, <2>2, CancelRewrites, RowsAreKnown, NothingLearned
<1>2. CASE CancelCloses(c)
  <2>1. /\ UNCHANGED <<spec, status, recs, served, ended>>
        /\ deploys' = TransitionRow(deploys, cancels[c].gen, "canceled")
        /\ cancels[c].at = "stamped"
    BY <1>2 DEF CancelCloses
  <2>2. cancels[c] # NoCancel /\ cancels[c] \in CancelRequests
    BY <2>1 DEF NoCancel, IInv, TypeOK
  <2>3. cancels[c].gen \in Generations /\ deploys[cancels[c].gen] # NoRow
    BY <2>2 DEF CancelRequests, IInv, Filed
  <2>4. PICK s \in Statuses : s = "canceled"
    BY DEF Statuses, TerminalStatuses
  <2>5. FailsMore(Generations, deploys, deploys', {}, {})
    BY <2>1, <2>3, <2>4, TableIsStore, TransitionFails DEF SoundStore, FailureStatuses
  <2>6. RowsKnown(deploys')
    BY <2>5, RowsAreKnown DEF FailsMore, RowsKnown
  <2>. QED BY <2>1, <2>6, NothingLearned DEF Rewrites
<1>3. CASE \E d \in Generations : CancelReads(c, d)
  <2>1. UNCHANGED <<spec, status, deploys, recs, served, ended>>
    BY <1>3 DEF CancelReads
  <2>. QED BY <2>1, RowsAreKnown, NothingLearned DEF Rewrites
<1>. QED BY <1>1, <1>2, <1>3

(* Reconciler passes that read the App. *)
LEMMA RecordReadsRewrite ==
  ASSUME Timeouts = FALSE, IInv, FInv, NEW r \in Reconcilers,
         RecordLists(r) \/ RecordReadsRows(r) \/ RecordStampLost(r) \/ RecordDies(r)
  PROVE  Rewrites /\ NothingNew
<1>1. UNCHANGED <<spec, status, deploys, served, ended>>
  BY DEF RecordLists, RecordReadsRows, RecordStampLost, RecordDies
<1>2. ASSUME NEW rec, recs' = [recs EXCEPT ![r] = rec], Learns(rec)
      PROVE  Rewrites /\ NothingNew
  BY <1>1, <1>2, RowsAreKnown, PassLearns DEF Rewrites
<1>3. CASE RecordLists(r)
  <2>1. PICK rec : rec = [at |-> "listed", app |-> Seen(spec, status)]
    OBVIOUS
  <2>2. Learns(rec)
    BY <2>1, TableIsStore, SeenKnown DEF Learns
  <2>. QED BY <1>2, <1>3, <2>1, <2>2 DEF RecordLists
<1>4. CASE RecordReadsRows(r)
  <2>1. PICK app : app = recs[r].app
    OBVIOUS
  <2>2. recs[r].at = "listed"
    BY <1>4 DEF RecordReadsRows
  <2>3. app \in Snapshots /\ Shows(app, served)
    <3>1. recs[r] \in Recordings \cup {NoRecord} /\ Sound(recs[r], deploys, served)
      BY DEF IInv, TypeOK
    <3>. QED BY <2>1, <2>2, <3>1 DEF Recordings, NoRecord, Sound
  <2>4. AppKnown(app)
    BY <2>1, <2>2, PassesKnow DEF Learns
  <2>5. PICK todo \in Queues(ListedRows, app) :
          recs' = [recs EXCEPT ![r] = Recording(todo, Settled(@.app))]
    BY <1>4, <2>1 DEF RecordReadsRows
  <2>6. recs' = [recs EXCEPT ![r] = Recording(todo, Settled(app))]
    BY <2>1, <2>5
  <2>7. JudgedFrom(todo, ListedRows, app)
    BY <2>3, ListedFew, QueuesSound, AppReleaseAssumption
  <2>8. TodoKnown(todo) /\ SettleKnown(Settled(app))
    BY <2>3, <2>4, <2>7, ListedFew, QueuesKnown
  <2>. QED BY <1>2, <2>6, <2>8, RecordingLearns
<1>5. CASE RecordStampLost(r)
  <2>1. recs[r].at = "recording" /\ recs[r].todo # <<>>
    BY <1>5 DEF RecordStampLost, Busy
  <2>2. TodoKnown(Tail(recs[r].todo)) /\ SettleKnown(recs[r].settle)
    BY <2>1, PassesKnow, BusyFacts, TailKnown DEF Learns
  <2>. QED BY <1>2, <1>5, <2>2, RecordingLearns DEF RecordStampLost, Continues
<1>6. CASE RecordDies(r)
  BY <1>2, <1>6 DEF RecordDies, NoRecord, Learns
<1>. QED BY <1>3, <1>4, <1>5, <1>6

(* A pass stamps a release, and judges the rest of its rows afresh. *)
LEMMA RecordStampsRewrite ==
  ASSUME Timeouts = FALSE, IInv, FInv, NEW r \in Reconcilers, RecordStamps(r)
  PROVE  Rewrites /\ NothingNew
<1>1. recs[r].at = "recording" /\ recs[r].todo # <<>> /\ UNCHANGED deploys
  BY DEF RecordStamps, Busy
<1>2. PICK row, g : row = Current(r).row /\ g = row.gen
  OBVIOUS
<1>3. row \in ListedRecords /\ g \in Generations
  BY <1>1, <1>2, BusyFacts
<1>4. /\ Writes(ReleaseCanceled(spec, g, 0, FALSE))
      /\ ended' = ended \cup {[gen |-> g, by |-> "suspend"]}
  BY <1>2 DEF RecordStamps
<1>5. Rewrites /\ UNCHANGED status
  <2>1. FALSE \in BOOLEAN
    OBVIOUS
  <2>. QED BY <1>4, <2>1, CancelRewrites DEF Writes
<1>6. spec' \in Specs
  BY RecordStampsInv DEF IInv, TypeOK, AppTypeOK
<1>7. PICK a, app : a = spec' /\ app = Seen(a, status)
  OBVIOUS
<1>8. app \in Snapshots /\ AppKnown(app) /\ Shows(app, served)
  BY <1>6, <1>7, SeenKnown, SeenShows
<1>9. PICK rows : rows = LaterRows(recs[r].todo)
  OBVIOUS
<1>10. PICK rest \in Queues(rows, app) :
         Continues(r, <<[row |-> row, stamps |-> FALSE, verdict |-> "canceled",
                         step |-> StepToRecord(row, app)]>> \o rest,
                   Settled(app))
  BY <1>2, <1>7, <1>9 DEF RecordStamps, LaterRows
<1>11. /\ rest \in Seq(Judgements) /\ JudgedFrom(rest, rows, app)
       /\ rows \in SUBSET ListedRecords
  <2>1. /\ rows \in SUBSET ListedRecords /\ (\A b \in rows : deploys[b.gen] # NoRow)
        /\ Few(rows)
    BY <1>1, <1>9, RestRows
  <2>. QED BY <1>8, <2>1, QueuesSound, AppReleaseAssumption
<1>12. TodoKnown(rest) /\ SettleKnown(Settled(app))
  BY <1>8, <1>11, QueuesKnown
<1>13. PICK j : j = [row |-> row, stamps |-> FALSE, verdict |-> "canceled",
                     step |-> StepToRecord(row, app)]
  OBVIOUS
<1>14. JudgedKnown(j)
  <2>1. StepToRecord(row, app) = "failed" => StepFailing(app, g)
    BY <1>2, <1>8 DEF StepToRecord, StepOf, StepFailing, Snapshots
  <2>. QED BY <1>2, <1>3, <1>8, <1>13, <2>1 DEF JudgedKnown, AppKnown, FailureStatuses
<1>15. PICK todo : todo = <<j>> \o rest
  OBVIOUS
<1>16. TodoKnown(todo)
  <2>1. \A i \in 1..Len(todo) : todo[i] = j \/ \E k \in 1..Len(rest) : todo[i] = rest[k]
    <3>1. Len(todo) = 1 + Len(rest) /\ Len(rest) \in Nat
      BY <1>11, <1>15
    <3>2. todo[1] = j /\ \A i \in 2..Len(todo) : todo[i] = rest[i - 1]
      BY <1>11, <1>15, <3>1
    <3>. QED BY <3>1, <3>2
  <2>. QED BY <1>12, <1>14, <2>1 DEF TodoKnown
<1>17. recs' = [recs EXCEPT ![r] = Recording(todo, Settled(app))]
  BY <1>10, <1>13, <1>15 DEF Continues
<1>18. Learns(Recording(todo, Settled(app)))
  BY <1>12, <1>16, RecordingLearns
<1>. QED BY <1>1, <1>5, <1>17, <1>18, RowsAreKnown, PassLearns


(* A pass records what it knows. *)
LEMMA RecordWritesRewrite ==
  ASSUME Timeouts = FALSE, IInv, FInv, NEW r \in Reconcilers,
         RecordSetsStep(r) \/ RecordMovesRow(r) \/ RecordSettlesStep(r)
  PROVE  Rewrites /\ NothingNew
<1>1. recs[r].at = "recording" /\ UNCHANGED <<spec, status, served, ended>>
  BY DEF RecordSetsStep, RecordMovesRow, RecordSettlesStep, Busy
<1>2. TodoKnown(recs[r].todo) /\ SettleKnown(recs[r].settle)
  BY <1>1, PassesKnow DEF Learns
<1>3. ASSUME NEW d \in Generations, NEW known \in BOOLEAN, NEW stepKnown \in BOOLEAN,
             FailsMore(Generations, deploys, deploys',
                       IF known THEN {d} ELSE {}, IF stepKnown THEN {d} ELSE {}),
             known => Known(d), stepKnown => StepKnown(d),
             NEW rec, recs' = [recs EXCEPT ![r] = rec], Learns(rec)
      PROVE  Rewrites /\ NothingNew
  <2>1. RowsKnown(deploys')
    BY <1>3, RowsAreKnown DEF FailsMore, RowsKnown
  <2>. QED BY <1>1, <1>3, <2>1, PassLearns DEF Rewrites
<1>4. /\ deploys \in Table(Generations, Generations)
      /\ \A e \in Generations : deploys[e] # NoRow => deploys[e].gen = e
  BY TableIsStore DEF SoundStore, IInv, Filed
<1>5. ASSUME recs[r].todo # <<>>
      PROVE  /\ recs[r].todo \in Seq(Judgements)
             /\ TodoKnown(Tail(recs[r].todo)) /\ JudgedKnown(Current(r))
             /\ Learns(Recording(Tail(recs[r].todo), recs[r].settle))
  BY <1>1, <1>2, <1>5, BusyFacts, TailKnown, RecordingLearns DEF Current
<1>6. CASE RecordSetsStep(r)
  <2>1. recs[r].todo # <<>>
    BY <1>6 DEF RecordSetsStep, Busy
  <2>2. PICK d, step :
          /\ d \in Generations /\ d = Current(r).row.gen /\ step = Current(r).step /\ deploys[d] # NoRow
          /\ deploys' = PreDeploySet(deploys, d, step)
    BY <1>6, RecordSetsStepMoves DEF RecordSetsStep
  <2>3. PICK known \in BOOLEAN, failed \in BOOLEAN : ~known /\ (failed <=> step = "failed")
    OBVIOUS
  <2>4. failed => StepKnown(d)
    BY <1>5, <2>1, <2>2, <2>3 DEF JudgedKnown
  <2>5. FailsMore(Generations, deploys, deploys',
                  IF known THEN {d} ELSE {}, IF failed THEN {d} ELSE {})
    <3>1. FailsMore(Generations, deploys, deploys', {}, IF step = "failed" THEN {d} ELSE {})
      BY <1>4, <2>2, StepColumnFails
    <3>. QED BY <2>3, <3>1 DEF FailsMore
  <2>6. CASE Current(r).verdict = Waiting
    <3>1. PICK rec : rec = Recording(Tail(recs[r].todo), recs[r].settle)
      OBVIOUS
    <3>2. recs' = [recs EXCEPT ![r] = rec] /\ Learns(rec)
      BY <1>5, <1>6, <2>1, <2>6, <3>1 DEF RecordSetsStep, Continues
    <3>. QED BY <1>3, <2>2, <2>3, <2>4, <2>5, <3>2
  <2>7. CASE Current(r).verdict # Waiting
    <3>1. PICK todo, settle :
            /\ todo \in Seq(Judgements) /\ todo = recs[r].todo /\ settle = recs[r].settle
            /\ recs[r] = [at |-> "recording", todo |-> todo, settle |-> settle]
      BY <1>1, BusyFacts
    <3>2. PICK j : j = [todo[1] EXCEPT !.step = "none"]
      OBVIOUS
    <3>3. PICK all : all = [todo EXCEPT ![1] = j]
      OBVIOUS
    <3>4. PICK rec : rec = [recs[r] EXCEPT !.todo = all]
      OBVIOUS
    <3>5. rec = [at |-> "recording", todo |-> all, settle |-> settle]
      BY <3>1, <3>4
    <3>6. recs' = [recs EXCEPT ![r] = rec]
      BY <1>6, <2>7, <3>1, <3>2, <3>3, <3>4 DEF RecordSetsStep
    <3>7. /\ Len(todo) \in Nat /\ 1 \in 1..Len(todo) /\ todo[1] \in Judgements
          /\ JudgedKnown(todo[1])
      BY <1>2, <2>1, <3>1, EmptySeq DEF TodoKnown
    <3>8. j \in Judgements /\ JudgedKnown(j)
      BY <3>2, <3>7 DEF Judgements, JudgedKnown
    <3>9. /\ Len(all) = Len(todo)
          /\ \A i \in 1..Len(all) : all[i] = IF i = 1 THEN j ELSE todo[i]
      BY <3>1, <3>3, <3>7, <3>8, ExceptSeq
    <3>10. TodoKnown(all)
      BY <1>2, <3>1, <3>8, <3>9 DEF TodoKnown
    <3>11. Learns(rec)
      BY <1>2, <3>1, <3>5, <3>10 DEF Learns
    <3>. QED BY <1>3, <2>2, <2>3, <2>4, <2>5, <3>6, <3>11
  <2>. QED BY <2>6, <2>7
<1>7. CASE RecordMovesRow(r)
  <2>1. recs[r].todo # <<>>
    BY <1>7 DEF RecordMovesRow, Busy
  <2>2. PICK d \in Generations, s \in Statuses :
          /\ d = Current(r).row.gen /\ s = Current(r).verdict /\ deploys[d] # NoRow
          /\ deploys' = TransitionRow(deploys, d, s)
    BY <1>7, RecordMovesRowMoves DEF RecordMovesRow
  <2>3. PICK known \in BOOLEAN, failed \in BOOLEAN :
          (known <=> s \in FailureStatuses) /\ (failed <=> s = "pre_deploy_failed")
    OBVIOUS
  <2>4. (known => Known(d)) /\ (failed => StepKnown(d))
    BY <1>5, <2>1, <2>2, <2>3 DEF JudgedKnown
  <2>5. FailsMore(Generations, deploys, deploys',
                  IF known THEN {d} ELSE {}, IF failed THEN {d} ELSE {})
    <3>1. FailsMore(Generations, deploys, deploys',
                    IF s \in FailureStatuses THEN {d} ELSE {},
                    IF s = "pre_deploy_failed" THEN {d} ELSE {})
      BY <1>4, <2>2, TransitionFails
    <3>. QED BY <2>3, <3>1 DEF FailsMore
  <2>6. PICK rec : rec = Recording(Tail(recs[r].todo), recs[r].settle)
    OBVIOUS
  <2>7. recs' = [recs EXCEPT ![r] = rec] /\ Learns(rec)
    BY <1>5, <1>7, <2>1, <2>6 DEF RecordMovesRow, Continues
  <2>. QED BY <1>3, <2>2, <2>3, <2>4, <2>5, <2>7
<1>8. CASE RecordSettlesStep(r)
  <2>1. PICK d, step :
          /\ d \in Generations /\ d = recs[r].settle.gen /\ step = recs[r].settle.step
          /\ deploys' = CanceledStepSettled(deploys, d, step)
          /\ recs' = [recs EXCEPT ![r] = NoRecord]
    BY <1>8, RecordSettlesStepMoves DEF RecordSettlesStep
  <2>2. PICK known \in BOOLEAN, failed \in BOOLEAN : ~known /\ (failed <=> step = "failed")
    OBVIOUS
  <2>3. failed => StepKnown(d)
    BY <1>2, <2>1, <2>2 DEF SettleKnown
  <2>4. Learns(NoRecord)
    BY DEF Learns, NoRecord
  <2>5. FailsMore(Generations, deploys, deploys',
                  IF known THEN {d} ELSE {}, IF failed THEN {d} ELSE {})
    <3>1. FailsMore(Generations, deploys, deploys', {}, IF step = "failed" THEN {d} ELSE {})
      BY <1>4, <2>1, StepColumnFails
    <3>. QED BY <2>2, <3>1 DEF FailsMore
  <2>. QED BY <1>3, <2>1, <2>2, <2>3, <2>4, <2>5
<1>. QED BY <1>6, <1>7, <1>8


(* A step of a request or of a reconciler that writes so, and brings       *)
(* nothing to light, keeps what is known of failures.                      *)
LEMMA RequestsKeepFInv ==
  ASSUME IInv, IInv', SInv, SInv', FInv, Requests, Rewrites, NothingNew
  PROVE  FInv'
<1>1. /\ spec.stamp \in Nat /\ spec'.stamp \in Nat /\ spec.stamp <= spec'.stamp
      /\ spec.cancel \in Nat /\ spec'.cancel \in Nat
      /\ spec.cancel <= spec'.cancel /\ spec'.cancel <= spec'.stamp
      /\ status.fp \in Nat /\ status.fp <= spec.stamp /\ status.buildFail \in Nat
      /\ status.buildFail <= status.fp
      /\ UNCHANGED <<status, pass>> /\ spec'.kind = spec.kind
  <2>1. spec \in Specs /\ spec' \in Specs /\ status \in AppStatuses
    BY DEF IInv, TypeOK, AppTypeOK
  <2>. QED BY <2>1, AppReleaseAssumption
           DEF Requests, Rewrites, Asks, Specs, AppStatuses, Generations,
               SInv, RInv, Stamped, SavedAsRequested, FInv, Ranked
<1>2. pass # NoPass => pass.stamp \in Nat /\ pass.stamp <= spec.stamp
  BY PassKnown DEF SInv, RInv, Stamped, PassBehind
<1>3. Ranked'
  BY <1>1 DEF FInv, Ranked
<1>4. KindHolds'
  BY <1>1 DEF FInv, KindHolds
<1>5. Selected'
  BY <1>1, <1>2 DEF FInv, Selected, Rewrites
<1>6. FailedIsStuck'
  BY <1>1 DEF FInv, FailedIsStuck, Stuck, NothingNew
<1>7. StepsServe'
  BY <1>1 DEF FInv, StepsServe, Rewrites, NothingNew
<1>8. Tells(status)' /\ \A r \in Reconcilers : recs'[r].at = "listed" => Tells(recs'[r].app)
  BY <1>1 DEF FInv, NothingNew
<1>. QED BY <1>3, <1>4, <1>5, <1>6, <1>7, <1>8 DEF FInv

(* Nothing has failed at first. *)
LEMMA InitFInv == Init => FInv
<1> SUFFICES ASSUME Init PROVE FInv
  OBVIOUS
<1>1. \A g \in Generations : ~Known(g)
  BY AppReleaseAssumption DEF Init, AppInit, Known, StepKnown, Failing, StepFailing, Found,
     StepFound, NoRecord, NoRow, Generations, FailureStatuses
<1>. QED BY <1>1 DEF Init, AppInit, FInv, Tells, Ranked, KindHolds, Selected, FailedIsStuck,
     StepsServe, Known, NoPass, NoRecord

(* Every step keeps what is known of failures. *)
LEMMA NextFInv ==
  ASSUME StaleSettings = FALSE, Timeouts = FALSE, IInv, SInv, FInv, [Next]_vars
  PROVE  FInv'
<1>1. IInv' /\ SInv' /\ RInv
  BY NextInv, NextSInv DEF SInv
<1>2. ASSUME Requests, Rewrites, NothingNew PROVE FInv'
  BY <1>1, <1>2, RequestsKeepFInv
<1>3. CASE UNCHANGED vars
  <2>1. pass' = NoPass \/ pass' = pass
    BY <1>3 DEF vars
  <2>2. \A g \in Generations : (Known(g)' <=> Known(g)) /\ (StepKnown(g)' <=> StepKnown(g))
    <3>1. \A g \in Generations : StepKnown(g)' <=> StepKnown(g)
      BY <1>3 DEF vars, StepKnown
    <3>. QED BY <1>3, <3>1 DEF vars, Known
  <2>. QED BY <1>3, <2>2 DEF vars, FInv, Tells, Ranked, KindHolds, Selected, FailedIsStuck,
       Stuck, StepsServe
<1>4. CASE ~Created /\ CreateApp
  BY <1>2, <1>4, <1>1, InsertsRequest, InsertsRewrite
<1>5. CASE Steps
  <2>1. ASSUME NEW r \in Reconcilers, Records(r) \/ RecordDies(r) PROVE FInv'
    <3>1. Rewrites /\ NothingNew
      BY <2>1, RecordReadsRewrite, RecordStampsRewrite, RecordWritesRewrite DEF Records
    <3>. QED BY <1>2, <2>1, <3>1, <1>1, RecordsRequest
  <2>2. ASSUME NEW c \in Cancelers,
               \/ \E d \in Generations : CancelReads(c, d)
               \/ CancelStamps(c) \/ CancelCloses(c)
        PROVE  FInv'
    BY <1>2, <2>2, <1>1, CancelsRequest, CancelsRewrite
  <2>3. CASE \/ \E trigger \in Triggers \ {"config"} : OpenRelease(trigger)
             \/ ChangeConfig \/ SettingsRead \/ SettingsPatch
             \/ DropOpened \/ Scale \/ Suspend \/ Resume
    BY <1>2, <2>3, <1>1, WritesRequest, WritesRewrite
  <2>4. CASE InsertOpened
    BY <1>2, <2>4, <1>1, InsertsRequest, InsertsRewrite
  <2>5. CASE PassBegins \/ PassAbandons \/ PassEnds
    BY <2>5, OperatorKeepsFInv
  <2>. QED BY <1>5, <2>1, <2>2, <2>3, <2>4, <2>5 DEF Steps
<1>. QED BY <1>3, <1>4, <1>5 DEF Next, CreateApp


(* What is known of failures, in every run in which settings saves stamp   *)
(* the write they make and no release is failed by the clock.              *)
THEOREM FailuresInvariance ==
  ASSUME StaleSettings = FALSE, Timeouts = FALSE
  PROVE  Spec => [](IInv /\ SInv /\ FInv)
<1>1. Init => IInv /\ SInv /\ FInv
  BY InitInv, InitSInv, InitFInv
<1>2. IInv /\ SInv /\ FInv /\ [Next]_vars => (IInv /\ SInv /\ FInv)'
  BY NextInv, NextSInv, NextFInv
<1>. QED BY <1>1, <1>2, PTL DEF Spec

(* A release whose row is closed as failed does not start to serve, unless *)
(* a cancel named it to be rolled again: what failed it holds the operator *)
(* back for as long as it is the release to roll out, and once another one *)
(* has been requested the operator never goes back to it.                  *)
THEOREM FailedStays ==
  ASSUME StaleSettings = FALSE, Timeouts = FALSE
  PROVE  Spec => FailedStaysDown
<1>1. ASSUME IInv, SInv, FInv, [Next]_vars, NEW g \in Generations,
             deploys[g].status \in FailureStatuses, StartsServing(g)
      PROVE  g = spec.surv
  <2>1. status'.active = g /\ status.active # g
    BY <1>1 DEF StartsServing
  <2>2. Operate
    BY <1>1, <2>1, StatusMoves DEF PassEnds, Operates
  <2>3. PassOutcome /\ PassRecords
    BY <1>1, <2>2, Undisturbed, OperateOutcome, OperateRecords
  <2>4. Known(g)
    BY <1>1 DEF Known
  <2>. QED BY <1>1, <2>1, <2>3, <2>4, FailedServes
<1>2. IInv /\ SInv /\ FInv /\ [Next]_vars =>
        [\A g \in Generations : deploys[g].status \in FailureStatuses /\ g # spec.surv =>
           ~StartsServing(g)]_vars
  BY <1>1
<1>. QED BY <1>2, FailuresInvariance, PTL DEF Spec, FailedStaysDown

(* A row that shows a failed step shows it of a release that did not get   *)
(* past its step, unless a cancel rolled that release again.               *)
THEOREM StepVerdicts ==
  ASSUME StaleSettings = FALSE, Timeouts = FALSE
  PROVE  Spec => []StepVerdictTruthful
<1>1. IInv /\ SInv /\ FInv => StepVerdictTruthful
  BY DEF FInv, StepsServe, StepKnown, StepVerdictTruthful
<1>. QED BY <1>1, FailuresInvariance, PTL

-----------------------------------------------------------------------------
(* What a cancel leaves in flight *)

(* Every recorded deploy took its config from source. *)
Sourced == \A g \in Generations : deploys[g].trigger = "source"

WasEnded(g)  == \E e \in ended : e.gen = g
BySuspend(g) == [gen |-> g, by |-> "suspend"] \in ended

(* While it names the latest request, a cancel that a user requested names *)
(* as its survivor the deploy which was open before it.                    *)
Spares(a) ==
  /\ a.cancel # 0 /\ a.cancel = a.stamp /\ a.stamp = a.want
  /\ ~BySuspend(a.cancel) /\ Sourced
  => \A g \in Generations :
      g < a.cancel /\ IsOpen(deploys[g]) => a.surv = g \/ WasEnded(g)

(* What is canceled has a row, and its end is recorded. *)
CancelFiled(a) ==
  a.cancel # 0 =>
    a.cancel \in Generations /\ deploys[a.cancel] # NoRow /\ WasEnded(a.cancel)

(* The App selects a recorded release by a row, or one to be inserted, that *)
(* says so.                                                                *)
SelectFiled(a) ==
  a.sel # 0 =>
    /\ a.sel \in Generations \ {1} /\ a.sel <= spec.gen
    /\ deploys[a.sel] # NoRow => deploys[a.sel].trigger = "selected"
    /\ \A e \in opening : e.gen = a.sel => e.trigger = "selected"

Leaves(a) == Spares(a) /\ CancelFiled(a) /\ SelectFiled(a)

(* A cancel request that has read its row found the open one before it.    *)
SparesRead ==
  \A c \in Cancelers : cancels[c].at = "read" /\ Sourced =>
    \A g \in Generations :
      g < cancels[c].gen /\ IsOpen(deploys[g]) => cancels[c].survivor = g

(* The trigger lock keeps a triggered release from opening before the row  *)
(* of an earlier one is inserted.                                          *)
OneTriggered ==
  \A e \in opening : e.trigger # "config" =>
    /\ \A f \in opening : f.trigger # "config" => f = e
    /\ \A g \in Generations :
         g > e.gen /\ deploys[g] # NoRow => deploys[g].trigger = "config"

CInv ==
  /\ Leaves(spec)
  /\ pass # NoPass => Leaves(pass)
  /\ SparesRead
  /\ OneTriggered
  /\ status.rel # 0 => status.fp # 0

(* Every row was there before, with its trigger, and is open only if it was. *)
RowsFollow ==
  \A g \in Generations :
    /\ deploys'[g].trigger = deploys[g].trigger
    /\ IsOpen(deploys'[g]) => IsOpen(deploys[g])
    /\ deploys'[g] # NoRow <=> deploys[g] # NoRow

(* Rows that move follow those before. *)
LEMMA MovesFollow ==
  ASSUME NEW d, NEW s, Moves(Generations, Generations, deploys, deploys', d, s)
  PROVE  RowsFollow
<1> SUFFICES ASSUME NEW g \in Generations
             PROVE  /\ deploys'[g].trigger = deploys[g].trigger
                    /\ IsOpen(deploys'[g]) => IsOpen(deploys[g])
                    /\ deploys'[g] # NoRow <=> deploys[g] # NoRow
  BY DEF RowsFollow
<1>1. PICK v : v = IF g = d THEN s ELSE ""
  OBVIOUS
<1>2. Follows(deploys[g], deploys'[g], v)
  BY <1>1 DEF Moves
<1>. QED BY <1>2 DEF Follows

(* What a write asked for goes on to be left as rows move, releases open    *)
(* and others end.                                                         *)
LEMMA LeavesOn ==
  ASSUME NEW a, RowsFollow, ended \subseteq ended',
         spec.gen \in Nat, spec'.gen \in Nat, spec.gen <= spec'.gen,
         \A e \in opening' : e \in opening \/ e.gen = spec.gen + 1
  PROVE  /\ Spares(a) => Spares(a)'
         /\ CancelFiled(a) => CancelFiled(a)'
         /\ SelectFiled(a) => SelectFiled(a)'
<1>1. /\ \A g : WasEnded(g) => WasEnded(g)'
      /\ \A g : ~BySuspend(g)' => ~BySuspend(g)
  BY DEF WasEnded, BySuspend
<1>2. Sourced' => Sourced
  BY DEF Sourced, RowsFollow
<1>3. Spares(a) => Spares(a)'
  BY <1>1, <1>2 DEF Spares, RowsFollow
<1>4. CancelFiled(a) => CancelFiled(a)'
  BY <1>1 DEF CancelFiled, RowsFollow
<1>5. ASSUME SelectFiled(a) PROVE SelectFiled(a)'
  <2>1. CASE a.sel # 0
    <3>1. a.sel \in Generations \ {1} /\ a.sel <= spec.gen
      BY <1>5, <2>1 DEF SelectFiled
    <3>2. a.sel \in Nat
      BY <3>1, AppReleaseAssumption DEF Generations
    <3>3. a.sel <= spec'.gen /\ a.sel # spec.gen + 1
      BY <3>1, <3>2
    <3>4. deploys'[a.sel] # NoRow => deploys'[a.sel].trigger = "selected"
      BY <1>5, <2>1, <3>1 DEF SelectFiled, RowsFollow
    <3>. QED BY <1>5, <2>1, <3>1, <3>3, <3>4 DEF SelectFiled
  <2>. QED BY <2>1 DEF SelectFiled
<1>. QED BY <1>3, <1>4, <1>5

(* A request that has read goes on to have found what is open. *)
LEMMA SparesReadOn ==
  ASSUME SparesRead, RowsFollow,
         \A c \in Cancelers : cancels'[c] = cancels[c] \/ cancels'[c].at # "read"
  PROVE  SparesRead'
<1>1. Sourced' => Sourced
  BY DEF Sourced, RowsFollow
<1>. QED BY <1>1 DEF SparesRead, RowsFollow

(* So does the trigger lock keep releases in order. *)
LEMMA OneTriggeredOn ==
  ASSUME OneTriggered, RowsFollow, opening' \subseteq opening
  PROVE  OneTriggered'
BY DEF OneTriggered, RowsFollow

(* Triggers and configuration changes request another release, which no     *)
(* cancel has named; operational writes change nothing of a cancel.        *)
LEMMA RequestsLeave ==
  ASSUME IInv, NEW b \in BOOLEAN, NEW read \in Generations
  PROVE  /\ \A a \in {Released(spec, b), Reconfigured(spec, read)} :
              /\ a.cancel = spec.cancel /\ a.cancel # a.want
              /\ a.gen = spec.gen + 1
         /\ Released(spec, b).sel = IF b THEN spec.gen + 1 ELSE 0
         /\ Reconfigured(spec, read).sel = spec.sel
         /\ \A a \in {Scaled(spec), SuspensionSet(spec, b)} :
              /\ a.cancel = spec.cancel /\ a.stamp = spec.stamp /\ a.want = spec.want
              /\ a.surv = spec.surv /\ a.sel = spec.sel /\ a.gen = spec.gen + 1
<1>1. /\ spec \in Specs /\ spec.gen \in Nat /\ spec.cancel \in Nat
      /\ spec.cancel <= spec.gen
  BY Undisturbed, AppReleaseAssumption DEF InOrder, Specs, Generations
<1>2. PICK h, k : h = spec.gen + 1 /\ k = read + 1
  OBVIOUS
<1>3. PICK sel : sel = IF b THEN h ELSE 0
  OBVIOUS
<1>4. PICK a, c : /\ a = [spec EXCEPT !.gen = h, !.stamp = h, !.want = h, !.sel = sel]
                  /\ c = [spec EXCEPT !.gen = h, !.stamp = k, !.want = h]
  OBVIOUS
<1>5. Released(spec, b) = a /\ Reconfigured(spec, read) = c
  BY <1>2, <1>3, <1>4 DEF Released, Reconfigured
<1>6. a.want = h /\ a.gen = h /\ a.cancel = spec.cancel /\ a.sel = sel
  BY <1>1, <1>4 DEF Specs
<1>7. c.want = h /\ c.gen = h /\ c.cancel = spec.cancel /\ c.sel = spec.sel
  BY <1>1, <1>4 DEF Specs
<1>8. PICK e, f : e = [spec EXCEPT !.gen = h] /\ f = [spec EXCEPT !.gen = h, !.susp = b]
  OBVIOUS
<1>9. Scaled(spec) = e /\ SuspensionSet(spec, b) = f
  BY <1>2, <1>8 DEF Scaled, SuspensionSet
<1>10. /\ e.cancel = spec.cancel /\ e.stamp = spec.stamp /\ e.want = spec.want
       /\ e.surv = spec.surv /\ e.sel = spec.sel /\ e.gen = h /\ f.gen = h
       /\ f.cancel = spec.cancel /\ f.stamp = spec.stamp /\ f.want = spec.want
       /\ f.surv = spec.surv /\ f.sel = spec.sel
  BY <1>1, <1>8 DEF Specs
<1>11. spec.cancel # h
  BY <1>1, <1>2
<1>. QED BY <1>2, <1>3, <1>5, <1>6, <1>7, <1>9, <1>10, <1>11

(* A release that opens keeps what a cancel has left. *)
LEMMA OpeningLeaves ==
  ASSUME IInv, CInv, spec.gen < MaxGen, NEW a, Writes(a), a.gen = spec.gen + 1,
         a.cancel = spec.cancel, a.cancel # a.want, NEW trigger,
         a.sel \in {0, spec.sel} \/ (a.sel = spec.gen + 1 /\ trigger = "selected"),
         trigger = "config" \/ ~TriggerLocked,
         opening' = opening \cup {[gen |-> spec.gen + 1, trigger |-> trigger]},
         UNCHANGED <<deploys, cancels, ended>>
  PROVE  CInv'
<1>1. /\ spec.gen \in Nat \ {0} /\ spec.gen + 1 \in Generations
      /\ \A g \in Generations : g \in Nat
      /\ \A g \in Generations : deploys[g] # NoRow => g <= spec.gen
      /\ \A e \in opening : e.gen \in Nat /\ e.gen <= spec.gen
  <2>1. spec.gen \in Generations /\ MaxGen \in Nat /\ Generations \in SUBSET (Nat \ {0})
    BY TableIsStore
  <2>2. spec.gen \in Nat \ {0} /\ spec.gen + 1 \in Generations
    BY <2>1 DEF Generations
  <2>. QED BY <2>1, <2>2 DEF IInv, Filed
<1>2. PICK n : n = [gen |-> spec.gen + 1, trigger |-> trigger]
  OBVIOUS
<1>3. n.gen = spec.gen + 1 /\ n.trigger = trigger /\ opening' = opening \cup {n}
  BY <1>2
<1>4. spec' = a /\ UNCHANGED <<status, pass>> /\ spec'.gen = spec.gen + 1 /\ RowsFollow
  BY DEF Writes, RowsFollow
<1>5. \A e \in opening' : e \in opening \/ e.gen = spec.gen + 1
  BY <1>3
<1>6. ASSUME NEW b
      PROVE  /\ Spares(b) => Spares(b)'
             /\ CancelFiled(b) => CancelFiled(b)'
             /\ SelectFiled(b) => SelectFiled(b)'
  BY <1>1, <1>4, <1>5, LeavesOn
<1>7. Leaves(spec) /\ (pass # NoPass => Leaves(pass))
  BY DEF CInv
<1>8. Spares(a)' /\ CancelFiled(a)'
  <2>1. Spares(a) /\ CancelFiled(a)
    BY <1>7 DEF Spares, CancelFiled, Leaves
  <2>. QED BY <1>6, <2>1
<1>9. SelectFiled(a)'
  <2>1. CASE a.sel \in {0, spec.sel}
    <3>1. SelectFiled(a)
      BY <1>7, <2>1 DEF SelectFiled, Leaves
    <3>. QED BY <1>6, <3>1
  <2>2. CASE a.sel = spec.gen + 1 /\ trigger = "selected"
    <3>1. a.sel \in Generations \ {1} /\ a.sel <= spec'.gen /\ deploys[a.sel] = NoRow
      BY <1>1, <1>4, <2>2
    <3>2. \A e \in opening' : e.gen = a.sel => e.trigger = "selected"
      BY <1>1, <1>3, <2>2
    <3>. QED BY <3>1, <3>2 DEF SelectFiled
  <2>. QED BY <2>1, <2>2
<1>10. (pass # NoPass => Leaves(pass))'
  <2>1. PICK b : b = pass
    OBVIOUS
  <2>2. b # NoPass => Leaves(b)'
    BY <1>6, <1>7, <2>1 DEF Leaves
  <2>. QED BY <1>4, <2>1, <2>2
<1>11. Leaves(spec)'
  <2>1. Leaves(a)'
    BY <1>8, <1>9 DEF Leaves
  <2>. QED BY <1>4, <2>1
<1>12. SparesRead'
  BY <1>4, SparesReadOn DEF CInv
<1>13. OneTriggered'
  <2>1. \A g \in Generations : deploys[g] # NoRow => ~(g > spec.gen + 1)
    BY <1>1
  <2>2. trigger # "config" => \A e \in opening : e.trigger = "config"
    BY DEF TriggerLocked
  <2>. QED BY <1>3, <2>1, <2>2 DEF CInv, OneTriggered
<1>. QED BY <1>4, <1>10, <1>11, <1>12, <1>13 DEF CInv

(* So does any other step that leaves the table and the ends alone, and the *)
(* App's requests and cancel.                                              *)
LEMMA QuietLeaves ==
  ASSUME IInv, IInv', CInv, RowsFollow, ended' = ended, opening' \subseteq opening,
         spec.gen <= spec'.gen, spec'.cancel = spec.cancel, spec'.stamp = spec.stamp,
         spec'.want = spec.want, spec'.surv = spec.surv, spec'.sel = spec.sel, UNCHANGED <<status, pass>>,
         SparesRead'
  PROVE  CInv'
<1>1. spec.gen \in Nat /\ spec'.gen \in Nat
  BY AppReleaseAssumption DEF IInv, TypeOK, AppTypeOK, Specs, Generations
<1>2. ASSUME NEW b
      PROVE  /\ Spares(b) => Spares(b)'
             /\ CancelFiled(b) => CancelFiled(b)'
             /\ SelectFiled(b) => SelectFiled(b)'
  BY <1>1, LeavesOn
<1>3. Leaves(spec) /\ (pass # NoPass => Leaves(pass))
  BY DEF CInv
<1>4. PICK a, b : a = spec' /\ b = pass
  OBVIOUS
<1>5. Spares(a) /\ CancelFiled(a) /\ SelectFiled(a)
  BY <1>3, <1>4 DEF Leaves, Spares, CancelFiled, SelectFiled
<1>6. Leaves(a)' /\ (b # NoPass => Leaves(b)')
  BY <1>2, <1>3, <1>4, <1>5 DEF Leaves
<1>7. OneTriggered'
  BY OneTriggeredOn DEF CInv
<1>. QED BY <1>4, <1>6, <1>7 DEF CInv

(* Triggers, configuration changes and operational writes. *)
LEMMA WritesLeave ==
  ASSUME IInv, IInv', CInv,
         \/ \E trigger \in Triggers \ {"config"} : OpenRelease(trigger)
         \/ ChangeConfig \/ SettingsRead \/ SettingsPatch
         \/ DropOpened \/ Scale \/ Suspend \/ Resume
  PROVE  CInv'
<1>1. /\ spec.gen \in Nat /\ spec'.gen \in Nat /\ spec.gen \in Generations
      /\ TRUE \in BOOLEAN
  BY AppReleaseAssumption DEF IInv, TypeOK, AppTypeOK, Specs, Generations
<1>2. ASSUME NEW trigger \in Triggers, OpenRelease(trigger) PROVE CInv'
  <2>1. PICK b \in BOOLEAN : b <=> (trigger = "selected")
    OBVIOUS
  <2>2. /\ spec.gen < MaxGen /\ ~TriggerLocked /\ Writes(Released(spec, b))
        /\ opening' = opening \cup {[gen |-> spec.gen + 1, trigger |-> trigger]}
        /\ UNCHANGED <<deploys, cancels, ended>>
    BY <1>2, <2>1 DEF OpenRelease
  <2>3. PICK a : a = Released(spec, b)
    OBVIOUS
  <2>4. /\ a.gen = spec.gen + 1 /\ a.cancel = spec.cancel /\ a.cancel # a.want
        /\ a.sel = IF b THEN spec.gen + 1 ELSE 0
    BY <1>1, <2>3, RequestsLeave
  <2>5. Writes(a)
    BY <2>2, <2>3
  <2>6. a.sel \in {0, spec.sel} \/ (a.sel = spec.gen + 1 /\ trigger = "selected")
    BY <2>1, <2>4
  <2>. QED BY <2>2, <2>4, <2>5, <2>6, OpeningLeaves
<1>3. ASSUME NEW read \in Generations, Patches(read) PROVE CInv'
  <2>1. /\ spec.gen < MaxGen /\ Writes(Reconfigured(spec, read))
        /\ opening' = opening \cup {[gen |-> spec.gen + 1, trigger |-> "config"]}
        /\ UNCHANGED <<deploys, cancels, ended>>
    BY <1>3 DEF Patches
  <2>2. PICK a, trigger : a = Reconfigured(spec, read) /\ trigger = "config"
    OBVIOUS
  <2>3. /\ a.gen = spec.gen + 1 /\ a.cancel = spec.cancel /\ a.cancel # a.want
        /\ a.sel = spec.sel
    BY <1>1, <2>2, RequestsLeave
  <2>4. Writes(a) /\ opening' = opening \cup {[gen |-> spec.gen + 1, trigger |-> trigger]}
    BY <2>1, <2>2
  <2>5. a.sel \in {0, spec.sel}
    BY <2>3
  <2>. QED BY <2>1, <2>2, <2>3, <2>4, <2>5, OpeningLeaves
<1>4. CASE Scale \/ Suspend \/ Resume
  <2>1. \E b \in BOOLEAN : Operational(Scaled(spec)) \/ Operational(SuspensionSet(spec, b))
    BY <1>4 DEF Scale, Suspend, Resume
  <2>2. PICK a : /\ Operational(a)
                 /\ a.cancel = spec.cancel /\ a.stamp = spec.stamp /\ a.want = spec.want
                 /\ a.surv = spec.surv /\ a.sel = spec.sel /\ a.gen = spec.gen + 1
    BY <1>1, <2>1, RequestsLeave
  <2>3. /\ spec' = a /\ RowsFollow
        /\ UNCHANGED <<status, pass, opening, cancels, ended>>
    BY <2>2 DEF Operational, Writes, RowsFollow
  <2>4. SparesRead'
    BY <2>3, SparesReadOn DEF CInv
  <2>5. spec.gen <= spec'.gen
    BY <1>1, <2>2, <2>3
  <2>. QED BY <2>2, <2>3, <2>4, <2>5, QuietLeaves
<1>5. CASE DropOpened \/ SettingsRead
  <2>1. RowsFollow /\ UNCHANGED <<spec, status, pass, cancels, ended>> /\ opening' \subseteq opening
    BY <1>5 DEF DropOpened, SettingsRead, RowsFollow
  <2>2. SparesRead'
    BY <2>1, SparesReadOn DEF CInv
  <2>. QED BY <1>1, <2>1, <2>2, QuietLeaves
<1>6. CASE ChangeConfig \/ SettingsPatch
  <2>1. \E read \in Generations : Patches(read)
    BY <1>1, <1>6 DEF ChangeConfig, SettingsPatch, IInv, TypeOK
  <2>. QED BY <1>3, <2>1
<1>. QED BY <1>2, <1>4, <1>5, <1>6

(* The App's first row is inserted before anything is canceled.            *)
LEMMA CreateLeaves ==
  ASSUME IInv, CInv, ~Created, CreateApp
  PROVE  CInv'
<1>1. /\ 1 \in Generations /\ deploys[1] = NoRow /\ "source" \in Triggers
      /\ \A g \in Generations : g \in Nat /\ deploys[g] = NoRow
      /\ \A e \in opening : e.gen \in Nat /\ e.gen > 1
  BY TableIsStore, TriggersAssumption DEF Created, Generations, IInv, Filed, TriggersAssumption
<1>2. /\ deploys' = InsertRow(deploys, 1, 1, "source")
      /\ UNCHANGED <<spec, status, pass, opening, cancels, ended>>
  BY DEF CreateApp
<1>3. \A g \in Generations \ {1} : deploys'[g] = NoRow
  BY <1>1, <1>2, InsertGains DEF Gains, Follows
<1>4. /\ \A c \in Cancelers : cancels[c] = NoCancel
      /\ spec.cancel = 0 /\ (pass # NoPass => pass.cancel = 0)
  <2>1. \A c \in Cancelers : cancels[c] # NoCancel => cancels[c].gen \in Generations
    BY DEF IInv, TypeOK, CancelRequests
  <2>. QED BY <1>1, <2>1 DEF IInv, Filed, CInv, Leaves, CancelFiled
<1>5. (SparesRead /\ OneTriggered)'
  <2>1. \A c \in Cancelers : cancels'[c].at # "read"
    BY <1>2, <1>4 DEF NoCancel
  <2>2. \A e \in opening, g \in Generations : g > e.gen => deploys'[g] = NoRow
    BY <1>1, <1>3
  <2>. QED BY <1>2, <2>1, <2>2 DEF SparesRead, OneTriggered, CInv
<1>6. ASSUME NEW a, Leaves(a), a.cancel = 0 PROVE Leaves(a)'
  BY <1>2, <1>3, <1>6 DEF Leaves, Spares, CancelFiled, SelectFiled
<1>7. PICK a, b : a = spec /\ b = pass
  OBVIOUS
<1>8. Leaves(a)' /\ (b # NoPass => Leaves(b)')
  BY <1>4, <1>6, <1>7 DEF CInv
<1>. QED BY <1>2, <1>5, <1>7, <1>8 DEF CInv

(* The row of a release that was opened comes after every row that counts: *)
(* the trigger lock has kept later ones waiting.                           *)
LEMMA InsertLeaves ==
  ASSUME IInv, CInv, InsertOpened
  PROVE  CInv'
<1>1. PICK e \in opening :
        /\ deploys' = InsertRow(deploys, e.gen, e.gen, e.trigger)
        /\ opening' = opening \ {e}
        /\ UNCHANGED <<spec, status, pass, cancels, ended>>
  BY DEF InsertOpened
<1>2. PICK n, trigger : n = e.gen /\ trigger = e.trigger
  OBVIOUS
<1>3. /\ n \in Generations /\ trigger \in Triggers /\ deploys[n] = NoRow
      /\ \A g \in Generations : g \in Nat
  BY <1>2, TableIsStore DEF IInv, TypeOK, Releases, Filed
<1>4. /\ deploys'[n].trigger = trigger
      /\ \A g \in Generations \ {n} :
           /\ deploys'[g].trigger = deploys[g].trigger
           /\ IsOpen(deploys'[g]) => IsOpen(deploys[g])
           /\ deploys'[g] # NoRow <=> deploys[g] # NoRow
  <2>1. deploys' = InsertRow(deploys, n, n, trigger)
    BY <1>1, <1>2
  <2>. QED BY <1>3, <2>1, InsertGains DEF Gains, Follows
<1>5. Sourced' => Sourced /\ trigger = "source"
  <2>1. NoRow.trigger = "source"
    BY DEF NoRow
  <2>. QED BY <1>3, <1>4, <2>1 DEF Sourced
<1>6. ASSUME NEW g \in Generations, deploys[g] # NoRow, Sourced' PROVE ~(n < g)
  <2>1. deploys[g].trigger = "source" /\ trigger = "source"
    BY <1>5, <1>6 DEF Sourced
  <2>2. trigger # "config" => (g > n => deploys[g].trigger = "config")
    BY <1>2, <1>6 DEF CInv, OneTriggered
  <2>. QED BY <1>3, <2>1, <2>2
<1>7. ASSUME NEW a, Leaves(a) PROVE Leaves(a)'
  <2>1. Spares(a)'
    <3>1. SUFFICES ASSUME a.cancel # 0, a.cancel = a.stamp, a.stamp = a.want,
                          ~BySuspend(a.cancel)', Sourced',
                          NEW g \in Generations, g < a.cancel, IsOpen(deploys'[g])
                   PROVE  a.surv = g \/ WasEnded(g)'
      BY DEF Spares
    <3>2. a.cancel \in Generations /\ deploys[a.cancel] # NoRow
      BY <1>7, <3>1 DEF Leaves, CancelFiled
    <3>3. g # n
      BY <1>6, <3>1, <3>2
    <3>4. IsOpen(deploys[g])
      BY <1>4, <3>1, <3>3
    <3>5. ~BySuspend(a.cancel) /\ (WasEnded(g)' <=> WasEnded(g))
      BY <1>1, <3>1 DEF BySuspend, WasEnded
    <3>. QED BY <1>5, <1>7, <3>1, <3>4, <3>5 DEF Leaves, Spares
  <2>2. CancelFiled(a)'
    <3>1. WasEnded(a.cancel)' <=> WasEnded(a.cancel)
      BY <1>1 DEF WasEnded
    <3>. QED BY <1>3, <1>4, <1>7, <3>1 DEF Leaves, CancelFiled
  <2>3. SelectFiled(a)'
    <3>1. a.sel # 0 /\ a.sel = n => trigger = "selected"
      BY <1>2, <1>7 DEF Leaves, SelectFiled
    <3>2. a.sel # 0 /\ deploys'[a.sel] # NoRow => deploys'[a.sel].trigger = "selected"
      BY <1>4, <1>7, <3>1 DEF Leaves, SelectFiled
    <3>. QED BY <1>1, <1>7, <3>2 DEF Leaves, SelectFiled
  <2>. QED BY <2>1, <2>2, <2>3 DEF Leaves
<1>8. SparesRead'
  <2>1. SUFFICES ASSUME NEW c \in Cancelers, cancels[c].at = "read", Sourced',
                        NEW g \in Generations, g < cancels[c].gen, IsOpen(deploys'[g])
                 PROVE  cancels[c].survivor = g
    BY <1>1 DEF SparesRead
  <2>2. cancels[c].gen \in Generations /\ deploys[cancels[c].gen] # NoRow
    <3>1. cancels[c] # NoCancel /\ cancels[c] \in CancelRequests
      BY <2>1 DEF NoCancel, IInv, TypeOK
    <3>. QED BY <3>1 DEF CancelRequests, IInv, Filed
  <2>3. g # n
    BY <1>6, <2>1, <2>2
  <2>. QED BY <1>4, <1>5, <2>1, <2>3 DEF CInv, SparesRead
<1>9. OneTriggered'
  <2>1. SUFFICES ASSUME NEW f \in opening, f # e, f.trigger # "config"
                 PROVE  /\ \A h \in opening : h.trigger # "config" => h = f
                        /\ \A g \in Generations :
                             g > f.gen /\ deploys'[g] # NoRow => deploys'[g].trigger = "config"
    BY <1>1 DEF OneTriggered
  <2>2. /\ \A h \in opening : h.trigger # "config" => h = f
        /\ \A g \in Generations :
             g > f.gen /\ deploys[g] # NoRow => deploys[g].trigger = "config"
    BY <2>1 DEF CInv, OneTriggered
  <2>3. trigger = "config"
    BY <1>2, <2>1, <2>2
  <2>. QED BY <1>4, <2>2, <2>3
<1>10. PICK a, b : a = spec /\ b = pass
  OBVIOUS
<1>11. Leaves(a)' /\ (b # NoPass => Leaves(b)')
  BY <1>7, <1>10 DEF CInv
<1>. QED BY <1>1, <1>8, <1>9, <1>10, <1>11 DEF CInv

(* A cancel stamp names what was found, and a suspend's stamp answers for  *)
(* itself.                                                                 *)
LEMMA StampLeaves ==
  ASSUME IInv, IInv', CInv, NEW g \in Generations, deploys[g] # NoRow,
         NEW survivor, NEW recommits \in BOOLEAN, NEW by,
         Writes(ReleaseCanceled(spec, g, survivor, recommits)),
         ended' = ended \cup {[gen |-> g, by |-> by]},
         \/ by = "suspend"
         \/ Sourced => \A h \in Generations : h < g /\ IsOpen(deploys[h]) => survivor = h,
         UNCHANGED <<deploys, opening>>, SparesRead'
  PROVE  CInv'
<1>1. /\ spec \in Specs /\ spec.gen \in Nat /\ spec'.gen \in Nat /\ spec.cancel \in Nat
      /\ g \in Nat \ {0} /\ \A h \in Generations : h \in Nat \ {0}
  <2>1. spec \in Specs /\ spec' \in Specs
    BY DEF IInv, TypeOK, AppTypeOK
  <2>2. \A h \in Generations : h \in Nat \ {0}
    BY TableIsStore
  <2>3. spec.cancel \in Nat
    BY <2>1, AppReleaseAssumption DEF Specs
  <2>. QED BY <2>1, <2>2, <2>3 DEF Specs
<1>2. PICK n : n = [gen |-> g, by |-> by]
  OBVIOUS
<1>3. n.gen = g /\ ended' = ended \cup {n} /\ (by = "suspend" => BySuspend(g)')
  BY <1>2 DEF BySuspend
<1>4. WasEnded(g)' /\ \A h : (WasEnded(h) => WasEnded(h)') /\ (~BySuspend(h)' => ~BySuspend(h))
  BY <1>3 DEF WasEnded, BySuspend
<1>5. RowsFollow /\ Sourced' = Sourced /\ UNCHANGED <<status, pass>>
  BY DEF RowsFollow, Sourced, Writes
<1>6. PICK moves \in BOOLEAN, named \in BOOLEAN :
        /\ moves <=> g > spec.cancel
        /\ named <=> (moves /\ survivor # 0 /\ spec.stamp = g)
  OBVIOUS
<1>7. PICK c, s, h :
        /\ c = (IF moves THEN g ELSE spec.cancel)
        /\ s = (IF named THEN survivor ELSE 0)
        /\ h = (IF named /\ spec.kind.built /\ recommits /\ spec.gen < MaxGen
                THEN spec.gen + 1 ELSE spec.gen)
  OBVIOUS
<1>8. PICK a : a = [spec EXCEPT !.cancel = c, !.surv = s, !.gen = h]
  OBVIOUS
<1>9. /\ a.cancel = c /\ a.surv = s /\ a.gen = h
      /\ a.stamp = spec.stamp /\ a.want = spec.want /\ a.sel = spec.sel
  BY <1>1, <1>8 DEF Specs
<1>10. \/ ~moves /\ spec.surv # g /\ spec' = spec
       \/ (moves \/ spec.surv = g) /\ spec' = a
  BY <1>6, <1>7, <1>8 DEF Writes, ReleaseCanceled
<1>11. spec.gen <= spec'.gen
  BY <1>1, <1>7, <1>9, <1>10
<1>12. ASSUME NEW b
       PROVE  /\ Spares(b) => Spares(b)'
              /\ CancelFiled(b) => CancelFiled(b)'
              /\ SelectFiled(b) => SelectFiled(b)'
  BY <1>1, <1>3, <1>5, <1>11, LeavesOn
<1>13. Leaves(spec) /\ (pass # NoPass => Leaves(pass))
  BY DEF CInv
<1>14. PICK b, d : b = pass /\ d = spec
  OBVIOUS
<1>15. (b # NoPass => Leaves(b)') /\ Leaves(d)'
  BY <1>12, <1>13, <1>14 DEF Leaves
<1>16. ASSUME moves \/ spec.surv = g PROVE Leaves(a)'
  <2>1. Spares(a)'
    <3>1. SUFFICES ASSUME a.cancel # 0, a.cancel = a.stamp, a.stamp = a.want,
                          ~BySuspend(a.cancel)', Sourced,
                          NEW k \in Generations, k < a.cancel, IsOpen(deploys[k])
                   PROVE  a.surv = k \/ WasEnded(k)'
      BY <1>5 DEF Spares
    <3>2. CASE moves
      <4>1. a.cancel = g /\ spec.stamp = g
        BY <1>7, <1>9, <3>1, <3>2
      <4>2. survivor = k
        BY <1>3, <3>1, <4>1
      <4>3. named
        BY <1>1, <1>6, <3>2, <4>1, <4>2
      <4>. QED BY <1>7, <1>9, <4>2, <4>3
    <3>3. CASE ~moves
      <4>1. a.cancel = spec.cancel /\ spec.surv = g
        BY <1>7, <1>9, <1>16, <3>3
      <4>2. spec.surv = k \/ WasEnded(k)
        BY <1>4, <1>9, <1>13, <3>1, <4>1 DEF Leaves, Spares
      <4>. QED BY <1>4, <4>1, <4>2
    <3>. QED BY <3>2, <3>3
  <2>2. CancelFiled(a)'
    <3>1. CASE moves
      BY <1>4, <1>7, <1>9, <3>1 DEF CancelFiled
    <3>2. CASE ~moves
      <4>1. CancelFiled(a)
        BY <1>7, <1>9, <1>13, <3>2 DEF Leaves, CancelFiled
      <4>. QED BY <1>12, <4>1
    <3>. QED BY <3>1, <3>2
  <2>3. SelectFiled(a)'
    <3>1. SelectFiled(a)
      BY <1>9, <1>13 DEF Leaves, SelectFiled
    <3>. QED BY <1>12, <3>1
  <2>. QED BY <2>1, <2>2, <2>3 DEF Leaves
<1>17. Leaves(spec)'
  BY <1>10, <1>14, <1>15, <1>16
<1>18. (pass # NoPass => Leaves(pass))'
  BY <1>5, <1>14, <1>15
<1>19. OneTriggered'
  BY <1>5, OneTriggeredOn DEF CInv
<1>. QED BY <1>5, <1>17, <1>18, <1>19 DEF CInv

(* Of two open rows of deploys from source the later waits for the earlier, *)
(* which is the one a cancel of the later finds.                           *)
LEMMA SurvivorFound ==
  ASSUME IInv, Sourced, NEW d \in Generations, NEW g \in Generations, g < d,
         IsOpen(deploys[d]), IsOpen(deploys[g])
  PROVE  Survivors(d) = {g}
<1>1. /\ DOMAIN deploys = Generations /\ Indexed(deploys) /\ PendingNewest(deploys)
      /\ \A h \in Generations : h \in Nat
  BY TableIsStore DEF IInv, TypeOK, TableSound
<1>2. deploys[d].gen = d /\ deploys[g].gen = g
  <2>1. deploys[d] # NoRow /\ deploys[g] # NoRow
    BY DEF IsOpen, NoRow, OpenStatuses
  <2>. QED BY <2>1 DEF IInv, Filed
<1>3. ~deploys[g].overlap
  <2>1. SUFFICES ASSUME deploys[g].overlap PROVE FALSE
    OBVIOUS
  <2>2. g \in PendingRows(deploys) /\ d \in OpenRows(deploys)
    BY <1>1, <2>1 DEF Indexed, PendingRows, OpenRows
  <2>. QED BY <1>1, <1>2, <2>2 DEF PendingNewest
<1>4. g \in ActiveRows(deploys) /\ \A h \in ActiveRows(deploys) : h = g
  BY <1>1, <1>3 DEF Indexed, AtMostOne, ActiveRows, OpenRows
<1>5. deploys[d].overlap
  <2>1. d # g
    BY <1>1
  <2>. QED BY <1>1, <1>4, <2>1 DEF ActiveRows, OpenRows
<1>. QED BY <1>4, <1>5 DEF Survivors, Sourced

(* Cancel requests keep what a cancel has left. *)
LEMMA CancelsLeave ==
  ASSUME IInv, IInv', CInv, NEW c \in Cancelers,
         \/ \E d \in Generations : CancelReads(c, d)
         \/ CancelStamps(c) \/ CancelCloses(c)
  PROVE  CInv'
<1>1. /\ cancels \in [Cancelers -> CancelRequests \cup {NoCancel}]
      /\ spec.gen \in Nat /\ spec.gen <= spec.gen
  BY TableIsStore DEF IInv, TypeOK, Generations
<1>2. ASSUME cancels[c].at \in {"read", "stamped"}
      PROVE  cancels[c].gen \in Generations /\ deploys[cancels[c].gen] # NoRow
  <2>1. cancels[c] # NoCancel /\ cancels[c] \in CancelRequests
    BY <1>1, <1>2 DEF NoCancel
  <2>. QED BY <2>1 DEF CancelRequests, IInv, Filed
<1>3. ASSUME NEW d \in Generations, CancelReads(c, d) PROVE CInv'
  <2>1. PICK survivor \in IF Survivors(d) = {} THEN {0} ELSE Survivors(d) :
          cancels' = [cancels EXCEPT ![c] = [at |-> "read", gen |-> d, survivor |-> survivor]]
    BY <1>3 DEF CancelReads
  <2>2. /\ UNCHANGED <<spec, status, pass, deploys, opening, ended>>
        /\ IsOpen(deploys[d]) /\ RowsFollow
    BY <1>3 DEF CancelReads, RowsFollow
  <2>3. PICK q : q = [at |-> "read", gen |-> d, survivor |-> survivor]
    OBVIOUS
  <2>4. /\ q.gen = d /\ q.survivor = survivor
        /\ cancels'[c] = q /\ \A b \in Cancelers \ {c} : cancels'[b] = cancels[b]
    BY <1>1, <2>1, <2>3
  <2>5. ASSUME Sourced, NEW g \in Generations, g < d, IsOpen(deploys[g])
        PROVE  survivor = g
    <3>1. Survivors(d) = {g}
      BY <2>2, <2>5, SurvivorFound
    <3>. QED BY <2>1, <3>1
  <2>6. Sourced' => Sourced
    BY <2>2 DEF Sourced
  <2>7. SparesRead'
    BY <2>2, <2>4, <2>5, <2>6 DEF CInv, SparesRead
  <2>. QED BY <1>1, <2>2, <2>7, QuietLeaves
<1>4. CASE CancelStamps(c)
  <2>1. PICK recommits \in BOOLEAN :
          Writes(ReleaseCanceled(spec, cancels[c].gen, cancels[c].survivor, recommits))
    BY <1>4 DEF CancelStamps
  <2>2. /\ cancels[c].at = "read" /\ cancels' = [cancels EXCEPT ![c].at = "stamped"]
        /\ ended' = ended \cup {[gen |-> cancels[c].gen, by |-> "cancel"]}
        /\ UNCHANGED <<deploys, opening>>
    BY <1>4 DEF CancelStamps
  <2>3. PICK g, survivor, by : g = cancels[c].gen /\ survivor = cancels[c].survivor /\ by = "cancel"
    OBVIOUS
  <2>4. g \in Generations /\ deploys[g] # NoRow
    BY <1>2, <2>2, <2>3
  <2>5. Sourced => \A h \in Generations : h < g /\ IsOpen(deploys[h]) => survivor = h
    BY <2>2, <2>3 DEF CInv, SparesRead
  <2>6. SparesRead'
    <3>1. PICK q \in CancelRequests : q = cancels[c]
      BY <1>1, <2>2 DEF NoCancel
    <3>2. [q EXCEPT !.at = "stamped"].at = "stamped"
      BY <3>1 DEF CancelRequests
    <3>3. \A b \in Cancelers : cancels'[b] = cancels[b] \/ cancels'[b].at # "read"
      BY <1>1, <2>2, <3>1, <3>2
    <3>4. RowsFollow
      BY <2>2 DEF RowsFollow
    <3>. QED BY <3>3, <3>4, SparesReadOn DEF CInv
  <2>7. /\ Writes(ReleaseCanceled(spec, g, survivor, recommits))
        /\ ended' = ended \cup {[gen |-> g, by |-> by]}
    BY <2>1, <2>2, <2>3
  <2>. QED BY <2>2, <2>4, <2>5, <2>6, <2>7, StampLeaves
<1>5. CASE CancelCloses(c)
  <2>1. /\ cancels[c].at = "stamped"
        /\ deploys' = TransitionRow(deploys, cancels[c].gen, "canceled")
        /\ cancels' = [cancels EXCEPT ![c] = NoCancel]
        /\ UNCHANGED <<spec, status, pass, opening, ended>>
    BY <1>5 DEF CancelCloses
  <2>2. PICK g : g = cancels[c].gen
    OBVIOUS
  <2>3. PICK s \in Statuses : s = "canceled"
    BY DEF Statuses, TerminalStatuses
  <2>4. RowsFollow
    BY <1>2, <2>1, <2>2, <2>3, TransitionMoves, MovesFollow
  <2>5. SparesRead'
    <3>1. \A b \in Cancelers : cancels'[b] = cancels[b] \/ cancels'[b].at # "read"
      BY <1>1, <2>1 DEF NoCancel
    <3>. QED BY <2>4, <3>1, SparesReadOn DEF CInv
  <2>. QED BY <1>1, <2>1, <2>4, <2>5, QuietLeaves
<1>. QED BY <1>3, <1>4, <1>5

(* So do reconciler passes, which only move rows, or stamp what a suspend  *)
(* has ended.                                                              *)
LEMMA RecordsLeave ==
  ASSUME IInv, IInv', CInv, NEW r \in Reconcilers, Records(r) \/ RecordDies(r)
  PROVE  CInv'
<1>1. spec.gen \in Nat /\ spec.gen <= spec.gen
  BY TableIsStore DEF Generations
<1>2. ASSUME RowsFollow, UNCHANGED cancels PROVE SparesRead'
  BY <1>2, SparesReadOn DEF CInv
<1>3. CASE RecordStamps(r)
  <2>1. recs[r].at = "recording" /\ recs[r].todo # <<>>
    BY <1>3 DEF RecordStamps, Busy
  <2>2. PICK g, survivor, by : g = Current(r).row.gen /\ survivor = 0 /\ by = "suspend"
    OBVIOUS
  <2>3. g \in Generations /\ deploys[g] # NoRow
    BY <2>1, <2>2, BusyFacts DEF Founded
  <2>4. PICK recommits \in BOOLEAN : ~recommits
    OBVIOUS
  <2>5. /\ Writes(ReleaseCanceled(spec, Current(r).row.gen, 0, FALSE))
        /\ ended' = ended \cup {[gen |-> Current(r).row.gen, by |-> "suspend"]}
        /\ UNCHANGED <<deploys, opening, cancels>>
    BY <1>3 DEF RecordStamps
  <2>6. recommits = FALSE
    BY <2>4
  <2>7. /\ Writes(ReleaseCanceled(spec, g, survivor, recommits))
        /\ ended' = ended \cup {[gen |-> g, by |-> by]}
    BY <2>2, <2>5, <2>6
  <2>8. SparesRead'
    BY <1>2, <2>5 DEF RowsFollow
  <2>. QED BY <2>2, <2>3, <2>5, <2>7, <2>8, StampLeaves
<1>4. CASE RecordSetsStep(r)
  <2>1. RowsFollow
    BY <1>4, RecordSetsStepMoves, MovesFollow
  <2>. QED BY <1>1, <1>2, <1>4, <2>1, QuietLeaves DEF RecordSetsStep
<1>5. CASE RecordMovesRow(r)
  <2>1. RowsFollow
    BY <1>5, RecordMovesRowMoves, MovesFollow
  <2>. QED BY <1>1, <1>2, <1>5, <2>1, QuietLeaves DEF RecordMovesRow
<1>6. CASE RecordSettlesStep(r)
  <2>1. RowsFollow
    BY <1>6, RecordSettlesStepMoves, MovesFollow
  <2>. QED BY <1>1, <1>2, <1>6, <2>1, QuietLeaves DEF RecordSettlesStep
<1>7. CASE RecordLists(r) \/ RecordReadsRows(r) \/ RecordStampLost(r) \/ RecordDies(r)
  <2>1. UNCHANGED <<spec, status, pass, deploys, opening, cancels, ended>> /\ RowsFollow
    BY <1>7 DEF RecordLists, RecordReadsRows, RecordStampLost, RecordDies, RowsFollow
  <2>. QED BY <1>1, <1>2, <2>1, QuietLeaves
<1>. QED BY <1>3, <1>4, <1>5, <1>6, <1>7 DEF Records

(* A pass of the operator reads what a cancel has left, and reports a       *)
(* release only with the settings it adopted for it.                       *)
LEMMA OperatorLeaves ==
  ASSUME IInv, CInv, PassBegins \/ PassAbandons \/ PassEnds
  PROVE  CInv'
<1>1. UNCHANGED <<deploys, opening, cancels, ended>>
  BY DEF PassBegins, PassAbandons, PassEnds, Operates
<1>2. spec' = spec /\ pass' \in {NoPass, spec} /\ (status'.rel # 0 => status'.fp # 0)
  <2>1. CASE PassBegins \/ PassAbandons
    BY <2>1 DEF PassBegins, PassAbandons, Operates, BeginPass, AbandonPass, CInv
  <2>2. CASE PassEnds
    <3>1. PassOutcome
      BY <2>2, Undisturbed, OperateOutcome DEF PassEnds, Operates
    <3>2. /\ spec' = spec /\ pass' = NoPass /\ pass # NoPass
          /\ status' = status \/ PassSettles \/ PassWorks \/ PassServes
      BY <3>1 DEF PassOutcome
    <3>3. CASE status' = status
      BY <3>2, <3>3 DEF CInv
    <3>4. CASE PassSettles
      <4>1. status.active # 0 => status.rel # 0
        BY Undisturbed, AppReleaseAssumption DEF InOrder, AppStatuses
      <4>. QED BY <3>2, <3>4, <4>1 DEF PassSettles, CInv
    <3>5. CASE PassWorks \/ PassServes
      <4>1. status'.rel = Now.rel /\ status'.fp = Now.fp /\ ~SettlesCancel(pass, status)
        BY <3>5 DEF PassWorks, PassServes
      <4>2. \/ Now.rel = status.rel /\ Now.fp = status.fp
            \/ Now.fp = pass.want
        BY <3>2, <4>1, NowCases, Undisturbed
           DEF DecidedSettles, DecidedPins, DecidedRedispatches, DecidedAdopts
      <4>3. pass.want # 0
        BY <3>2, AppReleaseAssumption DEF IInv, TypeOK, AppTypeOK, Specs, Generations
      <4>. QED BY <3>2, <4>1, <4>2, <4>3 DEF CInv
    <3>. QED BY <3>2, <3>3, <3>4, <3>5
  <2>. QED BY <2>1, <2>2
<1>3. PICK a : a = spec
  OBVIOUS
<1>4. Leaves(a)'
  BY <1>1, <1>2, <1>3 DEF CInv, Leaves, Spares, CancelFiled, SelectFiled, Sourced,
     WasEnded, BySuspend
<1>5. (SparesRead /\ OneTriggered)'
  BY <1>1 DEF CInv, SparesRead, OneTriggered, Sourced
<1>. QED BY <1>2, <1>3, <1>4, <1>5 DEF CInv

LEMMA InitCInv == Init => CInv
BY DEF Init, AppInit, CInv, Leaves, Spares, CancelFiled, SelectFiled, SparesRead, OneTriggered,
   NoPass, NoCancel

(* Every step keeps what a cancel has left. *)
LEMMA NextCInv ==
  ASSUME IInv, CInv, [Next]_vars
  PROVE  CInv'
<1>1. IInv'
  BY NextInv
<1>2. CASE UNCHANGED vars
  <2>1. \A c \in Cancelers : cancels'[c] = cancels[c]
    BY <1>2 DEF vars
  <2>. QED BY <1>2, <2>1 DEF vars, CInv, Leaves, Spares, CancelFiled, SelectFiled, SparesRead,
       OneTriggered, Sourced, WasEnded, BySuspend
<1>3. CASE ~Created /\ CreateApp
  BY <1>3, CreateLeaves
<1>4. CASE Steps
  <2>1. ASSUME NEW r \in Reconcilers, Records(r) \/ RecordDies(r) PROVE CInv'
    BY <1>1, <2>1, RecordsLeave
  <2>2. ASSUME NEW c \in Cancelers,
               \/ \E d \in Generations : CancelReads(c, d)
               \/ CancelStamps(c) \/ CancelCloses(c)
        PROVE  CInv'
    BY <1>1, <2>2, CancelsLeave
  <2>3. CASE \/ \E trigger \in Triggers \ {"config"} : OpenRelease(trigger)
             \/ ChangeConfig \/ SettingsRead \/ SettingsPatch
             \/ DropOpened \/ Scale \/ Suspend \/ Resume
    BY <1>1, <2>3, WritesLeave
  <2>4. CASE InsertOpened
    BY <2>4, InsertLeaves
  <2>5. CASE PassBegins \/ PassAbandons \/ PassEnds
    BY <2>5, OperatorLeaves
  <2>. QED BY <1>4, <2>1, <2>2, <2>3, <2>4, <2>5 DEF Steps
<1>. QED BY <1>2, <1>3, <1>4 DEF Next, CreateApp

(* What a cancel leaves in flight. *)
THEOREM CancelsInvariance == Spec => [](IInv /\ CInv)
<1>1. Init => IInv /\ CInv
  BY InitInv, InitCInv
<1>2. IInv /\ CInv /\ [Next]_vars => (IInv /\ CInv)'
  BY NextInv, NextCInv
<1>. QED BY <1>1, <1>2, PTL DEF Spec

(* While every deploy takes its config from source and the service runs,   *)
(* the operator leaves a release whose deploy has not ended only when that *)
(* release was canceled, or a suspend ended the one that was requested     *)
(* last: a cancel that a user requests of the deploy waiting behind names  *)
(* the release in flight its survivor, and no later write takes that back. *)
THEOREM CancelSpares == Spec => CancelEndsOneDeploy
<1>1. ASSUME IInv, RInv, CInv, [Next]_vars, status'.rel < status.rel, Unended(status.rel),
             SourceOnly, ~pass.susp, pass.stamp = pass.want, ~BySuspend(pass.cancel)
      PROVE  WasEnded(status.rel)
  <2>1. /\ status.rel \in Nat /\ status'.rel \in Nat /\ status.active \in Nat
        /\ status.rel # 0 /\ status' # status
    <3>1. IInv'
      BY <1>1, NextInv
    <3>. QED BY <1>1, <3>1, AppReleaseAssumption DEF IInv, TypeOK, AppTypeOK, AppStatuses
  <2>2. Operate
    BY <1>1, <2>1, StatusMoves DEF PassEnds, Operates
  <2>3. PassOutcome
    BY <1>1, <2>2, Undisturbed, OperateOutcome
  <2>4. /\ pass # NoPass /\ Leaves(pass) /\ pass \in Specs
        /\ PassSettles \/ PassWorks \/ PassServes
    BY <1>1, <2>1, <2>3 DEF PassOutcome, CInv, IInv, TypeOK, AppTypeOK
  <2>5. /\ pass.cancel \in Nat /\ pass.stamp \in Nat /\ pass.gen \in Nat
        /\ pass.cancel <= pass.stamp /\ pass.stamp <= pass.gen /\ status.rel <= pass.gen
    BY <1>1, <2>4, AppReleaseAssumption DEF Specs, Generations, IInv, InOrder, RInv, PassBehind
  <2>6. /\ LatestRequestCanceled(pass, status)
        /\ \/ status'.rel = status.active /\ ~SurvivorInFlight(pass, status)
           \/ status'.rel = pass.surv
    <3>1. CASE PassSettles
      BY <3>1 DEF PassSettles, SettlesCancel
    <3>2. CASE PassWorks \/ PassServes
      <4>1. status'.rel = Now.rel /\ ~SettlesCancel(pass, status)
        BY <3>2 DEF PassWorks, PassServes
      <4>2. Now.rel < status.rel
        BY <1>1, <4>1
      <4>3. DecidedRedispatches
        BY <1>1, <2>1, <2>4, <2>5, <4>1, <4>2, NowCases, Undisturbed
           DEF DecidedSettles, DecidedPins, DecidedAdopts, RequestedGeneration
      <4>. QED BY <4>1, <4>3 DEF DecidedRedispatches
    <3>. QED BY <2>4, <3>1, <3>2
  <2>7. pass.cancel # 0 /\ pass.cancel = pass.stamp /\ status.rel <= pass.cancel
    BY <2>1, <2>5, <2>6 DEF LatestRequestCanceled, RequestedGeneration
  <2>8. /\ pass.cancel \in Generations /\ deploys[pass.cancel] # NoRow
        /\ WasEnded(pass.cancel)
    BY <2>4, <2>7 DEF Leaves, CancelFiled
  <2>9. SUFFICES ASSUME status.rel # pass.cancel PROVE WasEnded(status.rel)
    BY <2>8
  <2>10. status.rel < pass.cancel /\ status.rel \in Generations
    <3>1. status.rel < pass.cancel
      BY <2>1, <2>5, <2>7, <2>9
    <3>. QED BY <2>1, <2>8, <3>1, AppReleaseAssumption DEF Generations
  <2>11. Sourced /\ \A e \in opening : e.trigger = "source"
    BY <1>1 DEF SourceOnly, Sourced
  <2>12. IsOpen(deploys[status.rel])
    <3>1. ASSUME NEW e \in opening, e.gen = status.rel PROVE FALSE
      BY <1>1, <2>1, <2>5, <2>8, <2>10, <2>11, <3>1 DEF CInv, OneTriggered, Sourced
    <3>. QED BY <1>1, <3>1 DEF Unended
  <2>13. SUFFICES ASSUME pass.surv = status.rel PROVE WasEnded(status.rel)
    BY <1>1, <2>4, <2>7, <2>10, <2>11, <2>12 DEF Leaves, Spares
  <2>14. status'.rel = status.active /\ ~SurvivorInFlight(pass, status)
    BY <1>1, <2>1, <2>6, <2>13
  <2>15. ~ActiveSel(pass, status)
    <3>1. pass.sel # pass.cancel
      BY <2>4, <2>7, <2>8, <2>11 DEF Leaves, SelectFiled, Sourced
    <3>. QED BY <2>1, <2>5, <2>7, <2>10, <3>1 DEF ActiveSel
  <2>16. status.fp # 0
    BY <1>1, <2>1 DEF CInv
  <2>. QED BY <1>1, <2>1, <2>6, <2>10, <2>13, <2>14, <2>15, <2>16
           DEF SurvivorInFlight, SavedImageRelease, PinnableSourceRelease
<1>2. IInv /\ RInv /\ CInv /\ [Next]_vars =>
        [/\ status.phase \in {"queued", "building", "deploying"}
         /\ status'.rel < status.rel
         /\ Unended(status.rel)
         /\ SourceOnly /\ ~pass.susp /\ pass.stamp = pass.want
         /\ [gen |-> pass.cancel, by |-> "suspend"] \notin ended
         => \E e \in ended : e.gen = status.rel]_vars
  BY <1>1 DEF BySuspend, WasEnded
<1>. QED BY <1>2, RequestsInvariance, CancelsInvariance, PTL DEF Spec, CancelEndsOneDeploy
==============================================================================
