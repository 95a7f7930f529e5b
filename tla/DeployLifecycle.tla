--------------------------- MODULE DeployLifecycle ---------------------------
(***************************************************************************)
(* The deploy lifecycle of one App, end to end: users trigger, change,     *)
(* suspend and cancel (deploys/service.go, rollout/rollout.go,             *)
(* store/release_cancel.go), the operator releases (AppRelease), and the   *)
(* control plane's reconcilers read the App back into the deploys table    *)
(* (store/reconciler.go).                                                  *)
(*                                                                         *)
(* The App resource and the table are written separately and no            *)
(* transaction spans them, so every request and every pass is a sequence   *)
(* of steps which others interleave with.  bex-api runs replicas with no   *)
(* leader election: Reconcilers and Cancelers are those replicas' loops    *)
(* and requests.                                                           *)
(*                                                                         *)
(* A release's generation is never reused, so it names the release's row:  *)
(* the row of generation g is deploys[g].                                  *)
(***************************************************************************)
EXTENDS DeployProjection, FiniteSets, Sequences

CONSTANTS
  Reconcilers,     \* the reconciler loops of the bex-api replicas
  Cancelers,       \* concurrent Cancel requests
  Suspends,        \* users suspend, resume and scale
  StaleSettings,   \* a settings save patches over writes it has not read
  Timeouts,        \* a row may outlive its gate timeout
  Crashes          \* a process may die between two steps

ASSUME LifecycleAssumption ==
  /\ {Suspends, StaleSettings, Timeouts, Crashes} \subseteq BOOLEAN
  /\ StaleSettings => "config" \in Triggers

VARIABLES
  deploys,    \* the deploys table of the App
  opening,    \* releases whose spec is patched and whose row is not inserted
  settings,   \* generations read by settings saves that have not patched
  cancels,    \* Cancel requests in progress
  recs,       \* reconciler passes in progress
  served,     \* history: generations that have served
  ended       \* history: generations whose cancel stamp landed, and who ended them

vars == <<spec, status, pass, deploys, opening, settings, cancels, recs,
          served, ended>>

NoCancel == [at |-> "idle"]
NoRecord == [at |-> "idle"]

Releases == [gen : Generations, trigger : Triggers]

(* A Cancel request: it has read its row, then it has stamped the App. *)
CancelRequests ==
  [at : {"read", "stamped"}, gen : Generations, survivor : 0..MaxGen]

(* What a pass is to record of one open row it listed: a stamp, when a suspend  *)
(* ended the row's release, the outcome of the step, and a status.          *)
ListedRecords == [status : OpenStatuses, gen : Generations, overlap : BOOLEAN]

Judgements ==
  [row : ListedRecords, stamps : BOOLEAN,
   step : {"none", "running", "succeeded", "failed"},
   verdict : Statuses \cup {Waiting}]

(* The outcome of a canceled release's step, recorded when the rows are.    *)
Settlements == [gen : 0..MaxGen, step : {"none", "succeeded", "failed"}]

(* A pass has listed the App, then it records what it judged of the rows. *)
Recordings ==
  [at : {"listed"}, app : Snapshots] \cup
  [at : {"recording"}, todo : Seq(Judgements), settle : Settlements]

(* Releases which were ended: by a cancel that a user requested, or by a    *)
(* pass that found the App suspended.                                      *)
Ends == [gen : Generations, by : {"cancel", "suspend"}]

TypeOK ==
  /\ AppTypeOK
  /\ deploys \in [Generations -> RowsOver(Generations) \cup {NoRow}]
  /\ opening \subseteq Releases
  /\ settings \subseteq Generations
  /\ cancels \in [Cancelers -> CancelRequests \cup {NoCancel}]
  /\ recs \in [Reconcilers -> Recordings \cup {NoRecord}]
  /\ served \subseteq Generations
  /\ ended \subseteq Ends

Init ==
  /\ AppInit
  /\ deploys = [g \in Generations |-> NoRow]
  /\ opening = {}
  /\ settings = {}
  /\ cancels = [c \in Cancelers |-> NoCancel]
  /\ recs = [r \in Reconcilers |-> NoRecord]
  /\ served = {}
  /\ ended = {}

-----------------------------------------------------------------------------
(* Requests *)

Created == deploys # [g \in Generations |-> NoRow]

(* CreateApp commits the App with its first row, then creates the resource. *)
CreateApp ==
  /\ ~Created
  /\ deploys' = InsertRow(deploys, 1, 1, "source")
  /\ UNCHANGED <<spec, status, pass, opening, settings, cancels, recs, served,
                 ended>>

Writes(a) == spec' = a /\ UNCHANGED <<status, pass, served>>

(* The trigger lock is held from the patch of the App to the insert of its *)
(* row (openRelease), so at most one triggered release is opening.         *)
TriggerLocked == \E e \in opening : e.trigger # "config"

(* A suspended service is refused before the lock is taken, so a suspend   *)
(* can still come first.                                                   *)
OpenRelease(trigger) ==
  /\ ~TriggerLocked
  /\ spec.gen < MaxGen
  /\ Writes(Released(spec, trigger = "selected"))
  /\ opening' = opening \cup {[gen |-> spec.gen + 1, trigger |-> trigger]}
  /\ UNCHANGED <<deploys, settings, cancels, recs, ended>>

Patches(read) ==
  /\ spec.gen < MaxGen
  /\ ~spec.susp
  /\ Writes(Reconfigured(spec, read))
  /\ opening' = opening \cup {[gen |-> spec.gen + 1, trigger |-> "config"]}
  /\ UNCHANGED <<deploys, cancels, recs, ended>>

(* PatchLocked: secrets, environment groups and references. *)
ChangeConfig == Patches(spec.gen) /\ UNCHANGED settings

(* Patch: a Settings save merges over whatever came in since it read. *)
SettingsRead ==
  /\ StaleSettings /\ settings = {}
  /\ spec.gen < MaxGen
  /\ settings' = {spec.gen}
  /\ UNCHANGED <<spec, status, pass, deploys, opening, cancels, recs, served, ended>>

SettingsPatch ==
  \E read \in settings : Patches(read) /\ settings' = {}

InsertOpened ==
  \E e \in opening :
    /\ deploys' = InsertRow(deploys, e.gen, e.gen, e.trigger)
    /\ opening' = opening \ {e}
    /\ UNCHANGED <<spec, status, pass, settings, cancels, recs, served, ended>>

(* The replica dies, or the insert fails: the release rolls without a row. *)
DropOpened ==
  /\ Crashes
  /\ \E e \in opening : opening' = opening \ {e}
  /\ UNCHANGED <<spec, status, pass, deploys, settings, cancels, recs, served,
                 ended>>

Operational(a) ==
  /\ Suspends
  /\ spec.gen < MaxGen
  /\ Writes(a)
  /\ UNCHANGED <<deploys, opening, settings, cancels, recs, ended>>

Scale   == Operational(Scaled(spec))
Suspend == ~spec.susp /\ Operational(SuspensionSet(spec, TRUE))
Resume  == spec.susp /\ Operational(SuspensionSet(spec, FALSE))

-----------------------------------------------------------------------------
(* Cancel (deploys/service.go) *)

(* Variant: a cancel of the pending row looks for nothing ahead of it. *)
SurvivorsNever(d) == {}

(* cancelSurvivor: the executing row ahead of a pending one that is         *)
(* sourceOnly; empty when there is none.                                    *)
Survivors(d) ==
  {o \in ActiveRows(deploys) :
     /\ deploys[d].overlap /\ deploys[d].trigger = "source"
     /\ deploys[o].trigger # "selected"
     /\ o < d}

CancelReads(c, d) ==
  /\ cancels[c] = NoCancel
  /\ IsOpen(deploys[d])
  /\ \E survivor \in IF Survivors(d) = {} THEN {0} ELSE Survivors(d) :
       cancels' = [cancels EXCEPT ![c] =
                     [at |-> "read", gen |-> d, survivor |-> survivor]]
  /\ UNCHANGED <<spec, status, pass, deploys, opening, settings, recs, served,
                 ended>>

(* CancelRelease re-reads the App and patches under that resourceVersion. *)
CancelStamps(c) ==
  /\ cancels[c].at = "read"
  /\ \E recommits \in BOOLEAN :
       Writes(ReleaseCanceled(spec, cancels[c].gen, cancels[c].survivor, recommits))
  /\ cancels' = [cancels EXCEPT ![c].at = "stamped"]
  /\ ended' = ended \cup {[gen |-> cancels[c].gen, by |-> "cancel"]}
  /\ UNCHANGED <<deploys, opening, settings, recs>>

(* A request that dies is one which never takes this step. *)
CancelCloses(c) ==
  /\ cancels[c].at = "stamped"
  /\ deploys' = TransitionRow(deploys, cancels[c].gen, "canceled")
  /\ cancels' = [cancels EXCEPT ![c] = NoCancel]
  /\ UNCHANGED <<spec, status, pass, opening, settings, recs, served, ended>>

-----------------------------------------------------------------------------
(* A reconciler pass (ReconcileOnce, recordObservations) *)

RecordLists(r) ==
  /\ recs[r] = NoRecord
  /\ recs' = [recs EXCEPT ![r] = [at |-> "listed", app |-> Seen(spec, status)]]
  /\ UNCHANGED <<spec, status, pass, deploys, opening, settings, cancels,
                 served, ended>>

Judged(row, app, timedOut) ==
  [row     |-> row,
   stamps  |-> SuspendEnds(row, app, timedOut),
   step    |-> StepToRecord(row, app),
   verdict |-> ObservedStatus(row, app, timedOut)]

Settled(app) ==
  LET step == StepOf(app, app.cancel)
  IN  IF app.cancel # 0 /\ step \in {"succeeded", "failed"}
      THEN [gen |-> app.cancel, step |-> step] ELSE [gen |-> 0, step |-> "none"]

(* There is something to record of the row. *)
Due(j) == j.stamps \/ j.step # "none" \/ j.verdict # Waiting

(* Judgements in the order of their generations. *)
Queue(J) ==
  CHOOSE q \in [1..Cardinality(J) -> J] :
    \A m, n \in DOMAIN q : m < n => q[m].row.gen < q[n].row.gen

(* What a pass has to record of rows (at most the executing and the pending *)
(* one).  It reads the clock, so a row may be past its gate timeout.        *)
Queues(rows, app) ==
  LET late == [rows -> IF Timeouts THEN BOOLEAN ELSE {FALSE}]
      judged(timedOut) == {Judged(row, app, timedOut[row]) : row \in rows}
  IN  {Queue({j \in judged(timedOut) : Due(j)}) : timedOut \in late}

(* What is left to do; the pass ends when nothing is. *)
Recording(todo, settle) ==
  IF todo = <<>> /\ settle.step = "none" THEN NoRecord
  ELSE [at |-> "recording", todo |-> todo, settle |-> settle]

ListedRows ==
  {[status |-> deploys[d].status, gen |-> d, overlap |-> deploys[d].overlap] :
     d \in OpenRows(deploys)}

RecordReadsRows(r) ==
  /\ recs[r].at = "listed"
  /\ \E todo \in Queues(ListedRows, recs[r].app) :
       recs' = [recs EXCEPT ![r] = Recording(todo, Settled(@.app))]
  /\ UNCHANGED <<spec, status, pass, deploys, opening, settings, cancels,
                 served, ended>>

Busy(r) == recs[r].at = "recording" /\ recs[r].todo # <<>>

Current(r) == Head(recs[r].todo)

Continues(r, todo, settle) ==
  recs' = [recs EXCEPT ![r] = Recording(todo, settle)]

(* The stamp re-reads the App, and the rest of the pass works on what it    *)
(* read.                                                                    *)
RecordStamps(r) ==
  LET row == Current(r).row
      app == Seen(spec', status)
  IN  /\ Busy(r) /\ Current(r).stamps
      /\ Writes(ReleaseCanceled(spec, row.gen, 0, FALSE))
      /\ \E rest \in Queues({j.row : j \in {recs[r].todo[i] : i \in 2..Len(recs[r].todo)}},
                             app) :
           Continues(r, <<[row |-> row, stamps |-> FALSE, verdict |-> "canceled",
                           step |-> StepToRecord(row, app)]>> \o rest,
                     Settled(app))
      /\ ended' = ended \cup {[gen |-> row.gen, by |-> "suspend"]}
      /\ UNCHANGED <<deploys, opening, settings, cancels>>

(* A stamp that keeps losing to other writes leaves the row to a later pass. *)
RecordStampLost(r) ==
  /\ Crashes
  /\ Busy(r) /\ Current(r).stamps
  /\ Continues(r, Tail(recs[r].todo), recs[r].settle)
  /\ UNCHANGED <<spec, status, pass, deploys, opening, settings, cancels,
                 served, ended>>

(* The step outcome is a write of its own, before the row's transition.     *)
RecordSetsStep(r) ==
  /\ Busy(r) /\ ~Current(r).stamps /\ Current(r).step # "none"
  /\ deploys' = PreDeploySet(deploys, Current(r).row.gen, Current(r).step)
  /\ IF Current(r).verdict = Waiting
     THEN Continues(r, Tail(recs[r].todo), recs[r].settle)
     ELSE recs' = [recs EXCEPT ![r].todo[1].step = "none"]
  /\ UNCHANGED <<spec, status, pass, opening, settings, cancels, served, ended>>

(* Variant: the row is written without comparing what it has become. *)
RecordMovesRowBlind(r) ==
  /\ Busy(r) /\ ~Current(r).stamps /\ Current(r).step = "none"
  /\ Current(r).verdict # Waiting
  /\ deploys' = [deploys EXCEPT ![Current(r).row.gen] = Moved(@, Current(r).verdict)]
  /\ Continues(r, Tail(recs[r].todo), recs[r].settle)
  /\ UNCHANGED <<spec, status, pass, opening, settings, cancels, served, ended>>

RecordMovesRow(r) ==
  /\ Busy(r) /\ ~Current(r).stamps /\ Current(r).step = "none"
  /\ deploys' = TransitionRow(deploys, Current(r).row.gen, Current(r).verdict)
  /\ Continues(r, Tail(recs[r].todo), recs[r].settle)
  /\ UNCHANGED <<spec, status, pass, opening, settings, cancels, served, ended>>

(* recordCanceledPreDeploy ends the pass. *)
RecordSettlesStep(r) ==
  /\ recs[r].at = "recording" /\ recs[r].todo = <<>>
  /\ deploys' = CanceledStepSettled(deploys, recs[r].settle.gen, recs[r].settle.step)
  /\ recs' = [recs EXCEPT ![r] = NoRecord]
  /\ UNCHANGED <<spec, status, pass, opening, settings, cancels, served, ended>>

RecordDies(r) ==
  /\ Crashes
  /\ recs[r] # NoRecord
  /\ recs' = [recs EXCEPT ![r] = NoRecord]
  /\ UNCHANGED <<spec, status, pass, deploys, opening, settings, cancels,
                 served, ended>>

Records(r) ==
  \/ RecordLists(r)
  \/ RecordReadsRows(r)
  \/ RecordStamps(r)
  \/ RecordStampLost(r)
  \/ RecordSetsStep(r)
  \/ RecordMovesRow(r)
  \/ RecordSettlesStep(r)

-----------------------------------------------------------------------------
(* The operator *)

Operates(A) ==
  /\ A
  /\ served' = served \cup ({status'.active} \ {0})
  /\ UNCHANGED <<deploys, opening, settings, cancels, recs, ended>>

PassBegins   == Operates(BeginPass)
PassAbandons == Crashes /\ Operates(AbandonPass)
PassEnds     == Operates(Operate)
StageEnds    == Operates(Settles)

-----------------------------------------------------------------------------

Steps ==
  \/ \E trigger \in Triggers \ {"config"} : OpenRelease(trigger)
  \/ "config" \in Triggers /\ ChangeConfig
  \/ SettingsRead
  \/ SettingsPatch
  \/ InsertOpened
  \/ DropOpened
  \/ Scale
  \/ Suspend
  \/ Resume
  \/ \E c \in Cancelers, d \in Generations : CancelReads(c, d)
  \/ \E c \in Cancelers : CancelStamps(c) \/ CancelCloses(c)
  \/ \E r \in Reconcilers : Records(r) \/ RecordDies(r)
  \/ PassBegins
  \/ PassAbandons
  \/ PassEnds

Next == CreateApp \/ (Created /\ Steps)

Spec == Init /\ [][Next]_vars

(* The release that serves goes back to deploying.                          *)
LosesReadiness ==
  /\ status.phase # "deploying"
  /\ status'.phase = "deploying" /\ status'.rel = status'.active

(* bex-api's loops and requests run on, the work queue of the operator      *)
(* holds a changed App until a pass has ended on it, and build, step and    *)
(* rollout have deadlines, so passes that could settle a stage do settle it.*)
(* A release that serves may lose readiness, but not for ever.  Nobody has  *)
(* to trigger, scale, suspend, resume or cancel anything.                   *)
Fairness ==
  /\ WF_vars(CreateApp \/ (Created /\ InsertOpened))
  /\ \A c \in Cancelers : WF_vars(Created /\ (CancelStamps(c) \/ CancelCloses(c)))
  /\ \A r \in Reconcilers : WF_vars(Created /\ Records(r))
  /\ WF_vars(Created /\ (PassBegins \/ PassEnds))
  /\ SF_vars(Created /\ StageEnds)
  /\ <>[][~LosesReadiness]_vars

FairSpec == Spec /\ Fairness

-----------------------------------------------------------------------------
(* What deploy history says *)

(* A deploy recorded live, then or earlier, did serve traffic (migration    *)
(* 0080, recordDeploy): no reading of the App, however old, makes history   *)
(* claim a release that never ran.                                          *)
LiveWasServed ==
  \A g \in Generations :
    deploys[g].status \in {"live", "deactivated"} => g \in served

(* Of the deploys recorded as having served, the newest is the live one:    *)
(* "a newer live deploy atomically makes the prior live revision            *)
(* historical" (deploy_lifecycle.go).  It does not hold: FindOlderLive.     *)
LiveIsNewestServed ==
  \A g, h \in Generations :
    deploys[g].status = "live" /\ deploys[h].status = "deactivated" => h < g

(* A pre-deploy step recorded as failed blocked its release, unless a       *)
(* cancel rolls that release of a saved image again, step and all          *)
(* (reconcilePreDeploy, SetDeployPreDeployStatus, redispatchSurvivor).      *)
StepVerdictTruthful ==
  \A g \in Generations :
    deploys[g].preDeploy = "failed" /\ g \in served =>
      ~spec.kind.built /\ \E e \in ended : g < e.gen

(* An open row's release was requested of the operator by the stamp, or a   *)
(* later one was: the row created after a patch names a release the         *)
(* operator will reconcile (rollout.Stamp).                                 *)
OpenRowIsRequested ==
  \A g \in Generations : IsOpen(deploys[g]) => g <= spec.stamp

-----------------------------------------------------------------------------
(* What the operator starts serving *)

StartsServing(g) == g # 0 /\ status'.active = g /\ status.active # g

(* The release which serves is only ever replaced by a newer one, through   *)
(* pins, survivors and settled cancels (settleReady, markRunning).          *)
ServesForward == [][status'.active >= status.active]_vars

(* A failed release stays down, unless a cancel named it to be rolled again *)
(* (redispatchSurvivor).                                                    *)
FailedStaysDown ==
  [][\A g \in Generations :
       deploys[g].status \in FailureStatuses /\ g # spec.surv => ~StartsServing(g)]_vars

(* While its cancel stamp stands a release does not start serving, as long  *)
(* as the newest settings are stamped as what they are, which a stale save  *)
(* fails to do (releaseInFlight, settleCanceledRelease, settleReady's       *)
(* checked write).                                                          *)
CanceledStaysEnded ==
  [][\A g \in Generations :
       g = spec.cancel /\ spec.stamp = spec.want => ~StartsServing(g)]_vars

(* The deploy of this release has not ended: its row is open, or is still   *)
(* to be inserted.                                                          *)
Unended(g) == IsOpen(deploys[g]) \/ \E e \in opening : e.gen = g

(* Every deploy takes its config from source. *)
SourceOnly ==
  /\ \A g \in Generations : deploys[g].trigger = "source"
  /\ \A e \in opening : e.trigger = "source"

(* The operator gives up a release in flight, whose deploy has not ended,   *)
(* only when that release was canceled itself: while every deploy takes its *)
(* config from source and the service runs, a cancel that a user requests   *)
(* of the deploy waiting behind it "ends that deploy alone"                 *)
(* (cancelSurvivor, survivorInFlight).  The stamp of a suspend names no     *)
(* survivor, and the stamp of a stale save may not be its own release's.    *)
CancelEndsOneDeploy ==
  [][/\ status.phase \in {"queued", "building", "deploying"}
     /\ status'.rel < status.rel
     /\ Unended(status.rel)
     /\ SourceOnly /\ ~pass.susp /\ pass.stamp = pass.want
     /\ [gen |-> pass.cancel, by |-> "suspend"] \notin ended
     => \E e \in ended : e.gen = status.rel]_vars

(* No release starts serving while the App is suspended: a pass which began *)
(* before the suspend cannot finish its rollout after it (settleReady).     *)
SuspendedServesNothingNew ==
  [][\A g \in Generations : StartsServing(g) => ~spec.susp]_vars

-----------------------------------------------------------------------------
(* The protocol implements the deploy store's specification: every row is   *)
(* inserted and moved as the store's transactions allow.                    *)
Store == INSTANCE DeployStore WITH Deploys <- Generations
StoreSpec == Store!Spec

-----------------------------------------------------------------------------
(* Progress *)

(* Every deploy comes to an end, without help from its gate timeout: the    *)
(* latest pending row is adopted once the active release settles            *)
(* (supersededDeployStatus, prepareAppReleaseDecision).  Only a row that a  *)
(* cancel named its survivor after the canceled release had served waits    *)
(* for the timeout (awaitingSurvivor).                                      *)
EveryDeployEnds ==
  \A g \in Generations :
    IsOpen(deploys[g]) ~> (~IsOpen(deploys[g]) \/ spec.surv = g)

(* A requested release is reached or passed by the operator, unless it is   *)
(* canceled (requestedReleaseGeneration).                                   *)
RequestsAreAdopted ==
  \A g \in Generations :
    (spec.stamp = g) ~> (status.rel >= g \/ spec.cancel >= g)
=============================================================================
