-------------------------- MODULE MCDeployLifecycle --------------------------
(* Kinds of App, interchangeable replicas and bounds for the runs of       *)
(* DeployLifecycle.                                                        *)
EXTENDS DeployLifecycle, TLC

Source      == [built |-> TRUE,  gated |-> FALSE]
GatedSource == [built |-> TRUE,  gated |-> TRUE]
Image       == [built |-> FALSE, gated |-> FALSE]
GatedImage  == [built |-> FALSE, gated |-> TRUE]

ImageApps == {Image}
MixedApps == {GatedSource, Image}
CoreApps  == {Source, GatedSource, GatedImage}

Symmetry == Permutations(Reconcilers)

NoCancels == spec.cancel = 0 /\ \A c \in Cancelers : cancels[c] = NoCancel

(* All releases after the first are requested the same way. *)
Uniform ==
  Cardinality({deploys[g].trigger : g \in {g \in 2..MaxGen : deploys[g] # NoRow}}
              \cup {e.trigger : e \in opening}) <= 1

(* Three releases, requested the same way, where no step gates the rollout  *)
(* and nothing is canceled, two otherwise; cancels only among deploys that  *)
(* take their config from source, of an App with a build or a step, not     *)
(* both, and of one deploy where there is a step.                           *)
CoreBounds ==
  /\ IF spec.kind = Source THEN Uniform ELSE spec.gen <= 2
  /\ \/ NoCancels
     \/ /\ spec.gen <= 2 /\ SourceOnly
        /\ spec.kind = Source \/ (spec.kind = GatedImage /\ Cardinality({e.gen : e \in ended}) <= 1)

(* Every release after the first comes from saved settings.               *)
OnlyConfig ==
  /\ \A g \in 2..MaxGen : deploys[g] # NoRow => deploys[g].trigger = "config"
  /\ \A e \in opening : e.trigger = "config"

(* A third release is a stale save's, whose stamp falls behind the newest   *)
(* settings; while a save is on its way and after a third release, the      *)
(* releases come from saved settings and one reconciler works at a time.    *)
ReplicaBounds ==
  /\ spec.gen = 3 => spec.stamp < spec.want
  /\ spec.gen = 3 \/ settings # {} =>
       OnlyConfig /\ \E r \in Reconcilers : recs[r] = NoRecord

(* The operator settles each release in the pass that decides it, and the  *)
(* reconcilers list the App while a release serves.                        *)
SettledOnly ==
  /\ status.phase \in {"none", "running"} /\ status.rollFail = 0
  /\ \A r \in Reconcilers :
       recs[r].at = "listed" => recs[r].app.phase = "running"
=============================================================================
