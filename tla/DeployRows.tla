----------------------------- MODULE DeployRows -----------------------------
(***************************************************************************)
(* The deploys table of one App as a value, and the transactions of the    *)
(* control-plane store on it (store.go, deploy_lifecycle.go) as functions  *)
(* from a table to a table.  A table maps each deploy id to its row; an id *)
(* that was never inserted maps to NoRow.                                  *)
(*                                                                         *)
(* Every transaction is one step: it takes the App's row lock (inserts) or *)
(* the deploy's row lock (transitions) before it reads.  Timestamps,       *)
(* reasons, images and commits are left out.                               *)
(***************************************************************************)
EXTENDS Naturals

(* What opens rows, as far as a cancel tells the triggers apart: a source  *)
(* to build ("source": an API call, a deploy hook, a push), a dashboard's  *)
(* Manual Deploy ("manual"), a saved configuration change ("config"), or a *)
(* recorded image ("selected": Rollback, Restart).                         *)
CONSTANT Triggers

ASSUME TriggersAssumption == "source" \in Triggers

(* The statuses in which a deploy may still advance or be canceled. *)
OpenStatuses == {"created", "queued", "build_in_progress",
                 "pre_deploy_in_progress", "update_in_progress"}

FailureStatuses == {"build_failed", "pre_deploy_failed", "update_failed"}

TerminalStatuses == FailureStatuses \cup {"live", "deactivated", "canceled"}

Statuses == OpenStatuses \cup TerminalStatuses

(* The outcome of the pre-deploy step that a row records; "none" before one *)
(* is known.                                                                *)
PreDeployStatuses == {"none", "running", "succeeded", "failed", "canceled"}

RowsOver(Generations) ==
  [status : Statuses, gen : Generations, overlap : BOOLEAN,
   preDeploy : PreDeployStatuses, trigger : Triggers]

NoRow == [status |-> "absent", gen |-> 0, overlap |-> FALSE,
          preDeploy |-> "none", trigger |-> "source"]

(* The statuses a deploy may be in when it moves to status s.  Phases may  *)
(* be skipped, because the control plane samples the cluster; none may be  *)
(* walked back, and only live is left again, for deactivated.              *)
Predecessors(s) ==
  CASE s = "queued"                 -> {"created"}
    [] s = "build_in_progress"      -> {"created", "queued"}
    [] s = "build_failed"           -> {"created", "queued", "build_in_progress",
                                        "update_in_progress"}
    [] s = "pre_deploy_in_progress" -> {"created", "queued", "build_in_progress"}
    [] s = "pre_deploy_failed"      -> {"created", "queued", "build_in_progress",
                                        "pre_deploy_in_progress"}
    [] s \in {"update_in_progress", "update_failed", "live", "canceled"}
                                    -> OpenStatuses
    [] s = "deactivated"            -> {"live"}
    [] OTHER                        -> {}

(* Variant: any change of status is accepted. *)
CanTransitionAlways(from, to) == from # to

CanTransition(from, to) == from # to /\ from \in Predecessors(to)

-----------------------------------------------------------------------------

IsOpen(row) == row.status \in OpenStatuses

OpenRows(t) == {d \in DOMAIN t : IsOpen(t[d])}

(* The rows each partial unique index of migration 0080 ranges over. *)
ActiveRows(t)  == {d \in OpenRows(t) : ~t[d].overlap}
PendingRows(t) == {d \in DOMAIN t : t[d].status = "queued" /\ t[d].overlap}

AtMostOne(S) == \A x, y \in S : x = y

(* The table satisfies both unique indexes and the overlap CHECK. *)
Indexed(t) ==
  /\ AtMostOne(ActiveRows(t))
  /\ AtMostOne(PendingRows(t))
  /\ \A d \in DOMAIN t : t[d].overlap => t[d].status = "queued"

(* Variant: a close leaves the step as it is. *)
SettledStepKept(step, s) == step

(* What a row's pre-deploy step becomes when the row reaches status s: a   *)
(* step still running is settled by the close.                             *)
SettledStep(step, s) ==
  IF step # "running" \/ s \notin TerminalStatuses THEN step
  ELSE CASE s = "live"              -> "succeeded"
         [] s = "pre_deploy_failed" -> "failed"
         [] OTHER                   -> "canceled"

-----------------------------------------------------------------------------

(* cancelPendingDeploys: the row in the latest-pending slot closes. *)
Superseded(row) ==
  [row EXCEPT !.status = "canceled", !.overlap = FALSE,
              !.preDeploy = SettledStep(row.preDeploy, "canceled")]

PendingCanceled(t) ==
  [d \in DOMAIN t |-> IF d \in PendingRows(t) THEN Superseded(t[d]) ELSE t[d]]

(* Variants of InsertRow: it leaves the waiting row in its slot, or takes   *)
(* the slot whatever is open.                                              *)
InsertRowBeside(t, d, g, trigger) ==
  LET busy == ActiveRows(t) # {}
  IN  [t EXCEPT ![d] = [NoRow EXCEPT !.gen = g, !.trigger = trigger,
                          !.status = IF busy THEN "queued" ELSE "created",
                          !.overlap = busy]]

InsertRowLate(t, d, g, trigger) == InsertRowBeside(PendingCanceled(t), d, g, trigger)

(* insertDeploy: prepareDeployCreate picks the new row's status, and a     *)
(* delayed insert of a generation an open row has reached is born canceled *)
(* without disturbing that row.                                            *)
InsertRow(t, d, g, trigger) ==
  LET row  == [NoRow EXCEPT !.gen = g, !.trigger = trigger]
      kept == PendingCanceled(t)
      busy == ActiveRows(kept) # {}
  IN  IF \E e \in OpenRows(t) : t[e].gen >= g
      THEN [t EXCEPT ![d] = [row EXCEPT !.status = "canceled"]]
      ELSE [kept EXCEPT ![d] =
              [row EXCEPT !.status  = IF busy THEN "queued" ELSE "created",
                          !.overlap = busy]]

(* TransitionDeploy.  The operator adopting the pending row while it still *)
(* reports a queued build only frees the pending slot.                     *)
Adopts(row, s) == s = "queued" /\ row.status = "queued" /\ row.overlap

Moved(row, s) ==
  [row EXCEPT !.status = s, !.overlap = @ /\ s = "queued",
              !.preDeploy = SettledStep(row.preDeploy, s)]

(* Variant: the release served before stays live. *)
DeactivatedNever(row) == row

Deactivated(row) ==
  IF row.status = "live" THEN [row EXCEPT !.status = "deactivated"] ELSE row

Requested(t, d, s) ==
  CASE Adopts(t[d], s) -> [t EXCEPT ![d].overlap = FALSE]
    [] ~Adopts(t[d], s) /\ CanTransition(t[d].status, s) ->
         [e \in DOMAIN t |->
            IF e = d THEN Moved(t[d], s)
            ELSE IF s = "live" THEN Deactivated(t[e]) ELSE t[e]]
    [] OTHER -> t

(* The update is refused, and the transaction rolled back, when it would   *)
(* break a unique index.                                                   *)
TransitionRow(t, d, s) ==
  IF Indexed(Requested(t, d, s)) THEN Requested(t, d, s) ELSE t

(* SetDeployPreDeployStatus writes open rows only. *)
PreDeploySet(t, d, step) ==
  IF IsOpen(t[d]) THEN [t EXCEPT ![d].preDeploy = step] ELSE t

(* SettleCanceledPreDeploy: a canceled row whose step ran on after the     *)
(* cancel learns how the step ended.                                       *)
CanceledStepSettled(t, g, step) ==
  [d \in DOMAIN t |->
     IF t[d].gen = g /\ t[d].status = "canceled" /\ t[d].preDeploy = "canceled"
     THEN [t[d] EXCEPT !.preDeploy = step]
     ELSE t[d]]
=============================================================================
