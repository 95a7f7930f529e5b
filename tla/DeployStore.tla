----------------------------- MODULE DeployStore ----------------------------
(***************************************************************************)
(* What the control-plane store promises about the deploy history of one   *)
(* App, whatever its callers ask for: every operation that writes the      *)
(* deploys table (store.go) may be called at any time, with any id, status *)
(* and generation.  Two control-plane replicas share the table and nothing *)
(* orders their calls, so this is the contract they both rely on.          *)
(* DeployLifecycle implements it with the callers the program has.         *)
(***************************************************************************)
EXTENDS DeployRows

CONSTANTS
  Deploys,      \* deploy ids
  Generations   \* App generations a row may carry

ASSUME GenerationsAssumption == Generations \subseteq Nat \ {0}

VARIABLE deploys

TypeOK == deploys \in [Deploys -> RowsOver(Generations) \cup {NoRow}]

Init == deploys = [d \in Deploys |-> NoRow]

(* CreateApp, CreateDeploy, CreateRestartDeploy, CreateRollbackDeploy. *)
Create(d, g, trigger) ==
  /\ deploys[d] = NoRow
  /\ deploys' = InsertRow(deploys, d, g, trigger)

(* EnsureCheckedDeploy: a dispatch that is retried inserts no second row   *)
(* for the generation it already recorded.                                 *)
EnsureChecked(d, g) ==
  /\ \A e \in Deploys : deploys[e] # NoRow => deploys[e].gen # g
  /\ Create(d, g, "source")

Transition(d, s) ==
  /\ deploys[d] # NoRow
  /\ deploys' = TransitionRow(deploys, d, s)

SetPreDeploy(d, step) ==
  /\ deploys[d] # NoRow
  /\ deploys' = PreDeploySet(deploys, d, step)

SettleCanceled(g, step) == deploys' = CanceledStepSettled(deploys, g, step)

Next ==
  \/ \E d \in Deploys, g \in Generations, trigger \in Triggers :
       Create(d, g, trigger)
  \/ \E d \in Deploys, g \in Generations : EnsureChecked(d, g)
  \/ \E d \in Deploys, s \in Statuses : Transition(d, s)
  \/ \E d \in Deploys, step \in PreDeployStatuses \ {"none"} :
       SetPreDeploy(d, step)
  \/ \E g \in Generations, step \in {"succeeded", "failed"} :
       SettleCanceled(g, step)

Spec == Init /\ [][Next]_deploys

-----------------------------------------------------------------------------
(* Safety *)

(* At most one release executes and at most one waits behind it, and only  *)
(* a queued row waits: the two unique indexes and the CHECK of migration   *)
(* 0080, which every transaction must leave satisfied.                     *)
OneActiveOnePending == Indexed(deploys)

(* The waiting row is the newest open release: prepareDeployCreate never   *)
(* lets a delayed insert of an older generation take the slot, and no      *)
(* transition lets an older row follow it.  So what runs next is always    *)
(* the latest change, never one already overtaken.                         *)
PendingIsNewest ==
  \A p \in PendingRows(deploys), a \in OpenRows(deploys) :
    a # p => deploys[a].gen < deploys[p].gen

(* At most one row says it is what the App serves now (TransitionDeploy    *)
(* deactivates the others in the transaction that makes one live).         *)
OneLive == AtMostOne({d \in Deploys : deploys[d].status = "live"})

(* A closed row never claims that its pre-deploy step still runs: whichever *)
(* of the three closing statements ends it also settles the step (the      *)
(* CHECK of migration 0142).                                               *)
ClosedRowSettled ==
  \A d \in Deploys :
    deploys[d].status \in TerminalStatuses => deploys[d].preDeploy # "running"

(* A terminal row is final: no later call, however delayed, reopens it,    *)
(* changes its outcome or moves it to another generation.  The one         *)
(* exception is the live row, which another row's success deactivates.     *)
OutcomeIsFinal ==
  \A d \in Deploys :
    deploys[d].status \in TerminalStatuses =>
      /\ deploys'[d].gen = deploys[d].gen
      /\ \/ deploys'[d].status = deploys[d].status
         \/ deploys[d].status = "live" /\ deploys'[d].status = "deactivated"

TerminalIsFinal == [][OutcomeIsFinal]_deploys

(* A newer trigger never preempts the executing release: the step that     *)
(* inserts a row leaves the active row exactly as it was.                  *)
InsertLeavesActiveRow ==
  \A d, a \in Deploys :
    deploys[d] = NoRow /\ deploys'[d] # NoRow /\ a \in ActiveRows(deploys) =>
      deploys'[a] = deploys[a]

ActiveRowUndisturbed == [][InsertLeavesActiveRow]_deploys
=============================================================================
