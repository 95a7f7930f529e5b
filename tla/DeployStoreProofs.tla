-------------------------- MODULE DeployStoreProofs -------------------------
(***************************************************************************)
(* Proofs of DeployStore's safety properties for any set of deploys and of *)
(* generations, from the lemmas about the table's transactions             *)
(* (DeployRowsProofs).                                                     *)
(***************************************************************************)
EXTENDS DeployStore, DeployRowsProofs

USE DEF Statuses, TerminalStatuses, FailureStatuses, OpenStatuses

-----------------------------------------------------------------------------
(* The inductive invariant *)

(* The five invariants are inductive only together: that the pending row   *)
(* is the newest needs the CHECK (so that a row which leaves created does  *)
(* not enter the slot), and a sound row step needs the settled pre-deploy. *)
IInv ==
  /\ TypeOK
  /\ OneActiveOnePending
  /\ PendingIsNewest
  /\ OneLive
  /\ ClosedRowSettled

(* Row by row soundness is the type and settledness of the whole table. *)
LEMMA SoundInv ==
  ASSUME IInv
  PROVE  /\ SoundStore(Deploys, Generations, deploys)
         /\ DOMAIN deploys = Deploys
BY DEF IInv, TypeOK, Table, SoundTable, SoundRow, OneActiveOnePending, Indexed,
       ClosedRowSettled, PendingIsNewest, PendingNewest, SoundStore

(* A legal table step that leaves the indexes satisfied preserves IInv and *)
(* keeps every outcome final.                                              *)
LEMMA TableStepInv ==
  ASSUME IInv, TableStep(Deploys, Generations, deploys, deploys'), Indexed(deploys')
  PROVE  IInv' /\ OutcomeIsFinal
<1>1. /\ deploys \in Table(Deploys, Generations) /\ DOMAIN deploys = Deploys
      /\ deploys' \in Table(Deploys, Generations) /\ DOMAIN deploys' = Deploys
  BY SoundInv DEF TableStep, Table, SoundStore
<1>2. \A d \in Deploys : RowStep(deploys[d], deploys'[d])
  BY DEF TableStep
<1>3. PendingIsNewest'
  <2>1. SoundStore(Deploys, Generations, deploys')
    BY SoundInv, TableStepSound
  <2>. QED BY <2>1 DEF SoundStore, PendingNewest, PendingIsNewest
<1>4. OneLive'
  BY DEF TableStep, IInv, OneLive, LiveRows
<1>5. ClosedRowSettled'
  BY <1>2 DEF RowStep, ClosedRowSettled
<1>6. TypeOK' /\ OneActiveOnePending'
  BY <1>1 DEF TypeOK, Table, OneActiveOnePending
<1>7. OutcomeIsFinal
  BY <1>2 DEF RowStep, OutcomeIsFinal
<1>. QED BY <1>3, <1>4, <1>5, <1>6, <1>7 DEF IInv

(* Inserting a row preserves IInv, keeps every outcome final and leaves    *)
(* the active row alone.                                                   *)
LEMMA CreateInv ==
  ASSUME IInv, NEW d \in Deploys, NEW g \in Generations,
         NEW trigger \in Triggers, Create(d, g, trigger)
  PROVE  IInv' /\ OutcomeIsFinal /\ InsertLeavesActiveRow
<1>0. Generations \in SUBSET (Nat \ {0})
  BY GenerationsAssumption
<1>1. /\ SoundStore(Deploys, Generations, deploys)
      /\ deploys[d] = NoRow /\ deploys' = InsertRow(deploys, d, g, trigger)
  BY SoundInv DEF Create
<1>2. /\ deploys' \in Table(Deploys, Generations)
      /\ \A e \in Deploys \ {d} : RowStep(deploys[e], deploys'[e])
      /\ \A e \in ActiveRows(deploys) : deploys'[e] = deploys[e]
      /\ SoundRow(deploys'[d])
      /\ LiveRows(Deploys, deploys') \subseteq LiveRows(Deploys, deploys)
      /\ Indexed(deploys')
      /\ PendingNewest(deploys')
  <2>1. Inserted(Deploys, Generations, deploys, d, deploys')
    BY <1>0, <1>1, InsertRowStep
  <2>. QED BY <2>1 DEF Inserted
<1>3. OneLive'
  BY <1>2 DEF IInv, OneLive, LiveRows, AtMostOne
<1>4. ClosedRowSettled'
  BY <1>2 DEF RowStep, SoundRow, ClosedRowSettled
<1>5. OutcomeIsFinal
  BY <1>1, <1>2 DEF RowStep, OutcomeIsFinal, Create, NoRow
<1>6. InsertLeavesActiveRow
  BY <1>2 DEF InsertLeavesActiveRow
<1>. QED BY <1>2, <1>3, <1>4, <1>5, <1>6
       DEF IInv, TypeOK, Table, OneActiveOnePending, PendingIsNewest, PendingNewest

(* The empty table satisfies the inductive invariant. *)
LEMMA InitInv == Init => IInv
<1> SUFFICES ASSUME Init PROVE IInv
  OBVIOUS
<1>1. \A d \in Deploys : deploys[d] = NoRow
  BY DEF Init
<1>2. NoRow.status = "absent" /\ NoRow.overlap = FALSE
  BY DEF NoRow
<1>3. TypeOK /\ DOMAIN deploys = Deploys
  BY DEF Init, TypeOK
<1>4. OpenRows(deploys) = {} /\ ActiveRows(deploys) = {} /\ PendingRows(deploys) = {}
  BY <1>1, <1>2, <1>3 DEF OpenRows, ActiveRows, PendingRows, IsOpen
<1>5. OneActiveOnePending
  BY <1>1, <1>2, <1>3, <1>4 DEF OneActiveOnePending, Indexed, AtMostOne
<1>6. PendingIsNewest
  BY <1>4 DEF PendingIsNewest
<1>7. OneLive /\ ClosedRowSettled
  BY <1>1, <1>2 DEF OneLive, AtMostOne, ClosedRowSettled
<1>. QED BY <1>3, <1>5, <1>6, <1>7 DEF IInv

(* Every operation preserves the invariant and satisfies both action       *)
(* properties.                                                             *)
LEMMA NextInv == IInv /\ [Next]_deploys => IInv' /\ [OutcomeIsFinal]_deploys
                                                /\ [InsertLeavesActiveRow]_deploys
<1> SUFFICES ASSUME IInv, [Next]_deploys
             PROVE  /\ IInv' /\ [OutcomeIsFinal]_deploys
                    /\ [InsertLeavesActiveRow]_deploys
  OBVIOUS
<1>0. /\ deploys \in Table(Deploys, Generations)
      /\ SoundTable(Deploys, deploys) /\ Indexed(deploys)
  BY SoundInv DEF SoundStore
<1>1. ASSUME NEW d \in Deploys, NEW g \in Generations, NEW trigger \in Triggers,
             Create(d, g, trigger)
      PROVE  IInv' /\ OutcomeIsFinal /\ InsertLeavesActiveRow
  BY <1>1, CreateInv
<1>2. ASSUME NEW d \in Deploys, NEW g \in Generations, EnsureChecked(d, g)
      PROVE  IInv' /\ OutcomeIsFinal /\ InsertLeavesActiveRow
  BY <1>2, CreateInv, TriggersAssumption DEF EnsureChecked
<1>3. ASSUME TableStep(Deploys, Generations, deploys, deploys'), Indexed(deploys')
      PROVE  IInv' /\ OutcomeIsFinal /\ InsertLeavesActiveRow
  <2>1. ASSUME NEW d \in Deploys, deploys[d] = NoRow
        PROVE  deploys'[d] = NoRow
    <3>1. deploys[d].status \notin Statuses
      BY <2>1 DEF NoRow
    <3>2. deploys'[d].status \notin Statuses
      BY <1>3, <3>1 DEF TableStep, RowStep
    <3>3. deploys'[d] \notin RowsOver(Generations)
      BY <3>2 DEF RowsOver
    <3>. QED BY <1>3, <3>3 DEF TableStep, Table
  <2>. QED BY <1>3, <2>1, TableStepInv DEF InsertLeavesActiveRow
<1>4. ASSUME NEW d \in Deploys, NEW s \in Statuses, Transition(d, s)
      PROVE  TableStep(Deploys, Generations, deploys, deploys') /\ Indexed(deploys')
  <2>1. TableStep(Deploys, Generations, deploys, Requested(deploys, d, s))
    BY <1>0, <1>4, RequestedStep DEF Transition
  <2>2. TableStep(Deploys, Generations, deploys, deploys)
    BY <1>0, SameRowStep DEF TableStep, Table, SoundTable
  <2>. QED BY <1>0, <1>4, <2>1, <2>2 DEF Transition, TransitionRow
<1>5. ASSUME NEW d \in Deploys, NEW step \in PreDeployStatuses \ {"none"},
             SetPreDeploy(d, step)
      PROVE  TableStep(Deploys, Generations, deploys, deploys') /\ Indexed(deploys')
  <2>1. OnlyStepChanges(Deploys, Generations, deploys, deploys')
    BY <1>0, <1>5, PreDeploySetStep DEF SetPreDeploy
  <2>. QED BY <1>0, <2>1, StepColumnStep
<1>6. ASSUME NEW g \in Generations, NEW step \in {"succeeded", "failed"},
             SettleCanceled(g, step)
      PROVE  TableStep(Deploys, Generations, deploys, deploys') /\ Indexed(deploys')
  <2>1. OnlyStepChanges(Deploys, Generations, deploys, deploys')
    BY <1>0, <1>6, CanceledStepSettledStep DEF SettleCanceled
  <2>. QED BY <1>0, <2>1, StepColumnStep
<1>7. CASE UNCHANGED deploys
  BY <1>7 DEF IInv, TypeOK, OneActiveOnePending, PendingIsNewest, OneLive,
              ClosedRowSettled
<1>. QED BY <1>1, <1>2, <1>3, <1>4, <1>5, <1>6, <1>7 DEF Next

-----------------------------------------------------------------------------
(* The theorems *)

(* The inductive invariant holds of every behaviour. *)
LEMMA Invariance == Spec => []IInv
<1>1. Init => IInv
  BY InitInv
<1>2. IInv /\ [Next]_deploys => IInv'
  BY NextInv
<1>. QED BY <1>1, <1>2, PTL DEF Spec

(* Every value the operations store is a row of the table. *)
THEOREM StoreTypeCorrect == Spec => []TypeOK
<1>1. IInv => TypeOK
  BY DEF IInv
<1>. QED BY <1>1, Invariance, PTL

(* No sequence of calls, by any number of control planes, leaves two       *)
(* releases executing or two waiting (the indexes of migration 0080).      *)
THEOREM StoreSlots == Spec => []OneActiveOnePending
<1>1. IInv => OneActiveOnePending
  BY DEF IInv
<1>. QED BY <1>1, Invariance, PTL

(* The row that waits is always the newest open release                    *)
(* (prepareDeployCreate's comparison of generations).                      *)
THEOREM StorePendingIsNewest == Spec => []PendingIsNewest
<1>1. IInv => PendingIsNewest
  BY DEF IInv
<1>. QED BY <1>1, Invariance, PTL

(* At most one deploy is live (TransitionDeploy's deactivation). *)
THEOREM StoreOneLive == Spec => []OneLive
<1>1. IInv => OneLive
  BY DEF IInv
<1>. QED BY <1>1, Invariance, PTL

(* No closed deploy shows a running pre-deploy step (migration 0142). *)
THEOREM StoreClosedRowSettled == Spec => []ClosedRowSettled
<1>1. IInv => ClosedRowSettled
  BY DEF IInv
<1>. QED BY <1>1, Invariance, PTL

(* A deploy's outcome is final, but for the live row a newer live row      *)
(* deactivates (deployTransitionPredecessors).                             *)
THEOREM StoreTerminalIsFinal == Spec => TerminalIsFinal
<1>1. IInv /\ [Next]_deploys => [OutcomeIsFinal]_deploys
  BY NextInv
<1>. QED BY <1>1, Invariance, PTL DEF Spec, TerminalIsFinal

(* A newer trigger leaves the executing release's row alone. *)
THEOREM StoreActiveRowUndisturbed == Spec => ActiveRowUndisturbed
<1>1. IInv /\ [Next]_deploys => [InsertLeavesActiveRow]_deploys
  BY NextInv
<1>. QED BY <1>1, Invariance, PTL DEF Spec, ActiveRowUndisturbed
=============================================================================
