--------------------------- MODULE DeployRowsProofs --------------------------
(***************************************************************************)
(* What the transactions of DeployRows do to a table over any set of ids   *)
(* and of generations: lemmas for the proofs of DeployStore and of         *)
(* DeployLifecycle.  Every operation either inserts one row or moves       *)
(* existing rows, and a move is judged row by row (RowStep).               *)
(***************************************************************************)
EXTENDS DeployRows, TLAPS

Table(Deploys, Generations) == [Deploys -> RowsOver(Generations) \cup {NoRow}]

(* What an operation may do to a row that is already in the table. *)
RowStep(row, new) ==
  /\ new.gen = row.gen /\ new.trigger = row.trigger
  /\ new.status \in Statuses => row.status \in Statuses
  /\ new.status \in OpenStatuses => row.status \in OpenStatuses
  /\ new.status = "queued" /\ new.overlap => row.status = "queued" /\ row.overlap
  /\ new.overlap => new.status = "queued"
  /\ row.status \in TerminalStatuses =>
       \/ new.status = row.status
       \/ row.status = "live" /\ new.status = "deactivated"
  /\ new.status \in TerminalStatuses => new.preDeploy # "running"

(* What a row of a sound table satisfies by itself. *)
SoundRow(row) ==
  /\ row.overlap => row.status = "queued"
  /\ row.status \in TerminalStatuses => row.preDeploy # "running"

SoundTable(Deploys, t) == \A d \in Deploys : SoundRow(t[d])

LiveRows(Deploys, t) == {d \in Deploys : t[d].status = "live"}

(* Every row of u is a legal row step from t, and u shows no second live   *)
(* row that t did not show.                                                *)
TableStep(Deploys, Generations, t, u) ==
  /\ u \in Table(Deploys, Generations)
  /\ \A d \in Deploys : RowStep(t[d], u[d])
  /\ AtMostOne(LiveRows(Deploys, t)) => AtMostOne(LiveRows(Deploys, u))

USE DEF Statuses, TerminalStatuses, FailureStatuses, OpenStatuses

(* The close of a waiting row is a legal row step to canceled. *)
LEMMA SupersededStep ==
  ASSUME NEW Generations,
         NEW row \in RowsOver(Generations), SoundRow(row), IsOpen(row)
  PROVE  /\ Superseded(row) \in RowsOver(Generations)
         /\ RowStep(row, Superseded(row))
         /\ Superseded(row).status = "canceled"
BY DEF RowsOver, SoundRow, RowStep, Superseded, SettledStep, PreDeployStatuses,
       IsOpen

(* A permitted transition is a legal row step to the requested status. *)
LEMMA MovedStep ==
  ASSUME NEW Generations,
         NEW row \in RowsOver(Generations), SoundRow(row),
         NEW s \in Statuses, CanTransition(row.status, s)
  PROVE  /\ Moved(row, s) \in RowsOver(Generations)
         /\ RowStep(row, Moved(row, s))
         /\ Moved(row, s).status = s
<1>1. PICK pd : pd = SettledStep(row.preDeploy, s)
  OBVIOUS
<1>2. pd \in PreDeployStatuses /\ (s \in TerminalStatuses => pd # "running")
  BY <1>1 DEF RowsOver, SoundRow, SettledStep, PreDeployStatuses
<1>3. Moved(row, s) = [row EXCEPT !.status = s, !.overlap = @ /\ s = "queued", !.preDeploy = pd]
  BY <1>1 DEF Moved
<1>4. /\ row.status # s
      /\ \/ row.status \in OpenStatuses
         \/ row.status = "live" /\ s = "deactivated"
      /\ s = "queued" => row.status = "created"
  <2>1. s \in {"queued", "deactivated"} \/ Predecessors(s) \subseteq OpenStatuses
    BY DEF Predecessors
  <2>2. Predecessors("queued") = {"created"} /\ Predecessors("deactivated") = {"live"}
    BY DEF Predecessors
  <2>. QED BY <2>1, <2>2 DEF CanTransition
<1>5. Moved(row, s) \in RowsOver(Generations) /\ Moved(row, s).status = s
  BY <1>2, <1>3 DEF RowsOver
<1>. QED BY <1>2, <1>3, <1>4, <1>5 DEF RowsOver, SoundRow, RowStep

(* The last live row gives way to the new one, and nothing else changes. *)
LEMMA DeactivatedStep ==
  ASSUME NEW Generations,
         NEW row \in RowsOver(Generations), SoundRow(row)
  PROVE  /\ Deactivated(row) \in RowsOver(Generations)
         /\ RowStep(row, Deactivated(row))
         /\ Deactivated(row).status # "live"
         /\ row.status # "live" => Deactivated(row) = row
<1>1. CASE row.status = "live"
  <2>1. Deactivated(row) = [row EXCEPT !.status = "deactivated"]
    BY <1>1 DEF Deactivated
  <2>. QED BY <1>1, <2>1 DEF RowsOver, SoundRow, RowStep
<1>2. CASE row.status # "live"
  <2>1. Deactivated(row) = row
    BY <1>2 DEF Deactivated
  <2>. QED BY <1>2, <2>1 DEF RowsOver, SoundRow, RowStep
<1>. QED BY <1>1, <1>2

-----------------------------------------------------------------------------
(* The operations on a table *)

(* The slot an id has not used yet stays unused, and is sound. *)
LEMMA NoRowStep == SoundRow(NoRow) /\ RowStep(NoRow, NoRow)
BY DEF NoRow, SoundRow, RowStep

(* A sound row that is not touched makes a legal step. *)
LEMMA SameRowStep ==
  ASSUME NEW Generations,
         NEW row \in RowsOver(Generations) \cup {NoRow}, SoundRow(row)
  PROVE  RowStep(row, row)
BY DEF SoundRow, RowStep

(* Coalescing empties the pending slot and touches nothing else. *)
LEMMA PendingCanceledStep ==
  ASSUME NEW Deploys, NEW Generations,
         NEW t \in Table(Deploys, Generations), SoundTable(Deploys, t)
  PROVE  /\ TableStep(Deploys, Generations, t, PendingCanceled(t))
         /\ PendingRows(PendingCanceled(t)) = {}
         /\ \A d \in Deploys \ PendingRows(t) : PendingCanceled(t)[d] = t[d]
         /\ LiveRows(Deploys, PendingCanceled(t)) = LiveRows(Deploys, t)
<1> DEFINE u == PendingCanceled(t)
<1>1. DOMAIN t = Deploys
  BY DEF Table
<1>2. /\ u = [d \in Deploys |-> IF d \in PendingRows(t) THEN Superseded(t[d])
                                                      ELSE t[d]]
      /\ DOMAIN u = Deploys
  BY <1>1 DEF PendingCanceled
<1> HIDE DEF u
<1>3. ASSUME NEW d \in PendingRows(t)
      PROVE  /\ d \in Deploys
             /\ u[d] \in RowsOver(Generations)
             /\ RowStep(t[d], u[d])
             /\ t[d].status = "queued" /\ u[d].status = "canceled"
  <2>1. d \in Deploys /\ t[d].status = "queued"
    BY <1>1 DEF PendingRows
  <2>2. t[d] \in RowsOver(Generations)
    BY <2>1 DEF Table, NoRow
  <2>3. IsOpen(t[d]) /\ SoundRow(t[d])
    BY <2>1 DEF IsOpen, SoundTable
  <2>. QED BY <1>2, <2>1, <2>2, <2>3, SupersededStep
<1>4. ASSUME NEW d \in Deploys \ PendingRows(t)
      PROVE  u[d] = t[d] /\ RowStep(t[d], u[d])
  BY <1>2, SameRowStep DEF Table, SoundTable
<1>5. u \in Table(Deploys, Generations)
  BY <1>2, <1>3, <1>4 DEF Table
<1>6. LiveRows(Deploys, u) = LiveRows(Deploys, t)
  BY <1>3, <1>4 DEF LiveRows
<1>7. PendingRows(u) = {}
  BY <1>1, <1>2, <1>3, <1>4 DEF PendingRows
<1>. QED BY <1>3, <1>4, <1>5, <1>6, <1>7 DEF TableStep, u

(* A transition moves rows legally; live leaves the moved row alone live. *)
LEMMA RequestedStep ==
  ASSUME NEW Deploys, NEW Generations,
         NEW t \in Table(Deploys, Generations), SoundTable(Deploys, t),
         NEW d \in Deploys, t[d] # NoRow,
         NEW s \in Statuses
  PROVE  TableStep(Deploys, Generations, t, Requested(t, d, s))
<1>0. DOMAIN t = Deploys /\ t[d] \in RowsOver(Generations) /\ SoundRow(t[d])
  BY DEF Table, SoundTable
<1>1. CASE Adopts(t[d], s)
  <2> DEFINE u == [t EXCEPT ![d].overlap = FALSE]
  <2>1. Requested(t, d, s) = u
    BY <1>1 DEF Requested
  <2>2. u[d] \in RowsOver(Generations) /\ RowStep(t[d], u[d])
    BY <1>0 DEF RowsOver, SoundRow, RowStep, Table
  <2>3. \A e \in Deploys \ {d} : u[e] = t[e] /\ RowStep(t[e], u[e])
    BY SameRowStep DEF Table, SoundTable
  <2>4. u \in Table(Deploys, Generations)
    BY <2>2, <2>3 DEF Table
  <2>5. u[d].status = t[d].status
    BY <1>0 DEF RowsOver, Table
  <2>6. LiveRows(Deploys, u) = LiveRows(Deploys, t)
    BY <2>3, <2>5 DEF LiveRows
  <2>. QED BY <2>1, <2>2, <2>3, <2>4, <2>6 DEF TableStep
<1>2. CASE ~Adopts(t[d], s) /\ CanTransition(t[d].status, s)
  <2> DEFINE u == [e \in Deploys |->
                     IF e = d THEN Moved(t[d], s)
                     ELSE IF s = "live" THEN Deactivated(t[e]) ELSE t[e]]
  <2>1. Requested(t, d, s) = u
    BY <1>0, <1>2 DEF Requested
  <2>2. /\ u[d] \in RowsOver(Generations)
        /\ RowStep(t[d], u[d])
        /\ u[d].status = s
    BY <1>0, <1>2, MovedStep
  <2>3. ASSUME NEW e \in Deploys \ {d}
        PROVE  /\ u[e] \in RowsOver(Generations) \cup {NoRow}
               /\ RowStep(t[e], u[e])
               /\ s = "live" => u[e].status # "live"
               /\ s # "live" => u[e] = t[e]
    <3>1. SoundRow(t[e])
      BY DEF SoundTable
    <3>2. CASE t[e] = NoRow
      <4>1. NoRow.status = "absent"
        BY DEF NoRow
      <4>2. u[e] = NoRow
        BY <3>2, <4>1 DEF Deactivated
      <4>. QED BY <3>2, <4>1, <4>2, NoRowStep
    <3>3. CASE t[e] \in RowsOver(Generations)
      BY <3>1, <3>3, DeactivatedStep, SameRowStep
    <3>. QED BY <3>2, <3>3 DEF Table
  <2>4. u \in Table(Deploys, Generations)
    BY <2>2, <2>3 DEF Table
  <2>5. CASE s = "live"
    <3>1. LiveRows(Deploys, u) \subseteq {d}
      BY <2>3, <2>5 DEF LiveRows
    <3>. QED BY <2>1, <2>2, <2>3, <2>4, <3>1 DEF TableStep, AtMostOne
  <2>6. CASE s # "live"
    <3>1. LiveRows(Deploys, u) \subseteq LiveRows(Deploys, t)
      BY <2>2, <2>3, <2>6 DEF LiveRows
    <3>. QED BY <2>1, <2>2, <2>3, <2>4, <3>1 DEF TableStep, AtMostOne
  <2>. QED BY <2>5, <2>6
<1>3. CASE ~Adopts(t[d], s) /\ ~CanTransition(t[d].status, s)
  <2>1. Requested(t, d, s) = t
    BY <1>3 DEF Requested
  <2>. QED BY <2>1, SameRowStep DEF TableStep, Table, SoundTable
<1>. QED BY <1>1, <1>2, <1>3

(* What an update of the pre-deploy column alone may do. *)
OnlyStepChanges(Deploys, Generations, t, u) ==
  /\ u \in Table(Deploys, Generations)
  /\ \A d \in Deploys :
       /\ u[d].status = t[d].status
       /\ u[d].gen = t[d].gen /\ u[d].trigger = t[d].trigger
       /\ u[d].overlap = t[d].overlap
       /\ u[d].status \in TerminalStatuses => u[d].preDeploy # "running"

(* An update of that column moves every row legally and leaves the indexes *)
(* as they were.                                                           *)
LEMMA StepColumnStep ==
  ASSUME NEW Deploys, NEW Generations,
         NEW t \in Table(Deploys, Generations), NEW u, SoundTable(Deploys, t),
         OnlyStepChanges(Deploys, Generations, t, u)
  PROVE  TableStep(Deploys, Generations, t, u) /\ (Indexed(t) => Indexed(u))
<1>1. \A d \in Deploys : RowStep(t[d], u[d])
  BY DEF OnlyStepChanges, SoundTable, SoundRow, RowStep
<1>2. LiveRows(Deploys, u) = LiveRows(Deploys, t)
  BY DEF OnlyStepChanges, LiveRows
<1>3. DOMAIN t = Deploys /\ DOMAIN u = Deploys
  BY DEF OnlyStepChanges, Table
<1>4. ActiveRows(u) = ActiveRows(t) /\ PendingRows(u) = PendingRows(t)
  BY <1>3 DEF OnlyStepChanges, ActiveRows, PendingRows, OpenRows, IsOpen
<1>. QED BY <1>1, <1>2, <1>3, <1>4 DEF OnlyStepChanges, TableStep, Indexed

(* Both writers of the pre-deploy column are such updates. *)
LEMMA PreDeploySetStep ==
  ASSUME NEW Deploys, NEW Generations,
         NEW t \in Table(Deploys, Generations), SoundTable(Deploys, t),
         NEW d \in Deploys, t[d] # NoRow,
         NEW step \in PreDeployStatuses
  PROVE  OnlyStepChanges(Deploys, Generations, t, PreDeploySet(t, d, step))
<1>1. t[d] \in RowsOver(Generations)
  BY DEF Table
<1>2. CASE IsOpen(t[d])
  <2> DEFINE u == [t EXCEPT ![d].preDeploy = step]
  <2>1. PreDeploySet(t, d, step) = u
    BY <1>2 DEF PreDeploySet
  <2>2. u[d] = [t[d] EXCEPT !.preDeploy = step]
    BY DEF Table
  <2>3. u[d] \in RowsOver(Generations)
    BY <1>1, <2>2 DEF RowsOver
  <2>4. \A e \in Deploys \ {d} : u[e] = t[e]
    BY DEF Table
  <2>5. u \in Table(Deploys, Generations)
    BY <2>3, <2>4 DEF Table
  <2>6. /\ u[d].status = t[d].status
        /\ u[d].gen = t[d].gen /\ u[d].trigger = t[d].trigger
        /\ u[d].overlap = t[d].overlap
        /\ u[d].status \notin TerminalStatuses
    BY <1>1, <1>2, <2>2 DEF RowsOver, IsOpen
  <2>. QED BY <2>1, <2>4, <2>5, <2>6 DEF OnlyStepChanges, SoundTable, SoundRow
<1>3. CASE ~IsOpen(t[d])
  BY <1>3 DEF PreDeploySet, OnlyStepChanges, SoundTable, SoundRow
<1>. QED BY <1>2, <1>3

(* A canceled step's late outcome settles it once, on closed rows only. *)
LEMMA CanceledStepSettledStep ==
  ASSUME NEW Deploys, NEW Generations,
         NEW t \in Table(Deploys, Generations), SoundTable(Deploys, t),
         NEW g \in Generations,
         NEW step \in {"succeeded", "failed"}
  PROVE  OnlyStepChanges(Deploys, Generations, t, CanceledStepSettled(t, g, step))
<1> DEFINE u == CanceledStepSettled(t, g, step)
<1>1. u = [d \in Deploys |->
             IF /\ t[d].gen = g
                /\ t[d].status = "canceled"
                /\ t[d].preDeploy = "canceled"
             THEN [t[d] EXCEPT !.preDeploy = step] ELSE t[d]]
  BY DEF CanceledStepSettled, Table
<1> HIDE DEF u
<1>2. ASSUME NEW d \in Deploys
      PROVE  /\ u[d] \in RowsOver(Generations) \cup {NoRow}
             /\ u[d].status = t[d].status
             /\ u[d].gen = t[d].gen /\ u[d].trigger = t[d].trigger
             /\ u[d].overlap = t[d].overlap
             /\ u[d].status \in TerminalStatuses => u[d].preDeploy # "running"
  <2>1. CASE u[d] = t[d]
    BY <2>1 DEF Table, SoundTable, SoundRow
  <2>2. CASE u[d] # t[d]
    <3>1. t[d].status = "canceled" /\ u[d] = [t[d] EXCEPT !.preDeploy = step]
      BY <1>1, <2>2
    <3>2. t[d] \in RowsOver(Generations)
      BY <3>1 DEF Table, NoRow
    <3>. QED BY <3>1, <3>2 DEF RowsOver, PreDeployStatuses
  <2>. QED BY <2>1, <2>2
<1>3. u \in Table(Deploys, Generations)
  BY <1>1, <1>2 DEF Table
<1>. QED BY <1>2, <1>3 DEF OnlyStepChanges, u

-----------------------------------------------------------------------------
(* Inserts *)

(* A row that waits is newer than every open row. *)
PendingNewest(t) ==
  \A p \in PendingRows(t), a \in OpenRows(t) : a # p => t[a].gen < t[p].gen

(* A table as the transactions leave it. *)
SoundStore(Deploys, Generations, t) ==
  /\ t \in Table(Deploys, Generations)
  /\ SoundTable(Deploys, t) /\ Indexed(t) /\ PendingNewest(t)

(* A row that is born canceled, because a newer open row overtook it,      *)
(* disturbs nothing.                                                       *)
StaleInsert(t, d, g) == \E e \in OpenRows(t) : t[e].gen >= g

(* What an insert leaves behind: the other rows moved legally, the active  *)
(* rows are the same ones plus perhaps the new one, and a row that waits   *)
(* is newer than every open row.                                           *)
Inserted(Deploys, Generations, t, d, u) ==
  /\ u \in Table(Deploys, Generations)
  /\ \A e \in Deploys \ {d} : RowStep(t[e], u[e])
  /\ \A e \in ActiveRows(t) : u[e] = t[e]
  /\ SoundRow(u[d])
  /\ u[d].status \in {"created", "queued", "canceled"}
  /\ LiveRows(Deploys, u) \subseteq LiveRows(Deploys, t)
  /\ Indexed(u)
  /\ PendingNewest(u)

(* An insert does so, whatever the generation it brings. *)
LEMMA InsertRowStep ==
  ASSUME NEW Deploys, NEW Generations \in SUBSET (Nat \ {0}),
         NEW t, SoundStore(Deploys, Generations, t),
         NEW d \in Deploys, t[d] = NoRow, NEW g \in Generations,
         NEW trigger \in Triggers, NEW u, u = InsertRow(t, d, g, trigger)
  PROVE  Inserted(Deploys, Generations, t, d, u)
<1> /\ t \in Table(Deploys, Generations)
    /\ SoundTable(Deploys, t) /\ Indexed(t) /\ PendingNewest(t)
  BY DEF SoundStore
<1> DEFINE row  == [NoRow EXCEPT !.gen = g, !.trigger = trigger]
           kept == PendingCanceled(t)
           busy == ActiveRows(kept) # {}
<1>0. /\ DOMAIN t = Deploys
      /\ \A e \in Deploys : t[e].gen \in Nat
      /\ g \in Nat
  <2>1. NoRow.gen = 0
    BY DEF NoRow
  <2>2. \A r \in RowsOver(Generations) : r.gen \in Generations
    BY DEF RowsOver
  <2>3. Generations \subseteq Nat
    OBVIOUS
  <2>4. ASSUME NEW e \in Deploys
        PROVE  t[e].gen \in Nat
    <3>1. t[e] \in RowsOver(Generations) \/ t[e] = NoRow
      BY DEF Table
    <3>2. CASE t[e] = NoRow
      BY <2>1, <3>2
    <3>3. CASE t[e] \in RowsOver(Generations)
      BY <2>2, <2>3, <3>3
    <3>. QED BY <3>1, <3>2, <3>3
  <2>. QED BY <2>3, <2>4 DEF Table
<1>1. CASE StaleInsert(t, d, g)
  <2> DEFINE new == [row EXCEPT !.status = "canceled"]
  <2>1. u = [t EXCEPT ![d] = new]
    BY <1>1 DEF InsertRow, StaleInsert
  <2>2. /\ new \in RowsOver(Generations)
        /\ SoundRow(new) /\ ~IsOpen(new)
        /\ new.status = "canceled"
    BY DEF NoRow, RowsOver, SoundRow, IsOpen, PreDeployStatuses
  <2> HIDE DEF new
  <2>3. u[d] = new /\ \A e \in Deploys \ {d} : u[e] = t[e]
    BY <1>0, <2>1
  <2>4. u \in Table(Deploys, Generations)
    BY <2>1, <2>2 DEF Table
  <2>5. ~IsOpen(t[d])
    BY DEF NoRow, IsOpen
  <2>6. /\ OpenRows(u) = OpenRows(t)
        /\ d \notin OpenRows(t)
    BY <1>0, <2>2, <2>3, <2>4, <2>5 DEF OpenRows, Table
  <2>7. /\ ActiveRows(u) = ActiveRows(t)
        /\ PendingRows(u) = PendingRows(t)
        /\ PendingRows(t) \subseteq OpenRows(t)
    BY <1>0, <2>2, <2>3, <2>4, <2>5, <2>6
       DEF ActiveRows, PendingRows, Table, OpenRows, IsOpen
  <2>8. \A e \in Deploys : u[e].overlap => u[e].status = "queued"
    BY <2>2, <2>3 DEF SoundTable, SoundRow
  <2>9. \A e \in Deploys \ {d} : RowStep(t[e], u[e])
    BY <2>3, SameRowStep DEF Table, SoundTable
  <2>10. LiveRows(Deploys, u) \subseteq LiveRows(Deploys, t)
    BY <2>2, <2>3 DEF LiveRows
  <2>11. Indexed(u)
    BY <2>4, <2>7, <2>8 DEF Indexed, Table
  <2>12. PendingNewest(u)
    BY <1>0, <2>3, <2>6, <2>7 DEF OpenRows, PendingNewest
  <2>13. \A e \in ActiveRows(t) : u[e] = t[e]
    BY <1>0, <2>3, <2>6 DEF ActiveRows, OpenRows
  <2>. QED BY <2>2, <2>3, <2>4, <2>9, <2>10, <2>11, <2>12, <2>13 DEF Inserted
<1>2. CASE ~StaleInsert(t, d, g)
  <2> DEFINE new == [row EXCEPT !.status  = IF busy THEN "queued" ELSE "created",
                                !.overlap = busy]
  <2>1. u = [kept EXCEPT ![d] = new]
    BY <1>2 DEF InsertRow, StaleInsert
  <2>2. /\ TableStep(Deploys, Generations, t, kept)
        /\ PendingRows(kept) = {}
        /\ \A e \in Deploys \ PendingRows(t) : kept[e] = t[e]
        /\ LiveRows(Deploys, kept) = LiveRows(Deploys, t)
    BY PendingCanceledStep
  <2>3. /\ new \in RowsOver(Generations)
        /\ SoundRow(new)
        /\ new.status = IF busy THEN "queued" ELSE "created"
        /\ new.overlap = busy
        /\ new.gen = g
    BY DEF NoRow, RowsOver, SoundRow, PreDeployStatuses
  <2> HIDE DEF new, kept
  <2>4. kept \in Table(Deploys, Generations) /\ DOMAIN kept = Deploys
    BY <2>2 DEF TableStep, Table
  <2>5. u[d] = new /\ \A e \in Deploys \ {d} : u[e] = kept[e]
    BY <2>1, <2>4
  <2>6. u \in Table(Deploys, Generations) /\ DOMAIN u = Deploys
    BY <2>1, <2>3, <2>4 DEF Table
  <2>7. \A e \in Deploys \ {d} : RowStep(t[e], u[e])
    BY <2>2, <2>5 DEF TableStep
  <2>8. ActiveRows(t) \cap PendingRows(t) = {} /\ d \notin ActiveRows(t)
    BY <1>0 DEF ActiveRows, PendingRows, OpenRows, IsOpen, NoRow
  <2>9. \A e \in ActiveRows(t) : u[e] = t[e]
    BY <1>0, <2>2, <2>5, <2>8 DEF ActiveRows, OpenRows
  <2>10. kept[d].status = "absent"
    BY <2>2, <1>0 DEF PendingRows, NoRow
  <2>11. PendingRows(u) \subseteq {d} /\ (d \in PendingRows(u) => busy)
    BY <2>2, <2>3, <2>4, <2>5, <2>6 DEF PendingRows
  <2>12. /\ ActiveRows(u) \subseteq ActiveRows(kept) \cup {d}
         /\ busy => ActiveRows(u) \subseteq ActiveRows(kept)
    BY <2>3, <2>4, <2>5, <2>6 DEF ActiveRows, OpenRows, IsOpen
  <2>13. ActiveRows(kept) \subseteq ActiveRows(t)
    <3>1. ASSUME NEW e \in ActiveRows(kept)
          PROVE  e \in ActiveRows(t)
      <4>1. e \in Deploys /\ kept[e].status \in OpenStatuses /\ ~kept[e].overlap
        BY <2>4 DEF ActiveRows, OpenRows, IsOpen
      <4>2. RowStep(t[e], kept[e])
        BY <2>2, <4>1 DEF TableStep
      <4>3. CASE e \in PendingRows(t)
        <5>1. kept[e] = Superseded(t[e])
          BY <1>0, <4>1, <4>3 DEF kept, PendingCanceled
        <5>2. t[e] \in RowsOver(Generations) /\ SoundRow(t[e]) /\ IsOpen(t[e])
          BY <1>0, <4>3 DEF Table, NoRow, PendingRows, SoundTable, IsOpen
        <5>. QED BY <4>1, <5>1, <5>2, SupersededStep
      <4>4. CASE e \notin PendingRows(t)
        BY <1>0, <2>2, <4>1, <4>4 DEF ActiveRows, OpenRows, IsOpen
      <4>. QED BY <4>3, <4>4
    <3>. QED BY <3>1
  <2>14. AtMostOne(ActiveRows(u)) /\ AtMostOne(PendingRows(u))
    BY <2>11, <2>12, <2>13 DEF Indexed, AtMostOne
  <2>15. \A e \in Deploys : u[e].overlap => u[e].status = "queued"
    BY <2>3, <2>5, <2>7 DEF RowStep, SoundRow
  <2>16. Indexed(u)
    BY <2>6, <2>14, <2>15 DEF Indexed
  <2>17. ASSUME NEW p \in PendingRows(u), NEW a \in OpenRows(u), a # p
         PROVE  u[a].gen < u[p].gen
    <3>1. p = d /\ a \in Deploys \ {d}
      BY <2>6, <2>11, <2>17 DEF OpenRows
    <3>2. RowStep(t[a], u[a])
      BY <2>7, <3>1
    <3>3. a \in OpenRows(t) /\ t[a].gen = u[a].gen
      BY <1>0, <2>6, <3>1, <3>2, <2>17 DEF RowStep, OpenRows, IsOpen
    <3>4. ~(t[a].gen >= g)
      BY <1>2, <3>3 DEF StaleInsert
    <3>. QED BY <1>0, <2>3, <2>5, <3>1, <3>3, <3>4
  <2>18. LiveRows(Deploys, u) \subseteq LiveRows(Deploys, t)
    BY <2>2, <2>3, <2>5 DEF LiveRows
  <2>19. SoundRow(u[d]) /\ u[d].status \in {"created", "queued", "canceled"}
    BY <2>3, <2>5
  <2>. QED BY <2>6, <2>7, <2>9, <2>16, <2>17, <2>18, <2>19 DEF PendingNewest, Inserted
<1>. QED BY <1>1, <1>2

-----------------------------------------------------------------------------
(* What a caller of the transactions may rely on *)

Served(row) == row.status \in {"live", "deactivated"}

(* A row keeps its generation and trigger and is not reopened; it is        *)
(* recorded as having served only if it was before, or if that is the       *)
(* verdict.                                                                 *)
Follows(row, new, verdict) ==
  /\ new.gen = row.gen /\ new.trigger = row.trigger
  /\ IsOpen(new) => IsOpen(row)
  /\ row # NoRow => new # NoRow
  /\ row = NoRow => new = NoRow
  /\ Served(new) => Served(row) \/ verdict = "live"

(* The rows of t have gone on to those of u, row d with the verdict s. *)
Moves(Deploys, Generations, t, u, d, s) ==
  /\ SoundStore(Deploys, Generations, u)
  /\ \A e \in Deploys : Follows(t[e], u[e], IF e = d THEN s ELSE "")

(* Row d was inserted for generation g, and the others have gone on. *)
Gains(Deploys, Generations, t, u, d, g, trigger) ==
  /\ SoundStore(Deploys, Generations, u)
  /\ \A e \in Deploys \ {d} : Follows(t[e], u[e], "")
  /\ u[d] # NoRow /\ u[d].gen = g /\ u[d].trigger = trigger /\ ~Served(u[d])

(* A legal step that leaves the indexes satisfied leaves a sound table. *)
LEMMA TableStepSound ==
  ASSUME NEW Deploys, NEW Generations,
         NEW t, SoundStore(Deploys, Generations, t),
         NEW u, TableStep(Deploys, Generations, t, u), Indexed(u)
  PROVE  SoundStore(Deploys, Generations, u)
<1>1. /\ t \in Table(Deploys, Generations) /\ DOMAIN t = Deploys
      /\ u \in Table(Deploys, Generations) /\ DOMAIN u = Deploys
      /\ SoundTable(Deploys, t) /\ PendingNewest(t)
  BY DEF TableStep, Table, SoundStore
<1>2. \A d \in Deploys : RowStep(t[d], u[d])
  BY DEF TableStep
<1>3. PendingNewest(u)
  <2>1. PendingRows(u) \subseteq PendingRows(t)
    BY <1>1, <1>2 DEF RowStep, PendingRows
  <2>2. OpenRows(u) \subseteq OpenRows(t)
    BY <1>1, <1>2 DEF RowStep, OpenRows, IsOpen
  <2>3. PendingRows(u) \subseteq Deploys /\ OpenRows(u) \subseteq Deploys
    BY <1>1 DEF PendingRows, OpenRows
  <2>. QED BY <1>1, <1>2, <2>1, <2>2, <2>3 DEF PendingNewest, RowStep
<1>4. SoundTable(Deploys, u)
  BY <1>2 DEF SoundTable, SoundRow, RowStep
<1>. QED BY <1>1, <1>3, <1>4 DEF SoundStore

(* An absent id stays absent, an existing row stays, through a legal step. *)
LEMMA StepFollows ==
  ASSUME NEW Deploys, NEW Generations \in SUBSET (Nat \ {0}),
         NEW t \in Table(Deploys, Generations),
         NEW u \in Table(Deploys, Generations),
         NEW d \in Deploys, RowStep(t[d], u[d])
  PROVE  /\ u[d].gen = t[d].gen /\ u[d].trigger = t[d].trigger
         /\ IsOpen(u[d]) => IsOpen(t[d])
         /\ t[d] # NoRow => u[d] # NoRow
         /\ t[d] = NoRow => u[d] = NoRow
<1>1. /\ t[d] \in RowsOver(Generations) \cup {NoRow}
      /\ u[d] \in RowsOver(Generations) \cup {NoRow}
  BY DEF Table
<1>2. u[d].gen = t[d].gen /\ (u[d].status \in Statuses => t[d].status \in Statuses)
  BY DEF RowStep
<1>3. \A row \in RowsOver(Generations) : row.gen # NoRow.gen
  BY DEF RowsOver, NoRow
<1>4. t[d] # NoRow => u[d] # NoRow
  BY <1>1, <1>2, <1>3
<1>5. t[d] = NoRow => u[d] = NoRow
  BY <1>1, <1>2, <1>3
<1>6. u[d].trigger = t[d].trigger /\ (IsOpen(u[d]) => IsOpen(t[d]))
  BY DEF RowStep, IsOpen
<1>. QED BY <1>2, <1>4, <1>5, <1>6

(* A transition leaves a sound table, whose rows follow those before. *)
LEMMA TransitionEffect ==
  ASSUME NEW Deploys, NEW Generations \in SUBSET (Nat \ {0}),
         NEW t, SoundStore(Deploys, Generations, t),
         NEW d \in Deploys, t[d] # NoRow, NEW s \in Statuses,
         NEW u, u = TransitionRow(t, d, s)
  PROVE  Moves(Deploys, Generations, t, u, d, s)
<1> USE DEF Moves
<1>0. /\ t \in Table(Deploys, Generations) /\ DOMAIN t = Deploys
      /\ SoundTable(Deploys, t) /\ Indexed(t)
  BY DEF SoundStore, Table
<1>1. CASE u = t
  BY <1>1, <1>0 DEF Follows, SoundStore
<1>2. CASE u = Requested(t, d, s) /\ Indexed(u)
  <2>1. TableStep(Deploys, Generations, t, u)
    BY <1>0, <1>2, RequestedStep
  <2>2. SoundStore(Deploys, Generations, u)
    BY <1>2, <2>1, TableStepSound
  <2>3. ASSUME NEW e \in Deploys
        PROVE  Follows(t[e], u[e], IF e = d THEN s ELSE "")
    <3>1. /\ u[e].gen = t[e].gen /\ u[e].trigger = t[e].trigger
          /\ IsOpen(u[e]) => IsOpen(t[e])
          /\ t[e] # NoRow => u[e] # NoRow
          /\ t[e] = NoRow => u[e] = NoRow
      BY <1>0, <2>1, StepFollows DEF TableStep
    <3>2. Served(u[e]) => Served(t[e]) \/ (e = d /\ s = "live")
      <4>1. CASE Adopts(t[d], s)
        <5>1. u = [t EXCEPT ![d].overlap = FALSE]
          BY <1>2, <4>1 DEF Requested
        <5>2. u[e].status = t[e].status
          <6>1. CASE e = d
            <7>1. t[d] \in RowsOver(Generations)
              BY <1>0 DEF Table
            <7>. QED BY <1>0, <5>1, <6>1, <7>1 DEF RowsOver
          <6>2. CASE e # d
            BY <1>0, <5>1, <6>2
          <6>. QED BY <6>1, <6>2
        <5>. QED BY <5>2 DEF Served
      <4>2. CASE ~Adopts(t[d], s) /\ CanTransition(t[d].status, s)
        <5>1. u[e] = IF e = d THEN Moved(t[d], s)
                     ELSE IF s = "live" THEN Deactivated(t[e]) ELSE t[e]
          BY <1>0, <1>2, <4>2 DEF Requested
        <5>2. CASE e = d
          <6>1. t[d] \in RowsOver(Generations) /\ SoundRow(t[d])
            BY <1>0 DEF Table, SoundTable
          <6>2. u[e].status = s
            BY <4>2, <5>1, <5>2, <6>1, MovedStep
          <6>3. s = "deactivated" => t[d].status = "live"
            BY <4>2 DEF CanTransition, Predecessors
          <6>. QED BY <5>2, <6>2, <6>3 DEF Served
        <5>3. CASE e # d
          <6>1. u[e] = t[e] \/ t[e].status = "live"
            BY <5>1, <5>3 DEF Deactivated
          <6>. QED BY <6>1 DEF Served
        <5>. QED BY <5>2, <5>3
      <4>3. CASE ~Adopts(t[d], s) /\ ~CanTransition(t[d].status, s)
        <5>1. u = t
          BY <1>2, <4>3 DEF Requested
        <5>. QED BY <5>1
      <4>. QED BY <4>1, <4>2, <4>3
    <3>. QED BY <3>1, <3>2 DEF Follows
  <2>. QED BY <2>2, <2>3
<1>. QED BY <1>1, <1>2 DEF TransitionRow

(* A write of the pre-deploy column alone does, too. *)
LEMMA StepColumnEffect ==
  ASSUME NEW Deploys, NEW Generations \in SUBSET (Nat \ {0}),
         NEW t, SoundStore(Deploys, Generations, t),
         NEW u, OnlyStepChanges(Deploys, Generations, t, u), NEW d \in Deploys
  PROVE  Moves(Deploys, Generations, t, u, d, "")
<1> USE DEF Moves
<1>0. t \in Table(Deploys, Generations) /\ SoundTable(Deploys, t) /\ Indexed(t)
  BY DEF SoundStore
<1>1. TableStep(Deploys, Generations, t, u) /\ Indexed(u)
  BY <1>0, StepColumnStep
<1>2. SoundStore(Deploys, Generations, u)
  BY <1>1, TableStepSound
<1>3. ASSUME NEW e \in Deploys
      PROVE  Follows(t[e], u[e], "")
  <2>1. /\ u[e].gen = t[e].gen /\ u[e].trigger = t[e].trigger
        /\ IsOpen(u[e]) => IsOpen(t[e])
        /\ t[e] # NoRow => u[e] # NoRow
        /\ t[e] = NoRow => u[e] = NoRow
    BY <1>0, <1>1, StepFollows DEF TableStep
  <2>2. u[e].status = t[e].status
    BY DEF OnlyStepChanges
  <2>. QED BY <2>1, <2>2 DEF Follows, Served
<1>. QED BY <1>2, <1>3

(* An insert adds its row, which has not served, and the others follow. *)
LEMMA InsertEffect ==
  ASSUME NEW Deploys, NEW Generations \in SUBSET (Nat \ {0}),
         NEW t, SoundStore(Deploys, Generations, t),
         NEW d \in Deploys, t[d] = NoRow, NEW g \in Generations,
         NEW trigger \in Triggers, NEW u, u = InsertRow(t, d, g, trigger)
  PROVE  Gains(Deploys, Generations, t, u, d, g, trigger)
<1> USE DEF Gains
<1>0. /\ t \in Table(Deploys, Generations) /\ DOMAIN t = Deploys
      /\ SoundTable(Deploys, t) /\ Indexed(t) /\ PendingNewest(t)
  BY DEF SoundStore, Table
<1>1. /\ u \in Table(Deploys, Generations)
      /\ \A e \in Deploys \ {d} : RowStep(t[e], u[e])
      /\ SoundRow(u[d])
      /\ u[d].status \in {"created", "queued", "canceled"}
      /\ LiveRows(Deploys, u) \subseteq LiveRows(Deploys, t)
      /\ Indexed(u)
      /\ PendingNewest(u)
  <2>1. Inserted(Deploys, Generations, t, d, u)
    BY InsertRowStep
  <2>. QED BY <2>1 DEF Inserted
<1>2. SoundTable(Deploys, u)
  BY <1>0, <1>1 DEF SoundTable, SoundRow, RowStep
<1> DEFINE row  == [NoRow EXCEPT !.gen = g, !.trigger = trigger]
           kept == PendingCanceled(t)
<1>3. /\ kept \in Table(Deploys, Generations)
      /\ \A e \in Deploys : RowStep(t[e], kept[e])
      /\ \A e \in Deploys \ PendingRows(t) : kept[e] = t[e]
      /\ DOMAIN kept = Deploys
  BY <1>0, PendingCanceledStep DEF TableStep, Table
<1>4. ASSUME NEW e \in Deploys \ {d}
      PROVE  Served(u[e]) => Served(t[e])
  <2>1. u[e] = t[e] \/ u[e] = kept[e]
    BY <1>0, <1>3 DEF InsertRow
  <2>2. CASE e \in PendingRows(t)
    <3>1. kept[e] = Superseded(t[e])
      BY <1>0, <2>2 DEF PendingCanceled
    <3>2. t[e] \in RowsOver(Generations) /\ SoundRow(t[e]) /\ IsOpen(t[e])
      BY <1>0, <2>2 DEF Table, NoRow, PendingRows, SoundTable, IsOpen
    <3>3. kept[e].status = "canceled"
      BY <3>1, <3>2, SupersededStep
    <3>. QED BY <2>1, <3>3 DEF Served
  <2>3. CASE e \notin PendingRows(t)
    BY <1>3, <2>1, <2>3
  <2>. QED BY <2>2, <2>3
<1>5. \A e \in Deploys \ {d} : Follows(t[e], u[e], "")
  BY <1>0, <1>1, <1>4, StepFollows DEF Follows
<1>6. u[d].gen = g /\ u[d].trigger = trigger
  <2>1. row.gen = g /\ row.trigger = trigger /\ DOMAIN row = {"status", "gen", "overlap", "preDeploy", "trigger"}
    BY DEF NoRow
  <2> HIDE DEF row, kept
  <2>2. CASE u = [t EXCEPT ![d] = [row EXCEPT !.status = "canceled"]]
    BY <1>0, <2>1, <2>2 DEF row, NoRow
  <2>3. CASE u = [kept EXCEPT ![d] =
                    [row EXCEPT !.status  = IF ActiveRows(kept) # {} THEN "queued"
                                            ELSE "created",
                                !.overlap = ActiveRows(kept) # {}]]
    BY <1>3, <2>1, <2>3 DEF row, NoRow
  <2>. QED BY <2>2, <2>3 DEF InsertRow, row, kept
<1>7. u[d] # NoRow
  BY <1>1 DEF NoRow
<1>8. ~Served(u[d])
  BY <1>1 DEF Served
<1>. QED BY <1>1, <1>2, <1>5, <1>6, <1>7, <1>8 DEF SoundStore
=============================================================================
