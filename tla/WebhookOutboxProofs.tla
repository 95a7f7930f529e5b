------------------------- MODULE WebhookOutboxProofs -------------------------
(***************************************************************************)
(* Proofs of WebhookOutbox' safety properties for any notifications,       *)
(* senders and keys and any automatic budget, and that it implements       *)
(* WebhookDelivery.                                                        *)
(***************************************************************************)
EXTENDS WebhookOutbox, SequenceTheorems, FiniteSetTheorems, TLAPS

-----------------------------------------------------------------------------
(* The inductive invariant, in named parts. *)

\* The automatic attempts that have been made.
Spent(rows) == {i \in Ids(rows) : rows[i].origin = "automatic" /\ rows[i].status # "pending"}

\* Attempts are numbered upwards, none beyond its position.
Ordered(rows) ==
  /\ rows \in Seq(Attempts)
  /\ \A i \in 1..Len(rows) : rows[i].number <= i
  /\ \A i, j \in Ids(rows) : i < j => rows[i].number < rows[j].number

\* Where a reservation was deleted, the resend that superseded it follows.
Gaps(rows) ==
  \A i \in 1..Len(rows) : rows[i].status = "superseded" =>
    /\ rows[i].origin = "automatic"
    /\ i < Len(rows) => rows[i + 1].origin = "manual"

Ends(rows) == rows # <<>> => rows[Len(rows)].status # "superseded"

\* Only the newest attempt may be pending.
Lined(rows) ==
  /\ Ordered(rows) /\ Gaps(rows) /\ Ends(rows)
  /\ \A i \in Pending(rows) : i = Len(rows)

Scheduled(rows) == \E i \in Pending(rows) : rows[i].origin = "automatic" \/ rows[i].resume
Quiet(rows) == \A i \in Pending(rows) : rows[i].origin = "manual" /\ ~rows[i].resume

\* A parent agrees with its attempts.
Consistent(p, rows) ==
  /\ Lined(rows)
  /\ p.row # "present" => rows = <<>> /\ p = [NoParent EXCEPT !.row = p.row]
  /\ Open(p) => Scheduled(rows) /\ p.count < MaxTries
  /\ Terminal(p) => Quiet(rows)
  /\ p.row = "present" => p.count = Cardinality(Spent(rows))

\* A claim is on a row there is or was, and what it read of an attempt that is
\* still pending still holds.
Current(claim, p, rows) ==
  /\ p.row = "swept" \/ (p.row = "present" /\ claim.id <= Len(rows))
  /\ claim.id \in Pending(rows) =>
       claim.count = p.count /\ claim.origin = rows[claim.id].origin

IInv ==
  /\ TypeOK
  /\ \A n \in Notifications : Consistent(parent[n], attempts[n])
  /\ \A s \in Senders : senders[s] # Idle =>
       Current(senders[s], parent[senders[s].n], attempts[senders[s].n])

-----------------------------------------------------------------------------
(* Attempts of one notification. *)

(* Positions and rows of a sequence of attempts. *)
LEMMA RowsTyped ==
  ASSUME NEW rows \in Seq(Attempts)
  PROVE  /\ Len(rows) \in Nat /\ DOMAIN rows = 1..Len(rows)
         /\ \A i \in 1..Len(rows) : rows[i] \in Attempts /\ rows[i].number \in Nat
         /\ Pending(rows) \subseteq Ids(rows) /\ Ids(rows) \subseteq 1..Len(rows)
         /\ IsFiniteSet(Spent(rows)) /\ Cardinality(Spent(rows)) \in Nat
<1>1. Len(rows) \in Nat /\ DOMAIN rows = 1..Len(rows)
  BY LenProperties
<1>2. \A i \in 1..Len(rows) : rows[i] \in Attempts
  BY ElementOfSeq
<1>3. IsFiniteSet(1..Len(rows))
  BY <1>1, FS_Interval
<1>4. Spent(rows) \in SUBSET (1..Len(rows))
  BY DEF Spent, Ids
<1>5. IsFiniteSet(Spent(rows))
  BY <1>3, <1>4, FS_Subset
<1>6. Cardinality(Spent(rows)) \in Nat
  BY <1>5, FS_CardinalityType
<1>. QED BY <1>1, <1>2, <1>5, <1>6 DEF Attempts, Pending, Ids

(* Settling the pending attempt leaves none pending, and spends one of the   *)
(* automatic budget if it was automatic (the pending -> terminal update of   *)
(* CompleteWebhookAttempt).                                                  *)
LEMMA SettledRows ==
  ASSUME NEW rows, Lined(rows), NEW i \in Pending(rows), NEW delivered \in BOOLEAN,
         NEW new, new = SettledAttempt(rows, i, delivered)
  PROVE  /\ Lined(new) /\ Pending(new) = {} /\ Len(new) = Len(rows) /\ Ids(new) = Ids(rows)
         /\ \A j \in 1..Len(rows) : new[j].number = rows[j].number
         /\ Spent(new) = IF rows[i].origin = "automatic" THEN Spent(rows) \cup {i}
                         ELSE Spent(rows)
         /\ i \notin Spent(rows)
<1> DEFINE row == [rows[i] EXCEPT !.status = IF delivered THEN "delivered" ELSE "failed",
                                  !.leased = FALSE]
<1>1. rows \in Seq(Attempts)
  BY DEF Lined, Ordered
<1>2. /\ Len(rows) \in Nat /\ DOMAIN rows = 1..Len(rows) /\ i \in 1..Len(rows)
      /\ \A j \in 1..Len(rows) : rows[j] \in Attempts
  BY <1>1, RowsTyped DEF Pending
<1>3. /\ row \in Attempts /\ row.number = rows[i].number /\ row.origin = rows[i].origin
      /\ row.status \in {"delivered", "failed"}
  BY <1>2 DEF Attempts
<1>4. new = [rows EXCEPT ![i] = row]
  BY <1>2 DEF SettledAttempt
<1> HIDE DEF row
<1>5. /\ new \in Seq(Attempts) /\ Len(new) = Len(rows)
      /\ \A j \in 1..Len(rows) : new[j] = IF j = i THEN row ELSE rows[j]
  BY <1>1, <1>2, <1>3, <1>4, ExceptSeq
<1>6. \A j \in 1..Len(rows) :
        /\ new[j].number = rows[j].number /\ new[j].origin = rows[j].origin
        /\ j # i => new[j].status = rows[j].status
  BY <1>2, <1>3, <1>5
<1>7. new[i].status \in {"delivered", "failed"} /\ rows[i].status = "pending"
  BY <1>2, <1>3, <1>5 DEF Pending
<1>8. Ids(new) = Ids(rows) /\ Pending(new) = {}
  <2>1. Ids(new) = Ids(rows)
    BY <1>2, <1>5, <1>6, <1>7 DEF Ids
  <2>2. \A j \in 1..Len(rows) : rows[j].status = "pending" => j = i
    BY DEF Pending, Lined
  <2>3. \A j \in 1..Len(rows) : new[j].status # "pending"
    BY <1>6, <1>7, <2>2
  <2>. QED BY <1>5, <2>1, <2>3 DEF Pending
<1>9. /\ Spent(new) = IF rows[i].origin = "automatic" THEN Spent(rows) \cup {i}
                      ELSE Spent(rows)
      /\ i \notin Spent(rows)
  BY <1>2, <1>6, <1>7, <1>8 DEF Spent, Ids
<1>10. Ordered(new)
  BY <1>5, <1>6, <1>8 DEF Lined, Ordered, Ids
<1>11. Gaps(new)
  BY <1>2, <1>5, <1>6, <1>7 DEF Lined, Gaps
<1>12. Ends(new)
  BY <1>2, <1>5, <1>6, <1>7, EmptySeq DEF Lined, Ends
<1>. QED BY <1>5, <1>6, <1>8, <1>9, <1>10, <1>11, <1>12 DEF Lined

(* A reservation behind attempts that have all been settled becomes the one  *)
(* pending attempt.                                                          *)
LEMMA ReservedRows ==
  ASSUME NEW rows, Ordered(rows), Gaps(rows), Pending(rows) = {},
         NEW a \in Attempts, a.status = "pending", a.number <= Len(rows) + 1,
         \A i \in Ids(rows) : rows[i].number < a.number,
         a.origin = "manual" \/ Ends(rows),
         NEW new, new = Append(rows, a)
  PROVE  /\ Lined(new) /\ Pending(new) = {Len(rows) + 1} /\ new[Len(rows) + 1] = a
         /\ Spent(new) = Spent(rows)
<1>1. rows \in Seq(Attempts)
  BY DEF Ordered
<1>2. /\ Len(rows) \in Nat /\ DOMAIN rows = 1..Len(rows)
      /\ \A j \in 1..Len(rows) : rows[j] \in Attempts /\ rows[j].number \in Nat
  BY <1>1, RowsTyped
<1>3. /\ new \in Seq(Attempts) /\ Len(new) = Len(rows) + 1 /\ new # <<>>
      /\ \A j \in 1..Len(rows) : new[j] = rows[j]
      /\ new[Len(rows) + 1] = a
  BY <1>1, AppendProperties
<1>4. Pending(new) = {Len(rows) + 1}
  BY <1>2, <1>3 DEF Pending
<1>5. Ids(new) = Ids(rows) \cup {Len(rows) + 1}
  BY <1>2, <1>3 DEF Ids
<1>6. Spent(new) = Spent(rows)
  BY <1>2, <1>3, <1>5 DEF Spent, Ids
<1>7. Ordered(new)
  <2>1. \A i \in 1..Len(new) : new[i].number <= i
    BY <1>2, <1>3 DEF Ordered
  <2>2. \A i, j \in Ids(new) : i < j => new[i].number < new[j].number
    BY <1>2, <1>3, <1>5 DEF Ordered, Ids
  <2>. QED BY <1>3, <2>1, <2>2 DEF Ordered
<1>8. Gaps(new)
  <2> SUFFICES ASSUME NEW i \in 1..Len(new), new[i].status = "superseded"
               PROVE  /\ new[i].origin = "automatic"
                      /\ i < Len(new) => new[i + 1].origin = "manual"
    BY DEF Gaps
  <2>1. i \in 1..Len(rows) /\ rows[i].status = "superseded" /\ rows[i].origin = "automatic"
    BY <1>2, <1>3 DEF Gaps
  <2>2. CASE i < Len(rows)
    BY <1>2, <1>3, <2>1, <2>2 DEF Gaps
  <2>3. CASE i = Len(rows)
    BY <1>2, <1>3, <2>1, <2>3, EmptySeq DEF Ends
  <2>. QED BY <1>2, <2>1, <2>2, <2>3
<1>. QED BY <1>3, <1>4, <1>6, <1>7, <1>8 DEF Lined, Ends

(* A resend deletes the automatic retry nobody holds; the rows left are      *)
(* numbered, and the last row is the only one that may have gone.            *)
LEMMA SupersededRows ==
  ASSUME NEW rows, Lined(rows), NEW new, new = Superseded(rows)
  PROVE  /\ Ordered(new) /\ Gaps(new) /\ Len(new) = Len(rows)
         /\ Ids(new) = Ids(rows) \ Parked(rows)
         /\ Pending(new) = Pending(rows) \ Parked(rows)
         /\ Spent(new) = Spent(rows)
         /\ \A i \in Ids(new) : new[i] = rows[i]
<1>1. rows \in Seq(Attempts)
  BY DEF Lined, Ordered
<1>2. /\ Len(rows) \in Nat /\ DOMAIN rows = 1..Len(rows)
      /\ \A j \in 1..Len(rows) : rows[j] \in Attempts /\ rows[j].number \in Nat
  BY <1>1, RowsTyped
<1>3. /\ DeletedRow \in Attempts /\ DeletedRow.number = 1
      /\ DeletedRow.status = "superseded" /\ DeletedRow.origin = "automatic"
  BY DEF DeletedRow, Automatic, Reserved, Attempts
<1>4. new = [i \in 1..Len(rows) |-> IF i \in Parked(rows) THEN DeletedRow ELSE rows[i]]
  BY DEF Superseded
<1>5. new \in [1..Len(rows) -> Attempts]
  BY <1>2, <1>3, <1>4
<1>6. new \in Seq(Attempts) /\ Len(new) = Len(rows)
  BY <1>2, <1>5
<1>7. \A i \in 1..Len(rows) : new[i] = IF i \in Parked(rows) THEN DeletedRow ELSE rows[i]
  BY <1>4
<1>8. \A i \in Parked(rows) : /\ i \in 1..Len(rows) /\ i = Len(rows) /\ i \in Pending(rows)
                              /\ rows[i].status = "pending" /\ rows[i].origin = "automatic"
  BY DEF Parked, Pending, Lined
<1>9. Ids(new) = Ids(rows) \ Parked(rows)
  BY <1>3, <1>6, <1>7, <1>8 DEF Ids
<1>10. Pending(new) = Pending(rows) \ Parked(rows)
  BY <1>3, <1>6, <1>7, <1>8 DEF Pending
<1>11. \A i \in Ids(new) : new[i] = rows[i]
  BY <1>6, <1>7, <1>9 DEF Ids
<1>12. Spent(new) = Spent(rows)
  BY <1>8, <1>9, <1>11 DEF Spent, Ids
<1>13. Ordered(new)
  <2>1. \A i \in 1..Len(new) : new[i].number <= i
    BY <1>2, <1>3, <1>6, <1>7 DEF Lined, Ordered
  <2>2. \A i, j \in Ids(new) : i < j => new[i].number < new[j].number
    BY <1>9, <1>11 DEF Lined, Ordered
  <2>. QED BY <1>6, <2>1, <2>2 DEF Ordered
<1>14. Gaps(new)
  <2> SUFFICES ASSUME NEW i \in 1..Len(new), new[i].status = "superseded"
               PROVE  /\ new[i].origin = "automatic"
                      /\ i < Len(new) => new[i + 1].origin = "manual"
    BY DEF Gaps
  <2>1. CASE i \in Parked(rows)
    <3>1. i = Len(new) /\ new[i] = DeletedRow
      BY <1>6, <1>7, <1>8, <2>1
    <3>. QED BY <1>2, <1>3, <1>6, <3>1
  <2>2. CASE i \notin Parked(rows)
    <3>1. rows[i].status = "superseded" /\ i \in 1..Len(rows) /\ new[i] = rows[i]
      BY <1>6, <1>7, <2>2
    <3>2. /\ rows[i].origin = "automatic"
          /\ i < Len(rows) => rows[i + 1].origin = "manual"
      BY <3>1 DEF Lined, Gaps
    <3>3. i < Len(rows) => i + 1 \in 1..Len(rows) /\ i + 1 \notin Parked(rows)
      BY <1>2, <1>8, <3>1, <3>2
    <3>. QED BY <1>6, <1>7, <3>1, <3>2, <3>3
  <2>. QED BY <2>1, <2>2
<1>. QED BY <1>6, <1>9, <1>10, <1>11, <1>12, <1>13, <1>14

(* The number a resend gets is one more than every number left, for the      *)
(* newest row left is the last or, behind a parked retry, the one before.    *)
LEMMA NextNumberTyped ==
  ASSUME NEW rows, Lined(rows), NEW i \in Ids(rows), i \notin Pending(rows),
         NEW new, new = Superseded(rows), Pending(new) = {}
  PROVE  /\ NextNumber(new) \in 1..(Len(new) + 1)
         /\ \A j \in Ids(new) : new[j].number < NextNumber(new)
<1>1. /\ Ordered(new) /\ Len(new) = Len(rows) /\ Ids(new) = Ids(rows) \ Parked(rows)
      /\ \A j \in Ids(new) : new[j] = rows[j]
  BY SupersededRows
<1>2. rows \in Seq(Attempts) /\ new \in Seq(Attempts)
  BY <1>1 DEF Lined, Ordered
<1>3. /\ Len(new) \in Nat /\ i \in 1..Len(new)
      /\ \A j \in 1..Len(new) : new[j].number \in Nat /\ rows[j] \in Attempts
      /\ Ids(rows) \subseteq 1..Len(new)
  BY <1>1, <1>2, RowsTyped
<1>4. \A j \in Parked(rows) : /\ j \in Pending(rows) /\ j = Len(rows)
                              /\ rows[j].origin = "automatic" /\ rows[j].status = "pending"
  BY DEF Parked, Pending, Lined
<1>5. \E l \in Ids(new) : \A j \in Ids(new) : j <= l
  <2>1. CASE Parked(rows) = {}
    <3>1. Len(rows) \in Ids(rows)
      BY <1>1, <1>3, EmptySeq DEF Lined, Ends, Ids
    <3>. QED BY <1>1, <1>3, <2>1, <3>1
  <2>2. CASE Parked(rows) # {}
    <3>1. Len(rows) \in Parked(rows) /\ rows[Len(rows)].origin = "automatic"
      BY <1>4, <2>2
    <3>2. i < Len(rows) /\ Len(rows) - 1 \in 1..Len(rows)
      BY <1>1, <1>3, <1>4, <3>1
    <3>3. rows[Len(rows) - 1].status # "superseded"
      <4>1. Len(rows) - 1 < Len(rows) /\ (Len(rows) - 1) + 1 = Len(rows)
        BY <1>1, <1>3
      <4>. QED BY <3>1, <3>2, <4>1 DEF Lined, Gaps
    <3>4. Len(rows) - 1 \in Ids(new)
      BY <1>1, <1>3, <1>4, <3>2, <3>3 DEF Ids
    <3>. QED BY <1>1, <1>3, <3>1, <3>4
  <2>. QED BY <2>1, <2>2
<1>6. PICK l \in Ids(new) : \A j \in Ids(new) : j <= l
  BY <1>5
<1>7. \A j \in Ids(new) : new[j].number <= new[l].number
  BY <1>1, <1>3, <1>6 DEF Ordered
<1>8. new[l].number + 1 \in 1..(Len(new) + 1)
  BY <1>1, <1>3, <1>6 DEF Ordered
<1>9. /\ \A j \in Ids(new) : new[j].number < new[l].number + 1
      /\ \E j \in Ids(new) : new[j].number = (new[l].number + 1) - 1
  BY <1>1, <1>3, <1>6, <1>7
<1>10. \E k \in 1..(Len(new) + 1) :
         /\ \A j \in Ids(new) : new[j].number < k
         /\ k = 1 \/ \E j \in Ids(new) : new[j].number = k - 1
  BY <1>8, <1>9
<1>. QED BY <1>10 DEF NextNumber

-----------------------------------------------------------------------------
(* Parents and their attempts. *)

(* An automatic reservation is a pending attempt of its number. *)
LEMMA AutomaticTyped ==
  ASSUME NEW k \in Nat
  PROVE  /\ Automatic(k) \in Attempts /\ Automatic(k).number = k
         /\ Automatic(k).status = "pending" /\ Automatic(k).origin = "automatic"
BY DEF Automatic, Reserved, Attempts

(* The retry behind an attempt that was just settled. *)
LEMMA RetriedRows ==
  ASSUME NEW rows, Lined(rows), NEW i \in Pending(rows),
         NEW done, Lined(done), Pending(done) = {}, Len(done) = Len(rows), Ids(done) = Ids(rows),
         \A j \in 1..Len(rows) : done[j].number = rows[j].number,
         NEW new, new = Append(done, Automatic(rows[i].number + 1))
  PROVE  /\ Lined(new) /\ Scheduled(new) /\ Spent(new) = Spent(done)
         /\ Pending(new) = {Len(rows) + 1}
<1>1. /\ Lined(done) /\ Pending(done) = {} /\ Len(done) = Len(rows) /\ Ids(done) = Ids(rows)
      /\ \A j \in 1..Len(rows) : done[j].number = rows[j].number
  OBVIOUS
<1>2. rows \in Seq(Attempts)
  BY DEF Lined, Ordered
<1>3. /\ Len(rows) \in Nat /\ Ids(rows) \subseteq 1..Len(rows) /\ i \in Ids(rows)
      /\ i = Len(rows) /\ \A j \in 1..Len(rows) : rows[j].number \in Nat
  BY <1>2, RowsTyped DEF Lined
<1>4. \E k \in Nat : k = rows[i].number /\ k <= Len(rows)
  BY <1>3 DEF Lined, Ordered
<1>5. PICK k \in Nat : k = rows[i].number /\ k <= Len(rows)
  BY <1>4
<1>6. \A j \in Ids(done) : done[j].number \in Nat /\ done[j].number <= k
  <2> TAKE j \in Ids(done)
  <2>1. j \in Ids(rows) /\ j \in 1..Len(rows) /\ done[j].number = rows[j].number
    BY <1>1, <1>3
  <2>2. rows[j].number \in Nat /\ (j < i => rows[j].number < rows[i].number)
    BY <1>3, <2>1 DEF Lined, Ordered
  <2>. QED BY <1>3, <1>5, <2>1, <2>2
<1>7. PICK a : a = Automatic(k + 1)
  OBVIOUS
<1>8. /\ a \in Attempts /\ a.number = k + 1
      /\ a.status = "pending" /\ a.origin = "automatic"
  BY <1>7, AutomaticTyped
<1>9. \A j \in Ids(done) : done[j].number < a.number
  BY <1>6, <1>8
<1>10. a.number <= Len(done) + 1
  BY <1>1, <1>3, <1>5, <1>8
<1>11. new = Append(done, a)
  BY <1>5, <1>7
<1>12. Ordered(done) /\ Gaps(done) /\ Ends(done) /\ Pending(done) = {}
  BY <1>1 DEF Lined
<1>13. /\ Lined(new) /\ Pending(new) = {Len(done) + 1} /\ Spent(new) = Spent(done)
       /\ new[Len(done) + 1] = a
  <2>1. a \in Attempts
    BY <1>8
  <2>2. a.status = "pending"
    BY <1>8
  <2>3. a.origin = "manual" \/ Ends(done)
    BY <1>12
  <2>. QED BY ONLY <2>1, <2>2, <2>3, <1>9, <1>10, <1>11, <1>12, ReservedRows
<1>. QED BY <1>1, <1>8, <1>13 DEF Scheduled

(* An endpoint's new notification, and one that is gone (Enqueue, Forgotten). *)
LEMMA NewRows ==
  ASSUME NEW p \in Parents, Consistent(p, <<>>), p.row = "absent",
         NEW np, np = [p EXCEPT !.row = "present"],
         NEW new, new = <<Automatic(1)>>
  PROVE  np \in Parents /\ Consistent(np, new)
<1>1. /\ np \in Parents /\ np.row = "present" /\ np.count = 0 /\ Open(np) /\ ~Terminal(np)
  BY DEF Parents, Consistent, NoParent, Open, Terminal
<1>2. PICK a : a = Automatic(1)
  OBVIOUS
<1>3. a \in Attempts /\ a.number = 1 /\ a.status = "pending" /\ a.origin = "automatic"
  BY <1>2, AutomaticTyped
<1>4. new \in Seq(Attempts) /\ Len(new) = 1 /\ new[1] = a /\ new # <<>>
  BY <1>2, <1>3
<1>5. Pending(new) = {1} /\ Ids(new) = {1} /\ Spent(new) = {}
  BY <1>3, <1>4 DEF Pending, Ids, Spent
<1>6. Ordered(new) /\ Gaps(new) /\ Ends(new)
  BY <1>3, <1>4, <1>5 DEF Ordered, Gaps, Ends
<1>7. Lined(new) /\ Scheduled(new)
  BY <1>3, <1>4, <1>5, <1>6 DEF Lined, Scheduled
<1>8. np.count = Cardinality(Spent(new)) /\ np.count < MaxTries
  <2>1. Cardinality(Spent(new)) = 0
    BY ONLY <1>5, FS_EmptySet
  <2>2. 0 < MaxTries
    BY ONLY MaxTriesAssumption
  <2>. QED BY ONLY <1>1, <2>1, <2>2
<1>. QED BY <1>1, <1>7, <1>8 DEF Consistent

(* A swept delivery has no rows left.                                      *)
LEMMA GoneRows ==
  ASSUME NEW np, np = [NoParent EXCEPT !.row = "swept"]
  PROVE  np \in Parents /\ Consistent(np, <<>>)
<1>1. np \in Parents /\ np.row = "swept" /\ ~Open(np) /\ ~Terminal(np)
  <2>1. np = [row |-> "swept", count |-> 0, delivered |-> FALSE, failed |-> FALSE]
    BY DEF NoParent
  <2>2. 0 \in 0..MaxTries
    BY MaxTriesAssumption
  <2>. QED BY ONLY <2>1, <2>2 DEF Parents, Open, Terminal
<1>2. <<>> \in Seq(Attempts) /\ Len(<<>>) = 0
  OBVIOUS
<1>3. Ids(<<>>) = {} /\ Pending(<<>>) = {}
  BY <1>2 DEF Ids, Pending
<1>4. Lined(<<>>)
  BY <1>2, <1>3 DEF Lined, Ordered, Gaps, Ends
<1>. QED BY <1>1, <1>4 DEF Consistent

(* The attempt that waits and the state of its notification go together: a   *)
(* parent is present, and open exactly if the attempt is the retry or        *)
(* restores it.                                                              *)
LEMMA PendingParent ==
  ASSUME NEW p \in Parents, NEW rows, Consistent(p, rows), NEW i \in Pending(rows)
  PROVE  /\ p.row = "present" /\ i \in 1..Len(rows) /\ i = Len(rows) /\ rows[i] \in Attempts
         /\ (rows[i].origin = "automatic" \/ rows[i].resume) => Open(p) /\ p.count < MaxTries
         /\ rows[i].origin = "manual" /\ ~rows[i].resume => Terminal(p)
<1>1. rows \in Seq(Attempts) /\ Lined(rows)
  BY DEF Consistent, Lined, Ordered
<1>2. i \in 1..Len(rows) /\ i = Len(rows) /\ rows[i] \in Attempts
  BY <1>1, RowsTyped DEF Lined, Pending
<1>3. rows # <<>>
  BY <1>2
<1>4. p.row = "present"
  BY <1>3 DEF Consistent
<1>5. Open(p) \/ Terminal(p)
  BY <1>4 DEF Open, Terminal
<1>6. \A j \in Pending(rows) : j = i
  BY <1>1, <1>2 DEF Lined
<1>7. ASSUME rows[i].origin = "automatic" \/ rows[i].resume
      PROVE  Open(p) /\ p.count < MaxTries
  <2>1. ~Quiet(rows)
    BY <1>2, <1>7 DEF Quiet, Attempts
  <2>. QED BY <1>5, <2>1 DEF Consistent
<1>8. ASSUME rows[i].origin = "manual", ~rows[i].resume
      PROVE  Terminal(p)
  <2>1. ~Scheduled(rows)
    BY <1>2, <1>6, <1>8 DEF Scheduled
  <2>. QED BY <1>5, <2>1 DEF Consistent
<1>. QED BY <1>2, <1>4, <1>7, <1>8

\* A lease taken, or run out.
LeaseSet(rows, i, held) == [rows EXCEPT ![i].leased = held]

(* A row that only changes its lease leaves everything else as it is (the    *)
(* claim and the lapse of a lease).                                          *)
LEMMA LeaseRows ==
  ASSUME NEW p \in Parents, NEW rows, Consistent(p, rows), NEW i \in Pending(rows),
         NEW held \in BOOLEAN, NEW new, new = LeaseSet(rows, i, held)
  PROVE  /\ Consistent(p, new) /\ Pending(new) = Pending(rows) /\ Len(new) = Len(rows)
         /\ \A j \in 1..Len(rows) : new[j].origin = rows[j].origin
<1>0. Lined(rows) /\ p.row = "present"
  BY PendingParent DEF Consistent
<1>1. rows \in Seq(Attempts)
  BY <1>0 DEF Lined, Ordered
<1>2. /\ Len(rows) \in Nat /\ DOMAIN rows = 1..Len(rows) /\ i \in 1..Len(rows)
      /\ \A j \in 1..Len(rows) : rows[j] \in Attempts
  BY <1>1, RowsTyped DEF Pending
<1>3. [rows[i] EXCEPT !.leased = held] \in Attempts
  BY <1>2 DEF Attempts
<1>4. new = [rows EXCEPT ![i] = [rows[i] EXCEPT !.leased = held]]
  BY <1>2 DEF LeaseSet
<1>5. /\ new \in Seq(Attempts) /\ Len(new) = Len(rows)
      /\ \A j \in 1..Len(rows) :
           new[j] = IF j = i THEN [rows[i] EXCEPT !.leased = held] ELSE rows[j]
  BY <1>1, <1>2, <1>3, <1>4, ExceptSeq
<1>6. \A j \in 1..Len(rows) : /\ new[j].number = rows[j].number
                              /\ new[j].status = rows[j].status
                              /\ new[j].origin = rows[j].origin
                              /\ new[j].resume = rows[j].resume
  BY <1>2, <1>5 DEF Attempts
<1>7. Pending(new) = Pending(rows) /\ Ids(new) = Ids(rows)
  BY <1>5, <1>6 DEF Pending, Ids
<1>8. Spent(new) = Spent(rows)
  BY <1>6, <1>7 DEF Spent, Ids
<1>9. Ordered(new)
  BY <1>0, <1>5, <1>6, <1>7 DEF Lined, Ordered, Ids
<1>10. Gaps(new)
  BY <1>0, <1>2, <1>5, <1>6 DEF Lined, Gaps
<1>11. Ends(new)
  BY <1>0, <1>2, <1>5, <1>6, EmptySeq DEF Lined, Ends
<1>12. Lined(new)
  BY <1>0, <1>5, <1>7, <1>9, <1>10, <1>11 DEF Lined
<1>13. Scheduled(rows) => Scheduled(new)
  BY <1>2, <1>6, <1>7 DEF Scheduled, Pending
<1>14. Quiet(rows) => Quiet(new)
  BY <1>2, <1>6, <1>7 DEF Quiet, Pending
<1>. QED BY <1>0, <1>5, <1>6, <1>7, <1>8, <1>12, <1>13, <1>14 DEF Consistent



(* The legacy trigger finds no reservation to settle: the attempt is settled *)
(* before the parent is updated, and the next one reserved after.            *)
LEMMA BridgeIdle ==
  ASSUME NEW rows, Pending(rows) = {}, NEW p, NEW q
  PROVE  LegacyBridge(rows, p, q) = rows
BY DEF LegacyBridge

(* An automatic attempt is booked: delivered or exhausted it ends the        *)
(* notification and leaves nothing to send, otherwise the next is reserved.  *)
LEMMA AutomaticConsistent ==
  ASSUME NEW p \in Parents, NEW rows, Consistent(p, rows), NEW i \in Pending(rows),
         rows[i].origin = "automatic", NEW delivered \in BOOLEAN, NEW exhausted \in BOOLEAN,
         ~delivered /\ ~exhausted => p.count + 1 < MaxTries,
         NEW np, np = AfterAutomatic(p, delivered, exhausted),
         NEW new, new = AutomaticRows(rows, p, i, delivered, exhausted)
  PROVE  /\ np \in Parents /\ Consistent(np, new) /\ np.row = "present"
         /\ Len(new) >= Len(rows) /\ Pending(new) \subseteq {Len(rows) + 1}
<1>1. /\ p.row = "present" /\ i \in 1..Len(rows) /\ Open(p) /\ p.count < MaxTries
      /\ Lined(rows) /\ rows \in Seq(Attempts) /\ p.count = Cardinality(Spent(rows))
  BY PendingParent DEF Consistent, Lined, Ordered
<1>2. p.count \in Nat /\ p.count + 1 \in 0..MaxTries
  BY <1>1, MaxTriesAssumption DEF Parents
<1>3. np = [p EXCEPT !.count = p.count + 1, !.delivered = delivered, !.failed = exhausted]
  BY DEF AfterAutomatic
<1>4. /\ np \in Parents /\ np.row = "present" /\ np.count = p.count + 1
      /\ np.delivered = delivered /\ np.failed = exhausted
  BY <1>1, <1>2, <1>3 DEF Parents
<1>5. PICK done : done = SettledAttempt(rows, i, delivered)
  OBVIOUS
<1>6. /\ Lined(done) /\ Pending(done) = {} /\ Len(done) = Len(rows) /\ Ids(done) = Ids(rows)
      /\ \A j \in 1..Len(rows) : done[j].number = rows[j].number
      /\ Spent(done) = Spent(rows) \cup {i} /\ i \notin Spent(rows)
  BY <1>1, <1>5, SettledRows
<1>7. LegacyBridge(done, p, np) = done
  BY ONLY <1>6, BridgeIdle
<1>8. new = IF delivered \/ exhausted THEN done
            ELSE Append(done, Automatic(rows[i].number + 1))
  BY <1>5, <1>7 DEF AutomaticRows
<1>9. Cardinality(Spent(done)) = np.count
  <2>1. IsFiniteSet(Spent(rows)) /\ Cardinality(Spent(rows)) \in Nat
    BY <1>1, RowsTyped
  <2>. QED BY <1>1, <1>4, <1>6, <2>1, FS_AddElement
<1>10. Len(rows) \in Nat /\ done \in Seq(Attempts)
  BY <1>1, <1>6, LenProperties DEF Lined, Ordered
<1>11. CASE delivered \/ exhausted
  <2>1. new = done
    BY <1>8, <1>11
  <2>2. Terminal(np) /\ ~Open(np)
    BY <1>4, <1>11 DEF Terminal, Open
  <2>3. Quiet(new)
    BY <1>6, <2>1 DEF Quiet
  <2>4. Consistent(np, new)
    BY <1>4, <1>6, <1>9, <2>1, <2>2, <2>3 DEF Consistent
  <2>. QED BY <1>4, <1>6, <1>10, <2>1, <2>4
<1>12. CASE ~delivered /\ ~exhausted
  <2>1. new = Append(done, Automatic(rows[i].number + 1))
    BY <1>8, <1>12
  <2>2. Lined(new) /\ Scheduled(new) /\ Spent(new) = Spent(done) /\ Pending(new) = {Len(rows) + 1}
    <3>1. /\ Lined(done) /\ Pending(done) = {} /\ Len(done) = Len(rows) /\ Ids(done) = Ids(rows)
          /\ \A j \in 1..Len(rows) : done[j].number = rows[j].number
      BY <1>6
    <3>2. Lined(rows) /\ i \in Pending(rows)
      BY <1>1
    <3>. QED BY <2>1, <3>1, <3>2, RetriedRows, ZenonT(30)
  <2>3. Open(np) /\ ~Terminal(np) /\ np.count < MaxTries
    <3>1. p.count + 1 < MaxTries
      BY <1>12
    <3>2. np.count < MaxTries
      BY ONLY <1>4, <3>1
    <3>. QED BY <1>4, <1>12, <3>2 DEF Open, Terminal
  <2>4. Consistent(np, new)
    BY <1>4, <1>9, <2>2, <2>3 DEF Consistent
  <2>5. Len(new) = Len(rows) + 1
    BY <1>6, <1>10, <2>1, AppendProperties
  <2>. QED BY <1>4, <1>10, <2>2, <2>4, <2>5
<1>. QED BY <1>11, <1>12

(* A resend is booked: it spends nothing of the budget, and it opens the     *)
(* notification only by restoring the retry it parked.                       *)
LEMMA ManualConsistent ==
  ASSUME NEW p \in Parents, NEW rows, Consistent(p, rows), NEW i \in Pending(rows),
         rows[i].origin # "automatic", NEW delivered \in BOOLEAN,
         NEW np, np = AfterManual(p, delivered, rows[i].resume),
         NEW new, new = ManualRows(rows, i, delivered)
  PROVE  /\ np \in Parents /\ Consistent(np, new) /\ np.row = "present"
         /\ Len(new) >= Len(rows) /\ Pending(new) \subseteq {Len(rows) + 1}
<1>1. /\ p.row = "present" /\ i \in 1..Len(rows) /\ rows[i] \in Attempts
      /\ Lined(rows) /\ rows \in Seq(Attempts) /\ p.count = Cardinality(Spent(rows))
  BY PendingParent DEF Consistent, Lined, Ordered
<1>2. rows[i].origin = "manual" /\ rows[i].resume \in BOOLEAN
  BY <1>1 DEF Attempts
<1>3. PICK done : done = SettledAttempt(rows, i, delivered)
  OBVIOUS
<1>4. /\ Lined(done) /\ Pending(done) = {} /\ Len(done) = Len(rows) /\ Ids(done) = Ids(rows)
      /\ \A j \in 1..Len(rows) : done[j].number = rows[j].number
      /\ Spent(done) = Spent(rows)
  BY <1>1, <1>2, <1>3, SettledRows
<1>5. Len(rows) \in Nat /\ done \in Seq(Attempts)
  BY <1>1, <1>4, LenProperties DEF Lined, Ordered
<1>6. Quiet(done)
  BY <1>4 DEF Quiet
<1>7. CASE delivered
  <2>1. new = done
    BY <1>3, <1>7 DEF ManualRows
  <2>2. np = [p EXCEPT !.delivered = TRUE, !.failed = FALSE]
    BY <1>7 DEF AfterManual
  <2>3. np \in Parents /\ np.row = "present" /\ np.count = p.count /\ np.delivered
    BY <1>1, <2>2 DEF Parents
  <2>4. Terminal(np) /\ ~Open(np)
    BY <2>3 DEF Terminal, Open
  <2>5. Consistent(np, new)
    BY <1>1, <1>4, <1>6, <2>1, <2>3, <2>4 DEF Consistent
  <2>. QED BY <1>4, <1>5, <2>1, <2>3, <2>5
<1>8. CASE ~delivered /\ rows[i].resume
  <2>1. new = Append(done, Automatic(rows[i].number + 1))
    BY <1>3, <1>8 DEF ManualRows
  <2>2. np = [p EXCEPT !.delivered = FALSE, !.failed = FALSE]
    BY <1>8 DEF AfterManual
  <2>3. np \in Parents /\ np.row = "present" /\ np.count = p.count /\ ~np.delivered /\ ~np.failed
    BY <1>1, <2>2 DEF Parents
  <2>4. Open(np) /\ ~Terminal(np)
    BY <2>3 DEF Terminal, Open
  <2>5. Lined(new) /\ Scheduled(new) /\ Spent(new) = Spent(done) /\ Pending(new) = {Len(rows) + 1}
    BY <1>1, <1>4, <2>1, RetriedRows
  <2>6. np.count < MaxTries
    BY <1>8, <2>3, PendingParent
  <2>7. Consistent(np, new)
    BY <1>1, <1>4, <2>3, <2>4, <2>5, <2>6 DEF Consistent
  <2>8. Len(new) = Len(rows) + 1
    BY <1>4, <1>5, <2>1, AppendProperties
  <2>. QED BY <1>5, <2>3, <2>5, <2>7, <2>8
<1>9. CASE ~delivered /\ ~rows[i].resume
  <2>1. new = done
    BY <1>3, <1>9 DEF ManualRows
  <2>2. np = p
    BY <1>9 DEF AfterManual
  <2>3. Terminal(p) /\ ~Open(p)
    <3>1. Terminal(p)
      BY <1>2, <1>9, PendingParent
    <3>. QED BY <3>1 DEF Terminal, Open
  <2>4. Consistent(np, new)
    BY <1>1, <1>4, <1>6, <2>1, <2>2, <2>3 DEF Consistent
  <2>. QED BY <1>1, <1>4, <1>5, <2>1, <2>2, <2>4
<1>. QED BY <1>7, <1>8, <1>9

(* A resend is queued: it takes the place of the retry nobody holds, and     *)
(* remembers that it did.                                                    *)
LEMMA ResendRows ==
  ASSUME NEW rows, Lined(rows), \E i \in Ids(rows) : rows[i].status # "pending",
         NEW left, left = Superseded(rows), Pending(left) = {},
         NEW a \in Attempts, a.status = "pending", a.origin = "manual",
         a.number = NextNumber(left)
  PROVE  /\ Lined(Append(left, a)) /\ Pending(Append(left, a)) = {Len(rows) + 1}
         /\ Append(left, a)[Len(rows) + 1] = a /\ Len(Append(left, a)) = Len(rows) + 1
         /\ Spent(Append(left, a)) = Spent(rows)
<1>1. PICK i \in Ids(rows) : rows[i].status # "pending"
  OBVIOUS
<1>2. i \notin Pending(rows) /\ i \in 1..Len(rows)
  BY <1>1 DEF Pending, Ids
<1>3. PICK new : new = Append(left, a)
  OBVIOUS
<1>4. /\ Ordered(left) /\ Gaps(left) /\ Len(left) = Len(rows)
      /\ Pending(left) = Pending(rows) \ Parked(rows) /\ Spent(left) = Spent(rows)
  BY SupersededRows
<1>5. /\ NextNumber(left) \in 1..(Len(left) + 1)
      /\ \A j \in Ids(left) : left[j].number < NextNumber(left)
  BY <1>2, NextNumberTyped
<1>6. left \in Seq(Attempts) /\ Len(left) \in Nat
  BY <1>4, LenProperties DEF Ordered
<1>7. a.number <= Len(left) + 1 /\ \A j \in Ids(left) : left[j].number < a.number
  BY <1>5, <1>6
<1>8. /\ Lined(new) /\ Pending(new) = {Len(left) + 1} /\ new[Len(left) + 1] = a
      /\ Spent(new) = Spent(left)
  <2>1. Pending(left) = {} /\ Ordered(left) /\ Gaps(left) /\ a.status = "pending"
    BY <1>4
  <2>2. a.origin = "manual" \/ Ends(left)
    OBVIOUS
  <2>3. a \in Attempts /\ new = Append(left, a)
    BY <1>3
  <2>. QED BY ONLY <1>7, <2>1, <2>2, <2>3, ReservedRows
<1>9. Len(new) = Len(rows) + 1
  BY <1>3, <1>4, <1>6, AppendProperties
<1>. QED BY <1>3, <1>4, <1>8, <1>9

-----------------------------------------------------------------------------
(* Claims. *)

(* What a claim read survives a step that settles the attempt that waited,   *)
(* or reserves one behind it.                                                *)
LEMMA CurrentKept ==
  ASSUME NEW claim \in Claims, NEW p, NEW rows \in Seq(Attempts), Current(claim, p, rows),
         p.row = "present", NEW np, np.row = "present", NEW new \in Seq(Attempts),
         Len(new) >= Len(rows), Pending(new) \subseteq {Len(rows) + 1}
  PROVE  Current(claim, np, new)
<1>1. claim.id <= Len(rows) /\ claim.id \in Nat
  BY DEF Current, Claims
<1>2. Len(rows) \in Nat /\ Len(new) \in Nat
  BY LenProperties
<1>3. claim.id <= Len(new) /\ claim.id \notin Pending(new)
  BY <1>1, <1>2
<1>. QED BY <1>3 DEF Current

(* The invariant is kept by a step that moves one notification consistently  *)
(* and leaves every claim on it current.                                     *)
LEMMA OneMoves ==
  ASSUME IInv, NEW n \in Notifications, NEW np \in Parents, NEW nr, Consistent(np, nr),
         parent' = [parent EXCEPT ![n] = np], attempts' = [attempts EXCEPT ![n] = nr],
         endpoint' \in {"enabled", "disabled", "deleted"},
         senders' \in [Senders -> Claims \cup {Idle}], doomed' \subseteq Notifications,
         \A s \in Senders : senders'[s] # Idle => 
           IF senders'[s].n = n THEN Current(senders'[s], np, nr) ELSE senders'[s] = senders[s]
  PROVE  IInv'
<1>1. /\ parent \in [Notifications -> Parents]
      /\ attempts \in [Notifications -> Seq(Attempts)]
  BY DEF IInv, TypeOK
<1>2. nr \in Seq(Attempts)
  BY DEF Consistent, Lined, Ordered
<1>3. \A m \in Notifications : /\ parent'[m] = IF m = n THEN np ELSE parent[m]
                               /\ attempts'[m] = IF m = n THEN nr ELSE attempts[m]
  BY <1>1
<1>4. TypeOK'
  BY <1>1, <1>2 DEF TypeOK
<1>5. \A m \in Notifications : Consistent(parent'[m], attempts'[m])
  BY <1>3 DEF IInv
<1>6. ASSUME NEW s \in Senders, senders'[s] # Idle
      PROVE  Current(senders'[s], parent'[senders'[s].n], attempts'[senders'[s].n])
  <2>1. senders'[s].n \in Notifications
    BY <1>6 DEF Claims
  <2>2. CASE senders'[s].n = n
    BY <1>3, <1>6, <2>2
  <2>3. CASE senders'[s].n # n
    BY <1>3, <1>6, <2>1, <2>3 DEF IInv
  <2>. QED BY <2>2, <2>3
<1>. QED BY <1>4, <1>5, <1>6 DEF IInv

(* What a claim is on: a row of its own, or one swept meanwhile. *)
LEMMA ClaimTyped ==
  ASSUME IInv, NEW s \in Senders, senders[s] # Idle
  PROVE  /\ senders[s] \in Claims /\ senders[s].n \in Notifications
         /\ Current(senders[s], parent[senders[s].n], attempts[senders[s].n])
BY DEF IInv, TypeOK, Claims

-----------------------------------------------------------------------------
(* The steps. *)

(* The feed queues a notification nobody has a claim on. *)
LEMMA EnqueueInv == ASSUME IInv, NEW n \in Notifications, Enqueue(n) PROVE IInv'
<1>1. PICK np : np = [parent[n] EXCEPT !.row = "present"]
  OBVIOUS
<1>2. PICK nr : nr = <<Automatic(1)>>
  OBVIOUS
<1>3. /\ parent \in [Notifications -> Parents] /\ parent[n] \in Parents
      /\ Consistent(parent[n], attempts[n]) /\ parent[n].row = "absent"
  BY DEF IInv, TypeOK, Enqueue
<1>4. Consistent(parent[n], <<>>)
  BY <1>3 DEF Consistent
<1>5. np \in Parents /\ Consistent(np, nr)
  BY <1>1, <1>2, <1>3, <1>4, NewRows
<1>6. parent' = [parent EXCEPT ![n] = np] /\ attempts' = [attempts EXCEPT ![n] = nr]
  BY <1>1, <1>2, <1>3 DEF Enqueue
<1>7. \A s \in Senders : senders[s] # Idle => senders[s].n # n
  BY <1>3, ClaimTyped DEF Current
<1>8. UNCHANGED <<endpoint, senders, doomed>> /\ TypeOK
  BY DEF Enqueue, IInv
<1>9. /\ endpoint' \in {"enabled", "disabled", "deleted"} /\ doomed' \subseteq Notifications
      /\ senders' \in [Senders -> Claims \cup {Idle}]
      /\ \A s \in Senders : senders'[s] # Idle =>
           IF senders'[s].n = n THEN Current(senders'[s], np, nr) ELSE senders'[s] = senders[s]
  BY <1>7, <1>8 DEF TypeOK
<1>. QED BY <1>5, <1>6, <1>9, OneMoves

(* A row whose lease is taken or lapses changes nothing a claim has read. *)
LEMMA LeaseMoves ==
  ASSUME IInv, NEW n \in Notifications, NEW i \in Pending(attempts[n]), NEW held \in BOOLEAN,
         attempts' = [attempts EXCEPT ![n][i].leased = held], UNCHANGED <<endpoint, parent, doomed>>,
         senders' \in [Senders -> Claims \cup {Idle}],
         \A s \in Senders : senders'[s] # senders[s] =>
           /\ senders'[s].n = n /\ senders'[s].id = i /\ senders'[s].count = parent[n].count
           /\ senders'[s].origin = attempts[n][i].origin
  PROVE  IInv'
<1>1. /\ parent \in [Notifications -> Parents] /\ attempts \in [Notifications -> Seq(Attempts)]
      /\ \A m \in Notifications : Consistent(parent[m], attempts[m])
  BY DEF IInv, TypeOK
<1>2. PICK p, rows : p = parent[n] /\ rows = attempts[n]
  OBVIOUS
<1>3. p \in Parents /\ Consistent(p, rows) /\ i \in Pending(rows)
  BY <1>1, <1>2
<1>4. PICK nr : nr = LeaseSet(rows, i, held)
  OBVIOUS
<1>5. /\ Consistent(p, nr) /\ Pending(nr) = Pending(rows) /\ Len(nr) = Len(rows)
      /\ \A j \in 1..Len(rows) : nr[j].origin = rows[j].origin
  BY <1>3, <1>4, LeaseRows
<1>6. /\ i \in 1..Len(rows) /\ i = Len(rows) /\ p.row = "present"
      /\ Pending(rows) \subseteq 1..Len(rows)
  BY <1>3, PendingParent DEF Pending
<1>7. attempts' = [attempts EXCEPT ![n] = nr]
  BY <1>1, <1>2, <1>4 DEF LeaseSet
<1>8. parent' = [parent EXCEPT ![n] = p]
  BY <1>1, <1>2
<1>9. ASSUME NEW s \in Senders, senders'[s] # Idle, senders'[s].n = n
      PROVE  Current(senders'[s], p, nr)
  <2>1. CASE senders'[s] = senders[s]
    <3>1. Current(senders[s], p, rows)
      BY <1>2, <1>9, <2>1, ClaimTyped
    <3>. QED BY <1>5, <1>6, <2>1, <3>1 DEF Current
  <2>2. CASE senders'[s] # senders[s]
    <3>1. /\ senders'[s].id = i /\ senders'[s].count = p.count
          /\ senders'[s].origin = rows[i].origin
      BY <1>2, <2>2
    <3>2. nr[i].origin = rows[i].origin /\ i <= Len(nr)
      BY <1>5, <1>6
    <3>. QED BY <1>6, <3>1, <3>2 DEF Current
  <2>. QED BY <2>1, <2>2
<1>10. \A s \in Senders : senders'[s] # Idle =>
         IF senders'[s].n = n THEN Current(senders'[s], p, nr) ELSE senders'[s] = senders[s]
  BY <1>9
<1>11. endpoint' \in {"enabled", "disabled", "deleted"} /\ doomed' \subseteq Notifications
  BY DEF IInv, TypeOK
<1>12. senders' \in [Senders -> Claims \cup {Idle}]
  OBVIOUS
<1>13. p \in Parents /\ Consistent(p, nr)
  BY <1>3, <1>5
<1>. QED BY ONLY IInv, <1>7, <1>8, <1>10, <1>11, <1>12, <1>13, OneMoves

(* A lease runs out under its sender, or after its death. *)
LEMMA LeaseLapsesInv ==
  ASSUME IInv, NEW n \in Notifications, NEW i \in 1..Len(attempts[n]), LeaseLapses(n, i)
  PROVE  IInv'
<1>1. /\ i \in Pending(attempts[n]) /\ UNCHANGED <<endpoint, parent, senders, doomed>>
      /\ senders \in [Senders -> Claims \cup {Idle}]
  BY DEF LeaseLapses, IInv, TypeOK
<1>2. PICK held \in BOOLEAN : attempts' = [attempts EXCEPT ![n][i].leased = held]
  BY DEF LeaseLapses
<1>. QED BY <1>1, <1>2, LeaseMoves

(* A sender claims an attempt and reads it. *)
LEMMA ClaimInv ==
  ASSUME IInv, NEW s \in Senders, NEW n \in Notifications, NEW i \in 1..Len(attempts[n]),
         Claim(s, n, i)
  PROVE  IInv'
<1>1. /\ i \in Pending(attempts[n]) /\ UNCHANGED <<endpoint, parent, doomed>>
      /\ senders \in [Senders -> Claims \cup {Idle}]
  BY DEF Claim, IInv, TypeOK
<1>2. PICK held \in BOOLEAN : attempts' = [attempts EXCEPT ![n][i].leased = held]
  BY DEF Claim
<1>3. PICK claim : claim = [n |-> n, id |-> i, origin |-> attempts[n][i].origin,
                            resume |-> attempts[n][i].resume, count |-> parent[n].count]
  OBVIOUS
<1>4. senders' = [senders EXCEPT ![s] = claim]
  BY <1>3 DEF Claim
<1>5. claim \in Claims
  <2>1. /\ parent[n] \in Parents /\ Consistent(parent[n], attempts[n])
    BY DEF IInv, TypeOK
  <2>2. attempts[n][i] \in Attempts /\ attempts[n] \in Seq(Attempts)
    BY <1>1, <2>1, PendingParent DEF Consistent, Lined, Ordered
  <2>3. i \in Nat \ {0}
    BY <2>2, LenProperties
  <2>. QED BY <1>3, <2>1, <2>2, <2>3 DEF Claims, Attempts, Parents
<1>6. /\ senders' \in [Senders -> Claims \cup {Idle}]
      /\ \A t \in Senders : senders'[t] = IF t = s THEN claim ELSE senders[t]
  BY <1>1, <1>4, <1>5
<1>7. /\ claim.n = n /\ claim.id = i /\ claim.count = parent[n].count
      /\ claim.origin = attempts[n][i].origin
  BY <1>3
<1>8. \A t \in Senders : senders'[t] # senders[t] =>
        /\ senders'[t].n = n /\ senders'[t].id = i /\ senders'[t].count = parent[n].count
        /\ senders'[t].origin = attempts[n][i].origin
  BY <1>6, <1>7
<1>. QED BY <1>1, <1>2, <1>6, <1>8, LeaseMoves

(* The sender dies, or its report says nothing. *)
LEMMA ReleaseInv ==
  ASSUME IInv, NEW s \in Senders, senders' = [senders EXCEPT ![s] = Idle],
         UNCHANGED <<endpoint, parent, attempts, doomed>>
  PROVE  IInv'
<1>1. /\ senders \in [Senders -> Claims \cup {Idle}] /\ TypeOK
  BY DEF IInv, TypeOK
<1>2. /\ senders' \in [Senders -> Claims \cup {Idle}]
      /\ \A t \in Senders : senders'[t] = IF t = s THEN Idle ELSE senders[t]
  BY <1>1
<1>3. TypeOK'
  BY <1>1, <1>2 DEF TypeOK
<1>. QED BY <1>2, <1>3 DEF IInv

\* Notification n becomes np, with the attempts nr.
Booked(n, np, nr) ==
  /\ Consistent(np, nr) /\ np.row = "present"
  /\ Len(nr) >= Len(attempts[n]) /\ Pending(nr) \subseteq {Len(attempts[n]) + 1}
  /\ parent' = [parent EXCEPT ![n] = np] /\ attempts' = [attempts EXCEPT ![n] = nr]
  /\ endpoint' \in {"disabled", endpoint}

(* A report that settles an attempt moves its notification consistently: what *)
(* the claim read of the budget before the post is what the budget still is,  *)
(* for the attempt is still pending.                                          *)
LEMMA BooksMoves ==
  ASSUME IInv, NEW s \in Senders, senders[s] # Idle, NEW delivered \in BOOLEAN,
         NEW n, n = senders[s].n, senders[s].id \in Pending(attempts[n]),
         Books(senders[s], delivered)
  PROVE  \E np \in Parents, nr \in Seq(Attempts) : Booked(n, np, nr)
<1>1. /\ senders[s] \in Claims /\ n \in Notifications /\ Current(senders[s], parent[n], attempts[n])
  BY ClaimTyped
<1>2. PICK claim, i : claim = senders[s] /\ i = claim.id
  OBVIOUS
<1>3. PICK p, rows : p = parent[n] /\ rows = attempts[n]
  OBVIOUS
<1>4. /\ parent \in [Notifications -> Parents] /\ attempts \in [Notifications -> Seq(Attempts)]
      /\ p \in Parents /\ Consistent(p, rows) /\ i \in Pending(rows) /\ rows \in Seq(Attempts)
  BY <1>1, <1>2, <1>3 DEF IInv, TypeOK
<1>5. claim.count = p.count /\ claim.origin = rows[i].origin
  BY <1>1, <1>2, <1>3, <1>4 DEF Current
<1>6. CASE rows[i].origin = "automatic"
  <2>1. PICK exhausted \in BOOLEAN : exhausted = Exhausts(claim, delivered)
    BY DEF Exhausts
  <2>2. PICK np : np = AfterAutomatic(p, delivered, exhausted)
    OBVIOUS
  <2>3. PICK nr : nr = AutomaticRows(rows, p, i, delivered, exhausted)
    OBVIOUS
  <2>4. ~delivered /\ ~exhausted => p.count + 1 < MaxTries
    <3>1. p.count \in Nat
      BY <1>4 DEF Parents
    <3>2. ~(p.count + 1 >= MaxTries) => p.count + 1 < MaxTries
      BY <3>1, MaxTriesAssumption
    <3>. QED BY <1>5, <1>6, <2>1, <3>2 DEF Exhausts
  <2>5. /\ np \in Parents /\ Consistent(np, nr) /\ np.row = "present"
        /\ Len(nr) >= Len(rows) /\ Pending(nr) \subseteq {Len(rows) + 1}
    BY <1>4, <1>6, <2>2, <2>3, <2>4, AutomaticConsistent
  <2>6. nr \in Seq(Attempts)
    BY <2>5 DEF Consistent, Lined, Ordered
  <2>7. /\ parent' = [parent EXCEPT ![n] = np] /\ attempts' = [attempts EXCEPT ![n] = nr]
        /\ endpoint' \in {"disabled", endpoint}
    BY <1>1, <1>2, <1>3, <1>4, <1>6, <2>1, <2>2, <2>3 DEF Books
  <2>. QED BY <1>3, <2>5, <2>6, <2>7 DEF Booked
<1>7. CASE rows[i].origin # "automatic"
  <2>1. PICK np : np = AfterManual(p, delivered, rows[i].resume)
    OBVIOUS
  <2>2. PICK nr : nr = ManualRows(rows, i, delivered)
    OBVIOUS
  <2>3. /\ np \in Parents /\ Consistent(np, nr) /\ np.row = "present"
        /\ Len(nr) >= Len(rows) /\ Pending(nr) \subseteq {Len(rows) + 1}
    BY <1>4, <1>7, <2>1, <2>2, ManualConsistent
  <2>4. nr \in Seq(Attempts)
    BY <2>3 DEF Consistent, Lined, Ordered
  <2>5. /\ parent' = [parent EXCEPT ![n] = np] /\ attempts' = [attempts EXCEPT ![n] = nr]
        /\ endpoint' \in {"disabled", endpoint}
    BY <1>1, <1>2, <1>3, <1>4, <1>7, <2>1, <2>2 DEF Books
  <2>. QED BY <1>3, <2>3, <2>4, <2>5 DEF Booked
<1>. QED BY <1>6, <1>7

(* A sender reports. *)
LEMMA CompleteInv ==
  ASSUME IInv, NEW s \in Senders, NEW delivered \in BOOLEAN, Complete(s, delivered)
  PROVE  IInv'
<1>1. senders[s] # Idle /\ senders' = [senders EXCEPT ![s] = Idle] /\ UNCHANGED doomed
  BY DEF Complete
<1>2. PICK n : n = senders[s].n
  OBVIOUS
<1>3. CASE senders[s].id \notin Pending(attempts[n])
  <2>1. UNCHANGED <<endpoint, parent, attempts>>
    BY <1>2, <1>3 DEF Complete
  <2>. QED BY <1>1, <2>1, ReleaseInv
<1>4. CASE senders[s].id \in Pending(attempts[n])
  <2>1. Books(senders[s], delivered)
    BY <1>2, <1>4 DEF Complete
  <2>2. PICK np \in Parents, nr \in Seq(Attempts) : Booked(n, np, nr)
    <3>1. IInv /\ senders[s] # Idle /\ s \in Senders /\ delivered \in BOOLEAN
      BY <1>1
    <3>. QED BY ONLY <1>2, <1>4, <2>1, <3>1, BooksMoves
  <2>3. /\ TypeOK /\ n \in Notifications /\ parent[n] \in Parents
        /\ attempts[n] \in Seq(Attempts) /\ Consistent(parent[n], attempts[n])
    BY <1>1, <1>2, ClaimTyped DEF IInv, TypeOK
  <2>4. parent[n].row = "present"
    BY <1>4, <2>3, PendingParent
  <2>5. /\ senders' \in [Senders -> Claims \cup {Idle}]
        /\ \A t \in Senders : senders'[t] = IF t = s THEN Idle ELSE senders[t]
    BY <1>1, <2>3 DEF TypeOK
  <2>6. ASSUME NEW t \in Senders, senders'[t] # Idle, senders'[t].n = n
        PROVE  Current(senders'[t], np, nr)
    <3>1. senders'[t] = senders[t]
      BY <2>5, <2>6
    <3>2. senders[t] \in Claims /\ Current(senders[t], parent[n], attempts[n])
      BY <2>6, <3>1, ClaimTyped
    <3>. QED BY <2>2, <2>3, <2>4, <3>1, <3>2, CurrentKept DEF Booked
  <2>7. \A t \in Senders : senders'[t] # Idle =>
          IF senders'[t].n = n THEN Current(senders'[t], np, nr) ELSE senders'[t] = senders[t]
    BY <2>5, <2>6
  <2>8. endpoint' \in {"enabled", "disabled", "deleted"} /\ doomed' \subseteq Notifications
    BY <1>1, <2>2, <2>3 DEF TypeOK, Booked
  <2>9. /\ Consistent(np, nr) /\ parent' = [parent EXCEPT ![n] = np]
        /\ attempts' = [attempts EXCEPT ![n] = nr] /\ n \in Notifications
        /\ senders' \in [Senders -> Claims \cup {Idle}]
    BY <2>2, <2>3, <2>5 DEF Booked
  <2>. QED BY ONLY IInv, <2>7, <2>8, <2>9, OneMoves
<1>. QED BY <1>3, <1>4

(* A user resends. *)
LEMMA QueueResendInv ==
  ASSUME IInv, NEW n \in Notifications, NEW key \in Keys, QueueResend(n, key)
  PROVE  IInv'
<1>1. PICK p, rows : p = parent[n] /\ rows = attempts[n]
  OBVIOUS
<1>2. PICK left : left = Superseded(rows)
  OBVIOUS
<1>3. /\ parent \in [Notifications -> Parents] /\ attempts \in [Notifications -> Seq(Attempts)]
      /\ p \in Parents /\ Consistent(p, rows) /\ rows \in Seq(Attempts)
  BY <1>1 DEF IInv, TypeOK
<1>4. PICK resume \in BOOLEAN : resume = (Parked(rows) # {})
  OBVIOUS
<1>5. PICK i \in Ids(rows) : rows[i].status # "pending"
  BY <1>1 DEF QueueResend
<1>6. PICK a : a = [number |-> NextNumber(left), status |-> "pending", origin |-> "manual",
                    leased |-> FALSE, resume |-> resume, key |-> key]
  OBVIOUS
<1>7. PICK nr : nr = Append(left, a)
  OBVIOUS
<1>8. Pending(left) = {} /\ attempts' = [attempts EXCEPT ![n] = nr]
  BY <1>1, <1>2, <1>4, <1>6, <1>7 DEF QueueResend, Reserved
<1>9. NextNumber(left) \in Nat
  <2>1. Lined(rows) /\ i \notin Pending(rows)
    BY <1>3, <1>5 DEF Consistent, Pending
  <2>. QED BY <1>2, <1>8, <2>1, NextNumberTyped
<1>10. /\ a \in Attempts /\ a.status = "pending" /\ a.origin = "manual"
       /\ a.number = NextNumber(left)
       /\ Parked(rows) # {} => a.resume
       /\ Parked(rows) = {} => ~a.resume
  BY <1>4, <1>6, <1>9 DEF Attempts
<1>11. /\ Consistent(p, nr) /\ p.row = "present"
       /\ Len(nr) = Len(rows) + 1 /\ Pending(nr) = {Len(rows) + 1}
  <2>1. Lined(rows) /\ p.row = "present"
    <3>1. i \in 1..Len(rows)
      BY DEF Ids
    <3>. QED BY <1>3, <3>1 DEF Consistent
  <2>2. /\ Lined(nr) /\ Pending(nr) = {Len(rows) + 1} /\ nr[Len(rows) + 1] = a
        /\ Len(nr) = Len(rows) + 1 /\ Spent(nr) = Spent(rows)
    <3>1. \E j \in Ids(rows) : rows[j].status # "pending"
      BY <1>5
    <3>2. /\ Lined(Append(left, a)) /\ Pending(Append(left, a)) = {Len(rows) + 1}
          /\ Append(left, a)[Len(rows) + 1] = a /\ Len(Append(left, a)) = Len(rows) + 1
          /\ Spent(Append(left, a)) = Spent(rows)
      BY <1>2, <1>8, <1>10, <2>1, <3>1, ResendRows
    <3>. QED BY <1>7, <3>2
  <2>3. Pending(rows) = {} \/ Parked(rows) # {}
    <3>1. Pending(left) = Pending(rows) \ Parked(rows)
      BY <1>2, <2>1, SupersededRows
    <3>. QED BY <1>8, <3>1
  <2>4. Open(p) => Scheduled(nr)
    <3>1. Scheduled(rows) => Parked(rows) # {}
      BY <2>3 DEF Scheduled
    <3>. QED BY <1>3, <1>10, <2>2, <3>1 DEF Consistent, Scheduled
  <2>5. Terminal(p) => Quiet(nr)
    <3>1. Quiet(rows) => Parked(rows) = {}
      BY DEF Quiet, Parked
    <3>. QED BY <1>3, <1>10, <2>2, <3>1 DEF Consistent, Quiet
  <2>. QED BY <1>3, <2>1, <2>2, <2>4, <2>5 DEF Consistent
<1>12. UNCHANGED <<endpoint, parent, senders, doomed>> /\ TypeOK
  BY DEF QueueResend, IInv
<1>13. parent' = [parent EXCEPT ![n] = p]
  BY <1>1, <1>3, <1>12
<1>14. nr \in Seq(Attempts) /\ Len(nr) >= Len(rows)
  <2>1. Len(rows) \in Nat
    BY <1>3, LenProperties
  <2>. QED BY <1>11, <2>1 DEF Consistent, Lined, Ordered
<1>15. ASSUME NEW t \in Senders, senders'[t] # Idle, senders'[t].n = n
       PROVE  Current(senders'[t], p, nr)
  <2>1. senders'[t] = senders[t]
    BY <1>12
  <2>2. senders[t] \in Claims /\ Current(senders[t], p, rows)
    BY <1>1, <1>15, <2>1, ClaimTyped
  <2>. QED BY <1>3, <1>11, <1>14, <2>1, <2>2, CurrentKept
<1>16. \A t \in Senders : senders'[t] # Idle =>
         IF senders'[t].n = n THEN Current(senders'[t], p, nr) ELSE senders'[t] = senders[t]
  BY <1>12, <1>15
<1>17. /\ endpoint' \in {"enabled", "disabled", "deleted"} /\ doomed' \subseteq Notifications
       /\ senders' \in [Senders -> Claims \cup {Idle}]
  BY <1>12 DEF TypeOK
<1>. QED BY <1>3, <1>8, <1>11, <1>13, <1>16, <1>17, OneMoves

(* Parents are deleted, with the attempts that hang off them. *)
LEMMA ForgottenInv ==
  ASSUME IInv, NEW gone \in SUBSET Notifications, Forgotten(gone), UNCHANGED senders,
         endpoint' \in {"enabled", "disabled", "deleted"}, doomed' \subseteq Notifications
  PROVE  IInv'
<1>1. PICK swept : swept = [NoParent EXCEPT !.row = "swept"]
  OBVIOUS
<1>2. swept \in Parents /\ Consistent(swept, <<>>) /\ swept.row = "swept"
  BY <1>1, GoneRows DEF NoParent
<1>3. <<>> \in Seq(Attempts) /\ Pending(<<>>) = {}
  BY DEF Pending
<1>4. \A n \in Notifications : /\ parent'[n] = IF n \in gone THEN swept ELSE parent[n]
                               /\ attempts'[n] = IF n \in gone THEN <<>> ELSE attempts[n]
  BY <1>1 DEF Forgotten
<1>5. TypeOK'
  <2>1. TypeOK
    BY DEF IInv
  <2>2. parent' = [n \in Notifications |-> IF n \in gone THEN swept ELSE parent[n]]
    BY <1>1 DEF Forgotten
  <2>3. attempts' = [n \in Notifications |-> IF n \in gone THEN <<>> ELSE attempts[n]]
    BY DEF Forgotten
  <2>4. parent' \in [Notifications -> Parents]
    BY <1>2, <2>1, <2>2 DEF TypeOK
  <2>5. attempts' \in [Notifications -> Seq(Attempts)]
    BY <1>3, <2>1, <2>3 DEF TypeOK
  <2>. QED BY <2>1, <2>4, <2>5 DEF TypeOK
<1>6. \A n \in Notifications : Consistent(parent'[n], attempts'[n])
  BY <1>2, <1>4 DEF IInv
<1>7. ASSUME NEW s \in Senders, senders'[s] # Idle
      PROVE  Current(senders'[s], parent'[senders'[s].n], attempts'[senders'[s].n])
  <2>1. PICK n : n = senders[s].n
    OBVIOUS
  <2>2. n \in Notifications /\ Current(senders[s], parent[n], attempts[n])
    BY <1>7, <2>1, ClaimTyped
  <2>3. Current(senders[s], parent'[n], attempts'[n])
    BY <1>2, <1>3, <1>4, <2>2 DEF Current
  <2>. QED BY <2>1, <2>3
<1>. QED BY <1>5, <1>6, <1>7 DEF IInv

(* A step that leaves rows and claims alone. *)
LEMMA RowsKeptInv ==
  ASSUME IInv, UNCHANGED <<parent, attempts, senders>>,
         endpoint' \in {"enabled", "disabled", "deleted"}, doomed' \subseteq Notifications
  PROVE  IInv'
BY DEF IInv, TypeOK

-----------------------------------------------------------------------------
(* Type correctness and safety. *)

(* The invariant holds at first. *)
LEMMA InitInv == Init => IInv
<1> SUFFICES ASSUME Init PROVE IInv
  OBVIOUS
<1>1. NoParent \in Parents /\ ~Open(NoParent) /\ ~Terminal(NoParent) /\ NoParent.row = "absent"
  <2>1. 0 \in 0..MaxTries
    BY MaxTriesAssumption
  <2>. QED BY ONLY <2>1 DEF NoParent, Parents, Open, Terminal
<1>2. NoParent = [NoParent EXCEPT !.row = NoParent.row]
  BY DEF NoParent
<1>3. <<>> \in Seq(Attempts) /\ Lined(<<>>)
  BY GoneRows DEF Consistent, Lined, Ordered
<1>4. Consistent(NoParent, <<>>)
  BY <1>1, <1>2, <1>3 DEF Consistent
<1>5. \A s \in Senders : senders[s] = Idle
  BY DEF Init
<1>6. TypeOK
  BY <1>1, <1>3 DEF Init, TypeOK
<1>. QED BY <1>4, <1>5, <1>6 DEF IInv, Init

(* Every step keeps it. *)
LEMMA NextInv == IInv /\ [Next]_vars => IInv'
<1> SUFFICES ASSUME IInv, [Next]_vars PROVE IInv'
  OBVIOUS
<1>1. endpoint \in {"enabled", "disabled", "deleted"} /\ doomed \subseteq Notifications
  BY DEF IInv, TypeOK
<1>2. ASSUME NEW n \in Notifications, Enqueue(n) PROVE IInv'
  BY <1>2, EnqueueInv
<1>3. ASSUME NEW n \in Notifications, SweepAbandons(n) PROVE IInv'
  <2>1. PICK gone \in SUBSET Notifications : gone = {n}
    OBVIOUS
  <2>. QED BY <1>1, <1>3, <2>1, ForgottenInv DEF SweepAbandons
<1>4. ASSUME NEW n \in Notifications, NEW key \in Keys, QueueResend(n, key) PROVE IInv'
  BY <1>4, QueueResendInv
<1>5. ASSUME NEW n \in Notifications, NEW i \in 1..Len(attempts[n]), LeaseLapses(n, i) PROVE IInv'
  BY <1>5, LeaseLapsesInv
<1>6. ASSUME NEW n \in Notifications, NEW s \in Senders, NEW i \in 1..Len(attempts[n]),
             Claim(s, n, i)
      PROVE  IInv'
  BY <1>6, ClaimInv
<1>7. ASSUME NEW s \in Senders, SenderDies(s) PROVE IInv'
  BY <1>7, ReleaseInv DEF SenderDies
<1>8. ASSUME NEW s \in Senders, NEW delivered \in BOOLEAN, Complete(s, delivered) PROVE IInv'
  BY <1>8, CompleteInv
<1>9. ASSUME SetEnabled \/ SetDisabled PROVE IInv'
  BY <1>1, <1>9, RowsKeptInv DEF SetEnabled, SetDisabled
<1>10. ASSUME DeleteEndpoint PROVE IInv'
  <2>1. PICK gone \in SUBSET Notifications : gone = {n \in Notifications : parent[n].row = "present"}
    OBVIOUS
  <2>. QED BY <1>1, <1>10, <2>1, ForgottenInv DEF DeleteEndpoint
<1>11. ASSUME NEW chosen \in SUBSET Notifications, SweepSelects(chosen) PROVE IInv'
  BY <1>1, <1>11, RowsKeptInv DEF SweepSelects
<1>12. ASSUME SweepDeletes PROVE IInv'
  <2>1. PICK gone \in SUBSET Notifications :
          gone = {n \in doomed : parent[n].row = "present" /\ Pending(attempts[n]) = {}}
    BY <1>1
  <2>. QED BY <1>1, <1>12, <2>1, ForgottenInv DEF SweepDeletes
<1>13. ASSUME UNCHANGED vars PROVE IInv'
  BY <1>1, <1>13, RowsKeptInv DEF vars
<1>. QED BY <1>2, <1>3, <1>4, <1>5, <1>6, <1>7, <1>8, <1>9, <1>10, <1>11, <1>12, <1>13 DEF Next

(* The rows of a notification, its parent and the claims on it agree in      *)
(* every reachable state, whatever notifications, senders and keys there are *)
(* and whatever the automatic budget is.                                     *)
THEOREM Invariance == Spec => []IInv
BY InitInv, NextInv, PTL DEF Spec

(* Every row keeps its type. *)
THEOREM TypeCorrect == Spec => []TypeOK
<1>1. IInv => TypeOK
  BY DEF IInv
<1>. QED BY <1>1, Invariance, PTL

(* A notification has one send slot: at most one attempt is pending. *)
THEOREM OneSendSlot == Spec => []OnePending
<1>1. IInv => OnePending
  <2> SUFFICES ASSUME IInv, NEW n \in Notifications,
                      NEW i \in Pending(attempts[n]), NEW j \in Pending(attempts[n])
               PROVE  i = j
    BY DEF OnePending
  <2>1. Lined(attempts[n])
    BY DEF IInv, Consistent
  <2>. QED BY <2>1 DEF Lined
<1>. QED BY <1>1, Invariance, PTL

(* An open notification has a retry, or a resend that will restore it. *)
THEOREM NeverStranded == Spec => []OpenIsScheduled
<1>1. IInv => OpenIsScheduled
  BY DEF IInv, Consistent, OpenIsScheduled, Scheduled
<1>. QED BY <1>1, Invariance, PTL

(* A notification that has ended has no automatic send left. *)
THEOREM EndStaysQuiet == Spec => []EndedIsQuiet
<1>1. IInv => EndedIsQuiet
  BY DEF IInv, Consistent, EndedIsQuiet, Quiet
<1>. QED BY <1>1, Invariance, PTL

(* The budget spent is the automatic attempts made. *)
THEOREM BudgetIsAttempts == Spec => []BudgetAccounts
<1>1. IInv => BudgetAccounts
  BY DEF IInv, Consistent, BudgetAccounts, Spent
<1>. QED BY <1>1, Invariance, PTL

-----------------------------------------------------------------------------
(* Retention spares what is still to be sent. *)

(* The sweep deletes no notification with a send to come, although it works  *)
(* from what it selected before; only an endpoint that is disabled, or       *)
(* deleted in the step, loses one.                                           *)
THEOREM SweepIsSafe == Spec => SweepSparesPending
<1> DEFINE Spares(n) == /\ Pending(attempts[n]) # {}
                        /\ parent'[n].row = "swept"
                        => endpoint = "disabled" \/ endpoint' = "deleted"
<1>1. ASSUME IInv, Next, NEW n \in Notifications PROVE Spares(n)
  <2> SUFFICES ASSUME Pending(attempts[n]) # {}, parent'[n].row = "swept"
               PROVE  endpoint = "disabled" \/ endpoint' = "deleted"
    OBVIOUS
  <2>1. parent \in [Notifications -> Parents] /\ parent[n].row = "present"
    <3>1. parent \in [Notifications -> Parents] /\ Consistent(parent[n], attempts[n])
      BY <1>1 DEF IInv, TypeOK
    <3>. QED BY <3>1, PendingParent
  <2>2. parent' # parent
    BY <2>1
  <2>3. ASSUME NEW m \in Notifications, Enqueue(m) PROVE FALSE
    BY <2>1, <2>3 DEF Enqueue, Parents
  <2>4. ASSUME NEW m \in Notifications, SweepAbandons(m) PROVE endpoint = "disabled"
    BY <2>4 DEF SweepAbandons
  <2>5. ASSUME NEW s \in Senders, NEW delivered \in BOOLEAN, Complete(s, delivered) PROVE FALSE
    <3>1. PICK m : m = senders[s].n
      OBVIOUS
    <3>2. senders[s] # Idle /\ senders[s].id \in Pending(attempts[m]) /\ Books(senders[s], delivered)
      BY <2>2, <2>5, <3>1 DEF Complete
    <3>3. PICK np \in Parents, nr \in Seq(Attempts) : Booked(m, np, nr)
      <4>1. IInv /\ s \in Senders /\ delivered \in BOOLEAN
        BY <1>1
      <4>. QED BY ONLY <3>1, <3>2, <4>1, BooksMoves
    <3>4. np.row = "present" /\ parent' = [parent EXCEPT ![m] = np]
      BY <3>3 DEF Booked
    <3>. QED BY <2>1, <3>4
  <2>6. ASSUME DeleteEndpoint PROVE endpoint' = "deleted"
    BY <2>6 DEF DeleteEndpoint
  <2>7. ASSUME SweepDeletes PROVE FALSE
    BY <2>1, <2>7 DEF SweepDeletes, Forgotten
  <2>8. ASSUME UNCHANGED parent PROVE FALSE
    BY <2>2, <2>8
  <2>. QED BY <1>1, <2>3, <2>4, <2>5, <2>6, <2>7, <2>8
         DEF Next, QueueResend, LeaseLapses, Claim, SenderDies, SetEnabled, SetDisabled, SweepSelects
<1>2. IInv /\ [Next]_vars => [\A n \in Notifications : Spares(n)]_vars
  BY <1>1
<1>. QED BY <1>2, Invariance, PTL DEF Spec, SweepSparesPending

-----------------------------------------------------------------------------
(* The outbox implements WebhookDelivery. *)

\* What a parent row says has become of its notification.
OutcomeOf(p) ==
  CASE p.row = "absent" -> "unqueued"
    [] p.row = "swept" -> "forgotten"
    [] Terminal(p) -> IF p.delivered THEN "delivered" ELSE "failed"
    [] OTHER -> "open"

outcomes == [n \in Notifications |-> Outcome(n)]

(* The outcome, case by case. *)
LEMMA OutcomeCases ==
  ASSUME NEW p \in Parents
  PROVE  /\ p.row = "absent" => OutcomeOf(p) = "unqueued"
         /\ p.row = "swept" => OutcomeOf(p) = "forgotten"
         /\ Open(p) => OutcomeOf(p) = "open"
         /\ p.row = "present" /\ p.delivered => OutcomeOf(p) = "delivered"
         /\ p.row = "present" /\ ~p.delivered /\ p.failed => OutcomeOf(p) = "failed"
         /\ OutcomeOf(p) \in Delivery!Outcomes
BY DEF OutcomeOf, Terminal, Open, Parents, Delivery!Outcomes

(* A step that moves one parent as its promise allows is a step of           *)
(* WebhookDelivery, or none.                                                 *)
LEMMA OneFollows ==
  ASSUME parent \in [Notifications -> Parents], NEW n \in Notifications, NEW np \in Parents,
         parent' = [parent EXCEPT ![n] = np],
         \/ OutcomeOf(np) = OutcomeOf(parent[n])
         \/ Delivery!Follows(OutcomeOf(parent[n]), OutcomeOf(np))
  PROVE  [Delivery!Next]_outcomes
<1>1. /\ outcomes = [m \in Notifications |-> OutcomeOf(parent[m])]
      /\ outcomes' = [m \in Notifications |-> OutcomeOf(parent'[m])]
  BY DEF outcomes, Outcome, OutcomeOf
<1>2. outcomes' = [outcomes EXCEPT ![n] = OutcomeOf(np)]
  BY <1>1
<1>3. OutcomeOf(np) \in Delivery!Outcomes
  BY OutcomeCases
<1>4. CASE OutcomeOf(np) = OutcomeOf(parent[n])
  BY <1>1, <1>2, <1>4
<1>5. CASE Delivery!Follows(OutcomeOf(parent[n]), OutcomeOf(np))
  <2>1. outcomes[n] = OutcomeOf(parent[n])
    BY <1>1
  <2>2. /\ Delivery!Follows(outcomes[n], OutcomeOf(np))
        /\ outcomes' = [outcomes EXCEPT ![n] = OutcomeOf(np)]
    BY <1>2, <1>5, <2>1
  <2>. QED BY <1>3, <2>2 DEF Delivery!Next, outcomes
<1>. QED BY <1>4, <1>5

(* A report ends an open notification, delivers a failed one, or leaves the  *)
(* outcome: the attempt it settles was pending, so no automatic report is of *)
(* a notification that has ended, and no resend opens one that has.          *)
LEMMA BooksFollow ==
  ASSUME IInv, NEW s \in Senders, senders[s] # Idle, NEW delivered \in BOOLEAN,
         NEW n, n = senders[s].n, senders[s].id \in Pending(attempts[n]),
         Books(senders[s], delivered)
  PROVE  \E np \in Parents :
           /\ parent' = [parent EXCEPT ![n] = np]
           /\ \/ OutcomeOf(np) = OutcomeOf(parent[n])
              \/ Delivery!Follows(OutcomeOf(parent[n]), OutcomeOf(np))
<1>1. /\ senders[s] \in Claims /\ n \in Notifications /\ Current(senders[s], parent[n], attempts[n])
  BY ClaimTyped
<1>2. PICK claim, i : claim = senders[s] /\ i = claim.id
  OBVIOUS
<1>3. PICK p, rows : p = parent[n] /\ rows = attempts[n]
  OBVIOUS
<1>4. /\ parent \in [Notifications -> Parents]
      /\ p \in Parents /\ Consistent(p, rows) /\ i \in Pending(rows)
  BY <1>1, <1>2, <1>3 DEF IInv, TypeOK
<1>5. PICK np \in Parents : parent' = [parent EXCEPT ![n] = np] /\ np.row = "present"
  <2>1. PICK np \in Parents, nr \in Seq(Attempts) : Booked(n, np, nr)
    BY BooksMoves
  <2>. QED BY <2>1 DEF Booked
<1>6. /\ p.row = "present" /\ rows[i] \in Attempts
      /\ rows[i].origin = "automatic" \/ rows[i].resume => Open(p)
  BY <1>4, PendingParent
<1>7. parent'[n] = np
  BY <1>1, <1>4, <1>5
<1>8. CASE rows[i].origin = "automatic"
  <2>1. OutcomeOf(p) = "open"
    BY <1>4, <1>6, <1>8, OutcomeCases
  <2>2. OutcomeOf(np) \in {"open", "delivered", "failed"}
    BY <1>5, OutcomeCases DEF Open, Parents
  <2>. QED BY <1>3, <1>5, <2>1, <2>2 DEF Delivery!Follows
<1>9. CASE rows[i].origin # "automatic"
  <2>1. np = AfterManual(p, delivered, rows[i].resume)
    BY <1>1, <1>2, <1>3, <1>4, <1>7, <1>9 DEF Books
  <2>2. CASE delivered
    <3>1. np = [p EXCEPT !.delivered = TRUE, !.failed = FALSE]
      BY <2>1, <2>2 DEF AfterManual
    <3>2. OutcomeOf(np) = "delivered"
      BY <1>4, <1>5, <3>1, OutcomeCases DEF Parents
    <3>3. OutcomeOf(p) \in {"open", "delivered", "failed"}
      BY <1>4, <1>6, OutcomeCases DEF Open, Parents
    <3>. QED BY <1>3, <1>5, <3>2, <3>3 DEF Delivery!Follows
  <2>3. CASE ~delivered /\ rows[i].resume
    <3>1. np = [p EXCEPT !.delivered = FALSE, !.failed = FALSE]
      BY <2>1, <2>3 DEF AfterManual
    <3>2. Open(np) /\ Open(p)
      BY <1>4, <1>5, <1>6, <2>3, <3>1 DEF Open, Parents
    <3>3. OutcomeOf(np) = OutcomeOf(p)
      BY <1>4, <3>2, OutcomeCases
    <3>. QED BY <1>3, <1>5, <3>3
  <2>4. CASE ~delivered /\ ~rows[i].resume
    <3>1. np = p
      BY <2>1, <2>4 DEF AfterManual
    <3>. QED BY <1>3, <1>5, <3>1
  <2>. QED BY <2>2, <2>3, <2>4
<1>. QED BY <1>8, <1>9

(* Deleting parents forgets their notifications. *)
LEMMA ForgottenFollows ==
  ASSUME parent \in [Notifications -> Parents], NEW gone \in SUBSET Notifications,
         \A n \in gone : parent[n].row # "absent", Forgotten(gone)
  PROVE  [Delivery!Next]_outcomes
<1>1. /\ outcomes = [m \in Notifications |-> OutcomeOf(parent[m])]
      /\ outcomes' = [m \in Notifications |-> OutcomeOf(parent'[m])]
  BY DEF outcomes, Outcome, OutcomeOf
<1>2. PICK swept : swept = [NoParent EXCEPT !.row = "swept"]
  OBVIOUS
<1>3. OutcomeOf(swept) = "forgotten"
  <2>1. swept \in Parents
    BY <1>2, GoneRows
  <2>2. swept.row = "swept"
    BY <1>2 DEF NoParent
  <2>. QED BY <2>1, <2>2, OutcomeCases
<1>4. \A n \in Notifications : parent'[n] = IF n \in gone THEN swept ELSE parent[n]
  BY <1>2 DEF Forgotten
<1>5. outcomes' = [n \in Notifications |-> IF n \in gone THEN "forgotten" ELSE outcomes[n]]
  BY <1>1, <1>3, <1>4
<1>6. gone \in SUBSET {n \in Notifications : outcomes[n] # "unqueued"}
  BY <1>1 DEF OutcomeOf
<1>. QED BY <1>5, <1>6 DEF Delivery!Next, outcomes

(* Every step of the outbox is a step of WebhookDelivery, or none. *)
LEMMA StepFollows == IInv /\ [Next]_vars => [Delivery!Next]_outcomes
<1> SUFFICES ASSUME IInv, [Next]_vars PROVE [Delivery!Next]_outcomes
  OBVIOUS
<1>1. /\ parent \in [Notifications -> Parents] /\ doomed \subseteq Notifications
      /\ \A n \in Notifications : Consistent(parent[n], attempts[n])
  BY DEF IInv, TypeOK
<1>2. ASSUME UNCHANGED parent PROVE [Delivery!Next]_outcomes
  BY <1>2 DEF outcomes, Outcome, Terminal
<1>3. ASSUME NEW n \in Notifications, Enqueue(n) PROVE [Delivery!Next]_outcomes
  <2>1. PICK np : np = [parent[n] EXCEPT !.row = "present"]
    OBVIOUS
  <2>2. parent[n].row = "absent" /\ parent' = [parent EXCEPT ![n] = np]
    BY <1>3, <2>1 DEF Enqueue
  <2>3. parent[n] \in Parents /\ ~parent[n].delivered /\ ~parent[n].failed
    BY <1>1, <2>2 DEF Consistent, NoParent
  <2>4. np \in Parents /\ Open(np)
    BY <2>1, <2>3 DEF Parents, Open
  <2>5. OutcomeOf(parent[n]) = "unqueued" /\ OutcomeOf(np) = "open"
    BY <2>2, <2>3, <2>4, OutcomeCases
  <2>6. Delivery!Follows(OutcomeOf(parent[n]), OutcomeOf(np))
    BY <2>5 DEF Delivery!Follows
  <2>. QED BY <1>1, <2>2, <2>4, <2>6, OneFollows
<1>4. ASSUME NEW s \in Senders, NEW delivered \in BOOLEAN, Complete(s, delivered), ~UNCHANGED parent
      PROVE  [Delivery!Next]_outcomes
  <2>1. PICK n : n = senders[s].n
    OBVIOUS
  <2>2. senders[s] # Idle /\ senders[s].id \in Pending(attempts[n]) /\ Books(senders[s], delivered)
    BY <1>4, <2>1 DEF Complete
  <2>3. PICK np \in Parents :
          /\ parent' = [parent EXCEPT ![n] = np]
          /\ \/ OutcomeOf(np) = OutcomeOf(parent[n])
             \/ Delivery!Follows(OutcomeOf(parent[n]), OutcomeOf(np))
    <3>1. s \in Senders /\ delivered \in BOOLEAN
      BY <1>4
    <3>. QED BY <2>1, <2>2, <3>1, BooksFollow, ZenonT(30)
  <2>4. n \in Notifications
    BY <2>1, <2>2, ClaimTyped
  <2>. QED BY <1>1, <2>3, <2>4, OneFollows
<1>5. ASSUME NEW n \in Notifications, SweepAbandons(n) PROVE [Delivery!Next]_outcomes
  <2>1. PICK gone \in SUBSET Notifications : gone = {n}
    OBVIOUS
  <2>2. parent[n].row = "present"
    <3>1. PICK i \in Pending(attempts[n]) : TRUE
      BY <1>5 DEF SweepAbandons
    <3>. QED BY <1>1, <3>1, PendingParent
  <2>. QED BY <1>1, <1>5, <2>1, <2>2, ForgottenFollows DEF SweepAbandons
<1>6. ASSUME DeleteEndpoint PROVE [Delivery!Next]_outcomes
  <2>1. PICK gone \in SUBSET Notifications : gone = {n \in Notifications : parent[n].row = "present"}
    OBVIOUS
  <2>. QED BY <1>1, <1>6, <2>1, ForgottenFollows DEF DeleteEndpoint
<1>7. ASSUME SweepDeletes PROVE [Delivery!Next]_outcomes
  <2>1. PICK gone \in SUBSET Notifications :
          gone = {n \in doomed : parent[n].row = "present" /\ Pending(attempts[n]) = {}}
    BY <1>1
  <2>. QED BY <1>1, <1>7, <2>1, ForgottenFollows DEF SweepDeletes
<1>. QED BY <1>2, <1>3, <1>4, <1>5, <1>6, <1>7
     DEF Next, vars, QueueResend, LeaseLapses, Claim, SenderDies, SetEnabled, SetDisabled, SweepSelects

(* The outbox keeps the promise of WebhookDelivery: a notification is queued *)
(* once and ends once, and one that was delivered is never opened or given   *)
(* up again.                                                                 *)
THEOREM Refinement == Spec => DeliverySpec
<1>1. Init => Delivery!Init
  <2> SUFFICES ASSUME Init PROVE Delivery!Init
    OBVIOUS
  <2>1. \A n \in Notifications : parent[n].row = "absent"
    BY DEF Init, NoParent
  <2>2. \A n \in Notifications : Outcome(n) = "unqueued"
    BY <2>1 DEF Outcome, Terminal
  <2>. QED BY <2>2 DEF Delivery!Init
<1>2. IInv /\ [Next]_vars => [Delivery!Next]_outcomes
  BY StepFollows
<1>. QED BY <1>1, <1>2, Invariance, PTL DEF Spec, DeliverySpec, Delivery!Spec, outcomes
=============================================================================
