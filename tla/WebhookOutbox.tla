---------------------------- MODULE WebhookOutbox ----------------------------
(***************************************************************************)
(* The delivery outbox of one webhook endpoint (store/webhooks.go, the     *)
(* send pass of webhooks/worker.go, migration 0084).  A notification is    *)
(* the parent row of one event; its attempts are child rows, each reserved *)
(* before it is sent and settled once.  Senders of two replicas lease      *)
(* attempts, post them outside any transaction and report; a lease may run *)
(* out under a sender that is still posting, and a sender may die.  Users  *)
(* resend, disable, enable and delete; retention sweeps.                   *)
(*                                                                         *)
(* Time is left out: whether an attempt is due only delays its claim, and  *)
(* a lease may lapse at any moment, which leaves the row as if unleased.   *)
(***************************************************************************)
EXTENDS Integers, Sequences, FiniteSets

CONSTANTS
  Notifications,  \* events the feed queues for the endpoint
  Senders,        \* claims a send pass may hold at once, over all replicas
  Keys,           \* idempotency keys of resends
  NoKey,          \* what an automatic attempt carries
  MaxTries        \* len(backoff) + 1: the automatic budget of a notification

ASSUME MaxTriesAssumption == MaxTries \in Nat \ {0}

ASSUME NoKeyAssumption == NoKey \notin Keys

Idle == [n |-> 0, id |-> 0, origin |-> "none", resume |-> FALSE, count |-> 0]

VARIABLES
  endpoint,  \* "enabled", "disabled" or "deleted"
  parent,    \* webhook_deliveries, by notification
  attempts,  \* webhook_delivery_attempts; an attempt's id is its position
  senders,   \* the claim each sender works on, as it read it
  doomed     \* the terminal notifications a sweep has selected

vars == <<endpoint, parent, attempts, senders, doomed>>

-----------------------------------------------------------------------------
(* Rows. *)

Parents ==
  [row : {"absent", "present", "swept"}, count : 0..MaxTries,
   delivered : BOOLEAN, failed : BOOLEAN]

NoParent == [row |-> "absent", count |-> 0, delivered |-> FALSE, failed |-> FALSE]

Attempts ==
  [number : Nat, status : {"pending", "delivered", "failed", "superseded"},
   origin : {"automatic", "manual"}, leased : BOOLEAN,
   resume : BOOLEAN, key : Keys \cup {NoKey}]

Reserved(number, origin, resume, key) ==
  [number |-> number, status |-> "pending", origin |-> origin, leased |-> FALSE,
   resume |-> resume, key |-> key]

Automatic(number) == Reserved(number, "automatic", FALSE, NoKey)

DeletedRow == [Automatic(1) EXCEPT !.status = "superseded"]

\* The ids of the rows that exist: a superseded reservation was deleted.
Ids(rows) == {i \in 1..Len(rows) : rows[i].status # "superseded"}

Pending(rows) == {i \in 1..Len(rows) : rows[i].status = "pending"}

Open(p) == p.row = "present" /\ ~p.delivered /\ ~p.failed
Terminal(p) == p.row = "present" /\ (p.delivered \/ p.failed)

-----------------------------------------------------------------------------
(* Settling an attempt. *)

\* The row as the pending -> terminal update leaves it.
SettledAttempt(rows, i, delivered) ==
  [rows EXCEPT ![i].status = IF delivered THEN "delivered" ELSE "failed",
               ![i].leased = FALSE]

\* The parent after an automatic attempt: both times are written, also to NULL.
AfterAutomatic(p, delivered, exhausted) ==
  [p EXCEPT !.count = @ + 1, !.delivered = delivered, !.failed = exhausted]

\* The parent after a manual attempt: success closes it, failure that restores
\* the parked retry opens it, and neither spends the automatic budget.
AfterManual(p, delivered, resume) ==
  CASE delivered -> [p EXCEPT !.delivered = TRUE, !.failed = FALSE]
    [] ~delivered /\ resume -> [p EXCEPT !.delivered = FALSE, !.failed = FALSE]
    [] OTHER -> p

\* bex_webhook_attempt_from_legacy_completion, the AFTER UPDATE trigger on the
\* parent: an update that raises the count, with no settled automatic attempt
\* of that number, is taken for an older replica's and settles the first
\* automatic reservation it finds, reserving the next.
LegacyBridge(rows, old, new) ==
  LET settled == {i \in Ids(rows) : /\ rows[i].origin = "automatic"
                                    /\ rows[i].status # "pending"
                                    /\ rows[i].number = new.count}
      waiting == {i \in Pending(rows) : rows[i].origin = "automatic"}
      i == CHOOSE j \in waiting : \A k \in waiting : rows[j].number <= rows[k].number
      done == SettledAttempt(rows, i, new.delivered)
  IN  IF new.count > old.count /\ settled = {} /\ waiting # {}
      THEN IF new.delivered \/ new.failed THEN done
           ELSE Append(done, Automatic(rows[i].number + 1))
      ELSE rows

\* Variant: the next attempt is reserved before the parent is updated.
AutomaticRowsReservedFirst(rows, p, i, delivered, exhausted) ==
  LET done == SettledAttempt(rows, i, delivered)
      next == IF delivered \/ exhausted THEN done
              ELSE Append(done, Automatic(rows[i].number + 1))
  IN  LegacyBridge(next, p, AfterAutomatic(p, delivered, exhausted))

\* CompleteWebhookAttempt of an automatic attempt i of rows, whose parent is p.
AutomaticRows(rows, p, i, delivered, exhausted) ==
  LET done == LegacyBridge(SettledAttempt(rows, i, delivered),
                           p, AfterAutomatic(p, delivered, exhausted))
  IN  IF delivered \/ exhausted THEN done
      ELSE Append(done, Automatic(rows[i].number + 1))

\* Variant: a failed resend does not restore the retry it parked.
ManualRowsDropped(rows, i, delivered) == SettledAttempt(rows, i, delivered)

\* Variant: a resend restores the retry it parked however it ended.
ManualRowsRestored(rows, i, delivered) ==
  LET done == SettledAttempt(rows, i, delivered)
  IN  IF rows[i].resume THEN Append(done, Automatic(rows[i].number + 1)) ELSE done

ManualRows(rows, i, delivered) ==
  LET done == SettledAttempt(rows, i, delivered)
  IN  IF delivered \/ ~rows[i].resume THEN done
      ELSE Append(done, Automatic(rows[i].number + 1))

-----------------------------------------------------------------------------
(* The feed and the senders. *)

\* EnqueueWebhookDeliveries inserts the parent and a trigger its first attempt;
\* it does so for a disabled endpoint as well.
Enqueue(n) ==
  /\ endpoint # "deleted"
  /\ parent[n].row = "absent"
  /\ parent' = [parent EXCEPT ![n].row = "present"]
  /\ attempts' = [attempts EXCEPT ![n] = <<Automatic(1)>>]
  /\ UNCHANGED <<endpoint, senders, doomed>>

\* ClaimDueWebhookAttempts: a pending attempt nobody holds, of an enabled
\* endpoint; the budget spent so far is read here and used after the post.
Claim(s, n, i) ==
  /\ endpoint = "enabled"
  /\ senders[s] = Idle
  /\ i \in Pending(attempts[n])
  /\ ~attempts[n][i].leased
  /\ attempts' = [attempts EXCEPT ![n][i].leased = TRUE]
  /\ senders' = [senders EXCEPT ![s] =
       [n |-> n, id |-> i, origin |-> attempts[n][i].origin,
        resume |-> attempts[n][i].resume, count |-> parent[n].count]]
  /\ UNCHANGED <<endpoint, parent, doomed>>

\* Out of retries, as the worker judges it from what it claimed.
Exhausts(claim, delivered) ==
  ~delivered /\ claim.origin = "automatic" /\ claim.count + 1 >= MaxTries

\* The transaction finds the attempt and settles it. Whose lease it is does not
\* matter: the first report wins.
Books(claim, delivered) ==
  LET n == claim.n
      i == claim.id
      rows == attempts[n]
      exhausted == Exhausts(claim, delivered)
  IN  IF rows[i].origin = "automatic"
      THEN /\ parent' = [parent EXCEPT ![n] = AfterAutomatic(@, delivered, exhausted)]
           /\ attempts' = [attempts EXCEPT ![n] =
                AutomaticRows(rows, parent[n], i, delivered, exhausted)]
           /\ endpoint' = IF exhausted THEN "disabled" ELSE endpoint
      ELSE /\ parent' = [parent EXCEPT ![n] = AfterManual(@, delivered, rows[i].resume)]
           /\ attempts' = [attempts EXCEPT ![n] = ManualRows(rows, i, delivered)]
           /\ UNCHANGED endpoint

\* Variant: the update does not ask whether the attempt is still pending.
CompleteAgain(s, delivered) ==
  /\ senders[s] # Idle
  /\ senders' = [senders EXCEPT ![s] = Idle]
  /\ IF senders[s].id \in Ids(attempts[senders[s].n])
     THEN Books(senders[s], delivered)
     ELSE UNCHANGED <<endpoint, parent, attempts>>
  /\ UNCHANGED doomed

\* A sender has posted and reports; an attempt that is settled or gone makes
\* the report a no-op.
Complete(s, delivered) ==
  /\ senders[s] # Idle
  /\ senders' = [senders EXCEPT ![s] = Idle]
  /\ IF senders[s].id \in Pending(attempts[senders[s].n])
     THEN Books(senders[s], delivered)
     ELSE UNCHANGED <<endpoint, parent, attempts>>
  /\ UNCHANGED doomed

\* The process dies, or the report fails and is only logged.
SenderDies(s) ==
  /\ senders[s] # Idle
  /\ senders' = [senders EXCEPT ![s] = Idle]
  /\ UNCHANGED <<endpoint, parent, attempts, doomed>>

\* Variant: only automatic attempts are claimed again.
AutomaticLeaseLapses(n, i) ==
  /\ i \in Pending(attempts[n])
  /\ attempts[n][i].leased /\ attempts[n][i].origin = "automatic"
  /\ attempts' = [attempts EXCEPT ![n][i].leased = FALSE]
  /\ UNCHANGED <<endpoint, parent, senders, doomed>>

LeaseLapses(n, i) ==
  /\ i \in Pending(attempts[n])
  /\ attempts[n][i].leased
  /\ attempts' = [attempts EXCEPT ![n][i].leased = FALSE]
  /\ UNCHANGED <<endpoint, parent, senders, doomed>>

-----------------------------------------------------------------------------
(* Users. *)

KeyUsed(key) == \E n \in Notifications : \E i \in Ids(attempts[n]) : attempts[n][i].key = key

\* The automatic reservations a resend deletes: those no sender holds.
Parked(rows) ==
  {i \in Pending(rows) : rows[i].origin = "automatic" /\ ~rows[i].leased}

\* The rows without the parked ones, and one more than the greatest number left.
Superseded(rows) ==
  [i \in 1..Len(rows) |-> IF i \in Parked(rows) THEN DeletedRow ELSE rows[i]]

NextNumber(rows) ==
  CHOOSE k \in 1..(Len(rows) + 1) :
    /\ \A i \in Ids(rows) : rows[i].number < k
    /\ k = 1 \/ \E i \in Ids(rows) : rows[i].number = k - 1

\* QueueWebhookResend of an attempt that was sent; a used key answers with the
\* attempt it reserved, a pending attempt that stays refuses the resend.
QueueResend(n, key) ==
  LET rows == Superseded(attempts[n])
  IN  /\ endpoint = "enabled"
      /\ ~KeyUsed(key)
      /\ \E i \in Ids(attempts[n]) : attempts[n][i].status # "pending"
      /\ Pending(rows) = {}
      /\ attempts' = [attempts EXCEPT ![n] =
           Append(rows, Reserved(NextNumber(rows), "manual", Parked(attempts[n]) # {}, key))]
      /\ UNCHANGED <<endpoint, parent, senders, doomed>>

SetEnabled ==
  /\ endpoint = "disabled"
  /\ endpoint' = "enabled"
  /\ UNCHANGED <<parent, attempts, senders, doomed>>

SetDisabled ==
  /\ endpoint = "enabled"
  /\ endpoint' = "disabled"
  /\ UNCHANGED <<parent, attempts, senders, doomed>>

\* What is left of notifications whose parents are deleted.
Forgotten(gone) ==
  /\ parent' = [n \in Notifications |->
       IF n \in gone THEN [NoParent EXCEPT !.row = "swept"] ELSE parent[n]]
  /\ attempts' = [n \in Notifications |-> IF n \in gone THEN <<>> ELSE attempts[n]]

\* DeleteWebhookEndpoint cascades.
DeleteEndpoint ==
  /\ endpoint # "deleted"
  /\ endpoint' = "deleted"
  /\ Forgotten({n \in Notifications : parent[n].row = "present"})
  /\ UNCHANGED <<senders, doomed>>

-----------------------------------------------------------------------------
(* Retention. *)

\* SweepWebhookDeliveries, first pass: the statement selects terminal
\* notifications without a pending attempt that are old, or beyond the newest
\* the endpoint keeps ...
SweepSelects(chosen) ==
  /\ doomed = {}
  /\ chosen # {}
  /\ \A n \in chosen : Terminal(parent[n]) /\ Pending(attempts[n]) = {}
  /\ doomed' = chosen
  /\ UNCHANGED <<endpoint, parent, attempts, senders>>

\* Variant: without the trigger.
SweepDeletesSelected ==
  /\ doomed # {}
  /\ Forgotten({n \in doomed : parent[n].row = "present"})
  /\ doomed' = {}
  /\ UNCHANGED <<endpoint, senders>>

\* ... and deletes them; the BEFORE DELETE trigger keeps a parent that has got
\* a pending attempt since.
SweepDeletes ==
  /\ doomed # {}
  /\ Forgotten({n \in doomed : parent[n].row = "present" /\ Pending(attempts[n]) = {}})
  /\ doomed' = {}
  /\ UNCHANGED <<endpoint, senders>>

\* Second pass: a reservation that has waited for the whole retention period,
\* as only one of a disabled endpoint does.
SweepAbandons(n) ==
  /\ endpoint = "disabled"
  /\ \E i \in Pending(attempts[n]) : ~attempts[n][i].leased
  /\ Forgotten({n})
  /\ UNCHANGED <<endpoint, senders, doomed>>

-----------------------------------------------------------------------------
Init ==
  /\ endpoint = "enabled"
  /\ parent = [n \in Notifications |-> NoParent]
  /\ attempts = [n \in Notifications |-> <<>>]
  /\ senders = [s \in Senders |-> Idle]
  /\ doomed = {}

Next ==
  \/ \E n \in Notifications :
       \/ Enqueue(n)
       \/ SweepAbandons(n)
       \/ \E key \in Keys : QueueResend(n, key)
       \/ \E i \in 1..Len(attempts[n]) : LeaseLapses(n, i)
       \/ \E s \in Senders, i \in 1..Len(attempts[n]) : Claim(s, n, i)
  \/ \E s \in Senders :
       \/ SenderDies(s)
       \/ \E delivered \in BOOLEAN : Complete(s, delivered)
  \/ SetEnabled \/ SetDisabled \/ DeleteEndpoint
  \/ \E chosen \in SUBSET Notifications : SweepSelects(chosen)
  \/ SweepDeletes

Spec == Init /\ [][Next]_vars

(* The send pass runs periodically, time lets every lease lapse, and a     *)
(* process does not die in every send it begins.                           *)
Fairness ==
  /\ \A n \in Notifications :
       /\ WF_vars(\E i \in 1..Len(attempts[n]) : LeaseLapses(n, i))
       /\ SF_vars(\E s \in Senders, i \in 1..Len(attempts[n]) : Claim(s, n, i))
  /\ \A s \in Senders : SF_vars(\E delivered \in BOOLEAN : Complete(s, delivered))

FairSpec == Spec /\ Fairness

-----------------------------------------------------------------------------
(* Properties. *)

Claims == [n : Notifications, id : Nat \ {0}, origin : {"automatic", "manual"},
           resume : BOOLEAN, count : 0..MaxTries]

\* Every row keeps its type.
TypeOK ==
  /\ endpoint \in {"enabled", "disabled", "deleted"}
  /\ parent \in [Notifications -> Parents]
  /\ attempts \in [Notifications -> Seq(Attempts)]
  /\ senders \in [Senders -> Claims \cup {Idle}]
  /\ doomed \subseteq Notifications

\* A notification has one send slot: whatever resends, late reports and lapsed
\* leases do, at most one of its attempts is pending (webhooks.go:606).
OnePending ==
  \A n \in Notifications : \A i, j \in Pending(attempts[n]) : i = j

\* An open notification is never stranded: it has an attempt that either is the
\* automatic retry or a resend that will restore it (QueueWebhookResend parks
\* the retry, CompleteWebhookAttempt restores it).
OpenIsScheduled ==
  \A n \in Notifications : Open(parent[n]) =>
    \E i \in Pending(attempts[n]) :
      attempts[n][i].origin = "automatic" \/ attempts[n][i].resume

\* A notification that has ended has no automatic send left, parked or not.
EndedIsQuiet ==
  \A n \in Notifications : Terminal(parent[n]) =>
    \A i \in Pending(attempts[n]) :
      attempts[n][i].origin = "manual" /\ ~attempts[n][i].resume

\* The budget a notification has spent is the automatic attempts it has made:
\* a resend spends none of it, a second report of one attempt none either.
BudgetAccounts ==
  \A n \in Notifications : parent[n].row = "present" =>
    parent[n].count = Cardinality({i \in Ids(attempts[n]) :
      attempts[n][i].origin = "automatic" /\ attempts[n][i].status # "pending"})

\* The sweep deletes no notification that has a send to come, although it
\* deletes what it selected earlier: only an endpoint that is not enabled can
\* keep a reservation waiting until it is abandoned.
SweepSparesPending ==
  [][\A n \in Notifications :
       /\ Pending(attempts[n]) # {}
       /\ parent'[n].row = "swept"
       => endpoint = "disabled" \/ endpoint' = "deleted"]_vars

Outcome(n) ==
  CASE parent[n].row = "absent" -> "unqueued"
    [] parent[n].row = "swept" -> "forgotten"
    [] Terminal(parent[n]) -> IF parent[n].delivered THEN "delivered" ELSE "failed"
    [] OTHER -> "open"

Delivery == INSTANCE WebhookDelivery WITH outcome <- [n \in Notifications |-> Outcome(n)]

\* The outbox keeps the promise: a notification is queued once and ends once,
\* and one that was delivered is never opened or given up again, whichever of
\* several senders of an attempt reports last.
DeliverySpec == Delivery!Spec

\* While the endpoint stays enabled the outbox drains: no lease that lapses, no
\* sender that dies and no resend leaves a send waiting for ever.
OutboxDrains ==
  <>[](endpoint = "enabled") =>
    \A n \in Notifications : []<>(Pending(attempts[n]) = {})
=============================================================================
