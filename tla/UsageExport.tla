----------------------------- MODULE UsageExport -----------------------------
(***************************************************************************)
(* The billing outbox: one usage_hourly row, the passes that export it to  *)
(* the payment provider, and the operator's repairs (billing/emitter.go,   *)
(* billing/settle.go, store/billing.go, store/billing_operations.go,       *)
(* store/agent_model_usage.go, store/sandbox_meter.go).                    *)
(*                                                                         *)
(* A row is the usage of one meter in one hour, here hour 1.  Every        *)
(* replica runs an emitter, whose full and fast passes never race each     *)
(* other; deleting a workspace settles it with a pass of its own.  A pass  *)
(* reads a batch of rows, stamps the attempt, sends, and stamps the        *)
(* result, in four separate steps.  No code relates two rows but the       *)
(* batch: the rest of it appears here as what it may do to the pass.       *)
(*                                                                         *)
(* Time is counted in hours, and a pass begins and ends within one: so it  *)
(* is exact which rows are sealed and which attempts are older than the    *)
(* provider remembers.                                                     *)
(***************************************************************************)
EXTENDS Integers

CONSTANTS
  Emitters,   \* the emitter loops of the replicas
  Settlers,   \* settles in progress at once
  SealHours,  \* how old a metered row is when a full pass may send it
  DedupHours, \* how long the provider remembers an identifier
  MaxHour,    \* bound: hours that pass
  MaxUnits    \* bound: units of usage in the row

ASSUME UsageAssumption ==
  /\ {SealHours, DedupHours, MaxHour, MaxUnits} \subseteq Nat \ {0}
  /\ Emitters \cap Settlers = {}

Passers == Emitters \cup Settlers
Kinds(p) == IF p \in Settlers THEN {"settle"} ELSE {"full", "fast"}

NoPass == [at |-> "idle", kind |-> "none", quantity |-> 0, answer |-> "none", owed |-> FALSE]

VARIABLES
  hour,      \* the hour that is open
  meter,     \* "fast": the agent model cost (FastKinds); "metered": sandbox compute
  row,       \* the row; attempted is the hour of billing_export_attempted_at, or 0
  issue,     \* its row in billing_export_issues
  provider,  \* what the provider has counted
  passes,    \* the pass each passer is in
  recording, \* whether a usage report of hour 1 is being recorded
  running    \* the hour up to which the running sandbox is metered, or 0

vars == <<hour, meter, row, issue, provider, passes, recording, running>>

-----------------------------------------------------------------------------
(* Writers of usage. *)

\* addAgentModelUsage: an existing row grows while pending and unattempted.
Grows ==
  \/ row.state = "absent"
  \/ row.state = "pending" /\ row.attempted = 0

Added == [row EXCEPT !.state = IF @ = "absent" THEN "pending" ELSE @, !.quantity = @ + 1]

\* A report is stamped with the hour it arrives in ...
ReportArrives ==
  /\ meter = "fast"
  /\ ~recording
  /\ hour = 1
  /\ row.quantity < MaxUnits
  /\ recording' = TRUE
  /\ UNCHANGED <<hour, meter, row, issue, provider, passes, running>>

\* ... and RecordAgentModelUsage adds it to that hour's row, or to a later
\* hour's once this one is past growing.
ReportRecorded ==
  /\ recording
  /\ recording' = FALSE
  /\ row' = IF Grows THEN Added ELSE row
  /\ UNCHANGED <<hour, meter, issue, provider, passes, running>>

SandboxStarts ==
  /\ meter = "metered"
  /\ running = 0
  /\ hour = 1
  /\ running' = hour
  /\ UNCHANGED <<hour, meter, row, issue, provider, passes, recording>>

\* ObserveSandboxMeter and accrueSandboxInterval: every hour since the last
\* observation gets its share, whatever has become of its row.
SandboxObserved ==
  /\ running # 0
  /\ row' = IF running = 1 THEN Added ELSE row
  /\ row'.quantity <= MaxUnits
  /\ running' \in {0, hour}
  /\ UNCHANGED <<hour, meter, issue, provider, passes, recording>>

-----------------------------------------------------------------------------
(* What a pass does to the row; each is one transaction. *)

Older(time, hours) == time # 0 /\ time + hours < hour

\* QuarantineOldUsageAttempts takes attempts the provider may have forgotten.
Quarantinable == row.state = "pending" /\ Older(row.attempted, DedupHours)

\* The issue is inserted, or opened again.
Reported(kind) == [kind |-> kind, resolution |-> "open"]

\* Variant: the agent model cost is sealed as soon as its hour has closed.
SealsAtClose(kind) ==
  CASE kind = "settle" /\ meter = "fast" -> TRUE
    [] meter = "fast" -> hour > 1
    [] kind = "settle" -> hour > 1
    [] OTHER -> kind = "full" /\ 1 + SealHours <= hour

\* Emitter.seal and settleSeal.  DefaultFastSeal waits out the transactions
\* that record into an hour while it closes; the settle does not.
Seals(kind) ==
  CASE kind = "settle" /\ meter = "fast" -> TRUE
    [] kind = "settle" /\ meter = "metered" -> hour > 1
    [] kind # "settle" /\ meter = "fast" -> hour > 1 /\ ~recording
    [] OTHER -> kind = "full" /\ 1 + SealHours <= hour

\* selectPendingUsage would read the row.
Due(kind) == row.state = "pending" /\ Seals(kind)

-----------------------------------------------------------------------------
(* Passes. *)

Goes(p, changed) == passes' = [passes EXCEPT ![p] = changed]
Ends(p) == Goes(p, NoPass)

\* A settle that is done says so, and the deletion proceeds.
Finishes(p) ==
  IF p \in Settlers THEN Goes(p, [NoPass EXCEPT !.at = "done", !.kind = "settle",
                                               !.owed = passes[p].owed])
  ELSE Ends(p)

\* The next batch of the same pass.
ReadsOn(p) == Goes(p, [passes[p] EXCEPT !.at = "select", !.quantity = 0, !.answer = "none"])

Started(kind) == [NoPass EXCEPT !.at = "select", !.kind = kind,
                                !.owed = (kind = "settle" /\ Due(kind))]

\* emitOnce, or ExportWorkspace: only the full pass quarantines.
Begins(p, kind) ==
  /\ passes[p].at = "idle"
  /\ kind \in Kinds(p)
  /\ Goes(p, Started(kind))
  /\ IF kind = "full" /\ Quarantinable
     THEN /\ row' = [row EXCEPT !.state = "ambiguous"]
          /\ issue' = Reported("stamp_ambiguity")
     ELSE UNCHANGED <<row, issue>>
  /\ UNCHANGED <<hour, meter, provider, recording, running>>

\* The row comes in a batch with the quantity it has.  Batches without it may
\* come before; a short one, or an empty one, ends the pass.
Selects(p) ==
  /\ passes[p].at = "select"
  /\ IF Due(passes[p].kind)
     THEN Goes(p, [passes[p] EXCEPT !.at = "mark", !.quantity = row.quantity])
     ELSE Finishes(p)
  /\ UNCHANGED <<hour, meter, row, issue, provider, recording, running>>

\* Variant: the attempt is stamped anew by every pass.
Restamped == [row EXCEPT !.attempted = hour]

\* The first-attempt timestamp never moves.
Attempted == [row EXCEPT !.attempted = IF @ = 0 THEN hour ELSE @]

\* MarkUsageAttempted stamps the rows still pending; if that is not the whole
\* batch the pass ends, and the stamps stay.
Marks(p) ==
  /\ passes[p].at = "mark"
  /\ IF row.state = "pending"
     THEN row' = Attempted /\ (Goes(p, [passes[p] EXCEPT !.at = "send"]) \/ Ends(p))
     ELSE row' = row /\ Ends(p)
  /\ UNCHANGED <<hour, meter, issue, provider, recording, running>>

Remembers == provider.at # 0 /\ ~Older(provider.at, DedupHours)

\* What the provider has of an event that reaches it.  "blind" records that a
\* pass that quarantines nothing sent it when its first attempt may have been
\* forgotten, "settled" that a settle had it counted.
Sent(pass, counted) ==
  LET heard == [provider EXCEPT
                 !.blind = @ \/ (pass.kind # "full" /\ Older(row.attempted, DedupHours))]
  IN  IF ~counted \/ Remembers THEN heard
      ELSE [heard EXCEPT !.at = hour, !.times = @ + 1, !.quantity = pass.quantity,
                         !.settled = @ \/ pass.kind = "settle"]

\* The provider rejects for good what it does not know, and then does so for
\* every sender until an operator has dealt with the reason.
Refuses == row.state = "rejected" \/ \E p \in Passers : passes[p].answer = "rejected"

\* IngestBatch.  A duplicate counts as accepted; when the answer is lost, or
\* the process dies, the event may or may not have been counted.
Accepts(p) ==
  /\ passes[p].at = "send"
  /\ ~Refuses
  /\ provider' = Sent(passes[p], TRUE)
  /\ Goes(p, [passes[p] EXCEPT !.at = "record", !.answer = "accepted"])
  /\ UNCHANGED <<hour, meter, row, issue, recording, running>>

Rejects(p) ==
  /\ passes[p].at = "send"
  /\ ~Remembers
  /\ provider' = Sent(passes[p], FALSE)
  /\ Goes(p, [passes[p] EXCEPT !.at = "record", !.answer = "rejected"])
  /\ UNCHANGED <<hour, meter, row, issue, recording, running>>

\* Variant: a batch some of whose events stay pending is good enough.
LosesAnswerGoesOn(p, counted) ==
  /\ passes[p].at = "send"
  /\ counted => ~Refuses
  /\ provider' = Sent(passes[p], counted)
  /\ Finishes(p)
  /\ UNCHANGED <<hour, meter, row, issue, recording, running>>

\* The row stays pending, which ends the pass once the rest is recorded.
LosesAnswer(p, counted) ==
  /\ passes[p].at = "send"
  /\ counted => ~Refuses
  /\ provider' = Sent(passes[p], counted)
  /\ Ends(p)
  /\ UNCHANGED <<hour, meter, row, issue, recording, running>>

\* Variant: a reject becomes an issue even if a sibling has finished the row.
RecordsRejectAlways(p) ==
  /\ row' = IF row.state = "pending" THEN [row EXCEPT !.state = "rejected"] ELSE row
  /\ issue' = Reported("permanent_reject")

RecordsReject(p) ==
  IF row.state = "pending"
  THEN row' = [row EXCEPT !.state = "rejected"] /\ issue' = Reported("permanent_reject")
  ELSE UNCHANGED <<row, issue>>

RecordsAccept(p) ==
  /\ row' = IF row.state = "pending" THEN [row EXCEPT !.state = "emitted"] ELSE row
  /\ UNCHANGED issue

\* RecordUsageExportResult; rows that have moved on stay as they are.  Then the
\* pass goes on, is done if the batch was short, or ends if another row of the
\* batch is still pending.
Records(p) ==
  /\ passes[p].at = "record"
  /\ IF passes[p].answer = "accepted" THEN RecordsAccept(p) ELSE RecordsReject(p)
  /\ ReadsOn(p) \/ Finishes(p) \/ Ends(p)
  /\ UNCHANGED <<hour, meter, provider, recording, running>>

\* The deletion takes note that its settle is done.
Returns(p) ==
  /\ passes[p].at = "done"
  /\ Ends(p)
  /\ UNCHANGED <<hour, meter, row, issue, provider, recording, running>>

\* The process dies, the database fails the pass, or another row of it does.
PassDies(p) ==
  /\ passes[p].at \in {"select", "mark", "record"}
  /\ Ends(p)
  /\ UNCHANGED <<hour, meter, row, issue, provider, recording, running>>

-----------------------------------------------------------------------------
(* ResolveBillingExportIssue: an operator decides on an open issue. *)

Acknowledge ==
  /\ issue.resolution = "open"
  /\ issue' = [issue EXCEPT !.resolution = "acknowledge"]
  /\ UNCHANGED <<hour, meter, row, provider, passes, recording, running>>

\* Only a definite reject is sent again, as if for the first time.  By the time
\* an operator decides, the passes that sent the row are over.
Retry ==
  /\ issue = [kind |-> "permanent_reject", resolution |-> "open"]
  /\ \A p \in Passers : passes[p].at \in {"idle", "select", "done"}
  /\ issue' = [issue EXCEPT !.resolution = "retry"]
  /\ row' = IF row.state = "rejected" THEN [row EXCEPT !.state = "pending", !.attempted = 0]
            ELSE row
  /\ UNCHANGED <<hour, meter, provider, passes, recording, running>>

MarkRepaired ==
  /\ issue.resolution = "open"
  /\ issue' = [issue EXCEPT !.resolution = "mark_repaired"]
  /\ row' = IF row.state \in {"rejected", "ambiguous"} THEN [row EXCEPT !.state = "emitted"]
            ELSE row
  /\ UNCHANGED <<hour, meter, provider, passes, recording, running>>

-----------------------------------------------------------------------------
\* An hour passes: no pass spans it, no report takes longer than one, and a
\* running sandbox is observed more often than a full pass seals its hours.
HourPasses ==
  /\ hour < MaxHour
  /\ \A p \in Passers : passes[p].at = "idle"
  /\ recording => hour = 1
  /\ running # 0 => hour + 1 < running + SealHours
  /\ hour' = hour + 1
  /\ UNCHANGED <<meter, row, issue, provider, passes, recording, running>>

Init ==
  /\ hour = 1
  /\ meter \in {"fast", "metered"}
  /\ row = [state |-> "absent", quantity |-> 0, attempted |-> 0]
  /\ issue = [kind |-> "none", resolution |-> "none"]
  /\ provider = [at |-> 0, times |-> 0, quantity |-> 0, settled |-> FALSE, blind |-> FALSE]
  /\ passes = [p \in Passers |-> NoPass]
  /\ recording = FALSE
  /\ running = 0

Next ==
  \/ ReportArrives \/ ReportRecorded \/ SandboxStarts \/ SandboxObserved
  \/ \E p \in Passers :
       \/ \E kind \in {"full", "fast", "settle"} : Begins(p, kind)
       \/ Selects(p) \/ Marks(p)
       \/ Accepts(p) \/ Rejects(p) \/ (\E counted \in BOOLEAN : LosesAnswer(p, counted))
       \/ Records(p) \/ Returns(p) \/ PassDies(p)
  \/ Acknowledge \/ Retry \/ MarkRepaired
  \/ HourPasses

Spec == Init /\ [][Next]_vars

-----------------------------------------------------------------------------
(* Properties. *)

\* A row is held back exactly as long as its issue says so: whoever rejects or
\* quarantines it opens the issue (again), and no open issue names a row that
\* is being sent or was finished by a sibling (RecordUsageExportResult,
\* QuarantineOldUsageAttempts, ResolveBillingExportIssue).
HeldByItsIssue ==
  /\ row.state = "rejected" => issue.kind = "permanent_reject"
  /\ row.state = "ambiguous" => issue.kind = "stamp_ambiguity"
  /\ row.state \in {"rejected", "ambiguous"} => issue.resolution \in {"open", "acknowledge"}
  /\ issue.resolution = "open" => row.state \in {"rejected", "ambiguous"}

\* The provider counts a row once, whatever passes race, die, or lose an
\* answer, and whatever operators retry -- unless a fast pass or a settle,
\* which quarantine nothing, has sent an attempt the provider had forgotten.
CountedOnce == provider.times <= 1 \/ provider.blind

\* A row that was exported was counted with the quantity it has: it is final
\* when it is sealed.  A settle sends rows before that, and an operator who
\* repairs a row vouches for it.
BilledInFull ==
  row.state = "emitted" =>
    \/ provider.times > 0 /\ provider.quantity = row.quantity
    \/ provider.settled
    \/ issue.resolution = "mark_repaired"

\* A deletion does not proceed past usage still on its way: when a settle is
\* done, a row that was due when it began is not pending, unless an operator
\* has put it back since (ExportWorkspace).
SettleLeavesNothing ==
  \A p \in Settlers :
    passes[p].at = "done" /\ passes[p].owed /\ row.state = "pending" =>
      issue.resolution = "retry"
=============================================================================
