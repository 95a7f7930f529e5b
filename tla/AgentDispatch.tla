---------------------------- MODULE AgentDispatch ----------------------------
(***************************************************************************)
(* One agent session: its turns, the durable dispatch intents, and the     *)
(* sandboxes that run the turns (store/agentdispatch.go,                   *)
(* store/agentsessions.go, agentsessions/service.go, completion.go,        *)
(* dispatch_recovery.go, sandbox/agent_dispatch.go, sandbox/inventory.go). *)
(*                                                                         *)
(* A verb accepts a turn and files an intent in one transaction; a         *)
(* background dispatch then provisions the turn's sandbox and binds it.    *)
(* Every API replica runs a Completer that files the driver's report,      *)
(* tears sandboxes down, retries the teardown of predecessors, sweeps the  *)
(* cluster's inventory and recovers dispatches nobody finished.            *)
(*                                                                         *)
(* A turn has one dispatch, so a sandbox is named by the turn on its       *)
(* label, and 0 stands for the empty sandbox id.  Other sessions share     *)
(* nothing with this one but quotas, which only delay it.  Clocks are left *)
(* out: an intent may be due at any moment, a grace may be over.           *)
(***************************************************************************)
EXTENDS Integers, FiniteSets

CONSTANTS
  Completers,  \* one per API replica
  MaxTurns,    \* bound: turns accepted
  Verbs,       \* what users do: among "steer", "resume", "cancel", "delete"
  LateReports, \* TRUE: a turn may be accepted while a Completer still holds a
               \* report it read for the turn before
  LateClears,  \* TRUE: a turn may be bound while a Completer has still to
               \* blank the sandbox it tore down for the turn before
  PodLoss      \* TRUE: a sandbox may vanish by itself

ASSUME MaxTurnsAssumption == MaxTurns \in Nat \ {0}

Turns == 1..MaxTurns
Handles == 0..MaxTurns

Provisioning == {"creating", "redispatching"}
Active == Provisioning \cup {"running", "resuming"}
Finished == {"completed", "failed", "canceled"}

Idle == [kind |-> "idle", turn |-> 0, previous |-> 0, verdict |-> "none"]
NoIntent == [row |-> FALSE, abandoned |-> FALSE, previous |-> 0]
NoVerb == [at |-> "idle", sandbox |-> 0]

VARIABLES
  session,   \* the agent_sessions row; phase "deleted" once it is gone
  intent,    \* agent_session_dispatches, by turn
  pod,       \* sandboxes of the cluster, by the turn of their label
  report,    \* what the driver of each sandbox wrote in its status file
  dispatch,  \* the background dispatch of each turn
  job,       \* what each Completer holds between two of its calls
  resume,    \* the Resume in flight, with the sandbox of its row
  cancel,    \* the Cancel in flight
  delete     \* the Delete in flight

vars == <<session, intent, pod, report, dispatch, job, resume, cancel, delete>>
verbs == <<resume, cancel, delete>>
cluster == <<pod, report>>

-----------------------------------------------------------------------------
(* The store's transactions, each a relation on the two tables. *)

\* Whether binding of turn t has won: the row names a sandbox of that turn.
Bound(t) == session.turns = t /\ session.sandbox # 0 /\ session.phase # "deleted"

\* Variant: the intent of a bound turn stays pending while it names a predecessor.
SettledPending(i) == IF i.row /\ i.previous # 0 THEN i ELSE NoIntent

\* The intent a bound turn leaves: the tombstone that still names the
\* predecessor, or nothing.
Settled(i) == IF i.row /\ i.previous # 0 THEN [i EXCEPT !.abandoned = TRUE] ELSE NoIntent

\* Variant: the tombstone is left without failing the turn.
AbandonQuietly(t) ==
  /\ intent' = [intent EXCEPT ![t] =
                  IF Bound(t) THEN Settled(@) ELSE [@ EXCEPT !.abandoned = intent[t].row]]
  /\ UNCHANGED session

\* AbandonAgentDispatch: a binding wins; otherwise the intent becomes a
\* tombstone, and the turn fails if it is still the one being provisioned.
Abandon(t) ==
  IF Bound(t)
  THEN intent' = [intent EXCEPT ![t] = Settled(@)] /\ UNCHANGED session
  ELSE /\ intent' = [intent EXCEPT ![t].abandoned = intent[t].row]
       /\ session' = IF /\ intent[t].row
                        /\ session.turns = t
                        /\ session.sandbox = 0
                        /\ session.phase \in Provisioning
                     THEN [session EXCEPT !.phase = "failed"] ELSE session

\* It answers ErrNotFound to a caller who must then leave the sandboxes alone.
Abandons(t) == intent[t].row /\ ~Bound(t)

\* ClearPreviousSandboxTeardown: a tombstone with nothing left to name goes.
Forgotten(i) ==
  CASE i.previous = 0 -> i
    [] i.previous # 0 /\ i.abandoned -> NoIntent
    [] OTHER -> [i EXCEPT !.previous = 0]

\* CleanupAgentDispatches: terminates what is listed under the intent's turn
\* and the predecessor it names; some may resist, and then it reports failure.
Matching(t, previous) == {p \in {t, previous} \ {0} : pod[p] = "up"}

Terminated(killed) == [p \in Turns |-> IF p \in killed THEN "gone" ELSE pod[p]]

-----------------------------------------------------------------------------
(* Accepting turns. *)

\* CreateAgentSession: the row and the intent of turn 1.
Init ==
  /\ session = [phase |-> "creating", turns |-> 1, sandbox |-> 0]
  /\ intent = [t \in Turns |-> IF t = 1 THEN [NoIntent EXCEPT !.row = TRUE] ELSE NoIntent]
  /\ pod = [t \in Turns |-> "none"]
  /\ report = [t \in Turns |-> "none"]
  /\ dispatch = [t \in Turns |-> IF t = 1 THEN "provision" ELSE "none"]
  /\ job = [c \in Completers |-> Idle]
  /\ resume = NoVerb
  /\ cancel = NoVerb
  /\ delete = NoVerb

\* Steer: BeginAgentSessionTurn checks the phase again under the row lock,
\* blanks the row's sandbox and files it with the intent.
Steer ==
  /\ "steer" \in Verbs
  /\ session.phase \in {"completed", "failed"}
  /\ session.turns < MaxTurns
  /\ LateReports \/ \A c \in Completers : job[c].kind \notin {"status", "end"}
  /\ LET t == session.turns + 1 IN
     /\ session' = [phase |-> "redispatching", turns |-> t, sandbox |-> 0]
     /\ intent' = [intent EXCEPT ![t] =
                     [row |-> TRUE, abandoned |-> FALSE, previous |-> session.sandbox]]
     /\ dispatch' = [dispatch EXCEPT ![t] =
                       IF session.sandbox = 0 THEN "provision" ELSE "predecessor"]
  /\ UNCHANGED <<cluster, job, verbs>>

-----------------------------------------------------------------------------
(* The background dispatch of turn t. *)

DispatchGoes(t, from, to) == dispatch[t] = from /\ dispatch' = [dispatch EXCEPT ![t] = to]

\* Variant: one terminated sandbox is taken for all of them.
TearsSomeDown(t) ==
  /\ DispatchGoes(t, "predecessor", "provision")
  /\ \E killed \in SUBSET Matching(t, intent[t].previous) :
       /\ pod' = Terminated(killed)
       /\ intent' = [intent EXCEPT ![t] = Forgotten(@)]
  /\ UNCHANGED <<session, report, job, verbs>>

\* runSteerDispatch tears the predecessor down first; on failure it goes on,
\* and the intent keeps the handle.
TearsPredecessorDown(t) ==
  /\ DispatchGoes(t, "predecessor", "provision")
  /\ \E killed \in SUBSET Matching(t, intent[t].previous) :
       /\ pod' = Terminated(killed)
       /\ intent' = IF killed = Matching(t, intent[t].previous)
                    THEN [intent EXCEPT ![t] = Forgotten(@)] ELSE intent
  /\ UNCHANGED <<session, report, job, verbs>>

\* CreateAgentSessionSandbox and EnterAgentSessionPhase: a failure may leave
\* the sandbox behind.
Provisions(t) ==
  /\ \/ DispatchGoes(t, "provision", "bind") /\ pod' = [pod EXCEPT ![t] = "up"]
     \/ DispatchGoes(t, "provision", "abandon") /\ pod' = [pod EXCEPT ![t] = "up"]
     \/ DispatchGoes(t, "provision", "abandon") /\ UNCHANGED pod
  /\ UNCHANGED <<session, intent, report, job, verbs>>

\* Variant: the compare-and-set on the phase alone.
BindableByPhase(t) ==
  /\ session.turns = t
  /\ session.phase \notin {"canceling", "canceled"}

Bindable(t) ==
  /\ session.turns = t
  /\ session.phase \in Provisioning
  /\ intent[t].row
  /\ ~intent[t].abandoned

\* RecordAgentSessionDispatch.
Binds(t) ==
  /\ Bindable(t)
  /\ LateClears \/ \A c \in Completers : job[c].kind \notin {"terminate", "clear"}
  /\ DispatchGoes(t, "bind", "done")
  /\ \E phase \in {"creating", "running"} :
       session' = [session EXCEPT !.sandbox = t, !.phase = phase]
  /\ intent' = [intent EXCEPT ![t] = Settled(@)]
  /\ UNCHANGED <<cluster, job, verbs>>

\* The transaction refuses, or its store fails.
BindFails(t) ==
  /\ DispatchGoes(t, "bind", "abandon")
  /\ UNCHANGED <<session, intent, cluster, job, verbs>>

\* abandonDispatch and settleDispatchTurn.
GivesUp(t) ==
  /\ DispatchGoes(t, "abandon", IF Abandons(t) THEN "cleanup" ELSE "done")
  /\ Abandon(t)
  /\ UNCHANGED <<cluster, job, verbs>>

CleansUp(t) ==
  /\ DispatchGoes(t, "cleanup", "done")
  /\ \E killed \in SUBSET Matching(t, 0) : pod' = Terminated(killed)
  /\ UNCHANGED <<session, intent, report, job, verbs>>

\* The replica dies; a create call it had sent may still land.
DispatchDies(t) ==
  /\ \/ DispatchGoes(t, "provision", "late")
     \/ \E from \in {"predecessor", "bind", "abandon", "cleanup"} : DispatchGoes(t, from, "done")
  /\ UNCHANGED <<session, intent, cluster, job, verbs>>

LateSandbox(t) ==
  /\ DispatchGoes(t, "late", "done")
  /\ pod' = [pod EXCEPT ![t] = "up"]
  /\ UNCHANGED <<session, intent, report, job, verbs>>

Dispatches ==
  \E t \in Turns :
    \/ TearsPredecessorDown(t) \/ Provisions(t) \/ Binds(t) \/ BindFails(t)
    \/ GivesUp(t) \/ CleansUp(t) \/ DispatchDies(t) \/ LateSandbox(t)

-----------------------------------------------------------------------------
(* The sandbox's driver. *)

DriverReports(t) ==
  /\ pod[t] = "up"
  /\ report[t] = "none"
  /\ \E state \in {"succeeded", "failed"} : report' = [report EXCEPT ![t] = state]
  /\ UNCHANGED <<session, intent, pod, dispatch, job, verbs>>

SandboxVanishes(t) ==
  /\ PodLoss
  /\ pod[t] = "up"
  /\ pod' = [pod EXCEPT ![t] = "gone"]
  /\ UNCHANGED <<session, intent, report, dispatch, job, verbs>>

-----------------------------------------------------------------------------
(* A Completer files reports and tears finished sandboxes down. *)

Takes(c, kind, turn, previous, verdict) ==
  job' = [job EXCEPT ![c] =
            [kind |-> kind, turn |-> turn, previous |-> previous, verdict |-> verdict]]

Rests(c) == job' = [job EXCEPT ![c] = Idle]

\* Reconcile lists the active rows; finalize passes one without a sandbox over.
ListsActive(c) ==
  /\ job[c].kind = "idle"
  /\ session.phase \in Active /\ session.sandbox # 0
  /\ Takes(c, "status", session.sandbox, 0, "none")
  /\ UNCHANGED <<session, intent, cluster, dispatch, verbs>>

\* finalize reads the status file of the row's sandbox: a report, nothing yet,
\* a lost sandbox, or reads that have failed for too long.
ReadsStatus(c) ==
  LET t == job[c].turn IN
  /\ job[c].kind = "status"
  /\ \/ pod[t] = "up" /\ report[t] # "none" /\ Takes(c, "end", t, 0, report[t])
     \/ pod[t] = "up" /\ report[t] = "none" /\ Rests(c)
     \/ Takes(c, "end", t, 0, "lost")
  /\ UNCHANGED <<session, intent, cluster, dispatch, verbs>>

\* Variant: whatever did not fail counts as completed.
FinalizesLost(c) ==
  /\ job[c].kind = "end"
  /\ session' = IF session.phase \in Active
                THEN [session EXCEPT !.phase =
                        IF job[c].verdict = "failed" THEN "failed" ELSE "completed"]
                ELSE session
  /\ Rests(c)
  /\ UNCHANGED <<intent, cluster, dispatch, verbs>>

\* FinalizeAgentSession: a compare-and-set on the phase.  What follows works
\* on the row it returns: a lost sandbox is terminated at once, any other
\* after its grace, by the reap of idle sandboxes.
Finalizes(c) ==
  /\ job[c].kind = "end"
  /\ IF session.phase \in Active
     THEN /\ session' = [session EXCEPT !.phase =
                           IF job[c].verdict = "succeeded" THEN "completed" ELSE "failed"]
          /\ IF job[c].verdict = "lost" /\ session.sandbox # 0
             THEN Takes(c, "terminate", session.sandbox, 0, "none")
             ELSE Rests(c)
     ELSE Rests(c) /\ UNCHANGED session
  /\ UNCHANGED <<intent, cluster, dispatch, verbs>>

\* ListTerminalAgentSessionsWithSandbox, past the grace that teardown keeps.
ListsIdle(c) ==
  /\ job[c].kind = "idle"
  /\ session.phase \in Finished /\ session.sandbox # 0
  /\ Takes(c, "terminate", session.sandbox, 0, "none")
  /\ UNCHANGED <<session, intent, cluster, dispatch, verbs>>

Terminates(c) ==
  /\ job[c].kind = "terminate"
  /\ pod' = Terminated({job[c].turn})
  /\ Takes(c, "clear", job[c].turn, 0, "none")
  /\ UNCHANGED <<session, intent, report, dispatch, verbs>>

\* ClearAgentSessionSandbox: whatever sandbox the row names by now.
Clears(c) ==
  /\ job[c].kind = "clear"
  /\ session' = [session EXCEPT !.sandbox = 0]
  /\ Rests(c)
  /\ UNCHANGED <<intent, cluster, dispatch, verbs>>

-----------------------------------------------------------------------------
(* A Completer retries predecessors, recovers dispatches, sweeps the cluster. *)

\* reapPreviousSandboxes.
ListsPredecessor(c, t) ==
  /\ job[c].kind = "idle"
  /\ intent[t].row /\ intent[t].previous # 0
  /\ Takes(c, "reap", t, intent[t].previous, "none")
  /\ UNCHANGED <<session, intent, cluster, dispatch, verbs>>

\* recoverDispatches, which also lists the tombstones.
ListsDispatch(c, t) ==
  /\ job[c].kind = "idle"
  /\ intent[t].row
  /\ Takes(c, "recover", t, intent[t].previous, "none")
  /\ UNCHANGED <<session, intent, cluster, dispatch, verbs>>

\* ListAgentDispatchesDue files the intent of a provisioning row without one.
RepairsIntent(c) ==
  LET t == session.turns IN
  /\ job[c].kind = "idle"
  /\ session.phase \in Provisioning /\ session.sandbox = 0
  /\ ~intent[t].row
  /\ intent' = [intent EXCEPT ![t] = [NoIntent EXCEPT !.row = TRUE]]
  /\ UNCHANGED <<session, cluster, dispatch, job, verbs>>

Recovers(c) ==
  /\ job[c].kind = "recover"
  /\ Abandon(job[c].turn)
  /\ IF Abandons(job[c].turn)
     THEN Takes(c, "clean", job[c].turn, job[c].previous, "none") ELSE Rests(c)
  /\ UNCHANGED <<cluster, dispatch, verbs>>

\* Both call CleanupAgentDispatches; only the reap then forgets the handle.
Cleans(c, killed) ==
  LET matching == Matching(job[c].turn, job[c].previous) IN
  /\ job[c].kind \in {"reap", "clean"}
  /\ killed \subseteq matching
  /\ pod' = Terminated(killed)
  /\ IF killed = matching /\ job[c].kind = "reap"
     THEN Takes(c, "forget", job[c].turn, 0, "none") ELSE Rests(c)
  /\ UNCHANGED <<session, intent, report, dispatch, verbs>>

Forgets(c) ==
  /\ job[c].kind = "forget"
  /\ intent' = [intent EXCEPT ![job[c].turn] = Forgotten(@)]
  /\ Rests(c)
  /\ UNCHANGED <<session, cluster, dispatch, verbs>>

\* Variant: a live session answers for every sandbox that wears its label.
ClaimedByLabel(p) ==
  \/ session.phase \in Active
  \/ session.phase \in Finished /\ session.sandbox = p

\* classifySessionSandbox: who still answers for sandbox p.
Claimed(p) ==
  \/ session.phase \in Active /\ session.sandbox \in {0, p}
  \/ session.phase \in Finished /\ session.sandbox = p

\* ReconcileWorkspaceInventory lists the cluster and looks the session up.
FindsOrphan(c, p) ==
  /\ job[c].kind = "idle"
  /\ pod[p] = "up" /\ ~Claimed(p)
  /\ Takes(c, "sweep", p, 0, "none")
  /\ UNCHANGED <<session, intent, cluster, dispatch, verbs>>

SweepsOrphan(c) ==
  /\ job[c].kind = "sweep"
  /\ pod' = Terminated({job[c].turn})
  /\ Rests(c)
  /\ UNCHANGED <<session, intent, report, dispatch, verbs>>

\* A remote call of the pass fails, or its replica dies.
JobFails(c) ==
  /\ job[c].kind # "idle"
  /\ Rests(c)
  /\ UNCHANGED <<session, intent, cluster, dispatch, verbs>>

Completes ==
  \E c \in Completers :
    \/ ListsActive(c) \/ ReadsStatus(c) \/ Finalizes(c)
    \/ ListsIdle(c) \/ Terminates(c) \/ Clears(c)
    \/ \E t \in Turns : ListsPredecessor(c, t) \/ ListsDispatch(c, t) \/ FindsOrphan(c, t)
    \/ \E killed \in SUBSET Turns : Cleans(c, killed)
    \/ RepairsIntent(c) \/ Recovers(c) \/ Forgets(c)
    \/ SweepsOrphan(c) \/ JobFails(c)

-----------------------------------------------------------------------------
(* Users' verbs: each reads the row, calls out, and writes. *)

Rows == <<session, intent, dispatch, job>>

\* Resume checks the row it read, and marks it after its quota checks.
ResumeReads ==
  /\ "resume" \in Verbs
  /\ resume.at = "idle"
  /\ session.phase \notin {"canceled", "canceling", "deleted"}
  /\ session.sandbox # 0
  /\ resume' = [at |-> "checked", sandbox |-> 0]
  /\ UNCHANGED <<Rows, cluster, cancel, delete>>

\* SetAgentSessionLifecycle: no condition on the phase.
ResumeMarks ==
  /\ resume.at = "checked"
  /\ session.phase # "deleted"
  /\ session' = [session EXCEPT !.phase = "resuming"]
  /\ resume' = [at |-> "waking", sandbox |-> session.sandbox]
  /\ UNCHANGED <<intent, dispatch, job, cluster, cancel, delete>>

\* runResume wakes the sandbox and reads the phase (setLifecycleIfActive).
ResumeWakes ==
  /\ resume.at = "waking"
  /\ \E outcome \in {"running", "failed"} :
       /\ outcome = "running" => resume.sandbox # 0 /\ pod[resume.sandbox] = "up"
       /\ resume' = IF session.phase \in Active
                    THEN [at |-> outcome, sandbox |-> 0] ELSE NoVerb
  /\ UNCHANGED <<Rows, cluster, cancel, delete>>

ResumeSettles ==
  /\ resume.at \in {"running", "failed"}
  /\ session' = IF session.phase = "deleted" THEN session
                ELSE [session EXCEPT !.phase = resume.at]
  /\ resume' = NoVerb
  /\ UNCHANGED <<intent, dispatch, job, cluster, cancel, delete>>

\* Cancel marks whatever is not canceled yet, and takes the row's sandbox.
CancelMarks ==
  /\ "cancel" \in Verbs
  /\ cancel.at = "idle"
  /\ session.phase \notin {"canceled", "deleted"}
  /\ session' = [session EXCEPT !.phase = "canceling"]
  /\ cancel' = [at |-> "kill", sandbox |-> session.sandbox]
  /\ UNCHANGED <<intent, dispatch, job, cluster, resume, delete>>

CancelTerminates ==
  /\ cancel.at = "kill"
  /\ pod' = Terminated({cancel.sandbox})
  /\ cancel' = [cancel EXCEPT !.at = "settle"]
  /\ UNCHANGED <<Rows, report, resume, delete>>

\* SetAgentSessionCanceled.
CancelSettles ==
  /\ cancel.at = "settle"
  /\ session' = IF session.phase = "deleted" THEN session
                ELSE [session EXCEPT !.phase = "canceled"]
  /\ cancel' = NoVerb
  /\ UNCHANGED <<intent, dispatch, job, cluster, resume, delete>>

\* Delete takes a finished session's row, tears its sandbox down, and then
\* drops the row in whatever phase it is by then; the intents stay.
DeleteReads ==
  /\ "delete" \in Verbs
  /\ delete.at = "idle"
  /\ session.phase \in Finished
  /\ delete' = [at |-> "kill", sandbox |-> session.sandbox]
  /\ UNCHANGED <<Rows, cluster, resume, cancel>>

DeleteSettles ==
  /\ delete.at = "kill"
  /\ pod' = Terminated({delete.sandbox})
  /\ session' = [session EXCEPT !.phase = "deleted", !.sandbox = 0]
  /\ delete' = NoVerb
  /\ UNCHANGED <<intent, dispatch, job, report, resume, cancel>>

\* The call of a verb fails, or its replica dies.
VerbFails ==
  /\ \/ resume.at # "idle" /\ resume' = NoVerb /\ UNCHANGED <<cancel, delete>>
     \/ cancel.at # "idle" /\ cancel' = NoVerb /\ UNCHANGED <<resume, delete>>
     \/ delete.at # "idle" /\ delete' = NoVerb /\ UNCHANGED <<resume, cancel>>
  /\ UNCHANGED <<Rows, cluster>>

Users ==
  \/ Steer
  \/ ResumeReads \/ ResumeMarks \/ ResumeWakes \/ ResumeSettles
  \/ CancelMarks \/ CancelTerminates \/ CancelSettles
  \/ DeleteReads \/ DeleteSettles
  \/ VerbFails

Next ==
  \/ Users
  \/ Dispatches
  \/ Completes
  \/ \E t \in Turns : DriverReports(t) \/ SandboxVanishes(t)

Spec == Init /\ [][Next]_vars

\* Completer.Run ticks for as long as its replica runs and does every part of
\* the pass on each tick, so each part is tried again and again, and a
\* teardown tried again and again succeeds.  Nothing else is fair: dispatches
\* and verbs may die, and drivers may never report.
CleansAll(c) == Cleans(c, Matching(job[c].turn, job[c].previous))

JobEnds(c) ==
  \/ ReadsStatus(c) \/ Finalizes(c) \/ Terminates(c) \/ Clears(c) \/ Recovers(c)
  \/ CleansAll(c) \/ Forgets(c) \/ SweepsOrphan(c) \/ JobFails(c)

Fairness ==
  \A c \in Completers :
    /\ WF_vars(JobEnds(c))
    /\ \A t \in Turns :
         /\ SF_vars(ListsDispatch(c, t))
         /\ SF_vars(job[c].turn = t /\ Recovers(c))
         /\ SF_vars(FindsOrphan(c, t))
         /\ SF_vars(job[c].turn = t /\ SweepsOrphan(c))

FairSpec == Spec /\ Fairness
-----------------------------------------------------------------------------
(* Properties *)

Jobs ==
  [kind : {"idle", "status", "end", "terminate", "clear", "reap", "forget",
           "recover", "clean", "sweep"},
   turn : Handles, previous : Handles,
   verdict : {"none", "succeeded", "failed", "lost"}]

\* Every variable has its type: the row and the intents of agent_sessions and
\* agent_session_dispatches, and what dispatches, Completers and verbs hold.
TypeOK ==
  /\ session \in [phase : Active \cup Finished \cup {"canceling", "deleted"},
                  turns : Turns, sandbox : Handles]
  /\ intent \in [Turns -> [row : BOOLEAN, abandoned : BOOLEAN, previous : Handles]]
  /\ pod \in [Turns -> {"none", "up", "gone"}]
  /\ report \in [Turns -> {"none", "succeeded", "failed"}]
  /\ dispatch \in [Turns -> {"none", "predecessor", "provision", "bind", "abandon",
                             "cleanup", "late", "done"}]
  /\ job \in [Completers -> Jobs]
  /\ resume \in [at : {"idle", "checked", "waking", "running", "failed"}, sandbox : Handles]
  /\ cancel \in [at : {"idle", "kill", "settle"}, sandbox : Handles]
  /\ delete \in [at : {"idle", "kill"}, sandbox : Handles]

\* A row names no sandbox but that of its newest turn: BeginAgentSessionTurn
\* blanks the handle, and RecordAgentSessionDispatch binds its own turn only.
BoundToItsTurn == session.sandbox \in {0, session.turns}

\* Once a turn is bound, an intent of it that is left is the abandoned
\* tombstone that names a predecessor: recovery never finds work for a sandbox
\* that serves (RecordAgentSessionDispatch, AbandonAgentDispatch).
BoundIntentIsTombstone ==
  session.sandbox # 0 /\ intent[session.sandbox].row =>
    intent[session.sandbox].abandoned /\ intent[session.sandbox].previous # 0

\* While anyone cleans up after a turn it abandoned -- the dispatch that gave
\* up, or a Completer that recovered it -- no late binding has put a sandbox
\* within the cleanup's reach into the row (AbandonAgentDispatch serializes
\* against RecordAgentSessionDispatch).
AbandonedIsNeverBound ==
  \A t \in Turns :
    \/ dispatch[t] = "cleanup"
    \/ \E c \in Completers : job[c].kind = "clean" /\ t \in {job[c].turn, job[c].previous}
    => session.sandbox # t

\* A session completes on the success its own newest turn's driver reported,
\* however many Completers file reports, sandboxes are lost, and verbs run in
\* between (finalize, FinalizeAgentSession).
CompletedByItsReport ==
  [][session.phase \in Active /\ session'.phase = "completed"
     => report[session.turns] = "succeeded"]_vars

\* An intent lets go of the predecessor it names only when that sandbox is
\* gone, whichever of the steer, the reap and the recovery tore it down
\* (ClearPreviousSandboxTeardown, runSteerDispatch, reapPreviousSandboxes).
HandleKept ==
  [][\A t \in Turns : intent[t].previous # 0 /\ intent'[t].previous # intent[t].previous
       => pod'[intent[t].previous] = "gone"]_vars

\* No cleanup deletes the sandbox a live session is bound to: what
\* sandbox/agent_dispatch.go:28 says of CleanupAgentDispatches.
CleanupSparesBound ==
  [][\A t \in Turns :
       session.sandbox = t /\ session.phase \in Active /\ UNCHANGED session
         /\ pod[t] = "up" => pod'[t] = "up"]_vars

\* No turn stays provisioning for ever, whoever died over it: it is bound, or
\* recovery fails it (recoverDispatches, AbandonAgentDispatch).
ProvisioningEnds ==
  [](session.phase \in Provisioning /\ session.sandbox = 0
     => <>~(session.phase \in Provisioning /\ session.sandbox = 0))

\* The sandbox of a superseded turn is torn down in the end, whatever teardown
\* failed or died on the way (reconcileSandboxInventory, recoverDispatches).
SupersededReclaimed ==
  \A t \in Turns :
    (pod[t] = "up" /\ session.turns > t) ~> (pod[t] = "gone")
=============================================================================
