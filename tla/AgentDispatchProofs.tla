------------------------- MODULE AgentDispatchProofs -------------------------
(***************************************************************************)
(* Proofs of AgentDispatch's safety properties for any number of           *)
(* Completers and turns, any verbs, and every variant of LateReports,      *)
(* LateClears and PodLoss; only CompletionsAreReported assumes something   *)
(* of LateReports.                                                         *)
(***************************************************************************)
EXTENDS AgentDispatch, TLAPS

-----------------------------------------------------------------------------
(* The inductive invariant, in named parts. *)

Sessions == [phase : Active \cup Finished \cup {"canceling", "deleted"},
             turns : Turns, sandbox : Handles]
Intents == [row : BOOLEAN, abandoned : BOOLEAN, previous : Handles]

\* The types of the rows and of what Completers hold.
Typed ==
  /\ session \in Sessions
  /\ intent \in [Turns -> Intents]
  /\ pod \in [Turns -> {"none", "up", "gone"}]
  /\ dispatch \in [Turns -> {"none", "predecessor", "provision", "bind", "abandon",
                             "cleanup", "late", "done"}]
  /\ report \in [Turns -> {"none", "succeeded", "failed"}]
  /\ job \in [Completers -> Jobs]
  /\ \A c \in Completers : job[c].kind = "status" => job[c].turn \in Turns

\* The row names its newest turn's sandbox or none, and no turn is ahead of it.
RowInv ==
  /\ BoundToItsTurn
  /\ session.phase = "deleted" => session.sandbox = 0
  /\ \A t \in Turns : t > session.turns => intent[t] = NoIntent /\ dispatch[t] = "none"

\* An intent names an older sandbox, and none once its row is gone.
IntentInv ==
  \A t \in Turns :
    /\ ~intent[t].row => intent[t].previous = 0
    /\ intent[t].previous < t

\* A dispatch that gave up did not bind.
CleanupInv == \A t \in Turns : dispatch[t] = "cleanup" => session.sandbox # t

\* A turn a Completer cleans up after can not be bound any more: it was
\* superseded, or failed when its intent became a tombstone.
CleanInv ==
  \A c \in Completers :
    /\ job[c].kind \in {"recover", "clean", "reap", "forget"} =>
         /\ job[c].turn \in Turns /\ job[c].turn <= session.turns
         /\ job[c].previous < job[c].turn
    /\ job[c].kind = "clean" =>
         \/ session.turns > job[c].turn
         \/ session.sandbox = 0 /\ session.phase \notin Provisioning

\* A sandbox that was bound exists, or did, and no create call can bring it back.
Used(p) == p \in Turns /\ dispatch[p] = "done" /\ pod[p] # "none"

HandleInv ==
  /\ \A t \in Turns : dispatch[t] = "bind" => pod[t] # "none"
  /\ session.sandbox # 0 => Used(session.sandbox)
  /\ \A t \in Turns : intent[t].previous # 0 => Used(intent[t].previous)

\* A reap forgets the handle it tore down.
ReapInv ==
  \A c \in Completers :
    /\ job[c].kind = "reap" =>
         /\ Used(job[c].previous)
         /\ intent[job[c].turn].previous \in {0, job[c].previous}
    /\ job[c].kind = "forget" =>
         (intent[job[c].turn].previous # 0 => pod[intent[job[c].turn].previous] = "gone")

IInv == /\ Typed /\ RowInv /\ IntentInv /\ BoundIntentIsTombstone
        /\ CleanupInv /\ CleanInv /\ HandleInv /\ ReapInv

-----------------------------------------------------------------------------
(* What the operators on handles, intents, jobs and sandboxes do. *)

(* A turn names a sandbox, and 0 none. *)
LEMMA HandlesHold == 0 \in Handles /\ Turns \subseteq Handles /\ 0 \notin Turns
                   /\ \A h \in Handles : h # 0 => h \in Turns
BY MaxTurnsAssumption DEF Handles, Turns

(* Settling and forgetting an intent. *)
LEMMA IntentTyped ==
  ASSUME NEW i \in Intents
  PROVE  /\ Settled(i) \in Intents
         /\ Forgotten(i) \in Intents
         /\ NoIntent \in Intents
         /\ [i EXCEPT !.abandoned = TRUE] \in Intents
<1>1. FALSE \in BOOLEAN /\ TRUE \in BOOLEAN
  OBVIOUS
<1>2. NoIntent \in Intents
  BY <1>1, HandlesHold DEF NoIntent, Intents
<1>3. [i EXCEPT !.abandoned = TRUE] \in Intents
  BY <1>1 DEF Intents
<1>4. [i EXCEPT !.previous = 0] \in Intents
  BY HandlesHold DEF Intents
<1>. QED BY <1>2, <1>3, <1>4 DEF Settled, Forgotten

\* Completer c goes on to a job of this kind.
JobAt(c, kind) ==
  /\ job' \in [Completers -> Jobs]
  /\ job'[c].kind = kind
  /\ \A d \in Completers : d # c => job'[d] = job[d]

(* A Completer takes a job. *)
LEMMA TakesJob ==
  ASSUME Typed, NEW c \in Completers,
         NEW kind \in {"idle", "status", "end", "terminate", "clear", "reap", "forget",
                       "recover", "clean", "sweep"},
         NEW turn \in Handles, NEW previous \in Handles,
         NEW verdict \in {"none", "succeeded", "failed", "lost"},
         Takes(c, kind, turn, previous, verdict)
  PROVE  JobAt(c, kind) /\ job'[c].turn = turn /\ job'[c].previous = previous
BY DEF Takes, JobAt, Typed, Jobs

(* A Completer rests. *)
LEMMA RestsJob ==
  ASSUME Typed, NEW c \in Completers, Rests(c)
  PROVE  JobAt(c, "idle")
BY HandlesHold DEF Rests, Idle, JobAt, Typed, Jobs

(* Terminated sandboxes are gone, the others as they were. *)
LEMMA TerminatedPods ==
  ASSUME Typed, NEW killed, pod' = Terminated(killed)
  PROVE  /\ pod' \in [Turns -> {"none", "up", "gone"}]
         /\ \A p \in Turns : pod'[p] = pod[p] \/ pod'[p] = "gone"
         /\ \A p \in killed \cap Turns : pod'[p] = "gone"
BY DEF Terminated, Typed

-----------------------------------------------------------------------------
(* Steps that touch neither intents nor dispatches. *)

\* A job of Completer c that has nothing to do with an intent.
Plain(c) ==
  /\ job'[c].kind \notin {"recover", "clean", "reap", "forget"}
  /\ job'[c].kind = "status" => job'[c].turn \in Turns

\* The turn stays, its sandbox may go; sandboxes may be terminated, and no
\* Completer takes an intent up.
Quiet ==
  /\ Typed'
  /\ UNCHANGED <<intent, dispatch>>
  /\ session'.turns = session.turns
  /\ session'.sandbox \in {0, session.sandbox}
  /\ session'.phase = session.phase \/ session'.phase \notin Provisioning
  /\ session'.phase = "deleted" => session'.sandbox = 0
  /\ \A p \in Turns : pod'[p] = pod[p] \/ pod'[p] = "gone"
  /\ \A c \in Completers : job'[c] = job[c] \/ Plain(c)

(* Reconcile's listing takes a status job for the sandbox the row names. *)
LEMMA ListsActiveQuiet ==
  ASSUME Typed, RowInv, NEW c \in Completers, ListsActive(c)
  PROVE  Quiet
<1>1. UNCHANGED <<intent, dispatch, report>> /\ UNCHANGED session /\ UNCHANGED pod
  BY DEF ListsActive, cluster, verbs
<1>2. job' \in [Completers -> Jobs]
      /\ \A d \in Completers : job'[d] = job[d] \/ Plain(d)
  BY HandlesHold, TakesJob DEF ListsActive, JobAt, Plain, Typed, Sessions
<1>. QED BY <1>1, <1>2 DEF Quiet, Typed, RowInv, Plain

(* Reading a status file touches only the job. *)
LEMMA ReadsStatusQuiet ==
  ASSUME Typed, RowInv, NEW c \in Completers, ReadsStatus(c)
  PROVE  Quiet
<1>1. UNCHANGED <<intent, dispatch, report>> /\ UNCHANGED session /\ UNCHANGED pod
  BY DEF ReadsStatus, cluster, verbs
<1>2. job' \in [Completers -> Jobs]
      /\ \A d \in Completers : job'[d] = job[d] \/ Plain(d)
  <2>1. CASE Rests(c)
    BY <2>1, RestsJob DEF JobAt, Plain
  <2>2. job[c].turn \in Handles /\ 0 \in Handles /\ report[job[c].turn] \in {"none", "succeeded", "failed"}
    BY HandlesHold DEF ReadsStatus, Typed, Jobs
  <2>3. CASE Takes(c, "end", job[c].turn, 0, report[job[c].turn]) /\ report[job[c].turn] # "none"
    BY <2>2, <2>3, TakesJob DEF JobAt, Plain
  <2>4. CASE Takes(c, "end", job[c].turn, 0, "lost")
    BY <2>2, <2>4, TakesJob DEF JobAt, Plain
  <2>. QED BY <2>1, <2>3, <2>4 DEF ReadsStatus
<1>. QED BY <1>1, <1>2 DEF Quiet, Typed, RowInv, Plain

(* FinalizeAgentSession moves an active row to completed or failed. *)
LEMMA FinalizesQuiet ==
  ASSUME Typed, RowInv, NEW c \in Completers, Finalizes(c)
  PROVE  Quiet
<1>1. UNCHANGED <<intent, dispatch, report>> /\ UNCHANGED pod
  BY DEF Finalizes, cluster, verbs
<1>2. job' \in [Completers -> Jobs]
      /\ \A d \in Completers : job'[d] = job[d] \/ Plain(d)
  <2>1. CASE Rests(c)
    BY <2>1, RestsJob DEF JobAt, Plain
  <2>2. CASE Takes(c, "terminate", session.sandbox, 0, "none")
    BY <2>2, HandlesHold, TakesJob DEF JobAt, Plain, Typed, Sessions
  <2>. QED BY <2>1, <2>2 DEF Finalizes
<1>3. /\ session' \in Sessions /\ session'.turns = session.turns
      /\ session'.sandbox \in {0, session.sandbox}
      /\ session'.phase = session.phase \/ session'.phase \notin Provisioning
      /\ session'.phase = "deleted" => session'.sandbox = 0
  BY HandlesHold DEF Finalizes, Typed, RowInv, Sessions, Active, Finished, Provisioning
<1>. QED BY <1>1, <1>2, <1>3 DEF Quiet, Typed, RowInv, Plain

(* Listing idle sandboxes takes a terminate job. *)
LEMMA ListsIdleQuiet ==
  ASSUME Typed, RowInv, NEW c \in Completers, ListsIdle(c)
  PROVE  Quiet
<1>1. UNCHANGED <<intent, dispatch, report>> /\ UNCHANGED session /\ UNCHANGED pod
  BY DEF ListsIdle, cluster, verbs
<1>2. job' \in [Completers -> Jobs]
      /\ \A d \in Completers : job'[d] = job[d] \/ Plain(d)
  BY HandlesHold, TakesJob DEF ListsIdle, JobAt, Plain, Typed, Sessions
<1>. QED BY <1>1, <1>2 DEF Quiet, Typed, RowInv, Plain

(* Terminating an idle sandbox leaves rows and intents alone. *)
LEMMA TerminatesQuiet ==
  ASSUME Typed, RowInv, NEW c \in Completers, Terminates(c)
  PROVE  Quiet
<1>1. UNCHANGED <<intent, dispatch, report>> /\ UNCHANGED session
  BY DEF Terminates, verbs
<1>2. job' \in [Completers -> Jobs]
      /\ \A d \in Completers : job'[d] = job[d] \/ Plain(d)
  <2>1. Takes(c, "clear", job[c].turn, 0, "none") /\ job[c].turn \in Handles
    BY DEF Terminates, Typed, Jobs
  <2>2. JobAt(c, "clear")
    BY HandlesHold, <2>1, TakesJob
  <2>. QED BY <2>2 DEF JobAt, Plain, Typed
<1>3. pod' \in [Turns -> {"none", "up", "gone"}] /\ \A p \in Turns : pod'[p] = pod[p] \/ pod'[p] = "gone"
  BY TerminatedPods DEF Terminates
<1>. QED BY <1>1, <1>2, <1>3 DEF Quiet, Typed, RowInv, Plain

(* ClearAgentSessionSandbox blanks the row's sandbox. *)
LEMMA ClearsQuiet ==
  ASSUME Typed, RowInv, NEW c \in Completers, Clears(c)
  PROVE  Quiet
<1>1. UNCHANGED <<intent, dispatch, report>> /\ UNCHANGED pod
  BY DEF Clears, cluster, verbs
<1>2. job' \in [Completers -> Jobs]
      /\ \A d \in Completers : job'[d] = job[d] \/ Plain(d)
  BY RestsJob DEF Clears, JobAt, Plain
<1>3. /\ session' \in Sessions /\ session'.turns = session.turns
      /\ session'.sandbox \in {0, session.sandbox}
      /\ session'.phase = session.phase \/ session'.phase \notin Provisioning
      /\ session'.phase = "deleted" => session'.sandbox = 0
  BY HandlesHold DEF Clears, Typed, RowInv, Sessions, Active, Finished, Provisioning
<1>. QED BY <1>1, <1>2, <1>3 DEF Quiet, Typed, RowInv, Plain

(* The inventory sweep takes the job of terminating an orphan. *)
LEMMA FindsOrphanQuiet ==
  ASSUME Typed, RowInv, NEW c \in Completers, NEW t \in Turns, FindsOrphan(c, t)
  PROVE  Quiet
<1>1. UNCHANGED <<intent, dispatch, report>> /\ UNCHANGED session /\ UNCHANGED pod
  BY DEF FindsOrphan, cluster, verbs
<1>2. job' \in [Completers -> Jobs]
      /\ \A d \in Completers : job'[d] = job[d] \/ Plain(d)
  BY HandlesHold, TakesJob DEF FindsOrphan, JobAt, Plain, Typed, Sessions
<1>. QED BY <1>1, <1>2 DEF Quiet, Typed, RowInv, Plain

(* Terminating an orphan leaves rows and intents alone. *)
LEMMA SweepsOrphanQuiet ==
  ASSUME Typed, RowInv, NEW c \in Completers, SweepsOrphan(c)
  PROVE  Quiet
<1>1. UNCHANGED <<intent, dispatch, report>> /\ UNCHANGED session
  BY DEF SweepsOrphan, verbs
<1>2. job' \in [Completers -> Jobs]
      /\ \A d \in Completers : job'[d] = job[d] \/ Plain(d)
  BY RestsJob DEF SweepsOrphan, JobAt, Plain
<1>3. pod' \in [Turns -> {"none", "up", "gone"}] /\ \A p \in Turns : pod'[p] = pod[p] \/ pod'[p] = "gone"
  BY TerminatedPods DEF SweepsOrphan
<1>. QED BY <1>1, <1>2, <1>3 DEF Quiet, Typed, RowInv, Plain

(* A failed job is dropped. *)
LEMMA JobFailsQuiet ==
  ASSUME Typed, RowInv, NEW c \in Completers, JobFails(c)
  PROVE  Quiet
<1>1. UNCHANGED <<intent, dispatch, report>> /\ UNCHANGED session /\ UNCHANGED pod
  BY DEF JobFails, cluster, verbs
<1>2. job' \in [Completers -> Jobs]
      /\ \A d \in Completers : job'[d] = job[d] \/ Plain(d)
  BY RestsJob DEF JobFails, JobAt, Plain
<1>. QED BY <1>1, <1>2 DEF Quiet, Typed, RowInv, Plain

(* Resume reads the row. *)
LEMMA ResumeReadsQuiet ==
  ASSUME Typed, RowInv, ResumeReads
  PROVE  Quiet
<1>1. UNCHANGED <<intent, dispatch, report>> /\ UNCHANGED session /\ UNCHANGED pod /\ UNCHANGED job
  BY DEF ResumeReads, cluster, Rows
<1>. QED BY <1>1 DEF Quiet, Typed, RowInv, Plain

(* SetAgentSessionLifecycle marks the row resuming. *)
LEMMA ResumeMarksQuiet ==
  ASSUME Typed, RowInv, ResumeMarks
  PROVE  Quiet
<1>1. UNCHANGED <<intent, dispatch, report>> /\ UNCHANGED pod /\ UNCHANGED job
  BY DEF ResumeMarks, cluster
<1>2. /\ session' \in Sessions /\ session'.turns = session.turns
      /\ session'.sandbox \in {0, session.sandbox}
      /\ session'.phase = session.phase \/ session'.phase \notin Provisioning
      /\ session'.phase = "deleted" => session'.sandbox = 0
  BY HandlesHold DEF ResumeMarks, Typed, RowInv, Sessions, Active, Finished, Provisioning
<1>. QED BY <1>1, <1>2 DEF Quiet, Typed, RowInv, Plain

(* runResume wakes the sandbox and reads the phase. *)
LEMMA ResumeWakesQuiet ==
  ASSUME Typed, RowInv, ResumeWakes
  PROVE  Quiet
<1>1. UNCHANGED <<intent, dispatch, report>> /\ UNCHANGED session /\ UNCHANGED pod /\ UNCHANGED job
  BY DEF ResumeWakes, cluster, Rows
<1>. QED BY <1>1 DEF Quiet, Typed, RowInv, Plain

(* setLifecycleIfActive settles the row running or failed. *)
LEMMA ResumeSettlesQuiet ==
  ASSUME Typed, RowInv, ResumeSettles
  PROVE  Quiet
<1>1. UNCHANGED <<intent, dispatch, report>> /\ UNCHANGED pod /\ UNCHANGED job
  BY DEF ResumeSettles, cluster
<1>2. /\ session' \in Sessions /\ session'.turns = session.turns
      /\ session'.sandbox \in {0, session.sandbox}
      /\ session'.phase = session.phase \/ session'.phase \notin Provisioning
      /\ session'.phase = "deleted" => session'.sandbox = 0
  BY HandlesHold DEF ResumeSettles, Typed, RowInv, Sessions, Active, Finished, Provisioning
<1>. QED BY <1>1, <1>2 DEF Quiet, Typed, RowInv, Plain

(* Cancel marks the row canceling. *)
LEMMA CancelMarksQuiet ==
  ASSUME Typed, RowInv, CancelMarks
  PROVE  Quiet
<1>1. UNCHANGED <<intent, dispatch, report>> /\ UNCHANGED pod /\ UNCHANGED job
  BY DEF CancelMarks, cluster
<1>2. /\ session' \in Sessions /\ session'.turns = session.turns
      /\ session'.sandbox \in {0, session.sandbox}
      /\ session'.phase = session.phase \/ session'.phase \notin Provisioning
      /\ session'.phase = "deleted" => session'.sandbox = 0
  BY HandlesHold DEF CancelMarks, Typed, RowInv, Sessions, Active, Finished, Provisioning
<1>. QED BY <1>1, <1>2 DEF Quiet, Typed, RowInv, Plain

(* Cancel terminates the sandbox it read. *)
LEMMA CancelTerminatesQuiet ==
  ASSUME Typed, RowInv, CancelTerminates
  PROVE  Quiet
<1>1. UNCHANGED <<intent, dispatch, report>> /\ UNCHANGED session /\ UNCHANGED job
  BY DEF CancelTerminates, Rows
<1>2. pod' \in [Turns -> {"none", "up", "gone"}] /\ \A p \in Turns : pod'[p] = pod[p] \/ pod'[p] = "gone"
  BY TerminatedPods DEF CancelTerminates
<1>. QED BY <1>1, <1>2 DEF Quiet, Typed, RowInv, Plain

(* SetAgentSessionCanceled settles the row. *)
LEMMA CancelSettlesQuiet ==
  ASSUME Typed, RowInv, CancelSettles
  PROVE  Quiet
<1>1. UNCHANGED <<intent, dispatch, report>> /\ UNCHANGED pod /\ UNCHANGED job
  BY DEF CancelSettles, cluster
<1>2. /\ session' \in Sessions /\ session'.turns = session.turns
      /\ session'.sandbox \in {0, session.sandbox}
      /\ session'.phase = session.phase \/ session'.phase \notin Provisioning
      /\ session'.phase = "deleted" => session'.sandbox = 0
  BY HandlesHold DEF CancelSettles, Typed, RowInv, Sessions, Active, Finished, Provisioning
<1>. QED BY <1>1, <1>2 DEF Quiet, Typed, RowInv, Plain

(* Delete reads the row. *)
LEMMA DeleteReadsQuiet ==
  ASSUME Typed, RowInv, DeleteReads
  PROVE  Quiet
<1>1. UNCHANGED <<intent, dispatch, report>> /\ UNCHANGED session /\ UNCHANGED pod /\ UNCHANGED job
  BY DEF DeleteReads, cluster, Rows
<1>. QED BY <1>1 DEF Quiet, Typed, RowInv, Plain

(* Delete terminates the sandbox it read and drops the row. *)
LEMMA DeleteSettlesQuiet ==
  ASSUME Typed, RowInv, DeleteSettles
  PROVE  Quiet
<1>1. UNCHANGED <<intent, dispatch, report>> /\ UNCHANGED job
  BY DEF DeleteSettles
<1>2. /\ session' \in Sessions /\ session'.turns = session.turns
      /\ session'.sandbox \in {0, session.sandbox}
      /\ session'.phase = session.phase \/ session'.phase \notin Provisioning
      /\ session'.phase = "deleted" => session'.sandbox = 0
  BY HandlesHold DEF DeleteSettles, Typed, RowInv, Sessions, Active, Finished, Provisioning
<1>3. pod' \in [Turns -> {"none", "up", "gone"}] /\ \A p \in Turns : pod'[p] = pod[p] \/ pod'[p] = "gone"
  BY TerminatedPods DEF DeleteSettles
<1>. QED BY <1>1, <1>2, <1>3 DEF Quiet, Typed, RowInv, Plain

(* A verb that fails is dropped. *)
LEMMA VerbFailsQuiet ==
  ASSUME Typed, RowInv, VerbFails
  PROVE  Quiet
<1>1. UNCHANGED <<intent, dispatch, report>> /\ UNCHANGED session /\ UNCHANGED pod /\ UNCHANGED job
  BY DEF VerbFails, cluster, Rows
<1>. QED BY <1>1 DEF Quiet, Typed, RowInv, Plain

(* A driver writes its report. *)
LEMMA DriverReportsQuiet ==
  ASSUME Typed, RowInv, NEW t \in Turns, DriverReports(t)
  PROVE  Quiet
<1>1. UNCHANGED <<intent, dispatch>> /\ UNCHANGED session /\ UNCHANGED pod /\ UNCHANGED job
  BY DEF DriverReports, verbs
<1>2. report' \in [Turns -> {"none", "succeeded", "failed"}]
  BY DEF DriverReports, Typed
<1>. QED BY <1>1, <1>2 DEF Quiet, Typed, RowInv, Plain

(* A sandbox goes by itself. *)
LEMMA SandboxVanishesQuiet ==
  ASSUME Typed, RowInv, NEW t \in Turns, SandboxVanishes(t)
  PROVE  Quiet
<1>1. UNCHANGED <<intent, dispatch, report>> /\ UNCHANGED session /\ UNCHANGED job
  BY DEF SandboxVanishes, verbs
<1>2. pod' \in [Turns -> {"none", "up", "gone"}] /\ \A p \in Turns : pod'[p] = pod[p] \/ pod'[p] = "gone"
  BY DEF SandboxVanishes, Typed
<1>. QED BY <1>1, <1>2 DEF Quiet, Typed, RowInv, Plain

-----------------------------------------------------------------------------
(* Steps of a dispatch that touch neither the row nor its intents. *)

\* The dispatch of turn t goes on; it may create its sandbox before it binds.
Dispatching(t) ==
  /\ Typed'
  /\ UNCHANGED <<session, intent, job>>
  /\ dispatch[t] \notin {"none", "done"} /\ dispatch'[t] \notin {"none", "cleanup"}
  /\ \A q \in Turns : q # t => dispatch'[q] = dispatch[q]
  /\ \A q \in Turns : \/ pod'[q] = pod[q] \/ pod'[q] = "gone"
                      \/ q = t /\ pod'[q] = "up"
  /\ dispatch'[t] = "bind" => pod'[t] = "up"

(* Provisioning a sandbox leaves the row and the intents alone. *)
LEMMA ProvisionsDispatching ==
  ASSUME Typed, NEW t \in Turns, Provisions(t)
  PROVE  Dispatching(t)
<1>1. UNCHANGED <<session, intent, report, job>>
  BY DEF Provisions
<1>2. /\ dispatch' \in [Turns -> {"none", "predecessor", "provision", "bind", "abandon",
                                  "cleanup", "late", "done"}]
      /\ dispatch[t] \notin {"none", "done"} /\ dispatch'[t] \notin {"none", "cleanup"}
      /\ \A q \in Turns : q # t => dispatch'[q] = dispatch[q]
  BY DEF Provisions, DispatchGoes, Typed
<1>3. /\ pod' \in [Turns -> {"none", "up", "gone"}]
      /\ \A q \in Turns : \/ pod'[q] = pod[q] \/ pod'[q] = "gone"
                          \/ q = t /\ pod'[q] = "up"
      /\ dispatch'[t] = "bind" => pod'[t] = "up"
  BY TerminatedPods DEF Provisions, DispatchGoes, Typed
<1>. QED BY <1>1, <1>2, <1>3 DEF Dispatching, Typed

(* A refused binding leaves the row and the intents alone. *)
LEMMA BindFailsDispatching ==
  ASSUME Typed, NEW t \in Turns, BindFails(t)
  PROVE  Dispatching(t)
<1>1. UNCHANGED <<session, intent, report, job>>
  BY DEF BindFails, cluster
<1>2. /\ dispatch' \in [Turns -> {"none", "predecessor", "provision", "bind", "abandon",
                                  "cleanup", "late", "done"}]
      /\ dispatch[t] \notin {"none", "done"} /\ dispatch'[t] \notin {"none", "cleanup"}
      /\ \A q \in Turns : q # t => dispatch'[q] = dispatch[q]
  BY DEF BindFails, DispatchGoes, Typed
<1>3. /\ pod' \in [Turns -> {"none", "up", "gone"}]
      /\ \A q \in Turns : \/ pod'[q] = pod[q] \/ pod'[q] = "gone"
                          \/ q = t /\ pod'[q] = "up"
      /\ dispatch'[t] = "bind" => pod'[t] = "up"
  BY TerminatedPods DEF BindFails, DispatchGoes, Typed, cluster
<1>. QED BY <1>1, <1>2, <1>3 DEF Dispatching, Typed

(* Cleaning up after an abandoned turn terminates its own sandbox only. *)
LEMMA CleansUpDispatching ==
  ASSUME Typed, NEW t \in Turns, CleansUp(t)
  PROVE  Dispatching(t)
<1>1. UNCHANGED <<session, intent, report, job>>
  BY DEF CleansUp
<1>2. /\ dispatch' \in [Turns -> {"none", "predecessor", "provision", "bind", "abandon",
                                  "cleanup", "late", "done"}]
      /\ dispatch[t] \notin {"none", "done"} /\ dispatch'[t] \notin {"none", "cleanup"}
      /\ \A q \in Turns : q # t => dispatch'[q] = dispatch[q]
  BY DEF CleansUp, DispatchGoes, Typed
<1>3. /\ pod' \in [Turns -> {"none", "up", "gone"}]
      /\ \A q \in Turns : \/ pod'[q] = pod[q] \/ pod'[q] = "gone"
                          \/ q = t /\ pod'[q] = "up"
      /\ dispatch'[t] = "bind" => pod'[t] = "up"
  BY TerminatedPods DEF CleansUp, DispatchGoes, Typed
<1>. QED BY <1>1, <1>2, <1>3 DEF Dispatching, Typed

(* A dispatch that dies leaves the row and the intents alone. *)
LEMMA DispatchDiesDispatching ==
  ASSUME Typed, NEW t \in Turns, DispatchDies(t)
  PROVE  Dispatching(t)
<1>1. UNCHANGED <<session, intent, report, job>>
  BY DEF DispatchDies, cluster
<1>2. /\ dispatch' \in [Turns -> {"none", "predecessor", "provision", "bind", "abandon",
                                  "cleanup", "late", "done"}]
      /\ dispatch[t] \notin {"none", "done"} /\ dispatch'[t] \notin {"none", "cleanup"}
      /\ \A q \in Turns : q # t => dispatch'[q] = dispatch[q]
  BY DEF DispatchDies, DispatchGoes, Typed
<1>3. /\ pod' \in [Turns -> {"none", "up", "gone"}]
      /\ \A q \in Turns : \/ pod'[q] = pod[q] \/ pod'[q] = "gone"
                          \/ q = t /\ pod'[q] = "up"
      /\ dispatch'[t] = "bind" => pod'[t] = "up"
  BY TerminatedPods DEF DispatchDies, DispatchGoes, Typed, cluster
<1>. QED BY <1>1, <1>2, <1>3 DEF Dispatching, Typed

(* A create call that lands late brings the turn's own sandbox up. *)
LEMMA LateSandboxDispatching ==
  ASSUME Typed, NEW t \in Turns, LateSandbox(t)
  PROVE  Dispatching(t)
<1>1. UNCHANGED <<session, intent, report, job>>
  BY DEF LateSandbox
<1>2. /\ dispatch' \in [Turns -> {"none", "predecessor", "provision", "bind", "abandon",
                                  "cleanup", "late", "done"}]
      /\ dispatch[t] \notin {"none", "done"} /\ dispatch'[t] \notin {"none", "cleanup"}
      /\ \A q \in Turns : q # t => dispatch'[q] = dispatch[q]
  BY DEF LateSandbox, DispatchGoes, Typed
<1>3. /\ pod' \in [Turns -> {"none", "up", "gone"}]
      /\ \A q \in Turns : \/ pod'[q] = pod[q] \/ pod'[q] = "gone"
                          \/ q = t /\ pod'[q] = "up"
      /\ dispatch'[t] = "bind" => pod'[t] = "up"
  BY TerminatedPods DEF LateSandbox, DispatchGoes, Typed
<1>. QED BY <1>1, <1>2, <1>3 DEF Dispatching, Typed

-----------------------------------------------------------------------------
(* Every step keeps the invariant, and lets go of torn down handles only. *)

\* What HandleKept says of a step.
HandlesHeld ==
  \A t \in Turns : intent[t].previous # 0 /\ intent'[t].previous # intent[t].previous
    => pod'[intent[t].previous] = "gone"

(* Settling an intent keeps the handle of a filed one, forgetting drops it. *)
LEMMA IntentFields ==
  ASSUME NEW i \in Intents
  PROVE  /\ i.row /\ i.previous # 0 =>
              Settled(i).row /\ Settled(i).abandoned /\ Settled(i).previous = i.previous
         /\ ~(i.row /\ i.previous # 0) => Settled(i) = NoIntent
         /\ Forgotten(i).previous = 0
         /\ Forgotten(i).row => i.row
         /\ i.previous = 0 => Forgotten(i) = i
         /\ i.previous # 0 /\ i.abandoned => Forgotten(i) = NoIntent
         /\ i.previous # 0 /\ ~i.abandoned => Forgotten(i).abandoned = i.abandoned
         /\ NoIntent.previous = 0 /\ ~NoIntent.row
BY DEF Settled, Forgotten, NoIntent, Intents

(* Abandoning a turn keeps the handle, and settles whether it was bound. *)
LEMMA AbandonRows ==
  ASSUME Typed, RowInv, IntentInv, BoundIntentIsTombstone,
         NEW t \in Turns, Abandon(t)
  PROVE  /\ session' \in Sessions /\ intent' \in [Turns -> Intents]
         /\ session'.turns = session.turns /\ session'.sandbox = session.sandbox
         /\ \/ session'.phase = session.phase
            \/ session'.phase = "failed"
         /\ \A q \in Turns : q # t => intent'[q] = intent[q]
         /\ intent'[t].previous = intent[t].previous
         /\ ~intent'[t].row => intent'[t].previous = 0
         /\ session.sandbox = t /\ intent'[t].row => intent'[t].abandoned /\ intent'[t].previous # 0
         /\ Abandons(t) =>
              /\ session.sandbox # t
              /\ session.turns = t => session.sandbox = 0 /\ session'.phase \notin Provisioning
<1>1. intent[t] \in Intents /\ (session.sandbox = t => session.turns = t)
  BY HandlesHold DEF Typed, RowInv, BoundToItsTurn
<1>2. CASE Bound(t)
  <2>1. intent' = [intent EXCEPT ![t] = Settled(intent[t])] /\ session' = session /\ ~Abandons(t)
    BY <1>2 DEF Abandon, Abandons
  <2>2. Settled(intent[t]) \in Intents
    BY <1>1, IntentTyped
  <2>3. Settled(intent[t]).previous = intent[t].previous
        /\ (Settled(intent[t]).row => Settled(intent[t]).abandoned /\ Settled(intent[t]).previous # 0)
        /\ (~Settled(intent[t]).row => Settled(intent[t]).previous = 0)
    BY <1>1, IntentFields DEF IntentInv
  <2>. QED BY <2>1, <2>2, <2>3 DEF Typed
<1>3. CASE ~Bound(t)
  <2> DEFINE new == [intent[t] EXCEPT !.abandoned = intent[t].row]
  <2>1. intent' = [intent EXCEPT ![t] = new]
    BY <1>3 DEF Abandon, Typed
  <2>2. new \in Intents /\ new.previous = intent[t].previous /\ (new.row <=> intent[t].row)
    BY <1>1 DEF Intents
  <2>3. \/ session' = session
        \/ session.sandbox = 0 /\ session' = [session EXCEPT !.phase = "failed"]
    BY <1>3 DEF Abandon
  <2>4. session' \in Sessions
        /\ session'.turns = session.turns /\ session'.sandbox = session.sandbox
        /\ (session'.phase = session.phase \/ session'.phase = "failed")
    BY <2>3 DEF Typed, Sessions, Finished
  <2>5. session.sandbox # t
    BY <1>1, <1>3, HandlesHold DEF Bound, RowInv
  <2>6. Abandons(t) /\ session.turns = t => session.sandbox = 0
    BY <1>3 DEF Bound, RowInv
  <2>7. Abandons(t) /\ session.turns = t /\ session.phase \in Provisioning =>
          session'.phase = "failed"
    BY <1>3, <2>6 DEF Abandon, Abandons, Typed, Sessions
  <2>8. "failed" \notin Provisioning
    BY DEF Provisioning
  <2> HIDE DEF new
  <2>. QED BY <2>1, <2>2, <2>4, <2>5, <2>6, <2>7, <2>8 DEF Typed, IntentInv
<1>. QED BY <1>2, <1>3

(* Steps that touch neither intents nor dispatches keep the invariant. *)
LEMMA QuietStep ==
  ASSUME IInv, Quiet
  PROVE  IInv' /\ HandlesHeld
<1> USE DEF IInv
<1>1. Typed' /\ UNCHANGED <<intent, dispatch>>
      /\ session'.turns = session.turns
      /\ session'.sandbox \in {0, session.sandbox}
      /\ (session'.phase = session.phase \/ session'.phase \notin Provisioning)
      /\ (session'.phase = "deleted" => session'.sandbox = 0)
  BY DEF Quiet
<1>2. \A p \in Turns : pod'[p] = pod[p] \/ pod'[p] = "gone"
  BY DEF Quiet
<1>3. \A c \in Completers : job'[c] = job[c] \/ job'[c].kind \notin {"recover", "clean", "reap", "forget"}
  BY DEF Quiet, Plain
<1>4. \A p \in Turns : Used(p) => Used(p)'
  BY <1>1, <1>2 DEF Used
<1>5. RowInv'
  BY <1>1, <1>2, <1>3, <1>4 DEF RowInv, BoundToItsTurn
<1>6. IntentInv'
  BY <1>1, <1>2, <1>3, <1>4 DEF IntentInv, Typed
<1>7. BoundIntentIsTombstone'
  BY <1>1, <1>2, <1>3, <1>4 DEF BoundIntentIsTombstone, Typed, Sessions
<1>8. CleanupInv'
  BY <1>1, <1>2, <1>3, <1>4, HandlesHold DEF CleanupInv, Typed
<1>9. CleanInv'
  BY <1>1, <1>2, <1>3, <1>4 DEF CleanInv, Typed
<1>10. HandleInv'
  BY <1>1, <1>2, <1>3, <1>4 DEF HandleInv, Used, Typed, Intents, Sessions
<1>11. ReapInv'
  <2>1. ASSUME NEW c \in Completers, (job[c].kind = "reap")'
        PROVE  (/\ Used(job[c].previous)
                /\ intent[job[c].turn].previous \in {0, job[c].previous})'
    <3>1. job'[c] = job[c]
      BY <2>1, <1>3
    <3>2. Used(job[c].previous) /\ intent[job[c].turn].previous \in {0, job[c].previous}
      BY <2>1, <3>1 DEF ReapInv
    <3>. QED BY <3>1, <3>2, <1>1, <1>4 DEF Used
  <2>2. ASSUME NEW c \in Completers, (job[c].kind = "forget")', (intent[job[c].turn].previous # 0)'
        PROVE  (pod[intent[job[c].turn].previous] = "gone")'
    <3>1. job'[c] = job[c]
      BY <2>2, <1>3
    <3>2. Used(intent[job[c].turn].previous) /\ pod[intent[job[c].turn].previous] = "gone"
      BY <2>2, <3>1, <1>1 DEF CleanInv, HandleInv, ReapInv
    <3>. QED BY <3>1, <3>2, <1>1, <1>2, <1>4 DEF Used
  <2>. QED BY <2>1, <2>2 DEF ReapInv
<1>12. HandlesHeld
  BY <1>1, <1>2, <1>3, <1>4 DEF HandlesHeld
<1>. QED BY <1>1, <1>2, <1>3, <1>4, <1>5, <1>6, <1>7, <1>8, <1>9, <1>10, <1>11, <1>12

(* Steps of a dispatch short of binding keep the invariant. *)
LEMMA DispatchingStep ==
  ASSUME IInv, NEW t \in Turns, Dispatching(t)
  PROVE  IInv' /\ HandlesHeld
<1> USE DEF IInv
<1>1. Typed' /\ UNCHANGED <<session, intent, job>>
      /\ dispatch[t] \notin {"none", "done"} /\ dispatch'[t] \notin {"none", "cleanup"}
      /\ \A q \in Turns : q # t => dispatch'[q] = dispatch[q]
  BY DEF Dispatching
<1>2. /\ \A q \in Turns : q # t => pod'[q] = pod[q] \/ pod'[q] = "gone"
      /\ pod'[t] = pod[t] \/ pod'[t] \in {"up", "gone"}
      /\ dispatch'[t] = "bind" => pod'[t] = "up"
  BY DEF Dispatching
<1>3. \A p \in Turns : Used(p) => p # t /\ Used(p)'
  BY <1>1, <1>2 DEF Used
<1>4. RowInv'
  BY <1>1, <1>2, <1>3 DEF RowInv, BoundToItsTurn
<1>5. IntentInv'
  BY <1>1, <1>2, <1>3 DEF IntentInv, Typed
<1>6. BoundIntentIsTombstone'
  BY <1>1, <1>2, <1>3 DEF BoundIntentIsTombstone, Typed
<1>7. CleanupInv'
  BY <1>1, <1>2, <1>3 DEF CleanupInv, Typed
<1>8. CleanInv'
  BY <1>1, <1>2, <1>3 DEF CleanInv, Typed
<1>9. HandleInv'
  BY <1>1, <1>2, <1>3 DEF HandleInv, Used
<1>10. ReapInv'
  <2>1. ASSUME NEW c \in Completers, (job[c].kind = "reap")'
        PROVE  (/\ Used(job[c].previous)
                /\ intent[job[c].turn].previous \in {0, job[c].previous})'
    <3>1. job'[c] = job[c]
      BY <2>1, <1>1
    <3>2. Used(job[c].previous) /\ intent[job[c].turn].previous \in {0, job[c].previous}
      BY <2>1, <3>1 DEF ReapInv
    <3>. QED BY <3>1, <3>2, <1>1, <1>3 DEF Used
  <2>2. ASSUME NEW c \in Completers, (job[c].kind = "forget")', (intent[job[c].turn].previous # 0)'
        PROVE  (pod[intent[job[c].turn].previous] = "gone")'
    <3>1. job'[c] = job[c]
      BY <2>2, <1>1
    <3>2. Used(intent[job[c].turn].previous) /\ pod[intent[job[c].turn].previous] = "gone"
      BY <2>2, <3>1, <1>1 DEF CleanInv, HandleInv, ReapInv
    <3>. QED BY <3>1, <3>2, <1>1, <1>2, <1>3 DEF Used
  <2>. QED BY <2>1, <2>2 DEF ReapInv
<1>11. HandlesHeld
  BY <1>1, <1>2, <1>3 DEF HandlesHeld
<1>. QED BY <1>1, <1>2, <1>3, <1>4, <1>5, <1>6, <1>7, <1>8, <1>9, <1>10, <1>11

(* BeginAgentSessionTurn: the new turn names the sandbox it takes over. *)
LEMMA SteerStep ==
  ASSUME IInv, Steer
  PROVE  IInv' /\ HandlesHeld
<1> USE DEF IInv
<1>1. session.turns + 1 \in Turns /\ session.turns \in Turns
      /\ session.sandbox \in Handles /\ session.phase \in {"completed", "failed"}
      /\ UNCHANGED <<pod, report, job>>
  BY MaxTurnsAssumption DEF Steer, cluster, Typed, Sessions, Turns
<1>2. /\ session' = [phase |-> "redispatching", turns |-> session.turns + 1, sandbox |-> 0]
      /\ intent' = [intent EXCEPT ![session.turns + 1] =
                      [row |-> TRUE, abandoned |-> FALSE, previous |-> session.sandbox]]
      /\ dispatch' = [dispatch EXCEPT ![session.turns + 1] =
                        IF session.sandbox = 0 THEN "provision" ELSE "predecessor"]
  BY DEF Steer
<1>3. /\ session' \in Sessions /\ session'.turns = session.turns + 1 /\ session'.sandbox = 0
      /\ session'.phase = "redispatching"
  BY <1>1, <1>2, HandlesHold DEF Sessions, Active, Provisioning
<1>4. /\ intent' \in [Turns -> Intents]
      /\ intent'[session.turns + 1] = [row |-> TRUE, abandoned |-> FALSE, previous |-> session.sandbox]
      /\ \A q \in Turns : q # session.turns + 1 => intent'[q] = intent[q]
  BY <1>1, <1>2, TRUE \in BOOLEAN, FALSE \in BOOLEAN DEF Typed, Intents
<1>5. /\ dispatch' \in [Turns -> {"none", "predecessor", "provision", "bind", "abandon",
                                  "cleanup", "late", "done"}]
      /\ dispatch'[session.turns + 1] \in {"provision", "predecessor"}
      /\ \A q \in Turns : q # session.turns + 1 => dispatch'[q] = dispatch[q]
  BY <1>1, <1>2 DEF Typed
<1>6. Typed'
  BY <1>1, <1>3, <1>4, <1>5 DEF Typed
<1>7. \A p \in Turns : Used(p) => p # session.turns + 1 /\ Used(p)'
  BY <1>1, <1>5 DEF Used, RowInv, Typed, Sessions, Turns
<1>8. RowInv'
  BY <1>1, <1>2, <1>3, <1>4, <1>5, <1>6, <1>7 DEF RowInv, BoundToItsTurn, Typed, Sessions, Turns
<1>9. IntentInv'
  <2>1. session.sandbox < session.turns + 1
    BY <1>1 DEF RowInv, BoundToItsTurn, Turns
  <2>. QED BY <1>1, <1>4, <2>1 DEF IntentInv
<1>10. BoundIntentIsTombstone'
  BY <1>1, <1>2, <1>3, <1>4, <1>5, <1>6, <1>7 DEF BoundIntentIsTombstone, Typed
<1>11. CleanupInv'
  BY <1>1, <1>2, <1>3, <1>4, <1>5, <1>6, <1>7, HandlesHold DEF CleanupInv, Typed
<1>12. CleanInv'
  BY <1>1, <1>2, <1>3, <1>4, <1>5, <1>6, <1>7 DEF CleanInv, Typed, Typed, Sessions, Jobs, Turns
<1>13. HandleInv'
  BY <1>1, <1>2, <1>3, <1>4, <1>5, <1>6, <1>7 DEF HandleInv, Used, Typed
<1>14. ReapInv'
  <2>1. \A c \in Completers : job[c].kind \in {"reap", "forget"} =>
          intent'[job[c].turn] = intent[job[c].turn]
    BY <1>1, <1>4 DEF CleanInv, Turns
  <2>. QED BY <1>1, <1>7, <2>1 DEF ReapInv, Used
<1>15. HandlesHeld
  <2>1. intent[session.turns + 1].previous = 0
    BY <1>1 DEF RowInv, NoIntent, Turns
  <2>. QED BY <1>4, <2>1 DEF HandlesHeld
<1>. QED BY <1>1, <1>2, <1>3, <1>4, <1>5, <1>6, <1>7, <1>8, <1>9, <1>10, <1>11, <1>12, <1>13, <1>14, <1>15

(* runSteerDispatch's teardown forgets a handle when all it names is gone. *)
LEMMA TearsPredecessorDownStep ==
  ASSUME IInv, NEW t \in Turns, TearsPredecessorDown(t)
  PROVE  IInv' /\ HandlesHeld
<1> USE DEF IInv
<1>1. UNCHANGED <<session, report, job>> /\ dispatch[t] = "predecessor"
      /\ dispatch' = [dispatch EXCEPT ![t] = "provision"]
      /\ intent[t] \in Intents
  BY DEF TearsPredecessorDown, DispatchGoes, Typed
<1>2. PICK killed \in SUBSET Matching(t, intent[t].previous) :
        /\ pod' = Terminated(killed)
        /\ intent' = IF killed = Matching(t, intent[t].previous)
                     THEN [intent EXCEPT ![t] = Forgotten(intent[t])] ELSE intent
  BY DEF TearsPredecessorDown
<1>3. /\ pod' \in [Turns -> {"none", "up", "gone"}]
      /\ \A p \in Turns : pod'[p] = pod[p] \/ pod'[p] = "gone"
      /\ \A p \in killed \cap Turns : pod'[p] = "gone"
  BY <1>2, TerminatedPods
<1>4. /\ intent' \in [Turns -> Intents]
      /\ \A q \in Turns : q # t => intent'[q] = intent[q]
      /\ intent'[t] = intent[t] \/ intent'[t] = Forgotten(intent[t])
  BY <1>1, <1>2, IntentTyped DEF Typed
<1>5. /\ intent'[t].previous \in {0, intent[t].previous}
      /\ (intent'[t].row => intent[t].row)
      /\ (intent[t].previous = 0 => intent'[t] = intent[t])
      /\ (intent[t].abandoned /\ intent[t].previous # 0 =>
            intent'[t] = intent[t] \/ ~intent'[t].row)
      /\ (~intent[t].row => intent[t].previous = 0)
      /\ (~intent'[t].row => intent'[t].previous = 0)
  BY <1>1, <1>4, IntentFields DEF IntentInv
<1>6. intent[t].previous # 0 /\ intent'[t].previous # intent[t].previous
        => pod'[intent[t].previous] = "gone"
  <2> SUFFICES ASSUME intent[t].previous # 0, intent'[t].previous # intent[t].previous
               PROVE  pod'[intent[t].previous] = "gone"
    OBVIOUS
  <2>1. killed = Matching(t, intent[t].previous)
    BY <1>2
  <2>2. Used(intent[t].previous)
    BY DEF HandleInv
  <2>. QED BY <1>3, <2>1, <2>2 DEF Matching, Used, Typed
<1>7. Typed'
  BY <1>1, <1>3, <1>4 DEF Typed
<1>8. \A p \in Turns : Used(p) => Used(p)'
  BY <1>1, <1>3 DEF Used, Typed
<1>9. t <= session.turns
  BY <1>1 DEF RowInv, Typed, Sessions, Turns
<1>10. RowInv'
  BY <1>1, <1>4, <1>9 DEF RowInv, BoundToItsTurn, Typed, Sessions, Turns
<1>11. IntentInv'
  <2>1. 0 < t
    BY DEF Turns
  <2>. QED BY <1>4, <1>5, <2>1 DEF IntentInv
<1>12. BoundIntentIsTombstone'
  <2>1. CASE session.sandbox = t
    BY <1>1, <1>4, <1>5, <2>1 DEF BoundIntentIsTombstone
  <2>2. CASE session.sandbox # t
    BY <1>1, <1>4, <2>2, HandlesHold DEF BoundIntentIsTombstone, Typed, Sessions
  <2>. QED BY <2>1, <2>2
<1>13. CleanupInv'
  BY <1>1, <1>2, <1>3, <1>4, <1>5, <1>6, <1>7, <1>8, <1>9 DEF CleanupInv, Typed
<1>14. CleanInv'
  BY <1>1, <1>2, <1>3, <1>4, <1>5, <1>6, <1>7, <1>8, <1>9 DEF CleanInv, Typed
<1>15. HandleInv'
  BY <1>1, <1>2, <1>3, <1>4, <1>5, <1>6, <1>7, <1>8, <1>9 DEF HandleInv, Used, Typed
<1>16. ReapInv'
  <2>1. \A c \in Completers : job[c].kind = "reap" =>
          intent'[job[c].turn].previous \in {0, job[c].previous}
    BY <1>4, <1>5 DEF ReapInv, CleanInv
  <2>2. \A c \in Completers : job[c].kind = "forget" /\ intent'[job[c].turn].previous # 0 =>
          intent'[job[c].turn].previous = intent[job[c].turn].previous
          /\ Used(intent[job[c].turn].previous)
    BY <1>4, <1>5 DEF CleanInv, HandleInv
  <2>. QED BY <1>1, <1>3, <1>8, <2>1, <2>2 DEF ReapInv, Used
<1>17. HandlesHeld
  BY <1>4, <1>6 DEF HandlesHeld
<1>. QED BY <1>1, <1>2, <1>3, <1>4, <1>5, <1>6, <1>7, <1>8, <1>9, <1>10, <1>11, <1>12, <1>13, <1>14, <1>15, <1>16, <1>17

(* RecordAgentSessionDispatch binds a turn nobody abandoned, and settles its intent. *)
LEMMA BindsStep ==
  ASSUME IInv, NEW t \in Turns, Binds(t)
  PROVE  IInv' /\ HandlesHeld
<1> USE DEF IInv
<1>1. /\ session.turns = t /\ session.phase \in Provisioning /\ intent[t].row /\ ~intent[t].abandoned
      /\ dispatch[t] = "bind" /\ dispatch' = [dispatch EXCEPT ![t] = "done"]
      /\ UNCHANGED <<pod, report, job>>
      /\ intent' = [intent EXCEPT ![t] = Settled(intent[t])]
      /\ intent[t] \in Intents
  BY DEF Binds, Bindable, DispatchGoes, cluster, Typed
<1>2. /\ session' \in Sessions /\ session'.turns = t /\ session'.sandbox = t
      /\ session'.phase # "deleted"
  <2>1. PICK phase \in {"creating", "running"} :
          session' = [session EXCEPT !.sandbox = t, !.phase = phase]
    BY DEF Binds
  <2> DEFINE named == [session EXCEPT !.sandbox = t]
  <2>2. named \in Sessions /\ named.turns = t /\ named.sandbox = t
    BY <1>1, HandlesHold DEF Typed, Sessions
  <2> HIDE DEF named
  <2>3. session' = [named EXCEPT !.phase = phase]
    BY <2>1 DEF named
  <2>. QED BY <2>2, <2>3 DEF Sessions, Active, Provisioning
<1>3. /\ intent' \in [Turns -> Intents]
      /\ \A q \in Turns : q # t => intent'[q] = intent[q]
      /\ intent'[t].previous = intent[t].previous
      /\ (intent'[t].row => intent'[t].abandoned /\ intent'[t].previous # 0)
      /\ (~intent'[t].row => intent'[t].previous = 0)
  <2>1. Settled(intent[t]) \in Intents
    BY <1>1, IntentTyped
  <2>2. Settled(intent[t]).previous = intent[t].previous
        /\ (Settled(intent[t]).row => Settled(intent[t]).abandoned /\ Settled(intent[t]).previous # 0)
        /\ (~Settled(intent[t]).row => Settled(intent[t]).previous = 0)
    BY <1>1, IntentFields DEF IntentInv
  <2>. QED BY <1>1, <2>1, <2>2 DEF Typed
<1>4. /\ dispatch' \in [Turns -> {"none", "predecessor", "provision", "bind", "abandon",
                                  "cleanup", "late", "done"}]
      /\ dispatch'[t] = "done" /\ \A q \in Turns : q # t => dispatch'[q] = dispatch[q]
  BY <1>1 DEF Typed
<1>5. Typed'
  BY <1>1, <1>2, <1>3, <1>4 DEF Typed
<1>6. \A p \in Turns : Used(p) => Used(p)'
  BY <1>1, <1>4 DEF Used
<1>7. Used(t)'
  BY <1>1, <1>4 DEF Used, HandleInv
<1>8. RowInv'
  BY <1>1, <1>2, <1>3, <1>4, <1>5, <1>6, <1>7 DEF RowInv, BoundToItsTurn, Typed, Sessions, Turns
<1>9. IntentInv'
  BY <1>1, <1>2, <1>3, <1>4, <1>5, <1>6, <1>7 DEF IntentInv, Typed
<1>10. BoundIntentIsTombstone'
  BY <1>1, <1>2, <1>3, <1>4, <1>5, <1>6, <1>7 DEF BoundIntentIsTombstone, Typed
<1>11. CleanupInv'
  BY <1>1, <1>2, <1>3, <1>4, <1>5, <1>6, <1>7 DEF CleanupInv, Typed
<1>12. CleanInv'
  <2>1. \A c \in Completers : job[c].kind = "clean" => t > job[c].turn
    BY <1>1 DEF CleanInv
  <2>. QED BY <1>1, <1>2, <2>1 DEF CleanInv
<1>13. HandleInv'
  BY <1>1, <1>2, <1>3, <1>4, <1>5, <1>6, <1>7 DEF HandleInv, Used, Typed
<1>14. ReapInv'
  <2>1. \A c \in Completers : job[c].kind \in {"reap", "forget"} =>
          intent'[job[c].turn].previous = intent[job[c].turn].previous
    BY <1>3 DEF CleanInv
  <2>. QED BY <1>1, <1>6, <2>1 DEF ReapInv, Used
<1>15. HandlesHeld
  BY <1>1, <1>2, <1>3, <1>4, <1>5, <1>6, <1>7 DEF HandlesHeld
<1>. QED BY <1>1, <1>2, <1>3, <1>4, <1>5, <1>6, <1>7, <1>8, <1>9, <1>10, <1>11, <1>12, <1>13, <1>14, <1>15

(* A dispatch that abandons its turn cleans up only if it was not bound. *)
LEMMA GivesUpStep ==
  ASSUME IInv, NEW t \in Turns, GivesUp(t)
  PROVE  IInv' /\ HandlesHeld
<1> USE DEF IInv
<1>1. /\ UNCHANGED <<pod, report, job>> /\ Abandon(t)
      /\ dispatch[t] = "abandon"
      /\ dispatch' = [dispatch EXCEPT ![t] = IF Abandons(t) THEN "cleanup" ELSE "done"]
      /\ t <= session.turns
  BY DEF GivesUp, DispatchGoes, cluster, RowInv, Typed, Sessions, Turns
<1>2. /\ session' \in Sessions /\ intent' \in [Turns -> Intents]
      /\ session'.turns = session.turns /\ session'.sandbox = session.sandbox
      /\ (session'.phase = session.phase \/ session'.phase = "failed")
      /\ \A q \in Turns : q # t => intent'[q] = intent[q]
      /\ intent'[t].previous = intent[t].previous
      /\ (~intent'[t].row => intent'[t].previous = 0)
      /\ (session.sandbox = t /\ intent'[t].row => intent'[t].abandoned /\ intent'[t].previous # 0)
  BY <1>1, AbandonRows
<1>3. Abandons(t) =>
        /\ session.sandbox # t
        /\ session.turns = t => session.sandbox = 0 /\ session'.phase \notin Provisioning
  BY <1>1, AbandonRows
<1>4. "failed" \notin Provisioning /\ (session'.phase = "deleted" => session.phase = "deleted")
  BY <1>2 DEF Provisioning
<1>5. /\ dispatch' \in [Turns -> {"none", "predecessor", "provision", "bind", "abandon",
                                  "cleanup", "late", "done"}]
      /\ dispatch'[t] \in {"cleanup", "done"} /\ (dispatch'[t] = "cleanup" => Abandons(t))
      /\ \A q \in Turns : q # t => dispatch'[q] = dispatch[q]
  BY <1>1 DEF Typed
<1>6. Typed'
  BY <1>1, <1>2, <1>5 DEF Typed
<1>7. \A p \in Turns : Used(p) => Used(p)'
  BY <1>1, <1>5 DEF Used
<1>8. RowInv'
  BY <1>1, <1>2, <1>3, <1>4, <1>5, <1>6, <1>7 DEF RowInv, BoundToItsTurn, Typed, Sessions, Turns
<1>9. IntentInv'
  BY <1>1, <1>2, <1>3, <1>4, <1>5, <1>6, <1>7 DEF IntentInv, Typed
<1>10. BoundIntentIsTombstone'
  <2>1. CASE session.sandbox = t
    BY <1>2, <2>1 DEF BoundIntentIsTombstone
  <2>2. CASE session.sandbox # t
    BY <1>2, <2>2, HandlesHold DEF BoundIntentIsTombstone, Typed, Sessions
  <2>. QED BY <2>1, <2>2
<1>11. CleanupInv'
  BY <1>1, <1>2, <1>3, <1>4, <1>5, <1>6, <1>7 DEF CleanupInv, Typed
<1>12. CleanInv'
  BY <1>1, <1>2, <1>3, <1>4, <1>5, <1>6, <1>7 DEF CleanInv, Typed
<1>13. HandleInv'
  BY <1>1, <1>2, <1>3, <1>4, <1>5, <1>6, <1>7 DEF HandleInv, Used, Typed
<1>14. ReapInv'
  <2>1. \A c \in Completers : job[c].kind \in {"reap", "forget"} =>
          intent'[job[c].turn].previous = intent[job[c].turn].previous
    BY <1>2 DEF CleanInv
  <2>. QED BY <1>1, <1>7, <2>1 DEF ReapInv, Used
<1>15. HandlesHeld
  BY <1>1, <1>2, <1>3, <1>4, <1>5, <1>6, <1>7 DEF HandlesHeld
<1>. QED BY <1>1, <1>2, <1>3, <1>4, <1>5, <1>6, <1>7, <1>8, <1>9, <1>10, <1>11, <1>12, <1>13, <1>14, <1>15

(* A reap is of an intent that is filed, and of the handle it names. *)
LEMMA ListsPredecessorStep ==
  ASSUME IInv, NEW c \in Completers, NEW t \in Turns, ListsPredecessor(c, t)
  PROVE  IInv' /\ HandlesHeld
<1> USE DEF IInv
<1>1. UNCHANGED <<session, intent, pod, report, dispatch>>
      /\ intent[t] \in Intents /\ intent[t].row /\ intent[t].previous # 0
      /\ Takes(c, "reap", t, intent[t].previous, "none")
  BY DEF ListsPredecessor, cluster, Typed
<1>2. /\ JobAt(c, "reap") /\ job'[c].turn = t /\ job'[c].previous = intent[t].previous
  BY <1>1, HandlesHold, TakesJob DEF Intents
<1>3. Typed'
  BY <1>1, <1>2 DEF Typed, JobAt
<1>4. t <= session.turns /\ intent[t].previous < t
  BY <1>1 DEF RowInv, IntentInv, NoIntent, Typed, Sessions, Turns
<1>5. RowInv'
  BY <1>1, <1>2, <1>3, <1>4 DEF RowInv, BoundToItsTurn
<1>6. IntentInv'
  BY <1>1, <1>2, <1>3, <1>4 DEF IntentInv, Typed
<1>7. BoundIntentIsTombstone'
  BY <1>1, <1>2, <1>3, <1>4 DEF BoundIntentIsTombstone, Typed
<1>8. CleanupInv'
  BY <1>1, <1>2, <1>3, <1>4 DEF CleanupInv, Typed
<1>9. CleanInv'
  BY <1>1, <1>2, <1>3, <1>4 DEF CleanInv, Typed, JobAt, Typed, Sessions, Jobs, Turns
<1>10. HandleInv'
  BY <1>1, <1>2, <1>3, <1>4 DEF HandleInv, Used
<1>11. ReapInv'
  BY <1>1, <1>2 DEF JobAt, ReapInv, HandleInv, Used
<1>12. HandlesHeld
  BY <1>1, <1>2, <1>3, <1>4 DEF HandlesHeld
<1>. QED BY <1>1, <1>2, <1>3, <1>4, <1>5, <1>6, <1>7, <1>8, <1>9, <1>10, <1>11, <1>12

(* A recovery is of an intent that is filed. *)
LEMMA ListsDispatchStep ==
  ASSUME IInv, NEW c \in Completers, NEW t \in Turns, ListsDispatch(c, t)
  PROVE  IInv' /\ HandlesHeld
<1> USE DEF IInv
<1>1. UNCHANGED <<session, intent, pod, report, dispatch>>
      /\ intent[t] \in Intents /\ intent[t].row
      /\ Takes(c, "recover", t, intent[t].previous, "none")
  BY DEF ListsDispatch, cluster, Typed
<1>2. /\ JobAt(c, "recover") /\ job'[c].turn = t /\ job'[c].previous = intent[t].previous
  BY <1>1, HandlesHold, TakesJob DEF Intents
<1>3. Typed'
  BY <1>1, <1>2 DEF Typed, JobAt
<1>4. t <= session.turns /\ intent[t].previous < t
  BY <1>1 DEF RowInv, IntentInv, NoIntent, Typed, Sessions, Turns
<1>5. RowInv'
  BY <1>1, <1>2, <1>3, <1>4 DEF RowInv, BoundToItsTurn
<1>6. IntentInv'
  BY <1>1, <1>2, <1>3, <1>4 DEF IntentInv, Typed
<1>7. BoundIntentIsTombstone'
  BY <1>1, <1>2, <1>3, <1>4 DEF BoundIntentIsTombstone, Typed
<1>8. CleanupInv'
  BY <1>1, <1>2, <1>3, <1>4 DEF CleanupInv, Typed
<1>9. CleanInv'
  BY <1>1, <1>2, <1>3, <1>4 DEF CleanInv, Typed, JobAt, Typed, Sessions, Jobs, Turns
<1>10. HandleInv'
  BY <1>1, <1>2, <1>3, <1>4 DEF HandleInv, Used
<1>11. ReapInv'
  BY <1>1, <1>2 DEF JobAt, ReapInv, HandleInv, Used
<1>12. HandlesHeld
  BY <1>1, <1>2, <1>3, <1>4 DEF HandlesHeld
<1>. QED BY <1>1, <1>2, <1>3, <1>4, <1>5, <1>6, <1>7, <1>8, <1>9, <1>10, <1>11, <1>12

(* CleanupAgentDispatches: a reap goes on to forget a handle that is gone. *)
LEMMA CleansStep ==
  ASSUME IInv, NEW c \in Completers, NEW killed \in SUBSET Turns, Cleans(c, killed)
  PROVE  IInv' /\ HandlesHeld
<1> USE DEF IInv
<1>1. UNCHANGED <<session, intent, report, dispatch>>
      /\ job[c].kind \in {"reap", "clean"} /\ job[c] \in Jobs /\ pod' = Terminated(killed)
      /\ \/ Rests(c)
         \/ job[c].kind = "reap" /\ killed = Matching(job[c].turn, job[c].previous)
            /\ Takes(c, "forget", job[c].turn, 0, "none")
  BY DEF Cleans, Typed
<1>2. /\ pod' \in [Turns -> {"none", "up", "gone"}]
      /\ \A p \in Turns : pod'[p] = pod[p] \/ pod'[p] = "gone"
      /\ \A p \in killed \cap Turns : pod'[p] = "gone"
  BY <1>1, TerminatedPods
<1>3. \/ JobAt(c, "idle")
      \/ /\ JobAt(c, "forget") /\ job'[c].turn = job[c].turn /\ job'[c].previous = 0
         /\ job[c].kind = "reap" /\ killed = Matching(job[c].turn, job[c].previous)
  <2>1. CASE Rests(c)
    BY <2>1, RestsJob
  <2>2. CASE ~Rests(c)
    BY <1>1, <2>2, HandlesHold, TakesJob DEF Jobs
  <2>. QED BY <2>1, <2>2
<1>4. Typed'
  BY <1>1, <1>2, <1>3 DEF Typed, JobAt
<1>5. \A p \in Turns : Used(p) => Used(p)'
  BY <1>1, <1>2 DEF Used, Typed
<1>6. killed = Matching(job[c].turn, job[c].previous) /\ job[c].kind = "reap"
        => pod'[job[c].previous] = "gone"
  <2> SUFFICES ASSUME killed = Matching(job[c].turn, job[c].previous), job[c].kind = "reap"
               PROVE  pod'[job[c].previous] = "gone"
    OBVIOUS
  <2>1. Used(job[c].previous)
    BY DEF ReapInv
  <2>. QED BY <1>2, <2>1, HandlesHold DEF Matching, Used, Typed
<1>7. RowInv'
  BY <1>1, <1>2, <1>3, <1>4, <1>5, <1>6 DEF RowInv, BoundToItsTurn
<1>8. IntentInv'
  BY <1>1, <1>2, <1>3, <1>4, <1>5, <1>6 DEF IntentInv, Typed
<1>9. BoundIntentIsTombstone'
  BY <1>1, <1>2, <1>3, <1>4, <1>5, <1>6 DEF BoundIntentIsTombstone, Typed
<1>10. CleanupInv'
  BY <1>1, <1>2, <1>3, <1>4, <1>5, <1>6 DEF CleanupInv, Typed
<1>11. CleanInv'
  <2>1. job[c].kind = "reap" => job[c].turn \in Turns /\ job[c].turn <= session.turns
    BY DEF CleanInv
  <2>2. 0 < job[c].turn \/ job[c].kind # "reap"
    BY <2>1 DEF Turns
  <2>. QED BY <1>1, <1>3, <2>1, <2>2 DEF CleanInv, JobAt
<1>12. HandleInv'
  BY <1>1, <1>2, <1>3, <1>4, <1>5, <1>6 DEF HandleInv, Used, Typed
<1>13. ReapInv'
  <2>1. \A d \in Completers : d # c => job'[d] = job[d]
    BY <1>3 DEF JobAt
  <2>2. \A d \in Completers : job[d].kind = "forget" /\ intent[job[d].turn].previous # 0 =>
          Used(intent[job[d].turn].previous)
    BY DEF CleanInv, HandleInv
  <2>3. job'[c].kind = "idle" \/ (job'[c].kind = "forget"
          /\ (intent[job'[c].turn].previous # 0 => pod'[intent[job'[c].turn].previous] = "gone"))
    BY <1>3, <1>6 DEF JobAt, ReapInv
  <2>. QED BY <1>1, <1>2, <1>5, <2>1, <2>2, <2>3 DEF ReapInv, Used
<1>14. HandlesHeld
  BY <1>1, <1>2, <1>3, <1>4, <1>5, <1>6 DEF HandlesHeld
<1>. QED BY <1>1, <1>2, <1>3, <1>4, <1>5, <1>6, <1>7, <1>8, <1>9, <1>10, <1>11, <1>12, <1>13, <1>14

(* The repaired intent of a provisioning row names no predecessor. *)
LEMMA RepairsIntentStep ==
  ASSUME IInv, NEW c \in Completers, RepairsIntent(c)
  PROVE  IInv' /\ HandlesHeld
<1> USE DEF IInv
<1>1. UNCHANGED <<session, pod, report, dispatch, job>>
      /\ session.sandbox = 0 /\ session.turns \in Turns /\ ~intent[session.turns].row
      /\ intent' = [intent EXCEPT ![session.turns] = [NoIntent EXCEPT !.row = TRUE]]
  BY DEF RepairsIntent, cluster, verbs, Typed, Sessions
<1>2. /\ intent' \in [Turns -> Intents]
      /\ \A q \in Turns : q # session.turns => intent'[q] = intent[q]
      /\ intent'[session.turns].row /\ intent'[session.turns].previous = 0
  <2> DEFINE new == [NoIntent EXCEPT !.row = TRUE]
  <2>1. TRUE \in BOOLEAN /\ FALSE \in BOOLEAN
    OBVIOUS
  <2>2. new \in Intents /\ new.row /\ new.previous = 0
    BY <2>1, HandlesHold DEF Intents, NoIntent
  <2> HIDE DEF new
  <2>3. intent' = [intent EXCEPT ![session.turns] = new]
    BY <1>1 DEF new
  <2>4. session.turns \in Turns
    BY <1>1
  <2>. QED BY <2>2, <2>3, <2>4 DEF Typed
<1>3. intent[session.turns].previous = 0
  BY <1>1 DEF IntentInv
<1>4. Typed'
  BY <1>1, <1>2 DEF Typed
<1>5. RowInv'
  BY <1>1, <1>2, <1>3, <1>4 DEF RowInv, BoundToItsTurn, Typed, Sessions, Turns
<1>6. IntentInv'
  <2>1. \A q \in Turns : 0 < q
    BY DEF Turns
  <2>. QED BY <1>1, <1>2, <2>1 DEF IntentInv
<1>7. BoundIntentIsTombstone'
  BY <1>1, <1>2, <1>3, <1>4 DEF BoundIntentIsTombstone, Typed
<1>8. CleanupInv'
  BY <1>1, <1>2, <1>3, <1>4 DEF CleanupInv, Typed
<1>9. CleanInv'
  BY <1>1, <1>2, <1>3, <1>4 DEF CleanInv, Typed
<1>10. HandleInv'
  BY <1>1, <1>2, <1>3, <1>4 DEF HandleInv, Used, Typed
<1>11. ReapInv'
  <2>1. \A d \in Completers : job[d].kind \in {"reap", "forget"} =>
          intent'[job[d].turn].previous = intent[job[d].turn].previous
    BY <1>1, <1>2, <1>3 DEF CleanInv
  <2>. QED BY <1>1, <2>1 DEF ReapInv, Used
<1>12. HandlesHeld
  BY <1>1, <1>2, <1>3, <1>4 DEF HandlesHeld
<1>. QED BY <1>1, <1>2, <1>3, <1>4, <1>5, <1>6, <1>7, <1>8, <1>9, <1>10, <1>11, <1>12

(* A recovery cleans up after a turn only when it can no longer be bound. *)
LEMMA RecoversStep ==
  ASSUME IInv, NEW c \in Completers, Recovers(c)
  PROVE  IInv' /\ HandlesHeld
<1> USE DEF IInv
<1>1. /\ UNCHANGED <<pod, report, dispatch>> /\ Abandon(job[c].turn)
      /\ job[c].kind = "recover" /\ job[c] \in Jobs
      /\ \/ Rests(c)
         \/ Abandons(job[c].turn) /\ Takes(c, "clean", job[c].turn, job[c].previous, "none")
  BY DEF Recovers, cluster, Typed
<1>2. job[c].turn \in Turns /\ job[c].turn <= session.turns /\ job[c].previous < job[c].turn
  BY <1>1 DEF CleanInv
<1>3. /\ session' \in Sessions /\ intent' \in [Turns -> Intents]
      /\ session'.turns = session.turns /\ session'.sandbox = session.sandbox
      /\ (session'.phase = session.phase \/ session'.phase = "failed")
      /\ \A q \in Turns : q # job[c].turn => intent'[q] = intent[q]
      /\ intent'[job[c].turn].previous = intent[job[c].turn].previous
      /\ (~intent'[job[c].turn].row => intent'[job[c].turn].previous = 0)
      /\ (session.sandbox = job[c].turn /\ intent'[job[c].turn].row => intent'[job[c].turn].abandoned /\ intent'[job[c].turn].previous # 0)
  BY <1>1, <1>2, AbandonRows
<1>4. Abandons(job[c].turn) =>
        /\ session.sandbox # job[c].turn
        /\ session.turns = job[c].turn => session.sandbox = 0 /\ session'.phase \notin Provisioning
  BY <1>1, <1>2, AbandonRows
<1>5. "failed" \notin Provisioning /\ (session'.phase = "deleted" => session.phase = "deleted")
  BY <1>3 DEF Provisioning
<1>6. \/ JobAt(c, "idle")
      \/ /\ JobAt(c, "clean") /\ job'[c].turn = job[c].turn /\ job'[c].previous = job[c].previous
         /\ Abandons(job[c].turn)
  <2>1. CASE Rests(c)
    BY <2>1, RestsJob
  <2>2. CASE ~Rests(c)
    BY <1>1, <2>2, HandlesHold, TakesJob DEF Jobs
  <2>. QED BY <2>1, <2>2
<1>7. Typed'
  BY <1>1, <1>3, <1>6 DEF Typed, JobAt
<1>8. RowInv'
  BY <1>1, <1>2, <1>3, <1>4, <1>5, <1>6, <1>7 DEF RowInv, BoundToItsTurn, Typed, Sessions, Turns
<1>9. IntentInv'
  BY <1>1, <1>2, <1>3, <1>4, <1>5, <1>6, <1>7 DEF IntentInv, Typed
<1>10. BoundIntentIsTombstone'
  <2>1. CASE session.sandbox = job[c].turn
    BY <1>3, <2>1 DEF BoundIntentIsTombstone
  <2>2. CASE session.sandbox # job[c].turn
    BY <1>3, <2>2, HandlesHold DEF BoundIntentIsTombstone, Typed, Sessions
  <2>. QED BY <2>1, <2>2
<1>11. CleanupInv'
  BY <1>1, <1>2, <1>3, <1>4, <1>5, <1>6, <1>7 DEF CleanupInv, Typed
<1>12. CleanInv'
  <2>1. \A d \in Completers : d # c => job'[d] = job[d]
    BY <1>6 DEF JobAt
  <2>2. job'[c].kind = "idle" \/
        (/\ job'[c].kind = "clean" /\ job'[c].turn = job[c].turn /\ job'[c].previous = job[c].previous
         /\ \/ session.turns > job[c].turn
            \/ session.sandbox = 0 /\ session'.phase \notin Provisioning)
    BY <1>2, <1>4, <1>6 DEF JobAt, Typed, Sessions, Turns
  <2>. QED BY <1>1, <1>2, <1>3, <1>5, <2>1, <2>2 DEF CleanInv
<1>13. HandleInv'
  BY <1>1, <1>2, <1>3, <1>4, <1>5, <1>6, <1>7 DEF HandleInv, Used, Typed
<1>14. ReapInv'
  <2>1. \A d \in Completers : job[d].kind \in {"reap", "forget"} =>
          intent'[job[d].turn].previous = intent[job[d].turn].previous
    BY <1>3 DEF CleanInv
  <2>. QED BY <1>1, <1>6, <2>1 DEF ReapInv, Used, JobAt
<1>15. HandlesHeld
  BY <1>1, <1>2, <1>3, <1>4, <1>5, <1>6, <1>7 DEF HandlesHeld
<1>. QED BY <1>1, <1>2, <1>3, <1>4, <1>5, <1>6, <1>7, <1>8, <1>9, <1>10, <1>11, <1>12, <1>13, <1>14, <1>15

(* ClearPreviousSandboxTeardown drops the handle of a sandbox that is gone. *)
LEMMA ForgetsStep ==
  ASSUME IInv, NEW c \in Completers, Forgets(c)
  PROVE  IInv' /\ HandlesHeld
<1> USE DEF IInv
<1>1. UNCHANGED <<session, pod, report, dispatch>> /\ job[c].kind = "forget"
      /\ job[c].turn \in Turns /\ intent[job[c].turn] \in Intents
      /\ intent' = [intent EXCEPT ![job[c].turn] = Forgotten(intent[job[c].turn])]
      /\ Rests(c)
  BY DEF Forgets, cluster, Typed, CleanInv
<1>2. /\ intent' \in [Turns -> Intents]
      /\ \A q \in Turns : q # job[c].turn => intent'[q] = intent[q]
      /\ intent'[job[c].turn] = Forgotten(intent[job[c].turn])
  BY <1>1, IntentTyped DEF Typed
<1>3. /\ intent'[job[c].turn].previous = 0
      /\ (intent'[job[c].turn].row => intent[job[c].turn].row)
      /\ (intent[job[c].turn].previous = 0 => intent'[job[c].turn] = intent[job[c].turn])
      /\ (intent[job[c].turn].abandoned /\ intent[job[c].turn].previous # 0 =>
            ~intent'[job[c].turn].row)
  BY <1>1, <1>2, IntentFields
<1>4. JobAt(c, "idle")
  BY <1>1, RestsJob
<1>5. Typed'
  BY <1>1, <1>2, <1>4 DEF Typed, JobAt
<1>6. intent[job[c].turn].previous # 0 => pod[intent[job[c].turn].previous] = "gone"
  BY <1>1 DEF ReapInv
<1>7. job[c].turn <= session.turns
  BY <1>1 DEF CleanInv
<1>8. RowInv'
  BY <1>1, <1>2, <1>7 DEF RowInv, BoundToItsTurn, Typed, Sessions, Turns
<1>9. IntentInv'
  <2>1. 0 < job[c].turn
    BY <1>1 DEF Turns
  <2>. QED BY <1>2, <1>3, <2>1 DEF IntentInv
<1>10. BoundIntentIsTombstone'
  <2>1. CASE session.sandbox = job[c].turn
    BY <1>1, <1>2, <1>3, <2>1 DEF BoundIntentIsTombstone
  <2>2. CASE session.sandbox # job[c].turn
    BY <1>1, <1>2, <2>2, HandlesHold DEF BoundIntentIsTombstone, Typed, Sessions
  <2>. QED BY <2>1, <2>2
<1>11. CleanupInv'
  BY <1>1, <1>2, <1>3, <1>4, <1>5, <1>6, <1>7 DEF CleanupInv, Typed
<1>12. CleanInv'
  BY <1>1, <1>2, <1>3, <1>4, <1>5, <1>6, <1>7 DEF CleanInv, Typed, JobAt
<1>13. HandleInv'
  BY <1>1, <1>2, <1>3, <1>4, <1>5, <1>6, <1>7 DEF HandleInv, Used, Typed
<1>14. ReapInv'
  <2>1. \A d \in Completers : job[d].kind \in {"reap", "forget"} =>
          \/ intent'[job[d].turn].previous = intent[job[d].turn].previous
          \/ intent'[job[d].turn].previous = 0
    BY <1>2, <1>3 DEF CleanInv
  <2>. QED BY <1>1, <1>4, <2>1 DEF ReapInv, Used, JobAt
<1>15. HandlesHeld
  BY <1>1, <1>2, <1>3, <1>4, <1>5, <1>6, <1>7 DEF HandlesHeld
<1>. QED BY <1>1, <1>2, <1>3, <1>4, <1>5, <1>6, <1>7, <1>8, <1>9, <1>10, <1>11, <1>12, <1>13, <1>14, <1>15

-----------------------------------------------------------------------------
(* The invariant and what follows from it. *)

(* A session just created satisfies the invariant. *)
LEMMA InitInv == Init => IInv
<1> SUFFICES ASSUME Init PROVE IInv
  OBVIOUS
<1>1. Typed
  <2>1. session \in Sessions /\ 1 \in Turns
    BY MaxTurnsAssumption, HandlesHold DEF Init, Sessions, Active, Provisioning, Turns
  <2>2. NoIntent \in Intents /\ [NoIntent EXCEPT !.row = TRUE] \in Intents
    <3>1. TRUE \in BOOLEAN /\ FALSE \in BOOLEAN
      OBVIOUS
    <3>. QED BY <3>1, HandlesHold DEF NoIntent, Intents
  <2>3. intent \in [Turns -> Intents]
    BY <2>2 DEF Init
  <2>4. job \in [Completers -> Jobs]
    BY HandlesHold DEF Init, Idle, Jobs
  <2>. QED BY <2>1, <2>3, <2>4 DEF Init, Typed, Idle
<1>2. RowInv
  BY HandlesHold DEF Init, RowInv, BoundToItsTurn, Turns
<1>3. IntentInv
  BY DEF Init, IntentInv, NoIntent, Turns
<1>4. BoundIntentIsTombstone
  BY DEF Init, BoundIntentIsTombstone
<1>5. CleanupInv /\ CleanInv
  BY HandlesHold DEF Init, CleanupInv, CleanInv, Idle
<1>6. HandleInv /\ ReapInv
  BY DEF Init, HandleInv, ReapInv, NoIntent, Idle
<1>. QED BY <1>1, <1>2, <1>3, <1>4, <1>5, <1>6 DEF IInv

(* Every step keeps the invariant, and handles until their sandbox is gone. *)
LEMMA NextInv ==
  ASSUME IInv, [Next]_vars
  PROVE  IInv' /\ HandlesHeld
<1>0. CASE UNCHANGED vars
  <2>1. Quiet
    BY <1>0 DEF vars, Quiet, IInv, Typed, RowInv
  <2>. QED BY <2>1, QuietStep
<1>1. CASE Steer
  BY <1>1, SteerStep
<1>2. ASSUME NEW t \in Turns, TearsPredecessorDown(t)
      PROVE  IInv' /\ HandlesHeld
  BY <1>2, TearsPredecessorDownStep
<1>3. ASSUME NEW t \in Turns, Provisions(t)
      PROVE  IInv' /\ HandlesHeld
  BY <1>3, ProvisionsDispatching, DispatchingStep DEF IInv
<1>4. ASSUME NEW t \in Turns, Binds(t)
      PROVE  IInv' /\ HandlesHeld
  BY <1>4, BindsStep
<1>5. ASSUME NEW t \in Turns, BindFails(t)
      PROVE  IInv' /\ HandlesHeld
  BY <1>5, BindFailsDispatching, DispatchingStep DEF IInv
<1>6. ASSUME NEW t \in Turns, GivesUp(t)
      PROVE  IInv' /\ HandlesHeld
  BY <1>6, GivesUpStep
<1>7. ASSUME NEW t \in Turns, CleansUp(t)
      PROVE  IInv' /\ HandlesHeld
  BY <1>7, CleansUpDispatching, DispatchingStep DEF IInv
<1>8. ASSUME NEW t \in Turns, DispatchDies(t)
      PROVE  IInv' /\ HandlesHeld
  BY <1>8, DispatchDiesDispatching, DispatchingStep DEF IInv
<1>9. ASSUME NEW t \in Turns, LateSandbox(t)
      PROVE  IInv' /\ HandlesHeld
  BY <1>9, LateSandboxDispatching, DispatchingStep DEF IInv
<1>10. ASSUME NEW c \in Completers, ListsActive(c)
      PROVE  IInv' /\ HandlesHeld
  BY <1>10, ListsActiveQuiet, QuietStep DEF IInv
<1>11. ASSUME NEW c \in Completers, ReadsStatus(c)
      PROVE  IInv' /\ HandlesHeld
  BY <1>11, ReadsStatusQuiet, QuietStep DEF IInv
<1>12. ASSUME NEW c \in Completers, Finalizes(c)
      PROVE  IInv' /\ HandlesHeld
  BY <1>12, FinalizesQuiet, QuietStep DEF IInv
<1>13. ASSUME NEW c \in Completers, ListsIdle(c)
      PROVE  IInv' /\ HandlesHeld
  BY <1>13, ListsIdleQuiet, QuietStep DEF IInv
<1>14. ASSUME NEW c \in Completers, Terminates(c)
      PROVE  IInv' /\ HandlesHeld
  BY <1>14, TerminatesQuiet, QuietStep DEF IInv
<1>15. ASSUME NEW c \in Completers, Clears(c)
      PROVE  IInv' /\ HandlesHeld
  BY <1>15, ClearsQuiet, QuietStep DEF IInv
<1>16. ASSUME NEW c \in Completers, NEW t \in Turns, ListsPredecessor(c, t)
      PROVE  IInv' /\ HandlesHeld
  BY <1>16, ListsPredecessorStep
<1>17. ASSUME NEW c \in Completers, NEW t \in Turns, ListsDispatch(c, t)
      PROVE  IInv' /\ HandlesHeld
  BY <1>17, ListsDispatchStep
<1>18. ASSUME NEW c \in Completers, NEW t \in Turns, FindsOrphan(c, t)
      PROVE  IInv' /\ HandlesHeld
  BY <1>18, FindsOrphanQuiet, QuietStep DEF IInv
<1>19. ASSUME NEW c \in Completers, NEW killed \in SUBSET Turns, Cleans(c, killed)
      PROVE  IInv' /\ HandlesHeld
  BY <1>19, CleansStep
<1>20. ASSUME NEW c \in Completers, RepairsIntent(c)
      PROVE  IInv' /\ HandlesHeld
  BY <1>20, RepairsIntentStep
<1>21. ASSUME NEW c \in Completers, Recovers(c)
      PROVE  IInv' /\ HandlesHeld
  BY <1>21, RecoversStep
<1>22. ASSUME NEW c \in Completers, Forgets(c)
      PROVE  IInv' /\ HandlesHeld
  BY <1>22, ForgetsStep
<1>23. ASSUME NEW c \in Completers, SweepsOrphan(c)
      PROVE  IInv' /\ HandlesHeld
  BY <1>23, SweepsOrphanQuiet, QuietStep DEF IInv
<1>24. ASSUME NEW c \in Completers, JobFails(c)
      PROVE  IInv' /\ HandlesHeld
  BY <1>24, JobFailsQuiet, QuietStep DEF IInv
<1>25. CASE ResumeReads
  BY <1>25, ResumeReadsQuiet, QuietStep DEF IInv
<1>26. CASE ResumeMarks
  BY <1>26, ResumeMarksQuiet, QuietStep DEF IInv
<1>27. CASE ResumeWakes
  BY <1>27, ResumeWakesQuiet, QuietStep DEF IInv
<1>28. CASE ResumeSettles
  BY <1>28, ResumeSettlesQuiet, QuietStep DEF IInv
<1>29. CASE CancelMarks
  BY <1>29, CancelMarksQuiet, QuietStep DEF IInv
<1>30. CASE CancelTerminates
  BY <1>30, CancelTerminatesQuiet, QuietStep DEF IInv
<1>31. CASE CancelSettles
  BY <1>31, CancelSettlesQuiet, QuietStep DEF IInv
<1>32. CASE DeleteReads
  BY <1>32, DeleteReadsQuiet, QuietStep DEF IInv
<1>33. CASE DeleteSettles
  BY <1>33, DeleteSettlesQuiet, QuietStep DEF IInv
<1>34. CASE VerbFails
  BY <1>34, VerbFailsQuiet, QuietStep DEF IInv
<1>35. ASSUME NEW t \in Turns, DriverReports(t)
      PROVE  IInv' /\ HandlesHeld
  BY <1>35, DriverReportsQuiet, QuietStep DEF IInv
<1>36. ASSUME NEW t \in Turns, SandboxVanishes(t)
      PROVE  IInv' /\ HandlesHeld
  BY <1>36, SandboxVanishesQuiet, QuietStep DEF IInv
<1>. QED BY <1>0, <1>1, <1>2, <1>3, <1>4, <1>5, <1>6, <1>7, <1>8, <1>9, <1>10, <1>11, <1>12, <1>13, <1>14, <1>15, <1>16, <1>17, <1>18, <1>19, <1>20, <1>21, <1>22, <1>23, <1>24, <1>25, <1>26, <1>27, <1>28, <1>29, <1>30, <1>31, <1>32, <1>33, <1>34, <1>35, <1>36 DEF Next, Users, Dispatches, Completes

(* The invariant holds in every reachable state. *)
LEMMA Invariant == Spec => []IInv
<1>1. IInv /\ [Next]_vars => IInv'
  BY NextInv
<1>. QED BY InitInv, <1>1, PTL DEF Spec

(* What the verbs in flight hold. *)
VerbsTyped ==
  /\ resume \in [at : {"idle", "checked", "waking", "running", "failed"}, sandbox : Handles]
  /\ cancel \in [at : {"idle", "kill", "settle"}, sandbox : Handles]
  /\ delete \in [at : {"idle", "kill"}, sandbox : Handles]

(* Only users' verbs move them, and each goes on as its handler does. *)
LEMMA VerbsStep ==
  ASSUME Typed, VerbsTyped, [Next]_vars
  PROVE  VerbsTyped'
<1>1. session.sandbox \in Handles /\ 0 \in Handles
  BY HandlesHold DEF Typed, Sessions
<1>2. CASE UNCHANGED <<resume, cancel, delete>>
  BY <1>2 DEF VerbsTyped
<1>3. CASE Users
  <2>1. CASE Steer
    BY <1>2, <2>1 DEF Steer, verbs
  <2>2. CASE ResumeReads \/ ResumeMarks \/ ResumeSettles
    BY <1>1, <2>2 DEF ResumeReads, ResumeMarks, ResumeSettles, VerbsTyped, NoVerb
  <2>3. CASE ResumeWakes
    <3>1. resume' = NoVerb \/ \E at \in {"running", "failed"} : resume' = [at |-> at, sandbox |-> 0]
      BY <2>3 DEF ResumeWakes
    <3>. QED BY <1>1, <2>3, <3>1 DEF ResumeWakes, VerbsTyped, NoVerb
  <2>4. CASE CancelMarks \/ CancelTerminates \/ CancelSettles
    BY <1>1, <2>4 DEF CancelMarks, CancelTerminates, CancelSettles, VerbsTyped, NoVerb
  <2>5. CASE DeleteReads \/ DeleteSettles
    BY <1>1, <2>5 DEF DeleteReads, DeleteSettles, VerbsTyped, NoVerb
  <2>6. CASE VerbFails
    BY <1>1, <2>6 DEF VerbFails, VerbsTyped, NoVerb
  <2>. QED BY <1>3, <2>1, <2>2, <2>3, <2>4, <2>5, <2>6 DEF Users
<1>4. CASE Dispatches
  BY <1>2, <1>4 DEF Dispatches, TearsPredecessorDown, Provisions, Binds, BindFails, GivesUp,
                    CleansUp, DispatchDies, LateSandbox, verbs
<1>5. CASE Completes
  BY <1>2, <1>5 DEF Completes, ListsActive, ReadsStatus, Finalizes, ListsIdle, Terminates,
                    Clears, ListsPredecessor, ListsDispatch, FindsOrphan, Cleans,
                    RepairsIntent, Recovers, Forgets, SweepsOrphan, JobFails, verbs
<1>6. ASSUME NEW t \in Turns, DriverReports(t) \/ SandboxVanishes(t)
      PROVE  VerbsTyped'
  BY <1>2, <1>6 DEF DriverReports, SandboxVanishes, verbs
<1>7. CASE UNCHANGED vars
  BY <1>2, <1>7 DEF vars
<1>. QED BY <1>3, <1>4, <1>5, <1>6, <1>7 DEF Next

(* Every variable keeps its type (TypeOK). *)
THEOREM TypeCorrect == Spec => []TypeOK
<1>1. Init => VerbsTyped
  BY HandlesHold DEF Init, VerbsTyped, NoVerb
<1>2. IInv /\ VerbsTyped /\ [Next]_vars => VerbsTyped'
  BY VerbsStep DEF IInv
<1>3. IInv /\ VerbsTyped => TypeOK
  BY DEF IInv, Typed, Sessions, Intents, VerbsTyped, TypeOK
<1>. QED BY Invariant, <1>1, <1>2, <1>3, PTL DEF Spec

(* A row names no sandbox but that of its newest turn (BoundToItsTurn). *)
THEOREM RowNamesItsTurn == Spec => []BoundToItsTurn
<1>1. IInv => BoundToItsTurn
  BY DEF IInv, RowInv
<1>. QED BY Invariant, <1>1, PTL

(* The intent of a bound turn is at most a tombstone that names a predecessor,
   so recovery finds no work for a sandbox that serves (BoundIntentIsTombstone). *)
THEOREM BoundTurnsAreSettled == Spec => []BoundIntentIsTombstone
<1>1. IInv => BoundIntentIsTombstone
  BY DEF IInv
<1>. QED BY Invariant, <1>1, PTL

(* No late binding puts a sandbox into the row that a cleanup after an
   abandoned turn may reach (AbandonedIsNeverBound). *)
THEOREM AbandonedTurnsStayUnbound == Spec => []AbandonedIsNeverBound
<1>1. IInv => AbandonedIsNeverBound
  <2> SUFFICES ASSUME IInv, NEW t \in Turns,
                      \/ dispatch[t] = "cleanup"
                      \/ \E c \in Completers :
                           job[c].kind = "clean" /\ t \in {job[c].turn, job[c].previous}
               PROVE  session.sandbox # t
    BY DEF AbandonedIsNeverBound
  <2>1. CASE dispatch[t] = "cleanup"
    BY <2>1 DEF IInv, CleanupInv
  <2>2. ASSUME NEW c \in Completers, job[c].kind = "clean", t \in {job[c].turn, job[c].previous}
        PROVE  session.sandbox # t
    <3>1. 0 < t /\ t <= job[c].turn
      BY <2>2 DEF IInv, CleanInv, Turns
    <3>2. \/ session.sandbox = 0
          \/ session.sandbox = session.turns /\ session.turns > job[c].turn
      BY <2>2 DEF IInv, CleanInv, RowInv, BoundToItsTurn
    <3>3. session.turns \in Turns /\ job[c].turn \in Turns
      BY <2>2 DEF IInv, CleanInv, Typed, Sessions
    <3>. QED BY <3>1, <3>2, <3>3 DEF Turns
  <2>. QED BY <2>1, <2>2
<1>. QED BY Invariant, <1>1, PTL

(* An intent lets go of its predecessor only when that sandbox is gone
   (HandleKept). *)
THEOREM HandlesAreKept == Spec => HandleKept
<1>1. IInv /\ [Next]_vars =>
        [\A t \in Turns : intent[t].previous # 0 /\ intent'[t].previous # intent[t].previous
           => pod'[intent[t].previous] = "gone"]_vars
  BY NextInv DEF HandlesHeld
<1>. QED BY Invariant, <1>1, PTL DEF Spec, HandleKept

-----------------------------------------------------------------------------
(* Reports filed before the next turn is accepted.                         *)
(*                                                                         *)
(* LateReports is the code as it is: FinalizeAgentSession compares the     *)
(* phase and not the turn, so a report read for one turn may be filed on   *)
(* the next.  Short of that, a completion is always on its own report.     *)

\* What a Completer reads or holds is of the newest turn, and a success it
\* holds is one the driver reported.
ReportInv ==
  \A c \in Completers :
    /\ job[c].kind \in {"status", "end"} => job[c].turn = session.turns
    /\ job[c].kind = "end" /\ job[c].verdict = "succeeded" =>
         report[session.turns] = "succeeded"

\* Completer c holds no report, lists the row, or has read the report it listed.
Holds(c) ==
  \/ job'[c] = job[c]
  \/ job'[c].kind \notin {"status", "end"}
  \/ job'[c].kind = "status" /\ session.sandbox # 0 /\ job'[c].turn = session.sandbox
  \/ /\ job[c].kind = "status" /\ job'[c].kind = "end" /\ job'[c].turn = job[c].turn
     /\ job'[c].verdict = "succeeded" => report[job[c].turn] = "succeeded"

\* A step within a turn: reports are written once.
WithinTurn ==
  /\ session'.turns = session.turns
  /\ \A t \in Turns : report[t] = "none" \/ report'[t] = report[t]
  /\ \A c \in Completers : Holds(c)

(* A Completer whose job is replaced, by its new kind. *)
LEMMA TakenJob ==
  ASSUME Typed, NEW c \in Completers, NEW kind, NEW turn, NEW previous, NEW verdict,
         Takes(c, kind, turn, previous, verdict)
  PROVE  /\ job'[c].kind = kind /\ job'[c].turn = turn /\ job'[c].verdict = verdict
         /\ \A d \in Completers : d # c => job'[d] = job[d]
BY DEF Takes, Typed

(* Resting, or taking up anything but a report, holds none. *)
LEMMA HoldsNone ==
  ASSUME Typed, NEW c \in Completers,
         \/ Rests(c)
         \/ \E kind \in {"terminate", "clear", "reap", "forget", "recover", "clean", "sweep"},
               turn \in Handles, previous \in Handles :
              Takes(c, kind, turn, previous, "none")
  PROVE  \A d \in Completers : Holds(d)
<1>1. CASE Rests(c)
  BY <1>1, RestsJob DEF JobAt, Holds
<1>2. ASSUME NEW kind \in {"terminate", "clear", "reap", "forget", "recover", "clean", "sweep"},
             NEW turn \in Handles, NEW previous \in Handles,
             Takes(c, kind, turn, previous, "none")
      PROVE  \A d \in Completers : Holds(d)
  <2>1. job'[c].kind = kind /\ \A d \in Completers : d # c => job'[d] = job[d]
    BY <1>2, TakenJob
  <2>. QED BY <2>1 DEF Holds
<1>. QED BY <1>1, <1>2

(* What a Completer does stays within the turn. *)
LEMMA CompletesWithinTurn ==
  ASSUME Typed, Completes
  PROVE  WithinTurn
<1>0. PICK c \in Completers :
        \/ ListsActive(c) \/ ReadsStatus(c) \/ Finalizes(c)
        \/ ListsIdle(c) \/ Terminates(c) \/ Clears(c)
        \/ \E t \in Turns : ListsPredecessor(c, t) \/ ListsDispatch(c, t) \/ FindsOrphan(c, t)
        \/ \E killed \in SUBSET Turns : Cleans(c, killed)
        \/ RepairsIntent(c) \/ Recovers(c) \/ Forgets(c)
        \/ SweepsOrphan(c) \/ JobFails(c)
  BY DEF Completes
<1>1. /\ job[c].turn \in Handles /\ job[c].previous \in Handles
      /\ session.sandbox \in Handles /\ 0 \in Handles /\ Turns \subseteq Handles
      /\ \A t \in Turns : intent[t].previous \in Handles
  BY HandlesHold DEF Typed, Jobs, Sessions, Intents
<1>2. \A t \in Turns : report[t] = "none" \/ report'[t] = report[t]
  BY <1>0 DEF ListsActive, ReadsStatus, Finalizes, ListsIdle, Terminates, Clears,
              ListsPredecessor, ListsDispatch, FindsOrphan, Cleans, RepairsIntent, Recovers,
              Forgets, SweepsOrphan, JobFails, cluster
<1>3. session'.turns = session.turns
  <2>1. CASE Recovers(c)
    BY <2>1 DEF Recovers, Abandon, Typed, Sessions
  <2>2. CASE Finalizes(c) \/ Clears(c)
    BY <2>2 DEF Finalizes, Clears, Typed, Sessions
  <2>. QED BY <1>0, <2>1, <2>2 DEF ListsActive, ReadsStatus, ListsIdle, Terminates,
              ListsPredecessor, ListsDispatch, FindsOrphan, Cleans, RepairsIntent,
              Forgets, SweepsOrphan, JobFails
<1>4. \A d \in Completers : Holds(d)
  <2>1. CASE ListsActive(c)
    <3>1. Takes(c, "status", session.sandbox, 0, "none") /\ session.sandbox # 0
      BY <2>1 DEF ListsActive
    <3>2. /\ job'[c].kind = "status" /\ job'[c].turn = session.sandbox
          /\ \A d \in Completers : d # c => job'[d] = job[d]
      BY <3>1, TakenJob
    <3>. QED BY <3>1, <3>2 DEF Holds
  <2>2. CASE ReadsStatus(c)
    <3>1. CASE Rests(c)
      BY <3>1, HoldsNone
    <3>2. ASSUME NEW v, Takes(c, "end", job[c].turn, 0, v),
                 v \in {report[job[c].turn], "lost"}
          PROVE  \A d \in Completers : Holds(d)
      <4>1. /\ job'[c].kind = "end" /\ job'[c].turn = job[c].turn /\ job'[c].verdict = v
            /\ \A d \in Completers : d # c => job'[d] = job[d]
        BY <3>2, TakenJob
      <4>. QED BY <2>2, <3>2, <4>1 DEF Holds, ReadsStatus
    <3>. QED BY <2>2, <3>1, <3>2 DEF ReadsStatus
  <2>3. CASE Finalizes(c)
    BY <2>3, <1>1, HoldsNone DEF Finalizes
  <2>4. CASE ListsIdle(c) \/ Terminates(c) \/ Clears(c) \/ SweepsOrphan(c) \/ JobFails(c)
    BY <2>4, <1>1, HoldsNone DEF ListsIdle, Terminates, Clears, SweepsOrphan, JobFails
  <2>5. ASSUME NEW t \in Turns, ListsPredecessor(c, t) \/ ListsDispatch(c, t) \/ FindsOrphan(c, t)
        PROVE  \A d \in Completers : Holds(d)
    BY <2>5, <1>1, HoldsNone DEF ListsPredecessor, ListsDispatch, FindsOrphan
  <2>6. ASSUME NEW killed \in SUBSET Turns, Cleans(c, killed)
        PROVE  \A d \in Completers : Holds(d)
    BY <2>6, <1>1, HoldsNone DEF Cleans
  <2>7. CASE RepairsIntent(c)
    BY <2>7 DEF RepairsIntent, Holds
  <2>8. CASE Recovers(c) \/ Forgets(c)
    BY <2>8, <1>1, HoldsNone DEF Recovers, Forgets
  <2>. QED BY <1>0, <2>1, <2>2, <2>3, <2>4, <2>5, <2>6, <2>7, <2>8
<1>. QED BY <1>2, <1>3, <1>4 DEF WithinTurn

(* Every step but a steer stays within the turn. *)
LEMMA StaysWithinTurn ==
  ASSUME Typed, [Next]_vars, ~Steer
  PROVE  WithinTurn
<1>1. CASE UNCHANGED vars
  BY <1>1 DEF vars, WithinTurn, Holds
<1>2. CASE Completes
  BY <1>2, CompletesWithinTurn
<1>3. ASSUME UNCHANGED job, session'.turns = session.turns,
             \A t \in Turns : report[t] = "none" \/ report'[t] = report[t]
      PROVE  WithinTurn
  BY <1>3 DEF WithinTurn, Holds
<1>4. CASE Dispatches
  <2>0. PICK t \in Turns :
          \/ TearsPredecessorDown(t) \/ Provisions(t) \/ Binds(t) \/ BindFails(t)
          \/ GivesUp(t) \/ CleansUp(t) \/ DispatchDies(t) \/ LateSandbox(t)
    BY <1>4 DEF Dispatches
  <2>1. UNCHANGED <<job, report>>
    BY <2>0 DEF TearsPredecessorDown, Provisions, Binds, BindFails, GivesUp, CleansUp,
                DispatchDies, LateSandbox, cluster
  <2>2. session'.turns = session.turns
    <3>1. CASE GivesUp(t)
      BY <3>1 DEF GivesUp, Abandon, Typed, Sessions
    <3>2. CASE Binds(t)
      BY <3>2 DEF Binds, Typed, Sessions
    <3>. QED BY <2>0, <3>1, <3>2 DEF TearsPredecessorDown, Provisions, BindFails, CleansUp,
                DispatchDies, LateSandbox
  <2>. QED BY <1>3, <2>1, <2>2
<1>5. CASE Users
  <2>1. UNCHANGED <<job, report>>
    BY <1>5 DEF Users, ResumeReads, ResumeMarks, ResumeWakes, ResumeSettles, CancelMarks,
                CancelTerminates, CancelSettles, DeleteReads, DeleteSettles, VerbFails,
                Rows, cluster
  <2>2. session'.turns = session.turns
    BY <1>5 DEF Users, ResumeReads, ResumeMarks, ResumeWakes, ResumeSettles, CancelMarks,
                CancelTerminates, CancelSettles, DeleteReads, DeleteSettles, VerbFails,
                Rows, Typed, Sessions
  <2>. QED BY <1>3, <2>1, <2>2
<1>6. ASSUME NEW t \in Turns, DriverReports(t)
      PROVE  WithinTurn
  <2>1. UNCHANGED <<job, session>> /\ \A u \in Turns : report[u] = "none" \/ report'[u] = report[u]
    BY <1>6 DEF DriverReports, Typed
  <2>. QED BY <1>3, <2>1
<1>7. ASSUME NEW t \in Turns, SandboxVanishes(t)
      PROVE  WithinTurn
  BY <1>3, <1>7 DEF SandboxVanishes
<1>. QED BY <1>1, <1>2, <1>4, <1>5, <1>6, <1>7 DEF Next

(* Reports are held for the newest turn only. *)
LEMMA ReportStep ==
  ASSUME LateReports = FALSE, IInv, ReportInv, [Next]_vars
  PROVE  ReportInv'
<1>1. CASE Steer
  <2>1. UNCHANGED job /\ \A c \in Completers : job[c].kind \notin {"status", "end"}
    BY <1>1 DEF Steer
  <2>. QED BY <2>1 DEF ReportInv
<1>2. CASE ~Steer
  <2>1. WithinTurn
    BY <1>2, StaysWithinTurn DEF IInv
  <2>2. session.turns \in Turns /\ session.sandbox \in {0, session.turns}
    BY DEF IInv, Typed, Sessions, RowInv, BoundToItsTurn
  <2>3. report[session.turns] = "succeeded" => report'[session'.turns] = "succeeded"
    BY <2>1, <2>2 DEF WithinTurn
  <2>4. ASSUME NEW c \in Completers
        PROVE  /\ job'[c].kind \in {"status", "end"} => job'[c].turn = session.turns
               /\ job'[c].kind = "end" /\ job'[c].verdict = "succeeded" =>
                    report[session.turns] = "succeeded"
    BY <2>1, <2>2 DEF WithinTurn, Holds, ReportInv
  <2>. QED BY <2>1, <2>3, <2>4 DEF ReportInv, WithinTurn
<1>. QED BY <1>1, <1>2

(* Only a Completer that holds a success completes the session. *)
LEMMA CompletesOnSuccess ==
  ASSUME IInv, [Next]_vars, session.phase \in Active, session'.phase = "completed"
  PROVE  \E c \in Completers : job[c].kind = "end" /\ job[c].verdict = "succeeded"
<1>0. session \in Sessions /\ session.phase # "completed" /\ session' # session
  BY DEF IInv, Typed, Active, Provisioning
<1>1. CASE UNCHANGED vars
  BY <1>0, <1>1 DEF vars
<1>2. CASE Completes
  <2>0. PICK c \in Completers : Finalizes(c) \/ Clears(c) \/ Recovers(c)
    BY <1>0, <1>2 DEF Completes, ListsActive, ReadsStatus, ListsIdle, Terminates,
              ListsPredecessor, ListsDispatch, FindsOrphan, Cleans, RepairsIntent,
              Forgets, SweepsOrphan, JobFails
  <2>1. CASE Clears(c)
    BY <1>0, <2>1 DEF Clears, Sessions
  <2>2. CASE Recovers(c)
    BY <1>0, <2>2 DEF Recovers, Abandon, Sessions
  <2>3. CASE Finalizes(c)
    BY <1>0, <2>3 DEF Finalizes, Sessions
  <2>. QED BY <2>0, <2>1, <2>2, <2>3
<1>3. CASE Dispatches
  <2>0. PICK t \in Turns : Binds(t) \/ GivesUp(t)
    BY <1>0, <1>3 DEF Dispatches, TearsPredecessorDown, Provisions, BindFails, CleansUp,
                DispatchDies, LateSandbox
  <2>1. CASE Binds(t)
    BY <1>0, <2>1 DEF Binds, Sessions
  <2>2. CASE GivesUp(t)
    BY <1>0, <2>2 DEF GivesUp, Abandon, Sessions
  <2>. QED BY <2>0, <2>1, <2>2
<1>4. CASE Users
  <2>1. CASE Steer
    BY <2>1 DEF Steer
  <2>2. CASE ResumeMarks \/ CancelMarks \/ DeleteSettles
    BY <1>0, <2>2 DEF ResumeMarks, CancelMarks, DeleteSettles, Sessions
  <2>3. CASE ResumeSettles \/ CancelSettles
    BY <1>0, <2>3 DEF ResumeSettles, CancelSettles, Sessions
  <2>. QED BY <1>0, <1>4, <2>1, <2>2, <2>3 DEF Users, ResumeReads, ResumeWakes,
              CancelTerminates, DeleteReads, VerbFails, Rows
<1>5. ASSUME NEW t \in Turns, DriverReports(t) \/ SandboxVanishes(t)
      PROVE  FALSE
  BY <1>0, <1>5 DEF DriverReports, SandboxVanishes
<1>. QED BY <1>1, <1>2, <1>3, <1>4, <1>5 DEF Next

(* A session completes on the success its own newest turn's driver reported,
   wherever no report is filed across a steer (CompletedByItsReport). *)
THEOREM CompletionsAreReported ==
  ASSUME LateReports = FALSE
  PROVE  Spec => CompletedByItsReport
<1>1. Init => ReportInv
  BY DEF Init, ReportInv, Idle
<1>2. IInv /\ ReportInv /\ [Next]_vars => ReportInv'
  BY ReportStep
<1>3. IInv /\ ReportInv /\ [Next]_vars =>
        [session.phase \in Active /\ session'.phase = "completed"
           => report[session.turns] = "succeeded"]_vars
  BY CompletesOnSuccess DEF ReportInv
<1>. QED BY Invariant, <1>1, <1>2, <1>3, PTL DEF Spec, CompletedByItsReport
=============================================================================
