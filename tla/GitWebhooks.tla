----------------------------- MODULE GitWebhooks -----------------------------
(***************************************************************************)
(* The replay ledger of the inbound git webhook (store/gitwebhook.go,      *)
(* apps/webhook.go): a signed delivery is claimed once per tenant scope    *)
(* before it acts, and the claims are kept until no replica accepts the    *)
(* signing secret, the epoch, they were made under.                        *)
(*                                                                         *)
(* The steps are statements of READ COMMITTED transactions, and the locks  *)
(* follow from how far a transaction is: a claim holds the row of its      *)
(* replica's lease from the refresh on and its scope from the advisory     *)
(* lock on; a registration holds the advisory lock of its epoch, a sweep   *)
(* those of every epoch it has looked at and the leases it deletes.        *)
(*                                                                         *)
(* One key class: the two differ in their digests and lock keys, and share *)
(* a tenant's capacity as epochs do.  A replica is one process; a restart  *)
(* is another replica.                                                     *)
(***************************************************************************)
EXTENDS Naturals, FiniteSets

CONSTANTS
  Instances,  \* processes
  Epochs,     \* signing secrets; numbers, for sweeps take them in order
  Requests,   \* deliveries in progress at once
  Bodies,     \* signed bodies the host delivers, again and again
  Deletions,  \* those of them that delete a branch
  Fanout,     \* how many scopes each body fans out to
  Cap         \* MaxGitWebhookReplayClaimsPerScope

ASSUME GitWebhooksAssumption ==
  /\ Epochs \subseteq Nat
  /\ Deletions \subseteq Bodies
  /\ Fanout \in [Bodies -> Nat \ {0}]
  /\ Cap \in Nat \ {0}

\* The scopes in the order the resolver lists them.
Scopes(b) == 1 .. Fanout[b]

Claims == UNION {[body : {b}, scope : Scopes(b), epoch : Epochs] : b \in Bodies}

VARIABLES
  instance, \* [state, epoch] of each process
  leases,   \* git_webhook_replay_epoch_leases: the replicas that have a row
  lapsed,   \* those whose heartbeat is older than GitWebhookReplayLeaseTTL
  retired,  \* git_webhook_replay_retired_epochs
  claims,   \* git_webhook_replays
  request,  \* where each delivery is
  sweep,    \* where each replica's maintenance pass is
  acted,    \* history: the claims whose delivery has acted on its scope
  orphaned  \* history: claims left without work by a crash, a lost answer or a
            \* failed release

vars == <<instance, leases, lapsed, retired, claims, request, sweep, acted, orphaned>>

NoRequest == [at |-> "idle", inst |-> "none", body |-> "none", scope |-> 1, taken |-> {}]
NoSweep == [at |-> "idle", gone |-> {}, todo |-> {}, locked |-> {},
            retiring |-> {}, dropped |-> {}]

Init ==
  /\ instance = [i \in Instances |-> [state |-> "new", epoch |-> 0]]
  /\ leases = {} /\ lapsed = {}
  /\ retired = {}
  /\ claims = {}
  /\ request = [r \in Requests |-> NoRequest]
  /\ sweep = [i \in Instances |-> NoSweep]
  /\ acted = {}
  /\ orphaned = {}

-----------------------------------------------------------------------------
(* Locks. *)

Claiming == {"scope", "read", "insert"}

\* The row of a lease is held by a claim that refreshed it, or by a sweep
\* that deletes it.
LeaseHeld(i) ==
  \/ \E r \in Requests : request[r].inst = i /\ request[r].at \in Claiming
  \/ \E j \in Instances : i \in sweep[j].gone

ScopeHeld(s) == \E r \in Requests : request[r].scope = s /\ request[r].at \in {"read", "insert"}

EpochHeld(e) ==
  \E i \in Instances :
     \/ sweep[i].at = "enlist" /\ instance[i].epoch = e
     \/ e \in sweep[i].locked

-----------------------------------------------------------------------------
(* Deliveries: ServeHTTP and serveDelete, one scope after the other. *)

ClaimOf(r) ==
  [body |-> request[r].body, scope |-> request[r].scope, epoch |-> instance[request[r].inst].epoch]

\* The request goes on with the next scope and has taken these claims, or is
\* answered after the last one.
Continues(r, taken) ==
  request' = [request EXCEPT ![r] =
    IF @.scope < Fanout[@.body]
    THEN [at |-> "next", inst |-> @.inst, body |-> @.body, scope |-> @.scope + 1, taken |-> taken]
    ELSE NoRequest]

\* The request is answered 5xx, once it has released every claim in taken.
Fails(r) ==
  request' = [request EXCEPT ![r] =
    IF @.taken = {} THEN NoRequest ELSE [@ EXCEPT !.at = "release"]]

\* A delivery signed with the secret of a replica reaches it.
Receives(r, i, b) ==
  /\ request[r].at = "idle"
  /\ instance[i].state = "up"
  /\ request' = [request EXCEPT ![r] =
       [at |-> "next", inst |-> i, body |-> b, scope |-> 1, taken |-> {}]]
  /\ UNCHANGED <<instance, leases, lapsed, retired, claims, sweep, acted, orphaned>>

\* The workspace tracks neither the repository nor the branch.
Passes(r) ==
  /\ request[r].at = "next"
  /\ Continues(r, request[r].taken)
  /\ UNCHANGED <<instance, leases, lapsed, retired, claims, sweep, acted, orphaned>>

\* ClaimGitWebhookDelivery refreshes a lease that has not expired ...
Refreshes(r) ==
  /\ request[r].at = "next"
  /\ request[r].inst \in leases \ lapsed
  /\ ~LeaseHeld(request[r].inst)
  /\ request' = [request EXCEPT ![r].at = "scope"]
  /\ UNCHANGED <<instance, leases, lapsed, retired, claims, sweep, acted, orphaned>>

\* Variant: the advisory lock is not taken.
LocksNoScope(r) ==
  /\ request[r].at = "scope"
  /\ request' = [request EXCEPT ![r].at = "read"]
  /\ UNCHANGED <<instance, leases, lapsed, retired, claims, sweep, acted, orphaned>>

\* ... locks the scope ...
LocksScope(r) ==
  /\ request[r].at = "scope"
  /\ ~ScopeHeld(request[r].scope)
  /\ request' = [request EXCEPT ![r].at = "read"]
  /\ UNCHANGED <<instance, leases, lapsed, retired, claims, sweep, acted, orphaned>>

\* The digest of a workspace's claim stands for its body and scope.
Known(body, scope) == \E c \in claims : c.body = body /\ c.scope = scope
Count(scope) == Cardinality({c \in claims : c.scope = scope})

\* ... looks for the digest and counts the scope's rows ...
Reads(r) ==
  /\ request[r].at = "read"
  /\ \/ Known(request[r].body, request[r].scope) /\ Continues(r, request[r].taken)
     \/ /\ ~Known(request[r].body, request[r].scope)
        /\ Count(request[r].scope) >= Cap
        /\ Fails(r)
     \/ /\ ~Known(request[r].body, request[r].scope)
        /\ Count(request[r].scope) < Cap
        /\ request' = [request EXCEPT ![r].at = "insert"]
  /\ UNCHANGED <<instance, leases, lapsed, retired, claims, sweep, acted, orphaned>>

\* ... and inserts the row.  Its ON CONFLICT never applies: the digest belongs
\* to the scope that is locked.
Inserts(r) ==
  /\ request[r].at = "insert"
  /\ claims' = claims \cup {ClaimOf(r)}
  /\ request' = [request EXCEPT ![r].at = "work", ![r].taken = @ \cup {ClaimOf(r)}]
  /\ UNCHANGED <<instance, leases, lapsed, retired, sweep, acted, orphaned>>

\* The claim commits and its answer is lost: the request does not know of it.
InsertAnswerLost(r) ==
  /\ request[r].at = "insert"
  /\ claims' = claims \cup {ClaimOf(r)}
  /\ orphaned' = orphaned \cup ({ClaimOf(r)} \ acted)
  /\ Fails(r)
  /\ UNCHANGED <<instance, leases, lapsed, retired, sweep, acted>>

\* A source read or a statement fails, or the lease or the lock is refused.
Stumbles(r) ==
  /\ request[r].at \in Claiming \cup {"next"}
  /\ Fails(r)
  /\ UNCHANGED <<instance, leases, lapsed, retired, claims, sweep, acted, orphaned>>

\* The scope is acted on.  A push keeps the claim for good; a deletion keeps
\* it among those a later scope's failure releases.
Works(r) ==
  /\ request[r].at = "work"
  /\ acted' = acted \cup {ClaimOf(r)}
  /\ Continues(r, IF request[r].body \in Deletions THEN request[r].taken ELSE {})
  /\ UNCHANGED <<instance, leases, lapsed, retired, claims, sweep, orphaned>>

\* Variant: the failed scope is answered without releasing its claim.
WorkFailsKeeping(r) ==
  /\ request[r].at = "work"
  /\ request[r].body \notin Deletions
  /\ request' = [request EXCEPT ![r] = NoRequest]
  /\ UNCHANGED <<instance, leases, lapsed, retired, claims, sweep, acted, orphaned>>

\* The check or the Blueprint intent of a push is not accepted.
WorkFails(r) ==
  /\ request[r].at = "work"
  /\ request[r].body \notin Deletions
  /\ Fails(r)
  /\ UNCHANGED <<instance, leases, lapsed, retired, claims, sweep, acted, orphaned>>

\* The claim of one scope has been dealt with; the answer follows the last.
LetsGo(r, c) ==
  request' = IF request[r].taken = {c} THEN [request EXCEPT ![r] = NoRequest]
             ELSE [request EXCEPT ![r].taken = @ \ {c}]

\* deliveryClaims.release, one statement per claim; a row that a sweep is
\* deleting makes it wait.
Releases(r, c) ==
  /\ request[r].at = "release"
  /\ c \in request[r].taken
  /\ \A i \in Instances : c \notin sweep[i].dropped
  /\ claims' = claims \ {c}
  /\ LetsGo(r, c)
  /\ UNCHANGED <<instance, leases, lapsed, retired, sweep, acted, orphaned>>

\* Its two seconds are over, or the statement fails.
ReleaseFails(r, c) ==
  /\ request[r].at = "release"
  /\ c \in request[r].taken
  /\ orphaned' = orphaned \cup ((claims \cap {c}) \ acted)
  /\ LetsGo(r, c)
  /\ UNCHANGED <<instance, leases, lapsed, retired, claims, sweep, acted>>

-----------------------------------------------------------------------------
(* Maintenance: MaintainGitWebhookReplayEpochs, once before a process      *)
(* serves and then as long as it does.                                     *)

\* A process starts with one secret.
Starts(i, e) ==
  /\ instance[i].state = "new"
  /\ instance' = [instance EXCEPT ![i] = [state |-> "starting", epoch |-> e]]
  /\ UNCHANGED <<leases, lapsed, retired, claims, request, sweep, acted, orphaned>>

\* The first pass has to succeed, or the process exits; a later one is logged.
Survivor(i) ==
  instance' = [instance EXCEPT ![i].state = IF @ = "starting" THEN "gone" ELSE @]

\* Variant: registration does not look for the retired epoch.
RegistersAnyway(i) ==
  /\ instance[i].state \in {"starting", "up"}
  /\ sweep[i].at = "idle"
  /\ ~EpochHeld(instance[i].epoch)
  /\ sweep' = [sweep EXCEPT ![i].at = "enlist"]
  /\ UNCHANGED <<instance, leases, lapsed, retired, claims, request, acted, orphaned>>

\* A pass registers its epoch under the lock of the epoch, unless that is
\* retired ...
Registers(i) ==
  /\ instance[i].state \in {"starting", "up"}
  /\ sweep[i].at = "idle"
  /\ ~EpochHeld(instance[i].epoch)
  /\ \/ /\ instance[i].epoch \in retired
        /\ Survivor(i)
        /\ UNCHANGED sweep
     \/ /\ instance[i].epoch \notin retired
        /\ sweep' = [sweep EXCEPT ![i].at = "enlist"]
        /\ UNCHANGED instance
  /\ UNCHANGED <<leases, lapsed, retired, claims, request, acted, orphaned>>

\* ... by writing its lease; the transaction ends here.
Enlists(i) ==
  /\ sweep[i].at = "enlist"
  /\ ~LeaseHeld(i)
  /\ leases' = leases \cup {i}
  /\ lapsed' = lapsed \ {i}
  /\ sweep' = [sweep EXCEPT ![i].at = "expire"]
  /\ UNCHANGED <<instance, retired, claims, request, acted, orphaned>>

Accepting(e, live) == \E i \in live : instance[i].epoch = e

\* The sweep deletes the expired leases and lists the epochs that have claims
\* and no lease.  It waits for a row a claim holds and finds it refreshed, or
\* for one another sweep holds and finds it gone.
Expires(i) ==
  /\ sweep[i].at = "expire"
  /\ LET gone == {j \in lapsed : ~LeaseHeld(j)}
     IN  sweep' = [sweep EXCEPT ![i].at = "look", ![i].gone = gone,
           ![i].todo = {e \in Epochs : /\ \E c \in claims : c.epoch = e
                                       /\ ~Accepting(e, leases \ gone)}]
  /\ UNCHANGED <<instance, leases, lapsed, retired, claims, request, acted, orphaned>>

FirstTodo(i, e) == e \in sweep[i].todo /\ \A f \in sweep[i].todo : e <= f

\* Variant: the epoch is purged as listed.
LocksListed(i, e) ==
  /\ sweep[i].at = "look"
  /\ FirstTodo(i, e)
  /\ ~EpochHeld(e)
  /\ sweep' = [sweep EXCEPT ![i].locked = @ \cup {e}, ![i].at = "purge"]
  /\ UNCHANGED <<instance, leases, lapsed, retired, claims, request, acted, orphaned>>

\* It locks the first of them, and looks for a lease again under the lock.
LocksEpoch(i, e) ==
  /\ sweep[i].at = "look"
  /\ FirstTodo(i, e)
  /\ ~EpochHeld(e)
  /\ \/ /\ Accepting(e, leases \ sweep[i].gone)
        /\ sweep' = [sweep EXCEPT ![i].locked = @ \cup {e}, ![i].todo = @ \ {e}]
     \/ /\ ~Accepting(e, leases \ sweep[i].gone)
        /\ sweep' = [sweep EXCEPT ![i].locked = @ \cup {e}, ![i].at = "purge"]
  /\ UNCHANGED <<instance, leases, lapsed, retired, claims, request, acted, orphaned>>

\* It deletes the claims of the epoch it retires.
Purges(i, e) ==
  /\ sweep[i].at = "purge"
  /\ FirstTodo(i, e)
  /\ sweep' = [sweep EXCEPT ![i].at = "look", ![i].todo = @ \ {e},
       ![i].retiring = @ \cup {e}, ![i].dropped = @ \cup {c \in claims : c.epoch = e}]
  /\ UNCHANGED <<instance, leases, lapsed, retired, claims, request, acted, orphaned>>

\* The sweep commits; a process that was starting serves from now on.
Commits(i) ==
  /\ sweep[i].at = "look"
  /\ sweep[i].todo = {}
  /\ leases' = leases \ sweep[i].gone
  /\ lapsed' = lapsed \ sweep[i].gone
  /\ retired' = retired \cup sweep[i].retiring
  /\ claims' = claims \ sweep[i].dropped
  /\ orphaned' = orphaned \ sweep[i].dropped
  /\ sweep' = [sweep EXCEPT ![i] = NoSweep]
  /\ instance' = [instance EXCEPT ![i].state = "up"]
  /\ UNCHANGED <<request, acted>>

\* A pass fails and what it has not committed is undone; so is one of a
\* registration and a sweep that wait for each other's lease row and epoch.
PassFails(i) ==
  /\ sweep[i].at # "idle"
  /\ sweep' = [sweep EXCEPT ![i] = NoSweep]
  /\ Survivor(i)
  /\ UNCHANGED <<leases, lapsed, retired, claims, request, acted, orphaned>>

\* No heartbeat for GitWebhookReplayLeaseTTL.
Lapses(i) ==
  /\ i \in leases \ lapsed
  /\ lapsed' = lapsed \cup {i}
  /\ UNCHANGED <<instance, leases, retired, claims, request, sweep, acted, orphaned>>

\* A graceful stop ends the pass and gives the lease back, if it can within
\* two seconds; deliveries in progress go on.
Stops(i) ==
  /\ instance[i].state = "up"
  /\ instance' = [instance EXCEPT ![i].state = "stopping"]
  /\ sweep' = [sweep EXCEPT ![i] = NoSweep]
  /\ \/ ~LeaseHeld(i) /\ leases' = leases \ {i} /\ lapsed' = lapsed \ {i}
     \/ UNCHANGED <<leases, lapsed>>
  /\ UNCHANGED <<retired, claims, request, acted, orphaned>>

\* A process ends or dies; its transactions are undone.
Dies(i) ==
  /\ instance[i].state \in {"starting", "up", "stopping"}
  /\ instance' = [instance EXCEPT ![i].state = "gone"]
  /\ sweep' = [sweep EXCEPT ![i] = NoSweep]
  /\ request' = [r \in Requests |-> IF request[r].inst = i THEN NoRequest ELSE request[r]]
  /\ orphaned' = orphaned \cup {c \in claims \ acted :
       \E r \in Requests : request[r].inst = i /\ c \in request[r].taken}
  /\ UNCHANGED <<leases, lapsed, retired, claims, acted>>

-----------------------------------------------------------------------------
Maintains(i) ==
  \/ Registers(i) \/ Enlists(i) \/ Expires(i) \/ Commits(i)
  \/ \E e \in Epochs : LocksEpoch(i, e) \/ Purges(i, e)

Delivers(r) ==
  \/ Passes(r) \/ Refreshes(r) \/ LocksScope(r) \/ Reads(r) \/ Inserts(r)
  \/ InsertAnswerLost(r) \/ Stumbles(r) \/ Works(r) \/ WorkFails(r)
  \/ \E c \in Claims : Releases(r, c) \/ ReleaseFails(r, c)

Next ==
  \/ \E r \in Requests : Delivers(r) \/ \E i \in Instances, b \in Bodies : Receives(r, i, b)
  \/ \E i \in Instances : \/ Maintains(i) \/ PassFails(i) \/ Lapses(i) \/ Stops(i) \/ Dies(i)
                          \/ \E e \in Epochs : Starts(i, e)

Spec == Init /\ [][Next]_vars

-----------------------------------------------------------------------------
RequestRows ==
  [at : {"idle", "next", "scope", "read", "insert", "work", "release"},
   inst : Instances \cup {"none"}, body : Bodies \cup {"none"},
   scope : Nat, taken : SUBSET Claims]

SweepRows ==
  [at : {"idle", "enlist", "expire", "look", "purge"}, gone : SUBSET Instances,
   todo : SUBSET Epochs, locked : SUBSET Epochs, retiring : SUBSET Epochs,
   dropped : SUBSET Claims]

TypeOK ==
  /\ instance \in [Instances ->
       [state : {"new", "starting", "up", "stopping", "gone"}, epoch : Epochs \cup {0}]]
  /\ leases \subseteq Instances /\ lapsed \subseteq leases
  /\ retired \subseteq Epochs
  /\ claims \subseteq Claims /\ acted \subseteq Claims /\ orphaned \subseteq claims \ acted
  /\ request \in [Requests -> RequestRows]
  /\ sweep \in [Instances -> SweepRows]

(* A push acts at most once on a scope for as long as a signature of its   *)
(* bytes may be accepted: no replica makes it act again after its claim    *)
(* was purged.                                                             *)
ActedOnce ==
  \A r \in Requests :
     request[r].at = "work" /\ request[r].body \notin Deletions => ClaimOf(r) \notin acted

(* However many replicas claim at once, a tenant's rows stay within its    *)
(* capacity.                                                               *)
CapKept == \A c \in claims : Count(c.scope) <= Cap

(* A retired epoch has neither a claim nor a lease, then and for ever      *)
(* after, though a replica that accepts it may still be running.           *)
RetiredIsFinal ==
  \A e \in retired : ~Accepting(e, leases) /\ \A c \in claims : c.epoch # e

(* A claim swallows redeliveries, so it must stand for work: done, in the  *)
(* hands of a request, or lost to a crash, a lost answer or a failed       *)
(* release.                                                                *)
ClaimsAreWork ==
  \A c \in claims :
     \/ c \in acted
     \/ c \in orphaned
     \/ \E r \in Requests : c \in request[r].taken
=============================================================================
