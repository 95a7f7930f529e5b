-------------------------- MODULE GitWebhooksProofs --------------------------
(***************************************************************************)
(* Proofs of GitWebhooks' safety properties for any number of processes,   *)
(* signing secrets, deliveries and scopes, and any capacity.               *)
(***************************************************************************)
EXTENDS GitWebhooks, FiniteSetTheorems, TLAPS

-----------------------------------------------------------------------------
(* The inductive invariant, in named parts. *)

\* A request is idle, or in progress at a process that has started.
InProgress(q) ==
  /\ q.at # "idle"
  /\ q.inst \in Instances /\ instance[q.inst].state # "new"
  /\ q.body \in Bodies /\ q.scope \in Scopes(q.body)

RequestInv == \A r \in Requests : request[r] = NoRequest \/ InProgress(request[r])

\* A process that has not started leaves no trace, and a pass that is not
\* sweeping holds nothing.
Bare(w) == /\ w.gone = {} /\ w.todo = {} /\ w.locked = {}
           /\ w.retiring = {} /\ w.dropped = {}

ProcessInv ==
  \A i \in Instances :
    /\ instance[i].state = "new" => i \notin leases /\ sweep[i].at = "idle"
    /\ instance[i].state # "new" => instance[i].epoch \in Epochs
    /\ sweep[i].at \in {"idle", "enlist", "expire"} => Bare(sweep[i])

\* The locks of epochs, leases and scopes exclude each other.
EpochLocks ==
  \A i, j \in Instances, e \in Epochs : e \in sweep[i].locked =>
    /\ e \in sweep[j].locked => i = j
    /\ sweep[j].at = "enlist" => instance[j].epoch # e

Holds(q) ==
  /\ q.inst \in leases
  /\ \A i \in Instances : q.inst \notin sweep[i].gone

LeaseLocks ==
  /\ \A i, j, h \in Instances : h \in sweep[i].gone /\ h \in sweep[j].gone => i = j
  /\ \A r \in Requests : request[r].at \in Claiming => Holds(request[r])

Counting == {"read", "insert"}

ScopeLocks ==
  \A r, q \in Requests :
    /\ request[r].at \in Counting /\ request[q].at \in Counting
    /\ request[r].scope = request[q].scope
    => r = q

\* The epochs whose claims a sweep has deleted, or is about to delete.
Doomed(i, e) == e \in sweep[i].retiring \/ (sweep[i].at = "purge" /\ FirstTodo(i, e))

DoomInv ==
  \A i \in Instances :
    /\ \A e \in Epochs : Doomed(i, e) =>
         /\ e \in sweep[i].locked
         /\ \A h \in leases : instance[h].epoch = e => h \in sweep[i].gone
    /\ \A c \in claims : c.epoch \in sweep[i].retiring => c \in sweep[i].dropped
    /\ \A c \in sweep[i].dropped : c.epoch \in sweep[i].retiring

\* No lease of a retired epoch is written again.
RetireInv ==
  /\ RetiredIsFinal
  /\ \A i \in Instances : sweep[i].at = "enlist" => instance[i].epoch \notin retired

\* A claim in the hands of a request.
Pending(c) == c \in claims \/ c.epoch \in retired

Taken(r) ==
  /\ \A c \in request[r].taken :
       /\ c.body = request[r].body
       /\ Pending(c) /\ c \notin orphaned
       /\ c.body \notin Deletions => c \notin acted
  /\ request[r].at \in Claiming \cup {"next"} => request[r].taken \subseteq acted
  /\ request[r].at = "work" =>
       ClaimOf(r) \in request[r].taken /\ request[r].taken \subseteq acted \cup {ClaimOf(r)}

TakenInv ==
  /\ \A r \in Requests : Taken(r)
  /\ \A r, q \in Requests, c \in Claims :
       c \in request[r].taken /\ c \in request[q].taken => r = q

\* What a push did is remembered for as long as its epoch is accepted.
ActedInv == \A c \in acted : c.body \notin Deletions => Pending(c)

\* A request that inserts knows that its scope has room.
HasRoom(q) == ~Known(q.body, q.scope) /\ Count(q.scope) < Cap

RoomInv ==
  /\ IsFiniteSet(claims)
  /\ CapKept
  /\ \A r \in Requests : request[r].at = "insert" => HasRoom(request[r])

IInv == /\ TypeOK /\ RequestInv /\ ProcessInv
        /\ EpochLocks /\ LeaseLocks /\ ScopeLocks
        /\ DoomInv /\ RetireInv
        /\ TakenInv /\ ActedInv /\ RoomInv /\ ClaimsAreWork

-----------------------------------------------------------------------------
(* Rows. *)

(* The rows at rest are rows. *)
LEMMA RowsAtRest == NoRequest \in RequestRows /\ NoSweep \in SweepRows
BY DEF NoRequest, RequestRows, NoSweep, SweepRows

(* A claim is identified by body, scope and epoch. *)
LEMMA ClaimsHold ==
  /\ \A b \in Bodies, e \in Epochs : \A s \in Scopes(b) :
       [body |-> b, scope |-> s, epoch |-> e] \in Claims
  /\ \A c \in Claims : /\ c.body \in Bodies /\ c.scope \in Scopes(c.body) /\ c.epoch \in Epochs
                       /\ c = [body |-> c.body, scope |-> c.scope, epoch |-> c.epoch]
BY DEF Claims

(* The claim of a request in progress is one. *)
LEMMA ClaimTyped ==
  ASSUME IInv, NEW r \in Requests, request[r].at # "idle"
  PROVE  /\ ClaimOf(r) \in Claims
         /\ ClaimOf(r).body = request[r].body /\ ClaimOf(r).scope = request[r].scope
         /\ ClaimOf(r).epoch = instance[request[r].inst].epoch
         /\ instance[request[r].inst].epoch \in Epochs
<1>1. InProgress(request[r])
  BY DEF IInv, RequestInv, NoRequest
<1>2. instance[request[r].inst].epoch \in Epochs
  BY <1>1 DEF IInv, ProcessInv, InProgress
<1>. QED BY <1>1, <1>2, ClaimsHold DEF ClaimOf, InProgress

(* One request moves. *)
LEMMA RequestMoves ==
  ASSUME IInv, NEW r \in Requests, NEW q \in RequestRows, request' = [request EXCEPT ![r] = q]
  PROVE  /\ request' \in [Requests -> RequestRows]
         /\ request'[r] = q
         /\ \A p \in Requests : p # r => request'[p] = request[p]
BY DEF IInv, TypeOK

(* The claims of the other requests stay what they are. *)
LEMMA OthersClaims ==
  ASSUME IInv, UNCHANGED instance, NEW p \in Requests, request'[p] = request[p]
  PROVE  ClaimOf(p)' = ClaimOf(p)
BY DEF ClaimOf

(* What a scope holds depends on the ledger alone. *)
LEMMA SameLedger ==
  ASSUME UNCHANGED claims
  PROVE  /\ \A s : Count(s)' = Count(s)
         /\ \A b, s : Known(b, s)' = Known(b, s)
BY DEF Count, Known

-----------------------------------------------------------------------------
(* Steps of a request that leave the ledger alone. *)

\* Request r, and nothing else, moves to q: it holds what its new place needs,
\* and keeps the claims that are not done with.
Advances(r, q) ==
  /\ q \in RequestRows
  /\ request' = [request EXCEPT ![r] = q]
  /\ UNCHANGED <<instance, leases, lapsed, retired, claims, sweep, acted, orphaned>>
  /\ q = NoRequest \/ InProgress(q)
  /\ q.at # "work"
  /\ q.at \in Claiming => Holds(q)
  /\ q.at \in Counting => \A p \in Requests : request[p].at \in Counting /\ request[p].scope = q.scope => p = r
  /\ q.at = "insert" => HasRoom(q)
  /\ \/ q.taken = request[r].taken /\ q.body = request[r].body
     \/ q.taken = {} /\ request[r].taken \subseteq acted
  /\ q.at \in Claiming \cup {"next"} => q.taken \subseteq acted

(* Such a step keeps the invariant. *)
LEMMA AdvanceStep ==
  ASSUME IInv, NEW r \in Requests, NEW q, Advances(r, q)
  PROVE  IInv'
<1>1. /\ request' \in [Requests -> RequestRows] /\ request'[r] = q
      /\ \A p \in Requests : p # r => request'[p] = request[p]
      /\ UNCHANGED <<instance, leases, lapsed, retired, claims, sweep, acted, orphaned>>
  BY RequestMoves DEF Advances
<1>2. TypeOK'
  BY <1>1 DEF IInv, TypeOK
<1>3. RequestInv'
  BY <1>1 DEF IInv, RequestInv, Advances, InProgress
<1>4. ProcessInv'
  BY <1>1 DEF IInv, ProcessInv
<1>5. EpochLocks' /\ LeaseLocks' /\ ScopeLocks'
  <2>1. EpochLocks'
    BY <1>1 DEF IInv, EpochLocks
  <2>2. LeaseLocks'
    BY <1>1 DEF IInv, LeaseLocks, Holds, Advances
  <2>3. ScopeLocks'
    BY <1>1 DEF IInv, ScopeLocks, Advances
  <2>. QED BY <2>1, <2>2, <2>3
<1>6. DoomInv' /\ RetireInv'
  BY <1>1 DEF IInv, DoomInv, RetireInv, RetiredIsFinal, Accepting, Doomed, FirstTodo
<1>7. TakenInv'
  <2>1. ASSUME NEW p \in Requests PROVE Taken(p)'
    <3>1. CASE p # r
      BY <1>1, <3>1, OthersClaims DEF IInv, TakenInv, Taken, Pending
    <3>2. CASE p = r
      BY <1>1, <3>2 DEF IInv, TakenInv, Taken, Pending, Advances
    <3>. QED BY <3>1, <3>2
  <2>2. \A p \in Requests : request'[p].taken \subseteq request[p].taken
    BY <1>1 DEF Advances
  <2>. QED BY <2>1, <2>2 DEF IInv, TakenInv
<1>8. ActedInv'
  BY <1>1 DEF IInv, ActedInv, Pending
<1>9. RoomInv'
  BY <1>1, SameLedger DEF IInv, RoomInv, CapKept, HasRoom, Advances
<1>10. ClaimsAreWork'
  BY <1>1 DEF IInv, ClaimsAreWork, Advances
<1>. QED BY <1>2, <1>3, <1>4, <1>5, <1>6, <1>7, <1>8, <1>9, <1>10 DEF IInv

(* The two ways on of a request that acts on nothing: the next scope, or an *)
(* answer.                                                                 *)
LEMMA ContinuesAdvances ==
  ASSUME IInv, NEW r \in Requests, request[r].at \in {"next", "read"},
         Continues(r, request[r].taken),
         UNCHANGED <<instance, leases, lapsed, retired, claims, sweep, acted, orphaned>>
  PROVE  IInv'
<1>1. InProgress(request[r]) /\ request[r] \in RequestRows /\ Fanout \in [Bodies -> Nat \ {0}]
  BY GitWebhooksAssumption DEF IInv, TypeOK, RequestInv, NoRequest
<1>2. CASE request[r].scope < Fanout[request[r].body]
  <2>. DEFINE q == [at |-> "next", inst |-> request[r].inst, body |-> request[r].body,
                    scope |-> request[r].scope + 1, taken |-> request[r].taken]
  <2>0. request[r].taken \in SUBSET Claims
    BY <1>1 DEF RequestRows
  <2>1. q \in RequestRows
    BY <1>1, <2>0 DEF RequestRows
  <2>2. InProgress(q)
    BY <1>1, <1>2, <2>1 DEF InProgress, Scopes, RequestRows
  <2>3. q.taken \subseteq acted
    BY <2>1 DEF IInv, TakenInv, Taken, Claiming
  <2>4. request' = [request EXCEPT ![r] = q]
    BY <1>2 DEF Continues
  <2>5. q.at = "next" /\ q.body = request[r].body /\ q.taken = request[r].taken
    OBVIOUS
  <2>. HIDE DEF q
  <2>6. Advances(r, q)
    BY <2>1, <2>2, <2>3, <2>4, <2>5 DEF Advances, Claiming, Counting
  <2>. QED BY <2>6, AdvanceStep
<1>3. CASE ~(request[r].scope < Fanout[request[r].body])
  <2>1. request' = [request EXCEPT ![r] = NoRequest]
    BY <1>3 DEF Continues
  <2>2. request[r].taken \subseteq acted
    BY DEF IInv, TakenInv, Taken, Claiming
  <2>3. Advances(r, NoRequest)
    BY <2>1, <2>2, RowsAtRest DEF Advances, NoRequest, Claiming, Counting
  <2>. QED BY <2>3, AdvanceStep
<1>. QED BY <1>2, <1>3

(* A refusal that has nothing to release, or something. *)
LEMMA FailsAdvances ==
  ASSUME IInv, NEW r \in Requests, request[r].at # "idle",
         Fails(r),
         UNCHANGED <<instance, leases, lapsed, retired, claims, sweep, acted, orphaned>>
  PROVE  IInv'
<1>1. InProgress(request[r]) /\ request[r] \in RequestRows
  BY DEF IInv, TypeOK, RequestInv, NoRequest
<1>2. CASE request[r].taken = {}
  <2>1. request' = [request EXCEPT ![r] = NoRequest]
    BY <1>2 DEF Fails
  <2>2. Advances(r, NoRequest)
    BY <1>2, <2>1, RowsAtRest DEF Advances, NoRequest, Claiming, Counting
  <2>. QED BY <2>2, AdvanceStep
<1>3. CASE request[r].taken # {}
  <2>. DEFINE q == [request[r] EXCEPT !.at = "release"]
  <2>1. q \in RequestRows /\ q.at = "release" /\ q.inst = request[r].inst /\ q.body = request[r].body
        /\ q.scope = request[r].scope /\ q.taken = request[r].taken
    BY <1>1 DEF RequestRows
  <2>2. InProgress(q)
    BY <1>1, <2>1 DEF InProgress
  <2>3. request' = [request EXCEPT ![r] = q]
    BY <1>3 DEF Fails
  <2>. HIDE DEF q
  <2>4. Advances(r, q)
    BY <2>1, <2>2, <2>3 DEF Advances, Claiming, Counting
  <2>. QED BY <2>4, AdvanceStep
<1>. QED BY <1>2, <1>3

(* A request in progress is a row, and its fields are typed. *)
LEMMA Progressing ==
  ASSUME IInv, NEW r \in Requests, request[r].at # "idle"
  PROVE  InProgress(request[r]) /\ request[r] \in RequestRows
BY DEF IInv, TypeOK, RequestInv, NoRequest

(* A claim transaction goes on, with all its locks. *)
LEMMA ClaimAdvances ==
  ASSUME IInv, NEW r \in Requests, NEW at \in Claiming, request[r].at \in {"next", "scope", "read"},
         request' = [request EXCEPT ![r].at = at],
         UNCHANGED <<instance, leases, lapsed, retired, claims, sweep, acted, orphaned>>,
         Holds(request[r]),
         at \in Counting => \A p \in Requests :
           request[p].at \in Counting /\ request[p].scope = request[r].scope => p = r,
         at = "insert" => HasRoom(request[r])
  PROVE  IInv'
<1>. DEFINE q == [request[r] EXCEPT !.at = at]
<1>1. InProgress(request[r]) /\ request[r] \in RequestRows
  BY Progressing
<1>2. q \in RequestRows /\ q.at = at /\ q.inst = request[r].inst /\ q.body = request[r].body
      /\ q.scope = request[r].scope /\ q.taken = request[r].taken
  BY <1>1 DEF RequestRows, Claiming
<1>3. request' = [request EXCEPT ![r] = q]
  OBVIOUS
<1>4. request[r].taken \subseteq acted
  BY DEF IInv, TakenInv, Taken, Claiming
<1>. HIDE DEF q
<1>5. InProgress(q) /\ Holds(q) /\ (at = "insert" => HasRoom(q))
  BY <1>1, <1>2 DEF InProgress, Claiming, Holds, HasRoom
<1>6. Advances(r, q)
  BY <1>1, <1>2, <1>3, <1>4, <1>5 DEF Advances, Claiming, Counting
<1>. QED BY <1>6, AdvanceStep

(* A delivery reaches a process that serves. *)
LEMMA ReceivesStep ==
  ASSUME IInv, NEW r \in Requests, NEW i \in Instances, NEW b \in Bodies, Receives(r, i, b)
  PROVE  IInv'
<1>. DEFINE q == [at |-> "next", inst |-> i, body |-> b, scope |-> 1, taken |-> {}]
<1>2. q \in RequestRows
  BY DEF RequestRows
<1>3. request' = [request EXCEPT ![r] = q]
  BY DEF Receives
<1>4. request[r] = NoRequest
  BY DEF IInv, RequestInv, InProgress, Receives
<1>5. InProgress(q)
  <2>1. Fanout[b] \in Nat \ {0}
    BY GitWebhooksAssumption
  <2>2. 1 \in Scopes(b)
    BY <2>1 DEF Scopes
  <2>. QED BY <2>2 DEF InProgress, Receives
<1>6. q.at = "next" /\ q.taken = {}
  OBVIOUS
<1>. HIDE DEF q
<1>7. request[r].taken = {} /\ UNCHANGED <<instance, leases, lapsed, retired, claims, sweep, acted, orphaned>>
  BY <1>4 DEF NoRequest, Receives
<1>8. Advances(r, q)
  BY <1>2, <1>3, <1>5, <1>6, <1>7 DEF Advances, Claiming, Counting
<1>. QED BY <1>8, AdvanceStep

(* A workspace that tracks nothing is passed. *)
LEMMA PassesStep ==
  ASSUME IInv, NEW r \in Requests, Passes(r)
  PROVE  IInv'
BY ContinuesAdvances DEF Passes

(* The refresh of a lease finds it and locks it. *)
LEMMA RefreshesStep ==
  ASSUME IInv, NEW r \in Requests, Refreshes(r)
  PROVE  IInv'
<1>1. Holds(request[r])
  BY DEF Refreshes, Holds, LeaseHeld
<1>. QED BY <1>1, ClaimAdvances DEF Refreshes, Claiming, Counting

(* The scope is locked when no other request counts it. *)
LEMMA LocksScopeStep ==
  ASSUME IInv, NEW r \in Requests, LocksScope(r)
  PROVE  IInv'
<1>1. Holds(request[r])
  BY DEF LocksScope, IInv, LeaseLocks, Claiming
<1>2. \A p \in Requests : request[p].at \in Counting /\ request[p].scope = request[r].scope => p = r
  BY DEF LocksScope, ScopeHeld, Counting
<1>. QED BY <1>1, <1>2, ClaimAdvances DEF LocksScope, Claiming

(* Reading the scope's rows decides. *)
LEMMA ReadsStep ==
  ASSUME IInv, NEW r \in Requests, Reads(r)
  PROVE  IInv'
<1>1. CASE Continues(r, request[r].taken)
  BY <1>1, ContinuesAdvances DEF Reads
<1>2. CASE Fails(r)
  BY <1>2, FailsAdvances DEF Reads
<1>3. CASE HasRoom(request[r]) /\ request' = [request EXCEPT ![r].at = "insert"]
  <2>1. Holds(request[r])
    BY DEF Reads, IInv, LeaseLocks, Claiming
  <2>2. \A p \in Requests : request[p].at \in Counting /\ request[p].scope = request[r].scope => p = r
    BY DEF Reads, IInv, ScopeLocks, Counting
  <2>. QED BY <1>3, <2>1, <2>2, ClaimAdvances DEF Reads, Claiming
<1>. QED BY <1>1, <1>2, <1>3 DEF Reads, HasRoom

(* A request stumbles. *)
LEMMA StumblesStep ==
  ASSUME IInv, NEW r \in Requests, Stumbles(r)
  PROVE  IInv'
BY FailsAdvances DEF Stumbles, Claiming

(* A push is not accepted. *)
LEMMA WorkFailsStep ==
  ASSUME IInv, NEW r \in Requests, WorkFails(r)
  PROVE  IInv'
BY FailsAdvances DEF WorkFails

-----------------------------------------------------------------------------
(* Steps of a request that change the ledger or its history. *)

(* A row inserted for a request that holds its lease belongs to no epoch   *)
(* that is retired or about to be, and to no one else.                     *)
LEMMA FreshClaim ==
  ASSUME IInv, NEW r \in Requests, request[r].at = "insert"
  PROVE  /\ ClaimOf(r) \in Claims
         /\ ~Pending(ClaimOf(r)) /\ ClaimOf(r) \notin orphaned
         /\ \A p \in Requests : ClaimOf(r) \notin request[p].taken
         /\ ClaimOf(r).body \notin Deletions => ClaimOf(r) \notin acted
         /\ \A i \in Instances : ClaimOf(r).epoch \notin sweep[i].retiring
<1>1. InProgress(request[r]) /\ Holds(request[r]) /\ HasRoom(request[r])
  BY Progressing DEF IInv, LeaseLocks, Claiming, RoomInv
<1>2. /\ ClaimOf(r) \in Claims
      /\ ClaimOf(r).body = request[r].body /\ ClaimOf(r).scope = request[r].scope
      /\ ClaimOf(r).epoch = instance[request[r].inst].epoch
      /\ instance[request[r].inst].epoch \in Epochs
  BY ClaimTyped
<1>3. ClaimOf(r) \notin claims
  BY <1>1, <1>2 DEF HasRoom, Known
<1>4. ClaimOf(r).epoch \notin retired
  BY <1>1, <1>2 DEF Holds, IInv, RetireInv, RetiredIsFinal, Accepting
<1>5. \A i \in Instances : ClaimOf(r).epoch \notin sweep[i].retiring
  BY <1>1, <1>2 DEF Holds, InProgress, IInv, DoomInv, Doomed
<1>6. \A p \in Requests : ClaimOf(r) \notin request[p].taken
  BY <1>3, <1>4 DEF IInv, TakenInv, Taken, Pending
<1>7. ClaimOf(r) \notin orphaned
  BY <1>3 DEF IInv, TypeOK
<1>8. ClaimOf(r).body \notin Deletions => ClaimOf(r) \notin acted
  BY <1>3, <1>4 DEF IInv, ActedInv, Pending
<1>. QED BY <1>2, <1>3, <1>4, <1>5, <1>6, <1>7, <1>8 DEF Pending

\* Request r moves to q, which is in no claim transaction; it may have
\* inserted its claim.
Settles(r, q) ==
  /\ q \in RequestRows
  /\ request' = [request EXCEPT ![r] = q]
  /\ UNCHANGED <<instance, leases, lapsed, retired, sweep>>
  /\ q = NoRequest \/ InProgress(q)
  /\ q.at \notin Claiming
  /\ \/ claims' \subseteq claims
     \/ request[r].at = "insert" /\ claims' = claims \cup {ClaimOf(r)}

(* Locks and retired epochs are not disturbed. *)
LEMMA SettlesLocks ==
  ASSUME IInv, NEW r \in Requests, NEW q, Settles(r, q)
  PROVE  /\ request' \in [Requests -> RequestRows] /\ request'[r] = q
         /\ \A p \in Requests : p # r => request'[p] = request[p] /\ ClaimOf(p)' = ClaimOf(p)
         /\ RequestInv' /\ ProcessInv' /\ EpochLocks' /\ LeaseLocks' /\ ScopeLocks'
         /\ DoomInv' /\ RetireInv'
<1>1. /\ request' \in [Requests -> RequestRows] /\ request'[r] = q
      /\ \A p \in Requests : p # r => request'[p] = request[p]
      /\ UNCHANGED <<instance, leases, lapsed, retired, sweep>>
  BY RequestMoves DEF Settles
<1>2. \A p \in Requests : p # r => ClaimOf(p)' = ClaimOf(p)
  BY <1>1, OthersClaims
<1>3. RequestInv'
  BY <1>1 DEF IInv, RequestInv, Settles, InProgress
<1>4. ProcessInv' /\ EpochLocks'
  BY <1>1 DEF IInv, ProcessInv, EpochLocks
<1>5. LeaseLocks'
  BY <1>1 DEF IInv, LeaseLocks, Holds, Settles
<1>6. ScopeLocks'
  BY <1>1 DEF IInv, ScopeLocks, Settles, Counting, Claiming
<1>7. \A c \in claims' : c \in claims \/ (request[r].at = "insert" /\ c = ClaimOf(r))
  BY DEF Settles
<1>8. DoomInv'
  <2>1. ASSUME NEW i \in Instances, NEW c \in claims', c.epoch \in sweep[i].retiring
        PROVE  c \in sweep[i].dropped
    BY <1>7, <2>1, FreshClaim DEF IInv, DoomInv
  <2>2. \A i \in Instances, e \in Epochs : Doomed(i, e)' <=> Doomed(i, e)
    BY <1>1 DEF Doomed, FirstTodo
  <2>. QED BY <1>1, <2>1, <2>2 DEF IInv, DoomInv
<1>9. RetireInv'
  <2>1. ASSUME NEW e \in retired, NEW c \in claims' PROVE c.epoch # e
    BY <1>7, <2>1, FreshClaim DEF IInv, RetireInv, RetiredIsFinal, Pending
  <2>2. \A e \in retired : ~Accepting(e, leases)
    BY DEF IInv, RetireInv, RetiredIsFinal
  <2>3. RetiredIsFinal'
    BY <1>1, <2>1, <2>2 DEF RetiredIsFinal, Accepting
  <2>. QED BY <1>1, <2>3 DEF IInv, RetireInv
<1>. QED BY <1>1, <1>2, <1>3, <1>4, <1>5, <1>6, <1>8, <1>9

(* A smaller ledger leaves no less room. *)
LEMMA LedgerShrinks ==
  ASSUME IInv, claims' \subseteq claims
  PROVE  /\ IsFiniteSet(claims')
         /\ \A s : Count(s) \in Nat /\ Count(s)' \in Nat /\ Count(s)' <= Count(s)
         /\ \A b, s : Known(b, s)' => Known(b, s)
<1>1. IsFiniteSet(claims) /\ IsFiniteSet(claims')
  BY FS_Subset DEF IInv, RoomInv
<1>2. ASSUME NEW s PROVE Count(s) \in Nat /\ Count(s)' \in Nat /\ Count(s)' <= Count(s)
  <2>. DEFINE S == {c \in claims : c.scope = s}
              T == {c \in claims' : c.scope = s}
  <2>1. IsFiniteSet(S)
    BY <1>1, FS_Subset
  <2>2. T \subseteq S
    OBVIOUS
  <2>3. Cardinality(T) <= Cardinality(S) /\ IsFiniteSet(T)
    BY <2>1, <2>2, FS_Subset
  <2>4. Cardinality(S) \in Nat /\ Cardinality(T) \in Nat
    BY <2>1, <2>3, FS_CardinalityType
  <2>. QED BY <2>3, <2>4 DEF Count
<1>3. \A b, s : Known(b, s)' => Known(b, s)
  BY DEF Known
<1>. QED BY <1>1, <1>2, <1>3

(* A new row takes one place in its scope. *)
LEMMA LedgerGrows ==
  ASSUME IInv, NEW c \in Claims, c \notin claims, claims' = claims \cup {c}
  PROVE  /\ IsFiniteSet(claims')
         /\ Count(c.scope) \in Nat /\ Count(c.scope)' = Count(c.scope) + 1
         /\ \A s : s # c.scope => /\ Count(s)' = Count(s)
                                  /\ \A b : Known(b, s)' => Known(b, s)
<1>1. IsFiniteSet(claims) /\ IsFiniteSet(claims')
  BY FS_AddElement DEF IInv, RoomInv
<1>2. Count(c.scope) \in Nat /\ Count(c.scope)' = Count(c.scope) + 1
  <2>. DEFINE S == {d \in claims : d.scope = c.scope}
              T == {d \in claims' : d.scope = c.scope}
  <2>1. IsFiniteSet(S)
    BY <1>1, FS_Subset
  <2>2. T = S \cup {c} /\ c \notin S
    OBVIOUS
  <2>3. Cardinality(S \cup {c}) = Cardinality(S) + 1 /\ Cardinality(S) \in Nat
    BY <2>1, <2>2, FS_AddElement, FS_CardinalityType
  <2>. QED BY <2>2, <2>3 DEF Count
<1>3. ASSUME NEW s, s # c.scope PROVE Count(s)' = Count(s) /\ \A b : Known(b, s)' => Known(b, s)
  <2>1. {d \in claims' : d.scope = s} = {d \in claims : d.scope = s}
    BY <1>3
  <2>. QED BY <1>3, <2>1 DEF Count, Known
<1>. QED BY <1>1, <1>2, <1>3

(* A scope's room when no request of this one is inserting any more. *)
LEMMA RoomAfterInsert ==
  ASSUME IInv, NEW r \in Requests, NEW q, Settles(r, q), request[r].at = "insert",
         claims' = claims \cup {ClaimOf(r)}
  PROVE  RoomInv'
<1>0. PICK c \in Claims : c = ClaimOf(r)
  BY FreshClaim
<1>1. c \notin claims /\ c.scope = request[r].scope /\ c.body = request[r].body
  BY <1>0, FreshClaim, ClaimTyped DEF Pending
<1>2. HasRoom(request[r])
  BY DEF IInv, RoomInv
<1>3. /\ request'[r] = q /\ \A p \in Requests : p # r => request'[p] = request[p]
      /\ q.at \notin Claiming
  BY SettlesLocks DEF Settles
<1>4. claims' = claims \cup {c}
  BY <1>0
<1>5. /\ IsFiniteSet(claims') /\ Count(c.scope) \in Nat /\ Count(c.scope)' = Count(c.scope) + 1
      /\ \A s : s # c.scope => Count(s)' = Count(s) /\ \A b : Known(b, s)' => Known(b, s)
  BY <1>1, <1>4, LedgerGrows
<1>6. Cap \in Nat /\ Count(c.scope) < Cap
  BY <1>1, <1>2, GitWebhooksAssumption DEF HasRoom
<1>7. CapKept'
  <2>1. ASSUME NEW d \in claims' PROVE Count(d.scope)' <= Cap
    <3>1. CASE d.scope = c.scope
      <4>1. Count(d.scope)' = Count(c.scope)'
        BY <3>1
      <4>. QED BY <1>5, <1>6, <4>1
    <3>2. CASE d.scope # c.scope
      BY <1>4, <1>5, <3>2 DEF IInv, RoomInv, CapKept
    <3>. QED BY <3>1, <3>2
  <2>. QED BY <2>1 DEF CapKept
<1>8. ASSUME NEW p \in Requests, request'[p].at = "insert" PROVE HasRoom(request[p])' /\ request'[p] = request[p]
  <2>1. p # r /\ request'[p] = request[p]
    BY <1>3, <1>8 DEF Claiming
  <2>2. request[p].scope # c.scope
    BY <1>1, <1>8, <2>1 DEF IInv, ScopeLocks, Counting
  <2>3. HasRoom(request[p])
    BY <1>8, <2>1 DEF IInv, RoomInv
  <2>. QED BY <1>5, <2>1, <2>2, <2>3 DEF HasRoom
<1>. QED BY <1>5, <1>7, <1>8 DEF RoomInv

(* A scope's room when the ledger stays or shrinks. *)
LEMMA RoomAfterShrink ==
  ASSUME IInv, claims' \subseteq claims,
         \A p \in Requests : request'[p].at = "insert" => request'[p] = request[p]
  PROVE  RoomInv'
<1>1. Cap \in Nat
  BY GitWebhooksAssumption
<1>2. CapKept'
  BY <1>1, LedgerShrinks DEF IInv, RoomInv, CapKept
<1>3. ASSUME NEW p \in Requests, request'[p].at = "insert" PROVE HasRoom(request[p])'
  <2>1. HasRoom(request[p]) /\ request'[p] = request[p]
    BY <1>3 DEF IInv, RoomInv
  <2>. QED BY <1>1, <2>1, LedgerShrinks DEF HasRoom
<1>. QED BY <1>2, <1>3, LedgerShrinks DEF RoomInv

(* The claim is inserted and the request has it in its hands. *)
LEMMA InsertsStep ==
  ASSUME IInv, NEW r \in Requests, Inserts(r)
  PROVE  IInv'
<1>. DEFINE q == [request[r] EXCEPT !.at = "work", !.taken = @ \cup {ClaimOf(r)}]
            c == ClaimOf(r)
<1>1. InProgress(request[r]) /\ request[r] \in RequestRows /\ c \in Claims
  BY Progressing, FreshClaim DEF Inserts
<1>2. q \in RequestRows /\ q.at = "work" /\ q.inst = request[r].inst /\ q.body = request[r].body
      /\ q.scope = request[r].scope /\ q.taken = request[r].taken \cup {c}
  BY <1>1 DEF RequestRows
<1>3. request' = [request EXCEPT ![r] = q] /\ claims' = claims \cup {c}
      /\ UNCHANGED <<instance, leases, lapsed, retired, sweep, acted, orphaned>>
  BY DEF Inserts
<1>4. /\ ~Pending(c) /\ c \notin orphaned /\ \A p \in Requests : c \notin request[p].taken
      /\ c.body \notin Deletions => c \notin acted
      /\ c.body = request[r].body
  BY FreshClaim, ClaimTyped DEF Inserts
<1>5. request[r].taken \subseteq acted /\ request[r].at = "insert"
  BY DEF Inserts, IInv, TakenInv, Taken, Claiming
<1>. HIDE DEF q
<1>6. Settles(r, q)
  BY <1>1, <1>2, <1>3, <1>5 DEF Settles, InProgress, Claiming
<1>7. ClaimOf(r)' = c
  BY <1>2, <1>3, RequestMoves DEF ClaimOf
<1>. HIDE DEF c
<1>8. /\ request' \in [Requests -> RequestRows] /\ request'[r] = q
      /\ \A p \in Requests : p # r => request'[p] = request[p] /\ ClaimOf(p)' = ClaimOf(p)
      /\ RequestInv' /\ ProcessInv' /\ EpochLocks' /\ LeaseLocks' /\ ScopeLocks'
      /\ DoomInv' /\ RetireInv'
  BY <1>6, SettlesLocks
<1>9. TypeOK'
  BY <1>1, <1>3, <1>4, <1>8 DEF IInv, TypeOK
<1>10. TakenInv'
  <2>1. Taken(r)'
    <3>1. \A d \in request[r].taken : /\ d.body = request[r].body /\ Pending(d) /\ d \notin orphaned
                                      /\ d.body \notin Deletions => d \notin acted
      BY DEF IInv, TakenInv, Taken
    <3>. QED BY <1>2, <1>3, <1>4, <1>5, <1>7, <1>8, <3>1 DEF Taken, Pending, Claiming
  <2>2. ASSUME NEW p \in Requests, p # r PROVE Taken(p)'
    BY <1>3, <1>8, <2>2 DEF IInv, TakenInv, Taken, Pending
  <2>3. ASSUME NEW p1 \in Requests, NEW p2 \in Requests, NEW d \in Claims,
               d \in request'[p1].taken, d \in request'[p2].taken
        PROVE  p1 = p2
    BY <1>2, <1>4, <1>8, <2>3 DEF IInv, TakenInv
  <2>. QED BY <2>1, <2>2, <2>3 DEF TakenInv
<1>11. ActedInv'
  BY <1>3 DEF IInv, ActedInv, Pending
<1>12. RoomInv'
  BY <1>3, <1>5, <1>6, RoomAfterInsert DEF c
<1>13. ClaimsAreWork'
  <2>1. c \in request'[r].taken /\ \A p \in Requests : request[p].taken \subseteq request'[p].taken
    BY <1>2, <1>8
  <2>. QED BY <1>3, <2>1 DEF IInv, ClaimsAreWork
<1>. QED BY <1>8, <1>9, <1>10, <1>11, <1>12, <1>13 DEF IInv

\* The request a refusal leaves, with the claims it has to release.
Refused(q) == IF q.taken = {} THEN NoRequest ELSE [q EXCEPT !.at = "release"]

(* Whatever a refusal leaves is in no claim transaction and keeps its claims. *)
LEMMA RefusedRow ==
  ASSUME IInv, NEW r \in Requests, request[r].at # "idle"
  PROVE  /\ Refused(request[r]) \in RequestRows
         /\ Refused(request[r]) = NoRequest \/ InProgress(Refused(request[r]))
         /\ Refused(request[r]).at \in {"idle", "release"}
         /\ Refused(request[r]).taken = request[r].taken
         /\ request[r].taken # {} => Refused(request[r]).body = request[r].body
<1>1. InProgress(request[r]) /\ request[r] \in RequestRows
  BY Progressing
<1>2. CASE request[r].taken = {}
  BY <1>2, RowsAtRest DEF Refused, NoRequest
<1>3. CASE request[r].taken # {}
  <2>. DEFINE q == [request[r] EXCEPT !.at = "release"]
  <2>1. q \in RequestRows /\ q.at = "release" /\ q.inst = request[r].inst /\ q.body = request[r].body
        /\ q.scope = request[r].scope /\ q.taken = request[r].taken
    BY <1>1 DEF RequestRows
  <2>2. Refused(request[r]) = q
    BY <1>3 DEF Refused
  <2>. HIDE DEF q
  <2>3. InProgress(q)
    BY <1>1, <2>1 DEF InProgress
  <2>. QED BY <2>1, <2>2, <2>3
<1>. QED BY <1>2, <1>3

(* The claim is inserted and its answer lost. *)
LEMMA InsertAnswerLostStep ==
  ASSUME IInv, NEW r \in Requests, InsertAnswerLost(r)
  PROVE  IInv'
<1>. DEFINE q == Refused(request[r])
<1>0. PICK c \in Claims : c = ClaimOf(r)
  BY FreshClaim DEF InsertAnswerLost
<1>1. /\ claims' = claims \cup {c} /\ orphaned' = orphaned \cup ({c} \ acted)
      /\ request' = [request EXCEPT ![r] = q] /\ request[r].at = "insert"
      /\ UNCHANGED <<instance, leases, lapsed, retired, sweep, acted>>
  BY <1>0 DEF InsertAnswerLost, Fails, Refused
<1>2. /\ q \in RequestRows /\ (q = NoRequest \/ InProgress(q)) /\ q.at \in {"idle", "release"}
      /\ q.taken = request[r].taken /\ (request[r].taken # {} => q.body = request[r].body)
  BY <1>1, RefusedRow
<1>3. ~Pending(c) /\ c \notin orphaned /\ \A p \in Requests : c \notin request[p].taken
  BY <1>0, <1>1, FreshClaim
<1>. HIDE DEF q
<1>4. Settles(r, q)
  BY <1>0, <1>1, <1>2 DEF Settles, Claiming
<1>5. /\ request' \in [Requests -> RequestRows] /\ request'[r] = q
      /\ \A p \in Requests : p # r => request'[p] = request[p] /\ ClaimOf(p)' = ClaimOf(p)
      /\ RequestInv' /\ ProcessInv' /\ EpochLocks' /\ LeaseLocks' /\ ScopeLocks'
      /\ DoomInv' /\ RetireInv'
  BY <1>4, SettlesLocks
<1>6. TypeOK'
  BY <1>1, <1>5 DEF IInv, TypeOK
<1>7. TakenInv'
  <2>1. Taken(r)'
    BY <1>1, <1>2, <1>3, <1>5 DEF IInv, TakenInv, Taken, Pending, Claiming
  <2>2. ASSUME NEW p \in Requests, p # r PROVE Taken(p)'
    BY <1>1, <1>3, <1>5, <2>2 DEF IInv, TakenInv, Taken, Pending
  <2>3. \A p \in Requests : request'[p].taken = request[p].taken
    BY <1>2, <1>5
  <2>. QED BY <2>1, <2>2, <2>3 DEF IInv, TakenInv
<1>8. ActedInv'
  BY <1>1 DEF IInv, ActedInv, Pending
<1>9. RoomInv'
  BY <1>0, <1>1, <1>4, RoomAfterInsert
<1>10. ClaimsAreWork'
  BY <1>1, <1>2, <1>5 DEF IInv, ClaimsAreWork
<1>. QED BY <1>5, <1>6, <1>7, <1>8, <1>9, <1>10 DEF IInv

\* The request goes on after work, or is answered.
After(q, taken) ==
  IF q.scope < Fanout[q.body]
  THEN [at |-> "next", inst |-> q.inst, body |-> q.body, scope |-> q.scope + 1, taken |-> taken]
  ELSE NoRequest

(* Whatever goes on after work is in no claim transaction and keeps no more *)
(* than it was left.                                                       *)
LEMMA AfterRow ==
  ASSUME IInv, NEW r \in Requests, request[r].at # "idle", NEW taken \in SUBSET Claims
  PROVE  /\ After(request[r], taken) \in RequestRows
         /\ After(request[r], taken) = NoRequest \/ InProgress(After(request[r], taken))
         /\ After(request[r], taken).at \in {"idle", "next"}
         /\ \/ After(request[r], taken).taken = {}
            \/ After(request[r], taken).taken = taken /\ After(request[r], taken).body = request[r].body
<1>1. InProgress(request[r]) /\ request[r] \in RequestRows /\ Fanout \in [Bodies -> Nat \ {0}]
  BY Progressing, GitWebhooksAssumption
<1>2. CASE request[r].scope < Fanout[request[r].body]
  <2>. DEFINE q == [at |-> "next", inst |-> request[r].inst, body |-> request[r].body,
                    scope |-> request[r].scope + 1, taken |-> taken]
  <2>1. q \in RequestRows /\ q.at = "next" /\ q.taken = taken /\ q.body = request[r].body
    BY <1>1 DEF RequestRows
  <2>2. InProgress(q)
    BY <1>1, <1>2, <2>1 DEF InProgress, Scopes, RequestRows
  <2>3. After(request[r], taken) = q
    BY <1>2 DEF After
  <2>. HIDE DEF q
  <2>. QED BY <2>1, <2>2, <2>3
<1>3. CASE ~(request[r].scope < Fanout[request[r].body])
  BY <1>3, RowsAtRest DEF After, NoRequest
<1>. QED BY <1>2, <1>3

(* The scope is acted on. *)
LEMMA WorksStep ==
  ASSUME IInv, NEW r \in Requests, Works(r)
  PROVE  IInv'
<1>. DEFINE left == IF request[r].body \in Deletions THEN request[r].taken ELSE {}
            q == After(request[r], left)
<1>0. PICK c \in Claims : c = ClaimOf(r)
  BY ClaimTyped DEF Works
<1>1. /\ acted' = acted \cup {c} /\ request[r].at = "work"
      /\ request' = [request EXCEPT ![r] = q]
      /\ UNCHANGED <<instance, leases, lapsed, retired, claims, sweep, orphaned>>
  BY <1>0 DEF Works, Continues, After
<1>2. left \in SUBSET Claims
  BY <1>1, Progressing DEF RequestRows
<1>3. /\ q \in RequestRows /\ (q = NoRequest \/ InProgress(q)) /\ q.at \in {"idle", "next"}
      /\ q.taken = {} \/ (q.taken = request[r].taken /\ q.body = request[r].body /\ request[r].body \in Deletions)
  BY <1>1, <1>2, AfterRow
<1>4. c \in request[r].taken /\ c.body = request[r].body /\ request[r].taken \subseteq acted'
  BY <1>0, <1>1, ClaimTyped DEF IInv, TakenInv, Taken
<1>. HIDE DEF q, left
<1>5. Settles(r, q)
  BY <1>1, <1>3 DEF Settles, Claiming
<1>6. /\ request' \in [Requests -> RequestRows] /\ request'[r] = q
      /\ \A p \in Requests : p # r => request'[p] = request[p] /\ ClaimOf(p)' = ClaimOf(p)
      /\ RequestInv' /\ ProcessInv' /\ EpochLocks' /\ LeaseLocks' /\ ScopeLocks'
      /\ DoomInv' /\ RetireInv'
  BY <1>5, SettlesLocks
<1>7. /\ c \notin orphaned /\ Pending(c)
      /\ \A p \in Requests : p # r => c \notin request[p].taken
  BY <1>4 DEF IInv, TakenInv, Taken
<1>8. TypeOK'
  BY <1>1, <1>6, <1>7 DEF IInv, TypeOK
<1>9. TakenInv'
  <2>1. Taken(r)'
    <3>1. \A d \in request[r].taken : d.body = request[r].body /\ Pending(d) /\ d \notin orphaned
      BY DEF IInv, TakenInv, Taken
    <3>. QED BY <1>1, <1>3, <1>4, <1>6, <3>1 DEF Taken, Pending, Claiming
  <2>2. ASSUME NEW p \in Requests, p # r PROVE Taken(p)'
    BY <1>1, <1>6, <1>7, <2>2 DEF IInv, TakenInv, Taken, Pending
  <2>3. \A p \in Requests : request'[p].taken \subseteq request[p].taken
    BY <1>3, <1>6
  <2>. QED BY <2>1, <2>2, <2>3 DEF IInv, TakenInv
<1>10. ActedInv'
  BY <1>1, <1>7 DEF IInv, ActedInv, Pending
<1>11. RoomInv'
  <2>1. \A p \in Requests : request'[p].at = "insert" => request'[p] = request[p]
    BY <1>3, <1>6
  <2>. QED BY <1>1, <2>1, RoomAfterShrink
<1>12. ClaimsAreWork'
  BY <1>1, <1>4, <1>6 DEF IInv, ClaimsAreWork
<1>. QED BY <1>6, <1>8, <1>9, <1>10, <1>11, <1>12 DEF IInv

\* The request after one of its claims has been dealt with.
Without(q, c) == IF q.taken = {c} THEN NoRequest ELSE [q EXCEPT !.taken = @ \ {c}]

(* It is still releasing, or done. *)
LEMMA WithoutRow ==
  ASSUME IInv, NEW r \in Requests, NEW c \in request[r].taken, request[r].at = "release"
  PROVE  /\ Without(request[r], c) \in RequestRows
         /\ Without(request[r], c) = NoRequest \/ InProgress(Without(request[r], c))
         /\ Without(request[r], c).at \in {"idle", "release"}
         /\ Without(request[r], c).taken = request[r].taken \ {c}
         /\ request[r].taken # {c} => Without(request[r], c).body = request[r].body
<1>1. InProgress(request[r]) /\ request[r] \in RequestRows
  BY Progressing
<1>2. CASE request[r].taken = {c}
  BY <1>2, RowsAtRest DEF Without, NoRequest
<1>3. CASE request[r].taken # {c}
  <2>. DEFINE q == [request[r] EXCEPT !.taken = @ \ {c}]
  <2>1. q \in RequestRows /\ q.at = "release" /\ q.inst = request[r].inst /\ q.body = request[r].body
        /\ q.scope = request[r].scope /\ q.taken = request[r].taken \ {c}
    BY <1>1 DEF RequestRows
  <2>2. Without(request[r], c) = q
    BY <1>3 DEF Without
  <2>. HIDE DEF q
  <2>3. InProgress(q)
    BY <1>1, <2>1 DEF InProgress
  <2>. QED BY <2>1, <2>2, <2>3
<1>. QED BY <1>2, <1>3

(* A claim is released, or its release fails and it is left behind. *)
LEMMA ReleaseSteps ==
  ASSUME IInv, NEW r \in Requests, NEW c \in Claims, Releases(r, c) \/ ReleaseFails(r, c)
  PROVE  IInv'
<1>. DEFINE q == Without(request[r], c)
<1>1. /\ request[r].at = "release" /\ c \in request[r].taken
      /\ request' = [request EXCEPT ![r] = q]
      /\ UNCHANGED <<instance, leases, lapsed, retired, sweep, acted>>
      /\ \/ claims' = claims \ {c} /\ orphaned' = orphaned
         \/ claims' = claims /\ orphaned' = orphaned \cup ((claims \cap {c}) \ acted)
  BY DEF Releases, ReleaseFails, LetsGo, Without
<1>2. /\ q \in RequestRows /\ (q = NoRequest \/ InProgress(q)) /\ q.at \in {"idle", "release"}
      /\ q.taken = request[r].taken \ {c} /\ (request[r].taken # {c} => q.body = request[r].body)
  BY <1>1, WithoutRow
<1>. HIDE DEF q
<1>3. Settles(r, q)
  BY <1>1, <1>2 DEF Settles, Claiming
<1>4. /\ request' \in [Requests -> RequestRows] /\ request'[r] = q
      /\ \A p \in Requests : p # r => request'[p] = request[p] /\ ClaimOf(p)' = ClaimOf(p)
      /\ RequestInv' /\ ProcessInv' /\ EpochLocks' /\ LeaseLocks' /\ ScopeLocks'
      /\ DoomInv' /\ RetireInv'
  BY <1>3, SettlesLocks
<1>5. /\ c \notin orphaned /\ (c.body \notin Deletions => c \notin acted)
      /\ \A p \in Requests : p # r => c \notin request[p].taken
  BY <1>1 DEF IInv, TakenInv, Taken
<1>6. TypeOK'
  BY <1>1, <1>4, <1>5 DEF IInv, TypeOK
<1>7. \A d : d # c => /\ (Pending(d) => Pending(d)')
                       /\ (d \notin orphaned => d \notin orphaned')
  BY <1>1 DEF Pending
<1>8. TakenInv'
  <2>1. Taken(r)'
    <3>1. \A d \in request[r].taken : /\ d.body = request[r].body /\ Pending(d) /\ d \notin orphaned
                                      /\ d.body \notin Deletions => d \notin acted
      BY DEF IInv, TakenInv, Taken
    <3>. QED BY <1>1, <1>2, <1>4, <1>7, <3>1 DEF Taken, Claiming
  <2>2. ASSUME NEW p \in Requests, p # r PROVE Taken(p)'
    BY <1>1, <1>4, <1>5, <1>7, <2>2 DEF IInv, TakenInv, Taken
  <2>3. \A p \in Requests : request'[p].taken \subseteq request[p].taken
    BY <1>2, <1>4
  <2>. QED BY <2>1, <2>2, <2>3 DEF IInv, TakenInv
<1>9. ActedInv'
  BY <1>1, <1>5, <1>7 DEF IInv, ActedInv
<1>10. RoomInv'
  <2>1. \A p \in Requests : request'[p].at = "insert" => request'[p] = request[p]
    BY <1>2, <1>4
  <2>2. claims' \subseteq claims
    BY <1>1
  <2>. QED BY <2>1, <2>2, RoomAfterShrink
<1>11. ClaimsAreWork'
  BY <1>1, <1>2, <1>4 DEF IInv, ClaimsAreWork
<1>. QED BY <1>4, <1>6, <1>8, <1>9, <1>10, <1>11 DEF IInv

-----------------------------------------------------------------------------
(* Steps of a process and its maintenance pass. *)

\* Processes that have started keep their epochs; deliveries and the ledger
\* are left alone.
Keeps ==
  /\ UNCHANGED <<retired, claims, request, acted, orphaned>>
  /\ \A i \in Instances : instance[i].state # "new" =>
       instance'[i].state # "new" /\ instance'[i].epoch = instance[i].epoch

(* What such a step cannot disturb. *)
LEMMA KeepsRequests ==
  ASSUME IInv, Keeps
  PROVE  RequestInv' /\ ScopeLocks' /\ TakenInv' /\ ActedInv' /\ RoomInv' /\ ClaimsAreWork'
<1>1. RequestInv' /\ ScopeLocks'
  BY DEF Keeps, IInv, RequestInv, InProgress, ScopeLocks
<1>2. TakenInv'
  <2>1. ASSUME NEW p \in Requests PROVE Taken(p)'
    <3>1. CASE request[p].at = "work"
      <4>1. InProgress(request[p])
        BY <3>1, Progressing
      <4>2. ClaimOf(p)' = ClaimOf(p)
        BY <4>1 DEF Keeps, ClaimOf, InProgress
      <4>. QED BY <4>2 DEF Keeps, IInv, TakenInv, Taken, Pending
    <3>2. CASE request[p].at # "work"
      BY <3>2 DEF Keeps, IInv, TakenInv, Taken, Pending
    <3>. QED BY <3>1, <3>2
  <2>. QED BY <2>1 DEF Keeps, IInv, TakenInv
<1>3. ActedInv' /\ ClaimsAreWork'
  BY DEF Keeps, IInv, ActedInv, Pending, ClaimsAreWork
<1>4. RoomInv'
  BY RoomAfterShrink DEF Keeps
<1>. QED BY <1>1, <1>2, <1>3, <1>4

(* Where another process and its pass are, nothing changes. *)
LEMMA SweepMoves ==
  ASSUME IInv, NEW i \in Instances, NEW w \in SweepRows, sweep' = [sweep EXCEPT ![i] = w]
  PROVE  /\ sweep' \in [Instances -> SweepRows]
         /\ sweep'[i] = w
         /\ \A j \in Instances : j # i => sweep'[j] = sweep[j]
BY DEF IInv, TypeOK

(* A process starts. *)
LEMMA StartsStep ==
  ASSUME IInv, NEW i \in Instances, NEW e \in Epochs, Starts(i, e)
  PROVE  IInv'
<1>1. /\ instance'[i] = [state |-> "starting", epoch |-> e]
      /\ \A j \in Instances : j # i => instance'[j] = instance[j]
      /\ instance[i].state = "new"
      /\ UNCHANGED <<leases, lapsed, retired, claims, request, sweep, acted, orphaned>>
  BY DEF Starts, IInv, TypeOK
<1>2. Keeps
  BY <1>1 DEF Keeps
<1>3. i \notin leases /\ sweep[i].at = "idle" /\ sweep[i].locked = {}
  BY <1>1 DEF IInv, ProcessInv, Bare
<1>4. TypeOK'
  BY DEF IInv, TypeOK, Starts
<1>5. ProcessInv'
  BY <1>1 DEF IInv, ProcessInv
<1>6. EpochLocks'
  BY <1>1, <1>3 DEF IInv, EpochLocks
<1>7. LeaseLocks'
  BY <1>1 DEF IInv, LeaseLocks, Holds
<1>8. \A h \in leases : h # i /\ h \in Instances /\ instance'[h] = instance[h]
  BY <1>1, <1>3 DEF IInv, TypeOK
<1>9. DoomInv'
  BY <1>1, <1>8 DEF IInv, DoomInv, Doomed, FirstTodo
<1>10. RetireInv'
  BY <1>1, <1>3, <1>8 DEF IInv, RetireInv, RetiredIsFinal, Accepting
<1>. QED BY <1>2, <1>4, <1>5, <1>6, <1>7, <1>9, <1>10, KeepsRequests DEF IInv

\* A pass ends without effect; the leases it held, and perhaps the lease of
\* its process, are given back.
Ends(i) ==
  /\ sweep' = [sweep EXCEPT ![i] = NoSweep]
  /\ instance' \in [Instances ->
       [state : {"new", "starting", "up", "stopping", "gone"}, epoch : Epochs \cup {0}]]
  /\ instance[i].state # "new"
  /\ \A j \in Instances : /\ instance'[j].epoch = instance[j].epoch
                          /\ instance'[j].state = "new" <=> instance[j].state = "new"
  /\ UNCHANGED retired
  /\ leases' \subseteq leases /\ lapsed' \subseteq leases'
  /\ claims' \subseteq claims

(* What the other passes hold is what they held. *)
LEMMA EndsLocks ==
  ASSUME IInv, NEW i \in Instances, Ends(i)
  PROVE  /\ sweep' \in [Instances -> SweepRows] /\ sweep'[i] = NoSweep
         /\ \A j \in Instances : j # i => sweep'[j] = sweep[j]
         /\ ProcessInv' /\ EpochLocks' /\ DoomInv' /\ RetireInv'
         /\ \A j, h \in Instances : h \in sweep'[j].gone => h \in sweep[j].gone
<1>1. /\ sweep' \in [Instances -> SweepRows] /\ sweep'[i] = NoSweep
      /\ \A j \in Instances : j # i => sweep'[j] = sweep[j]
  BY SweepMoves, RowsAtRest DEF Ends
<1>2. NoSweep.at = "idle" /\ NoSweep.gone = {} /\ NoSweep.locked = {} /\ NoSweep.retiring = {}
      /\ NoSweep.dropped = {} /\ Bare(NoSweep)
  BY DEF NoSweep, Bare
<1>3. ProcessInv'
  BY <1>1, <1>2 DEF IInv, ProcessInv, Ends, Bare
<1>4. EpochLocks'
  BY <1>1, <1>2 DEF IInv, EpochLocks, Ends
<1>5. DoomInv'
  <2>1. ASSUME NEW j \in Instances, NEW e \in Epochs, Doomed(j, e)' PROVE j # i /\ Doomed(j, e)
    BY <1>1, <1>2, <2>1 DEF Doomed, FirstTodo
  <2>2. \A h \in leases' : h \in leases /\ instance'[h].epoch = instance[h].epoch
    BY DEF Ends, IInv, TypeOK
  <2>. QED BY <1>1, <1>2, <2>1, <2>2 DEF IInv, DoomInv, Ends
<1>6. RetireInv'
  <2>1. \A h \in leases' : h \in leases /\ instance'[h].epoch = instance[h].epoch
    BY DEF Ends, IInv, TypeOK
  <2>. QED BY <1>1, <1>2, <2>1 DEF IInv, RetireInv, RetiredIsFinal, Accepting, Ends
<1>7. \A j, h \in Instances : h \in sweep'[j].gone => h \in sweep[j].gone
  BY <1>1, <1>2
<1>. QED BY <1>1, <1>3, <1>4, <1>5, <1>6, <1>7

(* A pass fails. *)
LEMMA PassFailsStep ==
  ASSUME IInv, NEW i \in Instances, PassFails(i)
  PROVE  IInv'
<1>1. instance[i].state # "new"
  BY DEF PassFails, IInv, ProcessInv
<1>2. /\ instance' \in [Instances ->
           [state : {"new", "starting", "up", "stopping", "gone"}, epoch : Epochs \cup {0}]]
      /\ \A j \in Instances : /\ instance'[j].epoch = instance[j].epoch
                              /\ instance'[j].state = "new" <=> instance[j].state = "new"
  BY <1>1 DEF PassFails, Survivor, IInv, TypeOK
<1>3. UNCHANGED <<leases, lapsed, retired, claims, request, acted, orphaned>>
  BY DEF PassFails
<1>4. Ends(i) /\ Keeps
  BY <1>1, <1>2, <1>3 DEF Ends, Keeps, PassFails, IInv, TypeOK
<1>5. TypeOK'
  BY <1>2, <1>3, <1>4, EndsLocks DEF IInv, TypeOK
<1>6. LeaseLocks'
  BY <1>3, <1>4, EndsLocks DEF IInv, TypeOK, LeaseLocks, Holds
<1>. QED BY <1>4, <1>5, <1>6, EndsLocks, KeepsRequests DEF IInv

(* A process stops serving, with or without its lease. *)
LEMMA StopsStep ==
  ASSUME IInv, NEW i \in Instances, Stops(i)
  PROVE  IInv'
<1>1. /\ instance[i].state = "up"
      /\ UNCHANGED <<retired, claims, request, acted, orphaned>>
      /\ leases' \subseteq leases /\ lapsed' \subseteq leases'
      /\ (leases' = leases \/ (~LeaseHeld(i) /\ leases' = leases \ {i}))
  BY DEF Stops, IInv, TypeOK
<1>2. /\ instance' \in [Instances ->
           [state : {"new", "starting", "up", "stopping", "gone"}, epoch : Epochs \cup {0}]]
      /\ \A j \in Instances : /\ instance'[j].epoch = instance[j].epoch
                              /\ instance'[j].state = "new" <=> instance[j].state = "new"
  BY <1>1 DEF Stops, IInv, TypeOK
<1>4. Ends(i) /\ Keeps
  BY <1>1, <1>2 DEF Ends, Keeps, Stops
<1>5. TypeOK'
  BY <1>1, <1>2, <1>4, EndsLocks DEF IInv, TypeOK
<1>6. LeaseLocks'
  <2>1. ASSUME NEW r \in Requests, request[r].at \in Claiming PROVE request[r].inst \in leases'
    BY <1>1, <2>1 DEF IInv, LeaseLocks, Holds, LeaseHeld
  <2>. QED BY <1>1, <1>4, <2>1, EndsLocks DEF IInv, TypeOK, LeaseLocks, Holds
<1>. QED BY <1>4, <1>5, <1>6, EndsLocks, KeepsRequests DEF IInv

(* A lease lapses. *)
LEMMA LapsesStep ==
  ASSUME IInv, NEW i \in Instances, Lapses(i)
  PROVE  IInv'
<1>1. UNCHANGED <<instance, leases, retired, claims, request, sweep, acted, orphaned>>
  BY DEF Lapses
<1>2. Keeps
  BY <1>1 DEF Keeps
<1>3. TypeOK'
  BY DEF IInv, TypeOK, Lapses
<1>4. ProcessInv' /\ EpochLocks' /\ LeaseLocks'
  BY <1>1 DEF IInv, ProcessInv, EpochLocks, LeaseLocks, Holds
<1>5. DoomInv' /\ RetireInv'
  BY <1>1 DEF IInv, DoomInv, Doomed, FirstTodo, RetireInv, RetiredIsFinal, Accepting
<1>. QED BY <1>2, <1>3, <1>4, <1>5, KeepsRequests DEF IInv

(* A pass registers its epoch, or finds it retired and, at start, ends. *)
LEMMA RegistersStep ==
  ASSUME IInv, NEW i \in Instances, Registers(i)
  PROVE  IInv'
<1>0. /\ instance[i].state \in {"starting", "up"} /\ sweep[i].at = "idle"
      /\ ~EpochHeld(instance[i].epoch)
      /\ UNCHANGED <<leases, lapsed, retired, claims, request, acted, orphaned>>
  BY DEF Registers
<1>1. CASE Survivor(i) /\ UNCHANGED sweep
  <2>1. /\ instance' \in [Instances ->
             [state : {"new", "starting", "up", "stopping", "gone"}, epoch : Epochs \cup {0}]]
        /\ \A j \in Instances : /\ instance'[j].epoch = instance[j].epoch
                                /\ instance'[j].state = "new" <=> instance[j].state = "new"
    BY <1>0, <1>1 DEF Survivor, IInv, TypeOK
  <2>2. Keeps
    BY <1>0, <2>1 DEF Keeps
  <2>3. TypeOK'
    BY <1>0, <1>1, <2>1 DEF IInv, TypeOK
  <2>4. ProcessInv' /\ EpochLocks' /\ LeaseLocks'
    BY <1>0, <1>1, <2>1 DEF IInv, ProcessInv, EpochLocks, LeaseLocks, Holds
  <2>5. \A h \in leases : instance'[h].epoch = instance[h].epoch
    BY <2>1 DEF IInv, TypeOK
  <2>6. DoomInv' /\ RetireInv'
    BY <1>0, <1>1, <2>1, <2>5 DEF IInv, DoomInv, Doomed, FirstTodo, RetireInv, RetiredIsFinal, Accepting
  <2>. QED BY <2>2, <2>3, <2>4, <2>6, KeepsRequests DEF IInv
<1>2. CASE /\ instance[i].epoch \notin retired
           /\ sweep' = [sweep EXCEPT ![i].at = "enlist"]
           /\ UNCHANGED instance
  <2>. DEFINE w == [sweep[i] EXCEPT !.at = "enlist"]
  <2>1. /\ w \in SweepRows /\ w.at = "enlist" /\ w.gone = sweep[i].gone /\ w.todo = sweep[i].todo
        /\ w.locked = sweep[i].locked /\ w.retiring = sweep[i].retiring /\ w.dropped = sweep[i].dropped
    <3>1. PICK old \in SweepRows : old = sweep[i]
      BY DEF IInv, TypeOK
    <3>. QED BY <3>1 DEF SweepRows
  <2>2. sweep' = [sweep EXCEPT ![i] = w]
    BY <1>2
  <2>. HIDE DEF w
  <2>3. /\ sweep' \in [Instances -> SweepRows] /\ sweep'[i] = w
        /\ \A j \in Instances : j # i => sweep'[j] = sweep[j]
    BY <2>1, <2>2, SweepMoves
  <2>4. Keeps
    BY <1>0, <1>2 DEF Keeps
  <2>5. TypeOK'
    BY <1>0, <1>2, <2>3 DEF IInv, TypeOK
  <2>6. ProcessInv'
    BY <1>0, <1>2, <2>1, <2>3 DEF IInv, ProcessInv, Bare
  <2>7. EpochLocks'
    BY <1>0, <1>2, <2>1, <2>3 DEF IInv, EpochLocks, EpochHeld
  <2>8. LeaseLocks'
    BY <1>0, <1>2, <2>1, <2>3 DEF IInv, LeaseLocks, Holds
  <2>9. DoomInv'
    BY <1>0, <1>2, <2>1, <2>3 DEF IInv, DoomInv, Doomed, FirstTodo
  <2>10. RetireInv'
    BY <1>0, <1>2, <2>1, <2>3 DEF IInv, RetireInv, RetiredIsFinal, Accepting
  <2>. QED BY <2>4, <2>5, <2>6, <2>7, <2>8, <2>9, <2>10, KeepsRequests DEF IInv
<1>. QED BY <1>1, <1>2 DEF Registers

(* The lease is written: no sweep has doomed its epoch. *)
LEMMA EnlistsStep ==
  ASSUME IInv, NEW i \in Instances, Enlists(i)
  PROVE  IInv'
<1>. DEFINE w == [sweep[i] EXCEPT !.at = "expire"]
<1>1. /\ w \in SweepRows /\ w.at = "expire" /\ w.gone = sweep[i].gone /\ w.todo = sweep[i].todo
      /\ w.locked = sweep[i].locked /\ w.retiring = sweep[i].retiring /\ w.dropped = sweep[i].dropped
  BY DEF IInv, TypeOK, SweepRows
<1>2. /\ sweep' = [sweep EXCEPT ![i] = w] /\ sweep[i].at = "enlist" /\ ~LeaseHeld(i)
      /\ leases' = leases \cup {i} /\ lapsed' = lapsed \ {i}
      /\ UNCHANGED <<instance, retired, claims, request, acted, orphaned>>
  BY DEF Enlists
<1>. HIDE DEF w
<1>3. /\ sweep' \in [Instances -> SweepRows] /\ sweep'[i] = w
      /\ \A j \in Instances : j # i => sweep'[j] = sweep[j]
  BY <1>1, <1>2, SweepMoves
<1>4. Keeps
  BY <1>2 DEF Keeps
<1>5. TypeOK'
  BY <1>2, <1>3 DEF IInv, TypeOK
<1>6. ProcessInv'
  BY <1>1, <1>2, <1>3 DEF IInv, ProcessInv, Bare
<1>7. EpochLocks'
  BY <1>1, <1>2, <1>3 DEF IInv, EpochLocks
<1>8. LeaseLocks'
  BY <1>1, <1>2, <1>3 DEF IInv, LeaseLocks, Holds
<1>9. DoomInv'
  <2>1. ASSUME NEW j \in Instances, NEW e \in Epochs, Doomed(j, e)'
        PROVE  Doomed(j, e) /\ instance[i].epoch # e
    <3>1. Doomed(j, e)
      BY <1>1, <1>2, <1>3, <2>1 DEF Doomed, FirstTodo
    <3>2. e \in sweep[j].locked
      BY <3>1 DEF IInv, DoomInv
    <3>. QED BY <1>2, <3>1, <3>2 DEF IInv, EpochLocks
  <2>. QED BY <1>1, <1>2, <1>3, <2>1 DEF IInv, DoomInv
<1>10. RetireInv'
  BY <1>1, <1>2, <1>3 DEF IInv, RetireInv, RetiredIsFinal, Accepting
<1>. QED BY <1>4, <1>5, <1>6, <1>7, <1>8, <1>9, <1>10, KeepsRequests DEF IInv

(* The expired leases no one holds are deleted, and held until the end. *)
LEMMA ExpiresStep ==
  ASSUME IInv, NEW i \in Instances, Expires(i)
  PROVE  IInv'
<1>0. PICK gone \in SUBSET Instances, todo \in SUBSET Epochs :
        /\ \A h \in gone : ~LeaseHeld(h)
        /\ sweep' = [sweep EXCEPT ![i].at = "look", ![i].gone = gone, ![i].todo = todo]
  <2>1. {j \in lapsed : ~LeaseHeld(j)} \in SUBSET Instances
    BY DEF IInv, TypeOK
  <2>. QED BY <2>1 DEF Expires
<1>. DEFINE w == [sweep[i] EXCEPT !.at = "look", !.gone = gone, !.todo = todo]
<1>1. /\ w \in SweepRows /\ w.at = "look" /\ w.gone = gone
      /\ w.locked = sweep[i].locked /\ w.retiring = sweep[i].retiring /\ w.dropped = sweep[i].dropped
  <2>1. sweep[i] \in SweepRows
    BY DEF IInv, TypeOK
  <2>2. w \in SweepRows
    BY <2>1, ZenonT(30) DEF SweepRows
  <2>. QED BY <2>1, <2>2 DEF SweepRows
<1>2. /\ sweep' = [sweep EXCEPT ![i] = w] /\ sweep[i].at = "expire"
      /\ UNCHANGED <<instance, leases, lapsed, retired, claims, request, acted, orphaned>>
  BY <1>0 DEF Expires
<1>. HIDE DEF w
<1>3. /\ sweep' \in [Instances -> SweepRows] /\ sweep'[i] = w
      /\ \A j \in Instances : j # i => sweep'[j] = sweep[j]
  BY <1>1, <1>2, SweepMoves
<1>4. Keeps
  BY <1>2 DEF Keeps
<1>5. TypeOK'
  BY <1>2, <1>3 DEF IInv, TypeOK
<1>6. ProcessInv'
  BY <1>1, <1>2, <1>3 DEF IInv, ProcessInv
<1>7. EpochLocks'
  BY <1>1, <1>2, <1>3 DEF IInv, EpochLocks
<1>8. LeaseLocks'
  BY <1>0, <1>1, <1>2, <1>3 DEF IInv, LeaseLocks, Holds, LeaseHeld
<1>9. DoomInv'
  <2>1. sweep[i].retiring = {}
    BY <1>2 DEF IInv, ProcessInv, Bare
  <2>2. \A j \in Instances, e \in Epochs : Doomed(j, e)' => j # i /\ Doomed(j, e)
    BY <1>1, <1>2, <1>3, <2>1 DEF Doomed, FirstTodo
  <2>. QED BY <1>1, <1>2, <1>3, <2>2 DEF IInv, DoomInv
<1>10. RetireInv'
  BY <1>1, <1>2, <1>3 DEF IInv, RetireInv, RetiredIsFinal, Accepting
<1>. QED BY <1>4, <1>5, <1>6, <1>7, <1>8, <1>9, <1>10, KeepsRequests DEF IInv

(* An epoch is locked; it is doomed when no lease is left of it. *)
LEMMA LocksEpochStep ==
  ASSUME IInv, NEW i \in Instances, NEW e \in Epochs, LocksEpoch(i, e)
  PROVE  IInv'
<1>0. PICK at \in {"look", "purge"}, todo \in SUBSET Epochs :
        /\ sweep' = [sweep EXCEPT ![i].at = at, ![i].todo = todo, ![i].locked = @ \cup {e}]
        /\ at = "purge" => todo = sweep[i].todo /\ ~Accepting(e, leases \ sweep[i].gone)
  <2>0. sweep[i] \in SweepRows /\ sweep \in [Instances -> SweepRows]
    BY DEF IInv, TypeOK
  <2>1. CASE /\ Accepting(e, leases \ sweep[i].gone)
             /\ sweep' = [sweep EXCEPT ![i].locked = @ \cup {e}, ![i].todo = @ \ {e}]
    <3>1. sweep' = [sweep EXCEPT ![i].at = "look", ![i].todo = sweep[i].todo \ {e}, ![i].locked = @ \cup {e}]
      BY <2>0, <2>1 DEF LocksEpoch, SweepRows
    <3>2. sweep[i].todo \ {e} \in SUBSET Epochs
      BY <2>0 DEF SweepRows
    <3>. QED BY <3>1, <3>2
  <2>2. CASE /\ ~Accepting(e, leases \ sweep[i].gone)
             /\ sweep' = [sweep EXCEPT ![i].locked = @ \cup {e}, ![i].at = "purge"]
    <3>1. sweep' = [sweep EXCEPT ![i].at = "purge", ![i].todo = sweep[i].todo, ![i].locked = @ \cup {e}]
      BY <2>0, <2>2 DEF SweepRows
    <3>2. sweep[i].todo \in SUBSET Epochs
      BY <2>0 DEF SweepRows
    <3>. QED BY <2>2, <3>1, <3>2
  <2>. QED BY <2>1, <2>2 DEF LocksEpoch
<1>. DEFINE w == [sweep[i] EXCEPT !.at = at, !.todo = todo, !.locked = @ \cup {e}]
<1>1. /\ w \in SweepRows /\ w.at = at /\ w.gone = sweep[i].gone /\ w.todo = todo
      /\ w.locked = sweep[i].locked \cup {e}
      /\ w.retiring = sweep[i].retiring /\ w.dropped = sweep[i].dropped
  <2>1. sweep[i] \in SweepRows /\ at \in {"idle", "enlist", "expire", "look", "purge"}
    BY DEF IInv, TypeOK
  <2>2. sweep[i].locked \cup {e} \in SUBSET Epochs
    BY <2>1 DEF SweepRows
  <2>3. w \in SweepRows
    BY <2>1, <2>2, ZenonT(30) DEF SweepRows
  <2>. QED BY <2>1, <2>3 DEF SweepRows
<1>2. /\ sweep' = [sweep EXCEPT ![i] = w] /\ FirstTodo(i, e) /\ ~EpochHeld(e)
      /\ sweep[i].at = "look"
      /\ UNCHANGED <<instance, leases, lapsed, retired, claims, request, acted, orphaned>>
  BY <1>0 DEF LocksEpoch
<1>. HIDE DEF w
<1>3. /\ sweep' \in [Instances -> SweepRows] /\ sweep'[i] = w
      /\ \A j \in Instances : j # i => sweep'[j] = sweep[j]
  BY <1>1, <1>2, SweepMoves
<1>4. Keeps
  BY <1>2 DEF Keeps
<1>5. TypeOK'
  BY <1>2, <1>3 DEF IInv, TypeOK
<1>6. ProcessInv'
  BY <1>1, <1>2, <1>3 DEF IInv, ProcessInv
<1>7. EpochLocks'
  BY <1>1, <1>2, <1>3 DEF IInv, EpochLocks, EpochHeld
<1>8. LeaseLocks'
  BY <1>1, <1>2, <1>3 DEF IInv, LeaseLocks, Holds
<1>9. DoomInv'
  <2>1. ASSUME NEW f \in Epochs, Doomed(i, f)'
        PROVE  /\ f \in w.locked
               /\ \A h \in leases : instance[h].epoch = f => h \in w.gone
    <3>1. CASE f \in sweep[i].retiring
      BY <1>1, <3>1 DEF IInv, DoomInv, Doomed
    <3>2. CASE at = "purge" /\ FirstTodo(i, f)'
      <4>1. FirstTodo(i, f)
        BY <1>0, <1>1, <1>3, <3>2 DEF FirstTodo
      <4>2. f = e
        BY <1>2, <4>1, GitWebhooksAssumption DEF FirstTodo
      <4>. QED BY <1>0, <1>1, <3>2, <4>2 DEF Accepting
    <3>. QED BY <1>1, <1>3, <2>1, <3>1, <3>2 DEF Doomed
  <2>2. \A j \in Instances, f \in Epochs : j # i /\ Doomed(j, f)' => Doomed(j, f)
    BY <1>3 DEF Doomed, FirstTodo
  <2>. QED BY <1>1, <1>2, <1>3, <2>1, <2>2 DEF IInv, DoomInv
<1>10. RetireInv'
  BY <1>1, <1>2, <1>3 DEF IInv, RetireInv, RetiredIsFinal, Accepting
<1>. QED BY <1>4, <1>5, <1>6, <1>7, <1>8, <1>9, <1>10, KeepsRequests DEF IInv

(* The claims of the doomed epoch are deleted. *)
LEMMA PurgesStep ==
  ASSUME IInv, NEW i \in Instances, NEW e \in Epochs, Purges(i, e)
  PROVE  IInv'
<1>. DEFINE D == {c \in claims : c.epoch = e}
            w == [sweep[i] EXCEPT !.at = "look", !.todo = @ \ {e}, !.retiring = @ \cup {e},
                                  !.dropped = @ \cup D]
<1>0. D \in SUBSET Claims
  BY DEF IInv, TypeOK
<1>1. /\ w \in SweepRows /\ w.at = "look" /\ w.gone = sweep[i].gone
      /\ w.locked = sweep[i].locked
      /\ w.retiring = sweep[i].retiring \cup {e} /\ w.dropped = sweep[i].dropped \cup D
  <2>1. sweep[i] \in SweepRows
    BY DEF IInv, TypeOK
  <2>2. /\ sweep[i].todo \ {e} \in SUBSET Epochs /\ sweep[i].retiring \cup {e} \in SUBSET Epochs
        /\ sweep[i].dropped \cup D \in SUBSET Claims
    BY <1>0, <2>1 DEF SweepRows
  <2>. HIDE DEF D
  <2>3. w \in SweepRows
    BY <2>1, <2>2, ZenonT(30) DEF SweepRows
  <2>. QED BY <2>1, <2>3 DEF SweepRows
<1>2. /\ sweep' = [sweep EXCEPT ![i] = w] /\ FirstTodo(i, e) /\ sweep[i].at = "purge"
      /\ UNCHANGED <<instance, leases, lapsed, retired, claims, request, acted, orphaned>>
  BY DEF Purges
<1>. HIDE DEF w
<1>3. /\ sweep' \in [Instances -> SweepRows] /\ sweep'[i] = w
      /\ \A j \in Instances : j # i => sweep'[j] = sweep[j]
  BY <1>1, <1>2, SweepMoves
<1>4. Keeps
  BY <1>2 DEF Keeps
<1>5. TypeOK'
  BY <1>2, <1>3 DEF IInv, TypeOK
<1>6. ProcessInv'
  BY <1>1, <1>2, <1>3 DEF IInv, ProcessInv
<1>7. EpochLocks'
  BY <1>1, <1>2, <1>3 DEF IInv, EpochLocks
<1>8. LeaseLocks'
  BY <1>1, <1>2, <1>3 DEF IInv, LeaseLocks, Holds
<1>9. DoomInv'
  <2>1. \A f \in Epochs : Doomed(i, f)' => Doomed(i, f)
    BY <1>1, <1>2, <1>3 DEF Doomed
  <2>2. \A j \in Instances, f \in Epochs : j # i /\ Doomed(j, f)' => Doomed(j, f)
    BY <1>3 DEF Doomed, FirstTodo
  <2>3. \A c \in claims : c.epoch \in w.retiring => c \in w.dropped
    BY <1>1 DEF IInv, DoomInv
  <2>4. \A c \in w.dropped : c.epoch \in w.retiring
    BY <1>1 DEF IInv, DoomInv
  <2>. QED BY <1>1, <1>2, <1>3, <2>1, <2>2, <2>3, <2>4 DEF IInv, DoomInv
<1>10. RetireInv'
  BY <1>1, <1>2, <1>3 DEF IInv, RetireInv, RetiredIsFinal, Accepting
<1>. QED BY <1>4, <1>5, <1>6, <1>7, <1>8, <1>9, <1>10, KeepsRequests DEF IInv

(* A sweep commits: no lease of an epoch it retires is left, nor any claim, *)
(* and no one is about to write one.                                       *)
LEMMA CommitsStep ==
  ASSUME IInv, NEW i \in Instances, Commits(i)
  PROVE  IInv'
<1>. DEFINE new == sweep[i].retiring
            gone == sweep[i].gone
            dropped == sweep[i].dropped
<1>1. /\ leases' = leases \ gone /\ lapsed' = lapsed \ gone
      /\ retired' = retired \cup new
      /\ claims' = claims \ dropped /\ orphaned' = orphaned \ dropped
      /\ sweep[i].at = "look" /\ UNCHANGED <<request, acted>>
  BY DEF Commits
<1>2. /\ new \in SUBSET Epochs /\ instance[i].state # "new"
      /\ \A c \in claims : c.epoch \in new => c \in dropped
      /\ \A c \in dropped : c.epoch \in new
      /\ \A e \in new : /\ e \in sweep[i].locked
                       /\ \A h \in leases : instance[h].epoch = e => h \in gone
  <2>1. new \in SUBSET Epochs
    BY DEF IInv, TypeOK, SweepRows
  <2>2. instance[i].state # "new"
    BY <1>1 DEF IInv, ProcessInv
  <2>. QED BY <2>1, <2>2 DEF IInv, DoomInv, Doomed
<1>3. /\ instance' \in [Instances ->
           [state : {"new", "starting", "up", "stopping", "gone"}, epoch : Epochs \cup {0}]]
      /\ \A j \in Instances : /\ instance'[j].epoch = instance[j].epoch
                              /\ instance'[j].state = "new" <=> instance[j].state = "new"
  BY <1>2 DEF Commits, IInv, TypeOK
<1>4. /\ sweep' \in [Instances -> SweepRows] /\ sweep'[i] = NoSweep
      /\ \A j \in Instances : j # i => sweep'[j] = sweep[j]
  BY SweepMoves, RowsAtRest DEF Commits
<1>5. /\ NoSweep.at = "idle" /\ NoSweep.gone = {} /\ NoSweep.locked = {} /\ NoSweep.retiring = {}
      /\ NoSweep.dropped = {} /\ Bare(NoSweep)
  BY DEF NoSweep, Bare
<1>6. /\ retired \subseteq Epochs /\ leases \subseteq Instances /\ lapsed \subseteq leases
      /\ claims \subseteq Claims /\ acted \subseteq Claims /\ orphaned \subseteq claims \ acted
      /\ request \in [Requests -> RequestRows]
  BY DEF IInv, TypeOK
<1>. HIDE DEF new, gone, dropped
<1>7. TypeOK'
  BY <1>1, <1>2, <1>3, <1>4, <1>6 DEF TypeOK
<1>8. RequestInv' /\ ScopeLocks'
  BY <1>1, <1>3 DEF IInv, RequestInv, InProgress, ScopeLocks
<1>9. ProcessInv'
  BY <1>1, <1>2, <1>3, <1>4, <1>5 DEF IInv, ProcessInv
<1>10. EpochLocks'
  BY <1>3, <1>4, <1>5 DEF IInv, EpochLocks
<1>11. LeaseLocks'
  <2>1. \A j, h \in Instances : h \in sweep'[j].gone => h \in sweep[j].gone
    BY <1>4, <1>5
  <2>2. ASSUME NEW r \in Requests, request[r].at \in Claiming PROVE Holds(request[r])'
    BY <1>1, <1>4, <1>5, <1>6, <2>1, <2>2 DEF IInv, LeaseLocks, Holds, gone
  <2>. QED BY <1>1, <2>1, <2>2 DEF IInv, LeaseLocks
<1>12. DoomInv'
  <2>1. ASSUME NEW j \in Instances, NEW e \in Epochs, Doomed(j, e)' PROVE j # i /\ Doomed(j, e)
    BY <1>4, <1>5, <2>1 DEF Doomed, FirstTodo
  <2>2. \A h \in leases' : h \in leases /\ instance'[h].epoch = instance[h].epoch
    BY <1>1, <1>3, <1>6
  <2>. QED BY <1>1, <1>4, <1>5, <2>1, <2>2 DEF IInv, DoomInv
<1>13. RetireInv'
  <2>1. \A h \in leases' : h \in leases /\ h \notin gone /\ instance'[h].epoch = instance[h].epoch
    BY <1>1, <1>3, <1>6
  <2>2. RetiredIsFinal'
    <3>1. ASSUME NEW e \in retired PROVE ~Accepting(e, leases)' /\ \A c \in claims' : c.epoch # e
      BY <1>1, <2>1 DEF IInv, RetireInv, RetiredIsFinal, Accepting
    <3>2. ASSUME NEW e \in new PROVE ~Accepting(e, leases)' /\ \A c \in claims' : c.epoch # e
      BY <1>1, <1>2, <2>1 DEF Accepting
    <3>. QED BY <1>1, <3>1, <3>2 DEF RetiredIsFinal
  <2>3. ASSUME NEW j \in Instances, sweep'[j].at = "enlist" PROVE instance'[j].epoch \notin retired'
    <3>1. j # i /\ sweep[j].at = "enlist" /\ instance'[j].epoch = instance[j].epoch
      BY <1>3, <1>4, <1>5, <2>3
    <3>2. instance[j].epoch \notin retired
      BY <3>1 DEF IInv, RetireInv
    <3>3. instance[j].epoch \notin new
      BY <1>2, <3>1 DEF IInv, EpochLocks
    <3>. QED BY <1>1, <3>1, <3>2, <3>3
  <2>. QED BY <2>2, <2>3 DEF RetireInv
<1>14. \A c : Pending(c) => Pending(c)'
  BY <1>1, <1>2 DEF Pending
<1>15. TakenInv'
  <2>1. ASSUME NEW p \in Requests PROVE Taken(p)'
    <3>1. CASE request[p].at = "work"
      <4>1. InProgress(request[p])
        BY <3>1, Progressing
      <4>2. ClaimOf(p)' = ClaimOf(p)
        BY <1>1, <1>3, <4>1 DEF ClaimOf, InProgress
      <4>. QED BY <1>1, <1>14, <4>2 DEF IInv, TakenInv, Taken
    <3>2. CASE request[p].at # "work"
      BY <1>1, <1>14, <3>2 DEF IInv, TakenInv, Taken
    <3>. QED BY <3>1, <3>2
  <2>. QED BY <1>1, <2>1 DEF IInv, TakenInv
<1>16. ActedInv'
  BY <1>1, <1>14 DEF IInv, ActedInv
<1>17. RoomInv'
  BY <1>1, RoomAfterShrink
<1>18. ClaimsAreWork'
  BY <1>1 DEF IInv, ClaimsAreWork
<1>. QED BY <1>7, <1>8, <1>9, <1>10, <1>11, <1>12, <1>13, <1>15, <1>16, <1>17, <1>18 DEF IInv

(* A process ends, and its requests with it: what they had claimed and not *)
(* done is left behind.                                                    *)
LEMMA DiesStep ==
  ASSUME IInv, NEW i \in Instances, Dies(i)
  PROVE  IInv'
<1>1. /\ instance[i].state # "new"
      /\ request' = [r \in Requests |-> IF request[r].inst = i THEN NoRequest ELSE request[r]]
      /\ orphaned' = orphaned \cup {c \in claims \ acted :
            \E r \in Requests : request[r].inst = i /\ c \in request[r].taken}
      /\ UNCHANGED <<leases, lapsed, retired, claims, acted>>
  BY DEF Dies
<1>2. /\ instance' \in [Instances ->
           [state : {"new", "starting", "up", "stopping", "gone"}, epoch : Epochs \cup {0}]]
      /\ \A j \in Instances : /\ instance'[j].epoch = instance[j].epoch
                              /\ instance'[j].state = "new" <=> instance[j].state = "new"
  BY <1>1 DEF Dies, IInv, TypeOK
<1>3. Ends(i)
  BY <1>1, <1>2 DEF Ends, Dies, IInv, TypeOK
<1>4. /\ NoRequest.at = "idle" /\ NoRequest.taken = {}
      /\ \A r \in Requests : IF request[r].inst = i THEN request'[r] = NoRequest
                            ELSE request'[r] = request[r]
  BY <1>1 DEF NoRequest
<1>5. TypeOK'
  <2>1. request' \in [Requests -> RequestRows]
    BY <1>1, RowsAtRest DEF IInv, TypeOK
  <2>. QED BY <1>1, <1>2, <1>3, <2>1, EndsLocks DEF IInv, TypeOK
<1>6. RequestInv' /\ ScopeLocks'
  BY <1>2, <1>4 DEF IInv, RequestInv, InProgress, ScopeLocks, Counting
<1>7. LeaseLocks'
  <2>1. \A j, h \in Instances : h \in sweep'[j].gone => h \in sweep[j].gone
    BY <1>3, EndsLocks
  <2>2. ASSUME NEW r \in Requests, request'[r].at \in Claiming PROVE Holds(request[r])' /\ request'[r] = request[r]
    BY <1>1, <1>4, <2>1, <2>2 DEF IInv, TypeOK, LeaseLocks, Holds, Claiming
  <2>. QED BY <1>1, <2>1, <2>2 DEF IInv, LeaseLocks, Holds
<1>8. TakenInv'
  <2>1. ASSUME NEW p \in Requests PROVE Taken(p)'
    <3>1. CASE request[p].inst = i
      BY <1>4, <3>1 DEF Taken, Claiming
    <3>2. CASE request[p].inst # i
      <4>1. request'[p] = request[p]
        BY <1>4, <3>2
      <4>2. \A d \in request[p].taken : d \in Claims /\ d \notin orphaned
        BY DEF IInv, TypeOK, RequestRows, TakenInv, Taken
      <4>3. \A d \in request[p].taken : d \notin orphaned'
        BY <1>1, <3>2, <4>2 DEF IInv, TakenInv
      <4>4. request[p].at = "work" => ClaimOf(p)' = ClaimOf(p)
        <5>1. request[p].at = "work" => InProgress(request[p])
          BY Progressing
        <5>. QED BY <1>2, <4>1, <5>1 DEF ClaimOf, InProgress
      <4>. QED BY <1>1, <4>1, <4>3, <4>4 DEF IInv, TakenInv, Taken, Pending
    <3>. QED BY <3>1, <3>2
  <2>2. \A p \in Requests : request'[p].taken \subseteq request[p].taken
    BY <1>4
  <2>. QED BY <2>1, <2>2 DEF IInv, TakenInv
<1>9. ActedInv'
  BY <1>1 DEF IInv, ActedInv, Pending
<1>10. RoomInv'
  <2>1. \A p \in Requests : request'[p].at = "insert" => request'[p] = request[p]
    BY <1>4
  <2>. QED BY <1>1, <2>1, RoomAfterShrink
<1>11. ClaimsAreWork'
  <2>1. ASSUME NEW c \in claims, c \notin acted, c \notin orphaned'
        PROVE  \E r \in Requests : c \in request'[r].taken
    <3>1. PICK r \in Requests : c \in request[r].taken
      BY <1>1, <2>1 DEF IInv, ClaimsAreWork
    <3>2. request[r].inst # i
      BY <1>1, <2>1, <3>1
    <3>. QED BY <1>4, <3>1, <3>2
  <2>. QED BY <1>1, <2>1 DEF ClaimsAreWork
<1>. QED BY <1>3, <1>5, <1>6, <1>7, <1>8, <1>9, <1>10, <1>11, EndsLocks DEF IInv

-----------------------------------------------------------------------------
(* The invariant. *)

(* It holds while no process has started. *)
LEMMA InitInv == Init => IInv
<1>. SUFFICES ASSUME Init PROVE IInv
  OBVIOUS
<1>1. /\ leases = {} /\ lapsed = {} /\ retired = {} /\ claims = {} /\ acted = {} /\ orphaned = {}
      /\ \A r \in Requests : request[r] = NoRequest
      /\ \A i \in Instances : sweep[i] = NoSweep /\ instance[i].state = "new"
  BY DEF Init
<1>2. /\ NoSweep.at = "idle" /\ NoSweep.gone = {} /\ NoSweep.locked = {} /\ NoSweep.retiring = {}
      /\ NoSweep.dropped = {} /\ Bare(NoSweep) /\ NoRequest.at = "idle" /\ NoRequest.taken = {}
  BY DEF NoSweep, Bare, NoRequest
<1>3. TypeOK
  BY RowsAtRest DEF Init, TypeOK
<1>4. RequestInv /\ ProcessInv
  BY <1>1, <1>2 DEF RequestInv, ProcessInv
<1>5. EpochLocks /\ LeaseLocks /\ ScopeLocks
  BY <1>1, <1>2 DEF EpochLocks, LeaseLocks, ScopeLocks, Claiming, Counting
<1>6. DoomInv /\ RetireInv
  BY <1>1, <1>2 DEF DoomInv, Doomed, RetireInv, RetiredIsFinal
<1>7. TakenInv /\ ActedInv /\ ClaimsAreWork
  BY <1>1, <1>2 DEF TakenInv, Taken, ActedInv, ClaimsAreWork, Claiming
<1>8. RoomInv
  BY <1>1, <1>2, FS_EmptySet DEF RoomInv, CapKept
<1>. QED BY <1>3, <1>4, <1>5, <1>6, <1>7, <1>8 DEF IInv

(* Every step keeps it. *)
LEMMA NextInv == IInv /\ [Next]_vars => IInv'
<1>. SUFFICES ASSUME IInv, [Next]_vars PROVE IInv'
  OBVIOUS
<1>1. ASSUME NEW r \in Requests, Delivers(r) PROVE IInv'
  BY <1>1, PassesStep, RefreshesStep, LocksScopeStep, ReadsStep, InsertsStep, InsertAnswerLostStep,
     StumblesStep, WorksStep, WorkFailsStep, ReleaseSteps DEF Delivers
<1>2. ASSUME NEW r \in Requests, NEW i \in Instances, NEW b \in Bodies, Receives(r, i, b) PROVE IInv'
  BY <1>2, ReceivesStep
<1>3. ASSUME NEW i \in Instances, Maintains(i) PROVE IInv'
  BY <1>3, RegistersStep, EnlistsStep, ExpiresStep, CommitsStep, LocksEpochStep, PurgesStep DEF Maintains
<1>4. ASSUME NEW i \in Instances, PassFails(i) \/ Lapses(i) \/ Stops(i) \/ Dies(i) PROVE IInv'
  BY <1>4, PassFailsStep, LapsesStep, StopsStep, DiesStep
<1>5. ASSUME NEW i \in Instances, NEW e \in Epochs, Starts(i, e) PROVE IInv'
  BY <1>5, StartsStep
<1>6. CASE UNCHANGED vars
  <2>1. UNCHANGED <<instance, leases, lapsed, retired, claims, request, sweep, acted, orphaned>>
    BY <1>6 DEF vars
  <2>2. Keeps
    BY <2>1 DEF Keeps
  <2>3. TypeOK' /\ ProcessInv' /\ EpochLocks' /\ LeaseLocks'
    BY <2>1 DEF IInv, TypeOK, ProcessInv, EpochLocks, LeaseLocks, Holds
  <2>4. DoomInv' /\ RetireInv'
    BY <2>1 DEF IInv, DoomInv, Doomed, FirstTodo, RetireInv, RetiredIsFinal, Accepting
  <2>. QED BY <2>2, <2>3, <2>4, KeepsRequests DEF IInv
<1>. QED BY <1>1, <1>2, <1>3, <1>4, <1>5, <1>6 DEF Next

(* The invariant holds in every behaviour of the ledger. *)
THEOREM LedgerInvariant == Spec => []IInv
BY InitInv, NextInv, PTL DEF Spec

(* Every variable of the ledger keeps its type (TypeOK). *)
THEOREM LedgerTypeCorrect == Spec => []TypeOK
<1>1. IInv => TypeOK
  BY DEF IInv
<1>. QED BY LedgerInvariant, <1>1, PTL

(* A push acts at most once on a scope for as long as its signature is     *)
(* accepted (ClaimGitWebhookDelivery, ServeHTTP).                          *)
THEOREM LedgerActsOnce == Spec => []ActedOnce
<1>1. IInv => ActedOnce
  <2>1. ASSUME IInv, NEW r \in Requests, request[r].at = "work", request[r].body \notin Deletions
        PROVE  ClaimOf(r) \notin acted
    BY <2>1 DEF IInv, TakenInv, Taken
  <2>. QED BY <2>1 DEF ActedOnce
<1>. QED BY <1>1, LedgerInvariant, PTL

(* A tenant's rows stay within its capacity (the advisory lock of the      *)
(* scope).                                                                 *)
THEOREM LedgerKeepsCap == Spec => []CapKept
<1>1. IInv => CapKept
  BY DEF IInv, RoomInv
<1>. QED BY <1>1, LedgerInvariant, PTL

(* A retired epoch keeps neither claim nor lease                           *)
(* (MaintainGitWebhookReplayEpochs).                                       *)
THEOREM LedgerRetiresForGood == Spec => []RetiredIsFinal
<1>1. IInv => RetiredIsFinal
  BY DEF IInv, RetireInv
<1>. QED BY <1>1, LedgerInvariant, PTL

(* Every claim stands for work (deliveryClaims.release).                   *)
THEOREM LedgerClaimsAreWork == Spec => []ClaimsAreWork
<1>1. IInv => ClaimsAreWork
  BY DEF IInv
<1>. QED BY <1>1, LedgerInvariant, PTL
=============================================================================
