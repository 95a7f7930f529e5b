----------------------------- MODULE WebhookFeed -----------------------------
(***************************************************************************)
(* How events reach the outbox of a webhook endpoint: the feed tailer of   *)
(* store/feedtail.go with the dispatch pass of webhooks/worker.go, run by  *)
(* every replica of the control plane over one durable watermark.          *)
(*                                                                         *)
(* An event has a source time, by which its eligibility is judged, and a   *)
(* recording time, which orders the feed; it is stamped before its         *)
(* transaction commits.  The endpoint is eligible in the intervals it was  *)
(* enabled; a toggle, too, is stamped before it commits.  A dispatcher     *)
(* fixes the end of its window, reads the intervals, and pages through the *)
(* feed from the cursor it has cached, committing each page together with  *)
(* the watermark.  What the pass sends is WebhookOutbox.                   *)
(***************************************************************************)
EXTENDS Integers, FiniteSets, FiniteSetsExt

CONSTANTS
  Events,         \* numbered, and ordered like their keys in the feed
  Dispatchers,    \* the replicas of the control plane
  Lag,            \* FeedCommitLag; no transaction takes that long
  LateAllowance,  \* lateFactAllowance
  Park,           \* how far the cursor may lag a quiet window
  Limit,          \* events in a page
  MaxOpen,        \* open notifications a workspace may have
  Platform,       \* {TRUE} or {FALSE}: other workspaces have endpoints, or none has
  MaxTime,        \* bound of the clock
  MaxToggles      \* bound of the toggles

ASSUME TimesAssumption ==
  /\ Events \subseteq Nat \ {0}
  /\ {Lag, Limit, MaxOpen} \subseteq Nat \ {0}
  /\ {LateAllowance, Park, MaxTime, MaxToggles} \subseteq Nat

Never == MaxTime + 1
Times == 0..MaxTime

VARIABLES
  now,
  event,      \* each event: whether it is recorded and visible, its two times
  intervals,  \* webhook_endpoint_eligibility
  toggle,     \* the stamp of a toggle that has not committed, or Never
  toggles,    \* how many toggles there have been
  others,     \* whether other workspaces keep dispatch going
  watermark,  \* webhook_watermark
  disp,       \* each dispatcher
  queued,     \* events with a notification
  open,       \* those whose notification has not ended
  capped      \* events the backlog limit has refused (history)

vars == <<now, event, intervals, toggle, toggles, others, watermark, disp, queued, open, capped>>

-----------------------------------------------------------------------------
(* Positions in the feed: a time and a key, 0 the empty one. *)

Keys == Events \cup {0}
Positions == Times \X Keys

Before(p, q) == p[1] < q[1] \/ (p[1] = q[1] /\ p[2] < q[2])

Unborn == [state |-> "unborn", at |-> 0, recorded |-> 0]
Position(e) == <<event[e].recorded, e>>
Visible == {e \in Events : event[e].state = "visible"}

Contains(i, t) == i.on <= t /\ t < i.off

EligibleAt(is, t) == \E i \in is : Contains(i, t)

Enabled == \E i \in intervals : i.off = Never

IdleDispatcher(loaded, at) ==
  [phase |-> "idle", loaded |-> loaded, cur |-> at, until |-> 0, seen |-> {}, page |-> {}]

-----------------------------------------------------------------------------
(* Time, events and toggles.  A transaction that has stamped commits       *)
(* before Lag is over: the assumption the feed rests on.                   *)

Tick ==
  /\ now < MaxTime
  /\ \A e \in Events : event[e].state = "stamped" => now + 1 < event[e].recorded + Lag
  /\ toggle # Never => now + 1 < toggle + Lag
  /\ now' = now + 1
  /\ UNCHANGED <<event, intervals, toggle, toggles, others, watermark, disp, queued, open, capped>>

EventStamps(e, at) ==
  /\ event[e].state = "unborn"
  /\ event' = [event EXCEPT ![e] = [state |-> "stamped", at |-> at, recorded |-> now]]
  /\ UNCHANGED <<now, intervals, toggle, toggles, others, watermark, disp, queued, open, capped>>

EventCommits(e) ==
  /\ event[e].state = "stamped"
  /\ event' = [event EXCEPT ![e].state = "visible"]
  /\ UNCHANGED <<now, intervals, toggle, toggles, others, watermark, disp, queued, open, capped>>

\* bex_track_webhook_endpoint_eligibility, in the transaction of the writer.
ToggleStamps ==
  /\ toggle = Never
  /\ toggles < MaxToggles
  /\ \A i \in intervals : i.on # now
  /\ toggle' = now
  /\ toggles' = toggles + 1
  /\ UNCHANGED <<now, event, intervals, others, watermark, disp, queued, open, capped>>

ToggleCommits ==
  /\ toggle # Never
  /\ intervals' =
       IF Enabled
       THEN {[i EXCEPT !.off = IF @ = Never THEN toggle ELSE @] : i \in intervals}
       ELSE intervals \cup {[on |-> toggle, off |-> Never]}
  /\ toggle' = Never
  /\ UNCHANGED <<now, event, toggles, others, watermark, disp, queued, open, capped>>

\* The outbox ends a notification.
Ends(e) ==
  /\ e \in open
  /\ open' = open \ {e}
  /\ UNCHANGED <<now, event, intervals, toggle, toggles, others, watermark, disp, queued, capped>>
-----------------------------------------------------------------------------
(* A pass of one dispatcher. *)

Goes(d, record) == disp' = [disp EXCEPT ![d] = record]

Unchanged == UNCHANGED <<now, event, intervals, toggle, toggles, others>>

\* Variant: the window ends now.
PassBeginsWithoutLag(d) ==
  /\ disp[d].phase = "idle"
  /\ Goes(d, [disp[d] EXCEPT !.phase = "endpoints", !.until = now])
  /\ Unchanged /\ UNCHANGED <<watermark, queued, open, capped>>

\* RunOnce: the window ends Lag ago, whatever is toggled from here on ...
PassBegins(d) ==
  /\ disp[d].phase = "idle"
  /\ now >= Lag
  /\ Goes(d, [disp[d] EXCEPT !.phase = "endpoints", !.until = now - Lag])
  /\ Unchanged /\ UNCHANGED <<watermark, queued, open, capped>>

\* ListWebhookDispatchEndpoints: the endpoint is there with all its intervals if
\* it is enabled, or was until LateAllowance before the cursor.
Dispatched(is, d) ==
  \/ is # {} /\ ~disp[d].loaded
  \/ \E i \in is : i.off = Never \/ i.off > disp[d].cur[1] - LateAllowance

\* ... and only then are the endpoints read; with none the pass is over.
ReadsEndpoints(d) ==
  /\ disp[d].phase = "endpoints"
  /\ IF Dispatched(intervals, d) \/ others
     THEN Goes(d, [disp[d] EXCEPT !.phase = "read",
            !.seen = IF Dispatched(intervals, d) THEN intervals ELSE {}])
     ELSE Goes(d, IdleDispatcher(disp[d].loaded, disp[d].cur))
  /\ Unchanged /\ UNCHANGED <<watermark, queued, open, capped>>

\* FeedCursor.Load: the durable watermark, once in the life of a process.
Cursor(d) == IF disp[d].loaded THEN disp[d].cur ELSE watermark

\* Nothing recorded before the oldest interval can be eligible: the read may
\* start there, while the cursor stays where it is.
Floor(d) == IF others THEN 0 ELSE Min({i.on : i \in disp[d].seen})

\* Variant: the window's end is fixed when the page is read.
RowsUpToNow(d) ==
  IF disp[d].seen = {} THEN {}
  ELSE {e \in Visible : /\ Before(Cursor(d), Position(e))
                        /\ Before(<<Floor(d), 0>>, Position(e))
                        /\ event[e].recorded <= now - Lag}

\* ListWebhookEvents: the rows of the subscribed workspaces in the window.
Rows(d) ==
  IF disp[d].seen = {} THEN {}
  ELSE {e \in Visible : /\ Before(Cursor(d), Position(e))
                        /\ Before(<<Floor(d), 0>>, Position(e))
                        /\ event[e].recorded <= disp[d].until}

First(es, k) ==
  {e \in es : Cardinality({f \in es : Before(Position(f), Position(e))}) < k}

Last(es) == CHOOSE e \in es : \A f \in es : ~Before(Position(e), Position(f))

ReadsPage(d) ==
  /\ disp[d].phase = "read"
  /\ Goes(d,
       IF Rows(d) # {}
       THEN [disp[d] EXCEPT !.phase = "commit", !.loaded = TRUE, !.cur = Cursor(d),
                            !.page = First(Rows(d), Limit)]
       ELSE IF disp[d].until - Cursor(d)[1] > Park
            THEN [disp[d] EXCEPT !.phase = "park", !.loaded = TRUE, !.cur = Cursor(d)]
            ELSE IdleDispatcher(TRUE, Cursor(d)))
  /\ Unchanged /\ UNCHANGED <<watermark, queued, open, capped>>

\* EnqueueWebhookDeliveries: notifications that exist are left alone, and only as
\* many new ones are admitted as the workspace may have open.
Enqueues(batch) ==
  LET candidates == batch \ queued
      room == IF Cardinality(open) < MaxOpen THEN MaxOpen - Cardinality(open) ELSE 0
      admitted == First(candidates, room)
  IN  /\ queued' = queued \cup admitted
      /\ open' = open \cup admitted
      /\ capped' = capped \cup (candidates \ admitted)

Wanted(d) == {e \in disp[d].page : EligibleAt(disp[d].seen, event[e].at)}

\* A page is committed with the watermark; a full one is followed by the next.
CommitsPage(d) ==
  LET last == Position(Last(disp[d].page))
  IN  /\ disp[d].phase = "commit"
      /\ Enqueues(Wanted(d))
      /\ watermark' = last
      /\ Goes(d, IF Cardinality(disp[d].page) = Limit
                 THEN [disp[d] EXCEPT !.phase = "read", !.cur = last, !.page = {}]
                 ELSE IdleDispatcher(TRUE, last))
      /\ Unchanged

\* The commit lands and its answer is lost: the cursor stays.
CommitAnswerLost(d) ==
  /\ disp[d].phase = "commit"
  /\ Enqueues(Wanted(d))
  /\ watermark' = Position(Last(disp[d].page))
  /\ Goes(d, IdleDispatcher(TRUE, disp[d].cur))
  /\ Unchanged

\* A quiet window moves the watermark to its end.
Parks(d) ==
  /\ disp[d].phase = "park"
  /\ watermark' = <<disp[d].until, 0>>
  /\ Goes(d, IdleDispatcher(TRUE, <<disp[d].until, 0>>))
  /\ Unchanged /\ UNCHANGED <<queued, open, capped>>

\* Any call may fail, which ends the pass; the process may die.
Fails(d) ==
  /\ disp[d].phase # "idle"
  /\ Goes(d, IdleDispatcher(disp[d].loaded, disp[d].cur))
  /\ Unchanged /\ UNCHANGED <<watermark, queued, open, capped>>

Dies(d) ==
  /\ disp[d].loaded
  /\ Goes(d, IdleDispatcher(FALSE, <<0, 0>>))
  /\ Unchanged /\ UNCHANGED <<watermark, queued, open, capped>>

-----------------------------------------------------------------------------
\* The watermark has been seeded, and the endpoint is about to be created.
Init ==
  /\ now = 0
  /\ event = [e \in Events |-> Unborn]
  /\ intervals = {}
  /\ toggle = Never
  /\ toggles = 0
  /\ others \in Platform
  /\ watermark = <<0, 0>>
  /\ disp = [d \in Dispatchers |-> IdleDispatcher(FALSE, <<0, 0>>)]
  /\ queued = {}
  /\ open = {}
  /\ capped = {}

PassStep(d) ==
  \/ PassBegins(d) \/ ReadsEndpoints(d) \/ ReadsPage(d)
  \/ CommitsPage(d) \/ Parks(d)

Next ==
  \/ Tick \/ ToggleStamps \/ ToggleCommits
  \/ \E e \in Events : EventCommits(e) \/ Ends(e) \/ \E at \in 0..now : EventStamps(e, at)
  \/ \E d \in Dispatchers : PassStep(d) \/ CommitAnswerLost(d) \/ Fails(d) \/ Dies(d)

Spec == Init /\ [][Next]_vars

-----------------------------------------------------------------------------
(* Properties. *)

Facts == [state : {"unborn", "stamped", "visible"}, at : Times, recorded : Times]

Intervals == {i \in [on : Times, off : Times \cup {Never}] : i.on <= i.off}

Passes ==
  [phase : {"idle", "endpoints", "read", "commit", "park"}, loaded : BOOLEAN,
   cur : Positions, until : Times, seen : SUBSET Intervals, page : SUBSET Events]

\* Times, positions, passes and the events queued, open and refused have their
\* types; an event counts as open only when it is queued.
TypeOK ==
  /\ now \in Times
  /\ event \in [Events -> Facts]
  /\ intervals \subseteq Intervals
  /\ toggle \in Times \cup {Never}
  /\ watermark \in Positions
  /\ disp \in [Dispatchers -> Passes]
  /\ open \subseteq queued /\ queued \subseteq Events /\ capped \subseteq Events

\* An event the endpoint is owed: it happened while the endpoint was enabled,
\* and was not recorded later than the allowance.
Owed(e) ==
  /\ event[e].state = "visible"
  /\ EligibleAt(intervals, event[e].at)
  /\ event[e].recorded - event[e].at <= LateAllowance

Handled(e) == e \in queued \cup capped

\* No owed event is skipped: whatever position a restart would resume from, or a
\* replica has reached, every owed event up to it has its notification or was
\* refused by the backlog limit (feedtail.go:42).
NoEventLost ==
  \A e \in Events : Owed(e) =>
    /\ ~Before(watermark, Position(e)) => Handled(e)
    /\ \A d \in Dispatchers :
         disp[d].loaded /\ ~Before(disp[d].cur, Position(e)) => Handled(e)

\* An endpoint is never notified of what happened while it was disabled, or
\* before it existed, although passes judge by the intervals they read
\* earlier and disabling commits later than its stamp (worker.go:301).
OnlyEligibleQueued == \A e \in queued : EligibleAt(intervals, event[e].at)
=============================================================================
