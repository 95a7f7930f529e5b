-------------------------- MODULE WebhookFeedProofs --------------------------
(***************************************************************************)
(* Proofs of WebhookFeed's safety properties for any events, dispatchers,  *)
(* lags, allowances, page sizes and backlog limits.                        *)
(***************************************************************************)
EXTENDS WebhookFeed, FiniteSetTheorems, TLAPS

-----------------------------------------------------------------------------
(* The inductive invariant, in named parts. *)

\* Events happen before they are recorded, and a transaction that has stamped
\* is younger than the lag; what is visible is finite.
FactsTimely ==
  /\ IsFiniteSet(Visible)
  /\ \A e \in Events : /\ event[e].at <= event[e].recorded
                       /\ event[e].recorded <= now
                       /\ event[e].state = "stamped" => now - Lag < event[e].recorded

\* The next toggle is younger than the lag, and later than all before it.
TogglesTimely ==
  /\ \A i \in intervals : i.on <= now
  /\ toggle # Never => /\ now - Lag < toggle /\ toggle <= now
                       /\ \A i \in intervals : i.on < toggle

\* A position that may be resumed from lies behind the lag, unless it is the
\* first, and nothing the endpoint is owed up to it is missing.
Behind(p) == p = <<0, 0>> \/ p[1] <= now - Lag

Safe(p, handled) ==
  \A e \in Events : Owed(e) /\ ~Before(p, Position(e)) => e \in handled

\* What a pass has read of the endpoints is still true of its window; when it
\* read none, what they are owed of the window lies behind the cursor.
Judges(r) ==
  \/ /\ r.seen # {}
     /\ \A t \in 0..r.until : EligibleAt(r.seen, t) <=> EligibleAt(intervals, t)
  \/ /\ r.seen = {}
     /\ \A t \in 0..r.until :
          EligibleAt(intervals, t) => r.loaded /\ t + LateAllowance < r.cur[1]

\* A page holds events of the window, and every eligible one from the cursor to
\* its last.
Paged(r) ==
  /\ r.loaded /\ r.seen # {} /\ r.page # {}
  /\ \A e \in r.page : event[e].state = "visible" /\ event[e].recorded <= r.until
  /\ \A e \in Visible :
       /\ Before(r.cur, Position(e))
       /\ \E f \in r.page : ~Before(Position(f), Position(e))
       /\ EligibleAt(r.seen, event[e].at)
       => e \in r.page

\* A window found quiet has no eligible event left.
Quiet(r) ==
  /\ r.loaded
  /\ \A e \in Visible : Before(r.cur, Position(e)) /\ event[e].recorded <= r.until =>
       ~EligibleAt(r.seen, event[e].at)

PassSound(r, handled) ==
  /\ Behind(r.cur)
  /\ r.loaded => Safe(r.cur, handled)
  /\ r.phase # "idle" => r.until <= now - Lag
  /\ r.phase \in {"read", "commit", "park"} => Judges(r)
  /\ r.phase = "commit" => Paged(r)
  /\ r.phase = "park" => Quiet(r)

\* What was queued was eligible, and recorded before the lag.
Sound(es) ==
  \A e \in es : /\ event[e].state = "visible" /\ event[e].recorded <= now - Lag
                /\ EligibleAt(intervals, event[e].at)

IInv ==
  /\ TypeOK /\ FactsTimely /\ TogglesTimely /\ Sound(queued)
  /\ Behind(watermark) /\ Safe(watermark, queued \cup capped)
  /\ \A d \in Dispatchers : PassSound(disp[d], queued \cup capped)

-----------------------------------------------------------------------------
(* Order. *)

(* A relation that is transitive and irreflexive has a minimal element in    *)
(* every nonempty finite set: a smallest subset without one would contain    *)
(* the part of it below any of its elements.                                 *)
LEMMA MinimalElement ==
  ASSUME NEW S, IsFiniteSet(S), S # {}, NEW R,
         \A x \in S : <<x, x>> \notin R,
         \A x, y, z \in S : <<x, y>> \in R /\ <<y, z>> \in R => <<x, z>> \in R
  PROVE  \E x \in S : \A y \in S : <<y, x>> \notin R
<1> DEFINE Has(T) == \E x \in T : \A y \in T : <<y, x>> \notin R
           Bad == {T \in SUBSET S : T # {} /\ ~Has(T)}
<1> SUFFICES ASSUME ~Has(S) PROVE FALSE
  OBVIOUS
<1>1. S \in Bad
  OBVIOUS
<1>2. IsWellFoundedOn(StrictSubsetOrdering(S), SUBSET S)
  BY FS_StrictSubsetOrderingWellFounded, FS_FiniteSubsetsOfFinite
<1>3. PICK T \in Bad : \A U \in Bad : <<U, T>> \notin StrictSubsetOrdering(S)
  <2>1. Bad \subseteq SUBSET S /\ Bad # {}
    BY <1>1
  <2> HIDE DEF Bad
  <2>. QED BY <1>2, <2>1, WFMin
<1>4. PICK x \in T : TRUE
  OBVIOUS
<1>5. PICK U : U = {y \in T : <<y, x>> \in R}
  OBVIOUS
<1>6. x \in S /\ x \notin U /\ U \subseteq T /\ T \subseteq S
  BY <1>4, <1>5
<1>7. U # {}
  BY <1>5
<1>8. U \notin Bad
  <2>1. <<U, T>> \in StrictSubsetOrdering(S)
    BY <1>6 DEF StrictSubsetOrdering
  <2>. QED BY <1>3, <2>1
<1>9. PICK m \in U : \A y \in U : <<y, m>> \notin R
  BY <1>6, <1>7, <1>8
<1>10. ASSUME NEW y \in T, <<y, m>> \in R PROVE FALSE
  <2>1. <<m, x>> \in R /\ m \in S /\ y \in S
    BY <1>5, <1>6
  <2>2. <<y, x>> \in R
    BY <1>6, <1>10, <2>1
  <2>. QED BY <1>5, <1>9, <1>10, <2>2
<1>. QED BY <1>6, <1>9, <1>10

(* A nonempty set of natural numbers has its least element as Min. *)
LEMMA MinOfNaturals ==
  ASSUME NEW T \in SUBSET Nat, T # {}
  PROVE  Min(T) \in T /\ \A y \in T : Min(T) <= y
<1>1. PICK x \in T : TRUE
  OBVIOUS
<1>2. PICK S : S = {y \in T : y <= x}
  OBVIOUS
<1>3. IsFiniteSet(S) /\ S # {} /\ S \subseteq Nat
  <2>1. x \in Nat /\ x <= x
    OBVIOUS
  <2>2. S \in SUBSET Nat /\ x \in S /\ \A s \in S : s <= x
    BY <1>2, <2>1
  <2>. QED BY ONLY <2>1, <2>2, FS_BoundedSetOfNaturals
<1>4. PICK R : R = {r \in Nat \X Nat : r[1] < r[2]}
  OBVIOUS
<1>5. \A y, z \in S : <<y, z>> \in R <=> y < z
  BY <1>3, <1>4
<1>6. PICK m \in S : \A y \in S : <<y, m>> \notin R
  <2>1. \A y \in S : <<y, y>> \notin R
    BY <1>3, <1>5
  <2>2. \A y, z, w \in S : <<y, z>> \in R /\ <<z, w>> \in R => <<y, w>> \in R
    BY <1>3, <1>5
  <2>. QED BY <1>3, <2>1, <2>2, MinimalElement
<1>7. ASSUME NEW y \in T PROVE m <= y
  <2>1. m \in Nat /\ y \in Nat /\ x \in Nat /\ m <= x
    BY <1>1, <1>2, <1>3
  <2>2. ASSUME y <= x PROVE m <= y
    <3>1. y \in S
      BY <1>2, <2>2
    <3>2. ~(y < m)
      BY <1>5, <1>6, <3>1
    <3>. QED BY <2>1, <3>2
  <2>. QED BY <2>1, <2>2
<1>8. m \in T
  BY <1>2
<1>. QED BY <1>7, <1>8 DEF Min

(* The constants are numbers. *)
LEMMA ConstantsTyped ==
  /\ Events \subseteq Nat \ {0}
  /\ Lag \in Nat \ {0} /\ Limit \in Nat \ {0} /\ MaxOpen \in Nat \ {0}
  /\ LateAllowance \in Nat /\ Park \in Nat /\ MaxTime \in Nat
BY TimesAssumption

(* Positions are ordered. *)
LEMMA PositionOrder ==
  ASSUME NEW p \in Positions, NEW q \in Positions, NEW r \in Positions
  PROVE  /\ ~Before(p, p)
         /\ Before(p, q) /\ Before(q, r) => Before(p, r)
         /\ Before(p, q) /\ ~Before(r, q) => Before(p, r)
         /\ ~Before(p, q) /\ ~Before(q, r) => ~Before(p, r)
         /\ p[1] \in Nat /\ p[2] \in Nat
<1>1. ASSUME NEW s \in Positions PROVE s[1] \in Nat /\ s[2] \in Nat
  <2>1. s[1] \in Times /\ s[2] \in Keys
    BY DEF Positions
  <2>2. Times \subseteq Nat
    BY DEF Times
  <2>3. Keys \subseteq Nat
    BY ConstantsTyped DEF Keys
  <2>. QED BY <2>1, <2>2, <2>3
<1>2. /\ p[1] \in Nat /\ p[2] \in Nat /\ q[1] \in Nat /\ q[2] \in Nat
      /\ r[1] \in Nat /\ r[2] \in Nat
  BY <1>1
<1>. QED BY <1>2 DEF Before

(* An event lies at its recording time, behind the first position, and no    *)
(* two events lie at one.                                                    *)
LEMMA PositionTyped ==
  ASSUME TypeOK, NEW e \in Events
  PROVE  /\ Position(e) \in Positions /\ Position(e)[1] = event[e].recorded
         /\ Position(e)[2] = e /\ e \in Nat \ {0}
         /\ Before(<<0, 0>>, Position(e)) /\ event[e] \in Facts
         /\ event[e].recorded \in Nat /\ event[e].at \in Nat
<1>1. e \in Nat \ {0} /\ MaxTime \in Nat
  BY ConstantsTyped
<1>2. event[e] \in Facts /\ event[e].recorded \in Times /\ event[e].at \in Times
  BY DEF TypeOK, Facts
<1>3. Position(e) = <<event[e].recorded, e>>
  BY DEF Position
<1>4. event[e].recorded \in Nat /\ event[e].at \in Nat
  BY <1>2 DEF Times
<1>5. Position(e) \in Positions
  BY <1>2, <1>3 DEF Positions, Keys
<1>6. Position(e)[1] = event[e].recorded /\ Position(e)[2] = e
  BY <1>3
<1>7. Before(<<0, 0>>, Position(e))
  BY <1>1, <1>4, <1>6 DEF Before
<1>. QED BY <1>1, <1>2, <1>4, <1>5, <1>6, <1>7

(* The first and the last of a finite set of events. *)
LEMMA Extremes ==
  ASSUME TypeOK, NEW es \in SUBSET Events, IsFiniteSet(es), es # {}
  PROVE  /\ \E e \in es : \A f \in es : ~Before(Position(f), Position(e))
         /\ \E e \in es : \A f \in es : ~Before(Position(e), Position(f))
<1> DEFINE Up == {r \in Events \X Events : Before(Position(r[1]), Position(r[2]))}
           Down == {r \in Events \X Events : Before(Position(r[2]), Position(r[1]))}
<1>1. \A e, f \in es : /\ <<e, f>> \in Up <=> Before(Position(e), Position(f))
                       /\ <<e, f>> \in Down <=> Before(Position(f), Position(e))
  OBVIOUS
<1>2. ASSUME NEW e \in es, NEW f \in es, NEW g \in es
      PROVE  /\ ~Before(Position(e), Position(e))
             /\ Before(Position(e), Position(f)) /\ Before(Position(f), Position(g))
                => Before(Position(e), Position(g))
  <2>1. Position(e) \in Positions /\ Position(f) \in Positions /\ Position(g) \in Positions
    BY PositionTyped
  <2>. QED BY <2>1, PositionOrder
<1> HIDE DEF Up, Down
<1>3. \E e \in es : \A f \in es : <<f, e>> \notin Up
  <2>1. \A e \in es : <<e, e>> \notin Up
    BY <1>1, <1>2
  <2>2. \A e, f, g \in es : <<e, f>> \in Up /\ <<f, g>> \in Up => <<e, g>> \in Up
    BY <1>1, <1>2
  <2>. QED BY <2>1, <2>2, MinimalElement
<1>4. \E e \in es : \A f \in es : <<f, e>> \notin Down
  <2>1. \A e \in es : <<e, e>> \notin Down
    BY <1>1, <1>2
  <2>2. \A e, f, g \in es : <<e, f>> \in Down /\ <<f, g>> \in Down => <<e, g>> \in Down
    BY <1>1, <1>2
  <2>. QED BY <2>1, <2>2, MinimalElement
<1>. QED BY <1>1, <1>3, <1>4

(* Last is the last. *)
LEMMA LastOf ==
  ASSUME TypeOK, NEW es \in SUBSET Events, IsFiniteSet(es), es # {}
  PROVE  Last(es) \in es /\ \A f \in es : ~Before(Position(Last(es)), Position(f))
BY Extremes DEF Last

(* First is an initial segment, and empty only if nothing is asked of it. *)
LEMMA FirstOf ==
  ASSUME TypeOK, NEW es \in SUBSET Events, IsFiniteSet(es), NEW k \in Nat
  PROVE  /\ First(es, k) \subseteq es
         /\ \A e \in First(es, k), f \in es :
              ~Before(Position(e), Position(f)) => f \in First(es, k)
         /\ es # {} /\ k # 0 => First(es, k) # {}
<1> DEFINE below(e) == {f \in es : Before(Position(f), Position(e))}
<1>1. First(es, k) = {e \in es : Cardinality(below(e)) < k}
  BY DEF First
<1>2. \A e \in es : IsFiniteSet(below(e)) /\ Cardinality(below(e)) \in Nat
  BY FS_Subset, FS_CardinalityType
<1>3. ASSUME NEW e \in First(es, k), NEW f \in es, ~Before(Position(e), Position(f))
      PROVE  f \in First(es, k)
  <2>1. e \in es /\ Cardinality(below(e)) < k
    BY <1>1
  <2>2. below(f) \subseteq below(e)
    <3> SUFFICES ASSUME NEW g \in es, Before(Position(g), Position(f))
                 PROVE  Before(Position(g), Position(e))
      OBVIOUS
    <3>1. Position(e) \in Positions /\ Position(f) \in Positions /\ Position(g) \in Positions
      BY <2>1, PositionTyped
    <3>. QED BY <1>3, <3>1, PositionOrder
  <2>3. Cardinality(below(f)) <= Cardinality(below(e))
    BY <1>2, <2>1, <2>2, FS_Subset
  <2> HIDE DEF below
  <2>. QED BY <1>1, <1>2, <2>1, <2>3
<1>4. ASSUME es # {}, k # 0 PROVE First(es, k) # {}
  <2>1. PICK e \in es : \A f \in es : ~Before(Position(f), Position(e))
    BY <1>4, Extremes
  <2>2. below(e) = {}
    BY <2>1
  <2>3. Cardinality(below(e)) = 0
    BY <2>2, FS_EmptySet
  <2> HIDE DEF below
  <2>4. 0 < k
    BY <1>4
  <2>. QED BY <1>1, <2>3, <2>4
<1>. QED BY <1>1, <1>3, <1>4

(* No interval a pass has read begins before the floor of its read. *)
LEMMA FloorOf ==
  ASSUME TypeOK, NEW d \in Dispatchers, disp[d].seen # {}
  PROVE  Floor(d) \in Nat /\ \A i \in disp[d].seen : Floor(d) <= i.on
<1> DEFINE ons == {i.on : i \in disp[d].seen}
<1>1. \A i \in disp[d].seen : i.on \in Nat
  BY ConstantsTyped DEF TypeOK, Passes, Intervals, Times
<1>2. ons \in SUBSET Nat /\ ons # {}
  BY <1>1
<1>3. Min(ons) \in Nat /\ \A i \in disp[d].seen : Min(ons) <= i.on
  <2>1. Min(ons) \in ons /\ \A y \in ons : Min(ons) <= y
    BY <1>2, MinOfNaturals
  <2>. QED BY <1>2, <2>1
<1>4. Floor(d) = IF others THEN 0 ELSE Min(ons)
  BY DEF Floor
<1> HIDE DEF ons
<1>. QED BY <1>1, <1>3, <1>4

-----------------------------------------------------------------------------
(* Steps that only move passes. *)

(* What has been handled stays handled. *)
LEMMA SafeMonotone ==
  ASSUME NEW p, NEW handled, Safe(p, handled), NEW more, handled \subseteq more
  PROVE  Safe(p, more)
BY DEF Safe

(* What is sound of a pass stays sound as more is handled.                 *)
LEMMA PassMonotone ==
  ASSUME NEW r, NEW handled, PassSound(r, handled), NEW more, handled \subseteq more
  PROVE  PassSound(r, more)
BY SafeMonotone DEF PassSound

(* The invariant is kept by a step of one dispatcher that leaves its pass    *)
(* and the watermark sound for what has been handled by then.                *)
LEMMA DispStep ==
  ASSUME IInv, NEW d \in Dispatchers, NEW r \in Passes, disp' = [disp EXCEPT ![d] = r],
         Unchanged, queued \subseteq queued', capped \subseteq capped',
         queued' \subseteq Events, open' \subseteq queued', capped' \subseteq Events,
         Sound(queued'), watermark' \in Positions, Behind(watermark'),
         Safe(watermark', queued' \cup capped'), PassSound(r, queued' \cup capped')
  PROVE  IInv'
<1>1. UNCHANGED <<now, event, intervals, toggle, toggles, others>>
  BY DEF Unchanged
<1>2. TypeOK /\ disp \in [Dispatchers -> Passes]
  BY DEF IInv, TypeOK
<1>3. TypeOK'
  <2>1. disp' \in [Dispatchers -> Passes]
    BY <1>2
  <2>. QED BY <1>1, <1>2, <2>1 DEF TypeOK
<1>4. FactsTimely' /\ TogglesTimely'
  BY <1>1 DEF IInv, FactsTimely, TogglesTimely, Visible
<1>5. (Sound(queued))' /\ (Behind(watermark))' /\ (Safe(watermark, queued \cup capped))'
  BY <1>1 DEF Sound, Behind, Safe, Owed, Position
<1>6. ASSUME NEW c \in Dispatchers PROVE (PassSound(disp[c], queued \cup capped))'
  <2>1. PICK s \in Passes : s = disp'[c]
    BY <1>2
  <2>2. PICK h, g : h = queued \cup capped /\ g = queued' \cup capped'
    OBVIOUS
  <2>3. h \subseteq g
    BY <2>2
  <2>4. PassSound(s, g)
    <3>1. CASE c = d
      BY <1>2, <2>1, <2>2, <3>1
    <3>2. CASE c # d
      <4>1. PassSound(s, h)
        BY <1>2, <2>1, <2>2, <3>2 DEF IInv
      <4>. QED BY <2>3, <4>1, PassMonotone
    <3>. QED BY <3>1, <3>2
  <2>5. (PassSound(s, g))' <=> PassSound(s, g)
    BY <1>1 DEF PassSound, Behind, Safe, Owed, Position, Judges, Paged, Quiet, Visible
  <2>. QED BY <2>1, <2>2, <2>4, <2>5
<1>. QED BY <1>3, <1>4, <1>5, <1>6 DEF IInv

(* A step of one dispatcher that commits nothing. *)
LEMMA ReadStep ==
  ASSUME IInv, NEW d \in Dispatchers, NEW r \in Passes, disp' = [disp EXCEPT ![d] = r],
         Unchanged, UNCHANGED <<watermark, queued, open, capped>>,
         PassSound(r, queued \cup capped)
  PROVE  IInv'
<1>1. /\ queued' = queued /\ capped' = capped /\ open' = open /\ watermark' = watermark
      /\ TypeOK /\ Sound(queued) /\ Behind(watermark) /\ Safe(watermark, queued \cup capped)
  BY DEF IInv
<1>2. /\ queued \subseteq queued' /\ capped \subseteq capped'
      /\ queued' \subseteq Events /\ open' \subseteq queued' /\ capped' \subseteq Events
      /\ Sound(queued') /\ watermark' \in Positions /\ Behind(watermark')
      /\ Safe(watermark', queued' \cup capped')
  BY <1>1 DEF TypeOK
<1>3. PassSound(r, queued' \cup capped')
  BY <1>1
<1>. QED BY <1>2, <1>3, DispStep

(* What the invariant says of one dispatcher. *)
LEMMA PassTyped ==
  ASSUME IInv, NEW d \in Dispatchers
  PROVE  /\ TypeOK /\ disp \in [Dispatchers -> Passes] /\ disp[d] \in Passes
         /\ PassSound(disp[d], queued \cup capped)
         /\ disp[d].phase \in {"idle", "endpoints", "read", "commit", "park"}
         /\ disp[d].loaded \in BOOLEAN /\ disp[d].cur \in Positions /\ disp[d].until \in Times
         /\ disp[d].seen \in SUBSET Intervals /\ disp[d].page \in SUBSET Events
         /\ now \in Nat /\ disp[d].until \in Nat /\ disp[d].cur[1] \in Nat /\ Lag \in Nat \ {0}
<1>1. /\ TypeOK /\ disp \in [Dispatchers -> Passes] /\ disp[d] \in Passes
      /\ PassSound(disp[d], queued \cup capped)
  BY DEF IInv, TypeOK
<1>2. /\ disp[d].phase \in {"idle", "endpoints", "read", "commit", "park"}
      /\ disp[d].loaded \in BOOLEAN /\ disp[d].cur \in Positions /\ disp[d].until \in Times
      /\ disp[d].seen \in SUBSET Intervals /\ disp[d].page \in SUBSET Events
  BY <1>1 DEF Passes
<1>3. now \in Nat /\ disp[d].until \in Nat /\ Lag \in Nat \ {0}
  BY <1>1, <1>2, ConstantsTyped DEF TypeOK, Times
<1>4. disp[d].cur[1] \in Nat
  BY <1>2, PositionOrder
<1>. QED BY <1>1, <1>2, <1>3, <1>4

(* A dispatcher that rests at a sound position is sound. *)
LEMMA IdleSound ==
  ASSUME NEW loaded \in BOOLEAN, NEW at \in Positions, Behind(at),
         NEW handled, loaded => Safe(at, handled), NEW r, r = IdleDispatcher(loaded, at)
  PROVE  r \in Passes /\ PassSound(r, handled)
<1>1. 0 \in Times
  BY ConstantsTyped DEF Times
<1>2. r = [phase |-> "idle", loaded |-> loaded, cur |-> at, until |-> 0, seen |-> {}, page |-> {}]
  BY DEF IdleDispatcher
<1>3. r \in Passes
  BY <1>1, <1>2 DEF Passes
<1>4. r.phase = "idle" /\ r.loaded = loaded /\ r.cur = at
  BY <1>2
<1>. QED BY <1>3, <1>4 DEF PassSound

(* A pass begins: its window ends behind the lag. *)
LEMMA PassBeginsInv == ASSUME IInv, NEW d \in Dispatchers, PassBegins(d) PROVE IInv'
<1>1. PICK r : r = [disp[d] EXCEPT !.phase = "endpoints", !.until = now - Lag]
  OBVIOUS
<1>2. /\ disp[d] \in Passes /\ PassSound(disp[d], queued \cup capped)
      /\ now \in Times /\ now - Lag \in Times /\ now - Lag \in Int
  <2>1. now \in Times /\ now >= Lag
    BY DEF PassBegins, IInv, TypeOK
  <2>2. now - Lag \in Times /\ now - Lag \in Int
    BY ONLY <2>1, ConstantsTyped DEF Times
  <2>. QED BY <2>1, <2>2, PassTyped
<1>3. /\ r \in Passes /\ r.phase = "endpoints" /\ r.until = now - Lag
      /\ r.loaded = disp[d].loaded /\ r.cur = disp[d].cur
  BY <1>1, <1>2 DEF Passes
<1>4. PassSound(r, queued \cup capped)
  BY <1>2, <1>3 DEF PassSound
<1>5. /\ disp' = [disp EXCEPT ![d] = r] /\ Unchanged
      /\ UNCHANGED <<watermark, queued, open, capped>>
  BY <1>1 DEF PassBegins, Goes
<1>. QED BY <1>3, <1>4, <1>5, ReadStep

(* A pass fails, or its process dies. *)
LEMMA FailsInv == ASSUME IInv, NEW d \in Dispatchers, Fails(d) PROVE IInv'
<1>1. PICK r : r = IdleDispatcher(disp[d].loaded, disp[d].cur)
  OBVIOUS
<1>2. r \in Passes /\ PassSound(r, queued \cup capped)
  <2>1. /\ disp[d].loaded \in BOOLEAN /\ disp[d].cur \in Positions /\ Behind(disp[d].cur)
        /\ disp[d].loaded => Safe(disp[d].cur, queued \cup capped)
    BY PassTyped DEF PassSound
  <2>. QED BY <1>1, <2>1, IdleSound
<1>3. /\ disp' = [disp EXCEPT ![d] = r] /\ Unchanged
      /\ UNCHANGED <<watermark, queued, open, capped>>
  BY <1>1 DEF Fails, Goes
<1>. QED BY <1>2, <1>3, ReadStep

(* A process dies and takes its cursor with it. *)
LEMMA DiesInv == ASSUME IInv, NEW d \in Dispatchers, Dies(d) PROVE IInv'
<1>1. PICK lost, origin : lost \in BOOLEAN /\ lost = FALSE /\ origin = <<0, 0>>
  OBVIOUS
<1>2. PICK r : r = IdleDispatcher(lost, origin)
  OBVIOUS
<1>3. origin \in Positions /\ Behind(origin)
  BY <1>1, ConstantsTyped DEF Positions, Times, Keys, Behind
<1>4. r \in Passes /\ PassSound(r, queued \cup capped)
  BY <1>1, <1>2, <1>3, IdleSound
<1>5. /\ disp' = [disp EXCEPT ![d] = r] /\ Unchanged
      /\ UNCHANGED <<watermark, queued, open, capped>>
  BY <1>1, <1>2 DEF Dies, Goes
<1>. QED BY <1>4, <1>5, ReadStep

(* The endpoints are read after the window's end was fixed: whatever is       *)
(* toggled from here on is stamped later than the window.                     *)
LEMMA ReadsEndpointsInv == ASSUME IInv, NEW d \in Dispatchers, ReadsEndpoints(d) PROVE IInv'
<1>1. /\ disp[d] \in Passes /\ PassSound(disp[d], queued \cup capped)
      /\ disp[d].loaded \in BOOLEAN /\ disp[d].cur \in Positions /\ disp[d].until \in Nat
      /\ disp[d].cur[1] \in Nat /\ disp[d].phase = "endpoints" /\ intervals \in SUBSET Intervals
      /\ \A i \in intervals : i.on \in Nat /\ i.off \in Nat
  <2>1. /\ disp[d].phase = "endpoints" /\ intervals \in SUBSET Intervals
    BY DEF ReadsEndpoints, IInv, TypeOK
  <2>2. \A i \in intervals : i.on \in Nat /\ i.off \in Nat
    BY <2>1, ConstantsTyped DEF Intervals, Times, Never
  <2>. QED BY <2>1, <2>2, PassTyped
<1>2. /\ Unchanged /\ UNCHANGED <<watermark, queued, open, capped>>
  BY DEF ReadsEndpoints
<1>3. CASE Dispatched(intervals, d) \/ others
  <2>1. PICK seen : seen = IF Dispatched(intervals, d) THEN intervals ELSE {}
    OBVIOUS
  <2>2. PICK r : r = [disp[d] EXCEPT !.phase = "read", !.seen = seen]
    OBVIOUS
  <2>3. disp' = [disp EXCEPT ![d] = r]
    BY <1>3, <2>1, <2>2 DEF ReadsEndpoints, Goes
  <2>4. /\ r \in Passes /\ r.phase = "read" /\ r.seen = seen /\ r.loaded = disp[d].loaded
        /\ r.cur = disp[d].cur /\ r.until = disp[d].until
    BY <1>1, <2>1, <2>2 DEF Passes
  <2>5. Judges(r)
    <3>1. CASE Dispatched(intervals, d)
      <4>1. intervals # {}
        BY <3>1 DEF Dispatched
      <4>. QED BY <2>1, <2>4, <3>1, <4>1 DEF Judges
    <3>2. CASE ~Dispatched(intervals, d)
      <4>1. ASSUME NEW t \in 0..disp[d].until, EligibleAt(intervals, t)
            PROVE  disp[d].loaded /\ t + LateAllowance < disp[d].cur[1]
        <5>1. PICK i \in intervals : i.on <= t /\ t < i.off
          BY <4>1 DEF EligibleAt, Contains
        <5>2. disp[d].loaded /\ ~(i.off > disp[d].cur[1] - LateAllowance)
          BY <3>2 DEF Dispatched
        <5>3. i.off \in Nat /\ t \in Nat /\ LateAllowance \in Nat
          BY <1>1, ConstantsTyped
        <5>. QED BY <1>1, <5>1, <5>2, <5>3
      <4>. QED BY <2>1, <2>4, <3>2, <4>1 DEF Judges
    <3>. QED BY <3>1, <3>2
  <2>6. PassSound(r, queued \cup capped)
    BY <1>1, <2>4, <2>5 DEF PassSound
  <2>. QED BY <1>2, <2>3, <2>4, <2>6, ReadStep
<1>4. CASE ~(Dispatched(intervals, d) \/ others)
  <2>1. PICK r : r = IdleDispatcher(disp[d].loaded, disp[d].cur)
    OBVIOUS
  <2>2. r \in Passes /\ PassSound(r, queued \cup capped)
    <3>1. /\ disp[d].loaded \in BOOLEAN /\ disp[d].cur \in Positions /\ Behind(disp[d].cur)
          /\ disp[d].loaded => Safe(disp[d].cur, queued \cup capped)
      BY <1>1 DEF PassSound
    <3>. QED BY <2>1, <3>1, IdleSound
  <2>3. disp' = [disp EXCEPT ![d] = r]
    BY <1>4, <2>1 DEF ReadsEndpoints, Goes
  <2>. QED BY <1>2, <2>2, <2>3, ReadStep
<1>. QED BY <1>3, <1>4

(* The cursor of a pass is a sound position. *)
LEMMA CursorSound ==
  ASSUME IInv, NEW d \in Dispatchers
  PROVE  /\ Cursor(d) \in Positions /\ Behind(Cursor(d)) /\ Safe(Cursor(d), queued \cup capped)
         /\ disp[d].loaded => Cursor(d) = disp[d].cur
<1>1. CASE disp[d].loaded
  BY <1>1, PassTyped DEF Cursor, PassSound
<1>2. CASE ~disp[d].loaded
  BY <1>2 DEF Cursor, IInv, TypeOK
<1>. QED BY <1>1, <1>2

(* A read finds every eligible event of its window. *)
LEMMA RowsCover ==
  ASSUME IInv, NEW d \in Dispatchers
  PROVE  /\ Rows(d) \in SUBSET Events /\ IsFiniteSet(Rows(d)) /\ Rows(d) \subseteq Visible
         /\ \A e \in Rows(d) : event[e].recorded <= disp[d].until
         /\ Rows(d) # {} => disp[d].seen # {}
         /\ \A e \in Visible :
              /\ Before(Cursor(d), Position(e)) /\ event[e].recorded <= disp[d].until
              /\ EligibleAt(disp[d].seen, event[e].at)
              => e \in Rows(d)
<1>1. Rows(d) \subseteq Visible /\ Visible \in SUBSET Events /\ IsFiniteSet(Visible)
  BY DEF Rows, Visible, IInv, FactsTimely
<1>2. IsFiniteSet(Rows(d))
  BY <1>1, FS_Subset
<1>3. ASSUME NEW e \in Visible, Before(Cursor(d), Position(e)), event[e].recorded <= disp[d].until,
             EligibleAt(disp[d].seen, event[e].at)
      PROVE  e \in Rows(d)
  <2>1. PICK i \in disp[d].seen : i.on <= event[e].at
    BY <1>3 DEF EligibleAt, Contains
  <2>2. e \in Events /\ TypeOK /\ event[e].at <= event[e].recorded
    BY <1>1 DEF IInv, FactsTimely
  <2>3. Floor(d) \in Nat /\ Floor(d) <= i.on /\ i.on \in Nat
    <3>1. i \in Intervals
      BY PassTyped
    <3>2. i.on \in Nat
      BY <3>1 DEF Intervals, Times
    <3>. QED BY <2>2, <3>2, FloorOf
  <2>4. /\ Position(e)[1] = event[e].recorded /\ Position(e)[2] = e /\ e \in Nat \ {0}
        /\ event[e].at \in Nat /\ event[e].recorded \in Nat
    BY <2>2, PositionTyped
  <2>5. Before(<<Floor(d), 0>>, Position(e))
    <3>1. Floor(d) <= event[e].recorded
      BY <2>1, <2>2, <2>3, <2>4
    <3>. QED BY <2>3, <2>4, <3>1 DEF Before
  <2>. QED BY <1>3, <2>5 DEF Rows
<1>4. \A e \in Rows(d) : event[e].recorded <= disp[d].until
  BY DEF Rows
<1>5. Rows(d) # {} => disp[d].seen # {}
  BY DEF Rows
<1>. QED BY <1>1, <1>2, <1>3, <1>4, <1>5

(* A page is read, or the window is found quiet. *)
LEMMA ReadsPageInv == ASSUME IInv, NEW d \in Dispatchers, ReadsPage(d) PROVE IInv'
<1>1. /\ disp[d] \in Passes /\ disp[d].loaded \in BOOLEAN /\ disp[d].until \in Nat
      /\ disp[d].until <= now - Lag /\ Judges(disp[d]) /\ TypeOK
  <2>1. disp[d].phase = "read"
    BY DEF ReadsPage
  <2>. QED BY <2>1, PassTyped DEF PassSound
<1>2. PICK at : at = Cursor(d)
  OBVIOUS
<1>3. /\ at \in Positions /\ Behind(at) /\ Safe(at, queued \cup capped)
      /\ disp[d].loaded => at = disp[d].cur
  BY <1>2, CursorSound
<1>4. /\ Unchanged /\ UNCHANGED <<watermark, queued, open, capped>>
  BY DEF ReadsPage
<1>5. CASE Rows(d) # {}
  <2>1. PICK page : page = First(Rows(d), Limit)
    OBVIOUS
  <2>2. PICK r : r = [disp[d] EXCEPT !.phase = "commit", !.loaded = TRUE, !.cur = at,
                                     !.page = page]
    OBVIOUS
  <2>3. disp' = [disp EXCEPT ![d] = r]
    BY <1>2, <1>5, <2>1, <2>2 DEF ReadsPage, Goes
  <2>4. /\ page # {} /\ page \subseteq Rows(d) /\ page \in SUBSET Events
        /\ \A e \in page, f \in Rows(d) : ~Before(Position(e), Position(f)) => f \in page
    <3>1. Rows(d) \in SUBSET Events /\ IsFiniteSet(Rows(d)) /\ Limit \in Nat /\ Limit # 0
      BY RowsCover, ConstantsTyped
    <3>. QED BY <1>1, <1>5, <2>1, <3>1, FirstOf
  <2>5. /\ r \in Passes /\ r.phase = "commit" /\ r.loaded /\ r.cur = at /\ r.page = page
        /\ r.until = disp[d].until /\ r.seen = disp[d].seen
    BY <1>1, <1>3, <2>2, <2>4 DEF Passes
  <2>6. disp[d].seen # {}
    BY <1>5, RowsCover
  <2>7. Judges(r)
    BY <1>1, <2>5, <2>6 DEF Judges
  <2>8. Paged(r)
    <3>1. \A e \in page : event[e].state = "visible" /\ event[e].recorded <= disp[d].until
      BY <2>4, RowsCover DEF Visible
    <3>2. ASSUME NEW e \in Visible, Before(at, Position(e)), NEW f \in page,
                 ~Before(Position(f), Position(e)), EligibleAt(disp[d].seen, event[e].at)
          PROVE  e \in page
      <4>1. e \in Events /\ f \in Events /\ event[f].recorded <= disp[d].until
        BY <2>4, <3>1 DEF Visible
      <4>2. /\ Position(e)[1] = event[e].recorded /\ Position(f)[1] = event[f].recorded
            /\ event[e].recorded \in Nat /\ event[f].recorded \in Nat
        BY <1>1, <4>1, PositionTyped
      <4>3. event[e].recorded <= event[f].recorded
        BY <3>2, <4>2 DEF Before
      <4>4. event[e].recorded <= disp[d].until
        BY <1>1, <4>1, <4>2, <4>3
      <4>5. e \in Rows(d)
        BY <1>2, <3>2, <4>4, RowsCover
      <4>. QED BY <2>4, <3>2, <4>5
    <3>. QED BY <2>4, <2>5, <2>6, <3>1, <3>2 DEF Paged
  <2>9. PassSound(r, queued \cup capped)
    BY <1>1, <1>3, <2>5, <2>7, <2>8 DEF PassSound
  <2>. QED BY <1>4, <2>3, <2>5, <2>9, ReadStep
<1>6. CASE Rows(d) = {} /\ disp[d].until - Cursor(d)[1] > Park
  <2>1. PICK r : r = [disp[d] EXCEPT !.phase = "park", !.loaded = TRUE, !.cur = at]
    OBVIOUS
  <2>2. disp' = [disp EXCEPT ![d] = r]
    BY <1>2, <1>6, <2>1 DEF ReadsPage, Goes
  <2>3. /\ r \in Passes /\ r.phase = "park" /\ r.loaded /\ r.cur = at
        /\ r.until = disp[d].until /\ r.seen = disp[d].seen
    BY <1>1, <1>3, <2>1 DEF Passes
  <2>4. Judges(r)
    BY <1>1, <1>3, <2>3 DEF Judges
  <2>5. Quiet(r)
    BY <1>2, <1>6, <2>3, RowsCover DEF Quiet
  <2>6. PassSound(r, queued \cup capped)
    BY <1>1, <1>3, <2>3, <2>4, <2>5 DEF PassSound
  <2>. QED BY <1>4, <2>2, <2>3, <2>6, ReadStep
<1>7. CASE Rows(d) = {} /\ ~(disp[d].until - Cursor(d)[1] > Park)
  <2>1. PICK yes, r : yes \in BOOLEAN /\ yes = TRUE /\ r = IdleDispatcher(yes, at)
    OBVIOUS
  <2>2. disp' = [disp EXCEPT ![d] = r]
    BY <1>2, <1>7, <2>1 DEF ReadsPage, Goes
  <2>3. r \in Passes /\ PassSound(r, queued \cup capped)
    BY <1>3, <2>1, IdleSound
  <2>. QED BY <1>4, <2>2, <2>3, ReadStep
<1>. QED BY <1>5, <1>6, <1>7

(* A committed page handles every event the endpoint is owed up to its last: *)
(* those before the cursor were handled, those on the page are queued or     *)
(* refused, and no other in between is eligible.                             *)
LEMMA PageHandled ==
  ASSUME IInv, NEW d \in Dispatchers, disp[d].phase = "commit", Enqueues(Wanted(d)),
         NEW last, last = Position(Last(disp[d].page))
  PROVE  /\ queued \subseteq queued' /\ capped \subseteq capped'
         /\ queued' \subseteq Events /\ open' \subseteq queued' /\ capped' \subseteq Events
         /\ Sound(queued') /\ last \in Positions /\ Behind(last)
         /\ Safe(last, queued' \cup capped')
<1>1. /\ TypeOK /\ FactsTimely /\ Sound(queued) /\ disp[d].page \in SUBSET Events
      /\ disp[d].until \in Nat /\ disp[d].until <= now - Lag
      /\ Judges(disp[d]) /\ Paged(disp[d]) /\ Safe(disp[d].cur, queued \cup capped)
  BY PassTyped DEF PassSound, IInv, Paged
<1>2. PICK page, until, seen, cur :
        /\ page = disp[d].page /\ until = disp[d].until /\ seen = disp[d].seen
        /\ cur = disp[d].cur
  OBVIOUS
<1>3. /\ page \subseteq Events /\ page # {} /\ IsFiniteSet(page) /\ until \in Nat
      /\ \A e \in page : event[e].state = "visible" /\ event[e].recorded <= until
  <2>1. page \subseteq Visible
    BY <1>1, <1>2 DEF Paged, Visible
  <2>2. IsFiniteSet(page)
    BY <1>1, <2>1, FS_Subset DEF FactsTimely
  <2>. QED BY <1>1, <1>2, <2>2 DEF Paged
<1>4. PICK l \in page : last = Position(l) /\ \A f \in page : ~Before(Position(l), Position(f))
  BY <1>1, <1>2, <1>3, LastOf
<1>5. \A t \in 0..until : EligibleAt(seen, t) <=> EligibleAt(intervals, t)
  BY <1>1, <1>2 DEF Judges, Paged
<1>6. \A e \in Events : /\ event[e].at <= event[e].recorded
                        /\ event[e].at \in Nat /\ event[e].recorded \in Nat
                        /\ Position(e) \in Positions /\ Position(e)[1] = event[e].recorded
  BY <1>1, PositionTyped DEF FactsTimely
<1>7. PICK wanted : wanted = {e \in page : EligibleAt(seen, event[e].at)}
  OBVIOUS
<1>8. /\ queued' \cup capped' = (queued \cup capped) \cup wanted
      /\ queued \subseteq queued' /\ capped \subseteq capped'
      /\ queued' \subseteq queued \cup wanted /\ capped' \subseteq capped \cup wanted
      /\ open' \subseteq queued'
  <2>1. PICK room : LET candidates == wanted \ queued
                        admitted == First(candidates, room)
                    IN  /\ queued' = queued \cup admitted
                        /\ open' = open \cup admitted
                        /\ capped' = capped \cup (candidates \ admitted)
    BY <1>2, <1>7 DEF Enqueues, Wanted
  <2>2. First(wanted \ queued, room) \subseteq wanted \ queued
    BY DEF First
  <2>. QED BY <1>1, <2>1, <2>2 DEF TypeOK
<1>9. ASSUME NEW e \in wanted
      PROVE  /\ event[e].state = "visible" /\ event[e].recorded <= now - Lag
             /\ EligibleAt(intervals, event[e].at)
  <2>1. e \in page /\ e \in Events /\ EligibleAt(seen, event[e].at)
    BY <1>3, <1>7
  <2>2. event[e].recorded <= until /\ event[e].at \in 0..until
    BY <1>3, <1>6, <2>1
  <2>3. now \in Int /\ Lag \in Int
    BY PassTyped
  <2>. QED BY <1>1, <1>2, <1>3, <1>5, <1>6, <2>1, <2>2, <2>3
<1>10. Sound(queued')
  BY <1>1, <1>8, <1>9 DEF Sound
<1>11. last \in Positions /\ Behind(last) /\ last[1] <= until
  <2>1. event[l].recorded <= until /\ last[1] = event[l].recorded /\ last \in Positions
    BY <1>3, <1>4, <1>6
  <2>2. now \in Int /\ Lag \in Int
    BY PassTyped
  <2>. QED BY <1>1, <1>2, <1>3, <1>4, <1>6, <2>1, <2>2 DEF Behind
<1>12. ASSUME NEW e \in Events, Owed(e), ~Before(last, Position(e))
       PROVE  e \in queued' \cup capped'
  <2>1. CASE ~Before(cur, Position(e))
    BY <1>1, <1>2, <1>8, <1>12, <2>1 DEF Safe
  <2>2. CASE Before(cur, Position(e))
    <3>1. event[e].recorded <= until
      <4>1. last[1] \in Nat
        BY <1>3, <1>4, <1>6
      <4>2. ~(last[1] < event[e].recorded)
        BY <1>6, <1>12 DEF Before
      <4>. QED BY <1>3, <1>6, <1>11, <4>1, <4>2
    <3>2. event[e].at \in 0..until
      BY <1>3, <1>6, <3>1
    <3>3. EligibleAt(seen, event[e].at) /\ e \in Visible
      BY <1>5, <1>12, <3>2 DEF Owed, Visible
    <3>4. e \in page
      BY <1>1, <1>2, <1>4, <1>12, <2>2, <3>3 DEF Paged
    <3>. QED BY <1>7, <1>8, <3>3, <3>4
  <2>. QED BY <2>1, <2>2
<1>13. queued' \subseteq Events /\ capped' \subseteq Events
  BY <1>1, <1>3, <1>7, <1>8 DEF TypeOK
<1>. QED BY <1>8, <1>10, <1>11, <1>12, <1>13 DEF Safe

(* A page is committed with the watermark. *)
LEMMA CommitsPageInv == ASSUME IInv, NEW d \in Dispatchers, CommitsPage(d) PROVE IInv'
<1>1. PICK last : last = Position(Last(disp[d].page))
  OBVIOUS
<1>2. /\ disp[d].phase = "commit" /\ Enqueues(Wanted(d)) /\ watermark' = last /\ Unchanged
  BY <1>1 DEF CommitsPage
<1>3. PICK handled : handled = queued' \cup capped'
  OBVIOUS
<1>4. /\ queued \subseteq queued' /\ capped \subseteq capped'
      /\ queued' \subseteq Events /\ open' \subseteq queued' /\ capped' \subseteq Events
      /\ Sound(queued') /\ last \in Positions /\ Behind(last) /\ Safe(last, handled)
  BY <1>1, <1>2, <1>3, PageHandled
<1>5. \E r \in Passes : disp' = [disp EXCEPT ![d] = r] /\ PassSound(r, handled)
  <2>1. CASE Cardinality(disp[d].page) = Limit
    <3>1. PICK r : r = [disp[d] EXCEPT !.phase = "read", !.cur = last, !.page = {}]
      OBVIOUS
    <3>2. disp' = [disp EXCEPT ![d] = r]
      BY <1>1, <2>1, <3>1 DEF CommitsPage, Goes
    <3>3. /\ r \in Passes /\ r.phase = "read" /\ r.cur = last /\ r.loaded = disp[d].loaded
          /\ r.until = disp[d].until /\ r.seen = disp[d].seen
      BY <1>4, <3>1, PassTyped DEF Passes
    <3>4. disp[d].until <= now - Lag /\ Judges(disp[d]) /\ disp[d].seen # {}
      BY <1>2, PassTyped DEF PassSound, Paged
    <3>5. Judges(r)
      BY <3>3, <3>4 DEF Judges
    <3>6. PassSound(r, handled)
      BY <1>4, <3>3, <3>4, <3>5 DEF PassSound
    <3>. QED BY <3>2, <3>3, <3>6
  <2>2. CASE Cardinality(disp[d].page) # Limit
    <3>1. PICK yes, r : yes \in BOOLEAN /\ yes = TRUE /\ r = IdleDispatcher(yes, last)
      OBVIOUS
    <3>2. disp' = [disp EXCEPT ![d] = r]
      BY <1>1, <2>2, <3>1 DEF CommitsPage, Goes
    <3>3. r \in Passes /\ PassSound(r, handled)
      BY <1>4, <3>1, IdleSound
    <3>. QED BY <3>2, <3>3
  <2>. QED BY <2>1, <2>2
<1>. QED BY <1>2, <1>3, <1>4, <1>5, DispStep

(* The answer of a commit is lost: the cursor stays behind the watermark. *)
LEMMA CommitAnswerLostInv ==
  ASSUME IInv, NEW d \in Dispatchers, CommitAnswerLost(d) PROVE IInv'
<1>1. PICK last : last = Position(Last(disp[d].page))
  OBVIOUS
<1>2. /\ disp[d].phase = "commit" /\ Enqueues(Wanted(d)) /\ watermark' = last /\ Unchanged
  BY <1>1 DEF CommitAnswerLost
<1>3. PICK handled : handled = queued' \cup capped'
  OBVIOUS
<1>4. /\ queued \subseteq queued' /\ capped \subseteq capped'
      /\ queued' \subseteq Events /\ open' \subseteq queued' /\ capped' \subseteq Events
      /\ Sound(queued') /\ last \in Positions /\ Behind(last) /\ Safe(last, handled)
  BY <1>1, <1>2, <1>3, PageHandled
<1>5. PICK yes, r : yes \in BOOLEAN /\ yes = TRUE /\ r = IdleDispatcher(yes, disp[d].cur)
  OBVIOUS
<1>6. disp' = [disp EXCEPT ![d] = r]
  BY <1>5 DEF CommitAnswerLost, Goes
<1>7. disp[d].cur \in Positions /\ Behind(disp[d].cur) /\ Safe(disp[d].cur, handled)
  <2>1. Safe(disp[d].cur, queued \cup capped) /\ queued \cup capped \subseteq handled
    BY <1>2, <1>3, <1>4, PassTyped DEF PassSound, Paged
  <2>2. Safe(disp[d].cur, handled)
    BY <2>1 DEF Safe
  <2>. QED BY <2>2, PassTyped DEF PassSound
<1>8. r \in Passes /\ PassSound(r, handled)
  BY <1>5, <1>7, IdleSound
<1>. QED BY <1>2, <1>3, <1>4, <1>6, <1>8, DispStep

(* A quiet window is parked: nothing owed lies between cursor and its end. *)
LEMMA ParksInv == ASSUME IInv, NEW d \in Dispatchers, Parks(d) PROVE IInv'
<1>1. PICK at : at = <<disp[d].until, 0>>
  OBVIOUS
<1>2. /\ disp[d].phase = "park" /\ watermark' = at /\ Unchanged
      /\ UNCHANGED <<queued, open, capped>>
  BY <1>1 DEF Parks
<1>3. PICK until, seen, cur :
        until = disp[d].until /\ seen = disp[d].seen /\ cur = disp[d].cur
  OBVIOUS
<1>4. /\ TypeOK /\ FactsTimely /\ Sound(queued) /\ until \in Times /\ until \in Nat
      /\ until <= now - Lag /\ Judges(disp[d]) /\ Quiet(disp[d])
      /\ cur \in Positions /\ cur[1] \in Nat /\ Safe(cur, queued \cup capped)
  BY <1>2, <1>3, PassTyped DEF PassSound, IInv, Quiet
<1>5. at \in Positions /\ at[1] = until /\ at[2] = 0 /\ Behind(at)
  BY <1>1, <1>3, <1>4 DEF Positions, Keys, Behind
<1>6. ASSUME NEW e \in Events, Owed(e), ~Before(at, Position(e))
      PROVE  e \in queued \cup capped
  <2>1. /\ event[e].at <= event[e].recorded /\ event[e].at \in Nat /\ event[e].recorded \in Nat
        /\ Position(e)[1] = event[e].recorded /\ e \in Visible
        /\ EligibleAt(intervals, event[e].at)
        /\ event[e].recorded - event[e].at <= LateAllowance /\ LateAllowance \in Nat
    BY <1>4, <1>6, PositionTyped, ConstantsTyped DEF FactsTimely, Owed, Visible
  <2>2. event[e].recorded <= until
    BY <1>4, <1>5, <1>6, <2>1 DEF Before
  <2>3. event[e].at \in 0..until
    BY <1>4, <2>1, <2>2
  <2>4. CASE ~Before(cur, Position(e))
    BY <1>4, <1>6, <2>4 DEF Safe
  <2>5. CASE Before(cur, Position(e))
    <3>1. ~EligibleAt(seen, event[e].at)
      BY <1>3, <1>4, <2>1, <2>2, <2>5 DEF Quiet
    <3>2. event[e].at + LateAllowance < cur[1]
      BY <1>3, <1>4, <2>1, <2>3, <3>1 DEF Judges
    <3>3. event[e].recorded < cur[1]
      BY <1>4, <2>1, <3>2
    <3>. QED BY <1>4, <2>1, <2>5, <3>3 DEF Before
  <2>. QED BY <2>4, <2>5
<1>7. Safe(at, queued \cup capped)
  BY <1>6 DEF Safe
<1>8. PICK yes, r : yes \in BOOLEAN /\ yes = TRUE /\ r = IdleDispatcher(yes, at)
  OBVIOUS
<1>9. disp' = [disp EXCEPT ![d] = r]
  BY <1>1, <1>8 DEF Parks, Goes
<1>10. r \in Passes /\ PassSound(r, queued \cup capped)
  BY <1>5, <1>7, <1>8, IdleSound
<1>11. /\ queued' = queued /\ capped' = capped /\ open' = open
       /\ queued \subseteq queued' /\ capped \subseteq capped'
       /\ queued' \subseteq Events /\ open' \subseteq queued' /\ capped' \subseteq Events
       /\ Sound(queued') /\ watermark' \in Positions /\ Behind(watermark')
       /\ Safe(watermark', queued' \cup capped') /\ PassSound(r, queued' \cup capped')
  BY <1>2, <1>4, <1>5, <1>7, <1>10 DEF TypeOK
<1>. QED BY <1>2, <1>9, <1>10, <1>11, DispStep

-----------------------------------------------------------------------------
(* Steps of time, events and toggles. *)

(* The invariant is kept by a step that moves no pass, as long as it shows   *)
(* no event recorded, and changes no eligibility, behind the lag.            *)
LEMMA OutsideStep ==
  ASSUME IInv, UNCHANGED <<watermark, disp, queued, capped>>,
         TypeOK', FactsTimely', TogglesTimely', now <= now',
         \A e \in Events :
           /\ event[e].state = "visible" => event'[e] = event[e]
           /\ event'[e].state = "visible" /\ event'[e].recorded <= now - Lag =>
                event[e].state = "visible",
         \A t \in Nat : t <= now - Lag =>
           (EligibleAt(intervals', t) <=> EligibleAt(intervals, t))
  PROVE  IInv'
<1>1. TypeOK /\ FactsTimely /\ now \in Nat /\ now' \in Nat /\ Lag \in Nat
  BY ConstantsTyped DEF IInv, TypeOK, Times
<1>2. ASSUME NEW p \in Positions, Behind(p) PROVE Behind(p)'
  <2>1. p[1] \in Nat
    BY PositionOrder
  <2>. QED BY <1>1, <1>2, <2>1 DEF Behind
<1>3. ASSUME NEW e \in Events, event'[e].state = "visible", event'[e].recorded <= now - Lag
      PROVE  /\ event'[e] = event[e] /\ event[e].state = "visible"
             /\ event[e].at \in Nat /\ event[e].recorded \in Nat
             /\ event[e].at <= event[e].recorded /\ event[e].at <= now - Lag
             /\ EligibleAt(intervals', event[e].at) <=> EligibleAt(intervals, event[e].at)
  <2>1. event'[e] = event[e] /\ event[e].state = "visible"
    BY <1>3
  <2>2. /\ event[e].at \in Nat /\ event[e].recorded \in Nat
        /\ event[e].at <= event[e].recorded
    BY <1>1, PositionTyped DEF FactsTimely
  <2>3. event[e].at <= now - Lag
    BY <1>1, <1>3, <2>1, <2>2
  <2>. QED BY <2>1, <2>2, <2>3
<1>4. ASSUME NEW p \in Positions, Behind(p), NEW h, Safe(p, h) PROVE Safe(p, h)'
  <2> SUFFICES ASSUME NEW e \in Events, Owed(e)', ~Before(p, Position(e)') PROVE e \in h
    BY DEF Safe, Before
  <2>1. /\ event'[e].state = "visible" /\ EligibleAt(intervals', event'[e].at)
        /\ event'[e].recorded - event'[e].at <= LateAllowance
    BY DEF Owed, EligibleAt, Contains
  <2>2. Position(e)' \in Positions /\ Position(e)'[1] = event'[e].recorded /\ Position(e)'[2] = e
    BY PositionTyped DEF Position, Positions, Keys, TypeOK, Facts
  <2>3. event'[e].recorded <= now - Lag
    <3>1. event'[e].recorded \in Nat /\ e \in Nat \ {0} /\ p[1] \in Nat /\ p[2] \in Nat
      BY PositionOrder, ConstantsTyped DEF TypeOK, Facts, Times
    <3>2. CASE p = <<0, 0>>
      BY <2>2, <3>1, <3>2 DEF Before
    <3>3. CASE p[1] <= now - Lag
      BY <1>1, <2>2, <3>1, <3>3 DEF Before
    <3>. QED BY <1>4, <3>2, <3>3 DEF Behind
  <2>4. Owed(e)
    BY <1>3, <2>1, <2>3 DEF Owed
  <2>5. Position(e)' = Position(e)
    BY <1>3, <2>1, <2>3 DEF Position
  <2>. QED BY <1>4, <2>4, <2>5 DEF Safe
<1>5. ASSUME NEW r \in Passes, NEW h, PassSound(r, h) PROVE PassSound(r, h)'
  <2>1. r.until \in Nat /\ r.cur \in Positions
    BY ConstantsTyped DEF Passes, Times
  <2>2. Behind(r.cur)' /\ (r.loaded => Safe(r.cur, h)')
    BY <1>2, <1>4, <1>5, <2>1 DEF PassSound
  <2>3. ASSUME r.until <= now - Lag
        PROVE  /\ r.until <= now' - Lag
               /\ Judges(r) => Judges(r)'
               /\ Paged(r) => Paged(r)'
               /\ Quiet(r) => Quiet(r)'
    <3>1. r.until <= now' - Lag
      BY <1>1, <2>1, <2>3
    <3>2. \A t \in 0..r.until : EligibleAt(intervals', t) <=> EligibleAt(intervals, t)
      BY <1>1, <2>1, <2>3
    <3>3. Judges(r) => Judges(r)'
      BY <3>2 DEF Judges, EligibleAt, Contains
    <3>4. ASSUME NEW e \in Visible', event'[e].recorded <= r.until
          PROVE  e \in Visible /\ event'[e] = event[e] /\ Position(e)' = Position(e)
      <4>1. event'[e].recorded <= now - Lag /\ e \in Events /\ event'[e].state = "visible"
        <5>1. e \in Events /\ event'[e].state = "visible" /\ event'[e].recorded \in Nat
          BY ConstantsTyped DEF Visible, TypeOK, Facts, Times
        <5>. QED BY <1>1, <2>1, <2>3, <3>4, <5>1
      <4>. QED BY <1>3, <4>1 DEF Visible, Position
    <3>5. ASSUME Paged(r) PROVE Paged(r)'
      <4>1. ASSUME NEW f \in r.page
            PROVE  /\ event'[f] = event[f] /\ event[f].state = "visible"
                   /\ event[f].recorded <= r.until /\ Position(f)' = Position(f)
                   /\ Position(f) \in Positions
        <5>1. f \in Events /\ event[f].state = "visible" /\ event[f].recorded <= r.until
          BY <3>5 DEF Paged, Passes
        <5>2. event'[f] = event[f]
          BY <5>1
        <5>. QED BY <1>1, <5>1, <5>2, PositionTyped DEF Position
      <4>2. ASSUME NEW e \in Visible', Before(r.cur, Position(e)'),
                   NEW f \in r.page, ~Before(Position(f)', Position(e)'),
                   EligibleAt(r.seen, event'[e].at)
            PROVE  e \in r.page
        <5>1. e \in Events /\ event'[e].recorded \in Nat /\ Position(e)'[1] = event'[e].recorded
          BY ConstantsTyped DEF Visible, TypeOK, Facts, Times, Position
        <5>2. f \in Events /\ event[f].recorded \in Nat /\ Position(f)'[1] = event[f].recorded
          <6>1. f \in Events
            BY DEF Passes
          <6>. QED BY <1>1, <4>1, <6>1, PositionTyped
        <5>3. event'[e].recorded <= event[f].recorded
          BY <4>2, <5>1, <5>2 DEF Before
        <5>4. event'[e].recorded <= r.until
          BY <2>1, <4>1, <5>1, <5>2, <5>3
        <5>5. e \in Visible /\ event'[e] = event[e] /\ Position(e)' = Position(e)
          BY <3>4, <5>4
        <5>6. Before(r.cur, Position(e)) /\ ~Before(Position(f), Position(e))
          BY <4>1, <4>2, <5>5
        <5>. QED BY <3>5, <4>2, <5>5, <5>6 DEF Paged
      <4>. QED BY <3>5, <4>1, <4>2 DEF Paged, EligibleAt, Contains, Before
    <3>6. Quiet(r) => Quiet(r)'
      BY <3>4 DEF Quiet, EligibleAt, Contains
    <3>. QED BY <3>1, <3>3, <3>5, <3>6
  <2>. QED BY <1>5, <2>2, <2>3 DEF PassSound
<1>6. Sound(queued)'
  <2> SUFFICES ASSUME NEW e \in queued'
               PROVE  /\ event'[e].state = "visible" /\ event'[e].recorded <= now' - Lag
                      /\ EligibleAt(intervals', event'[e].at)
    BY DEF Sound, EligibleAt, Contains
  <2>1. /\ e \in Events /\ event[e].state = "visible" /\ event[e].recorded <= now - Lag
        /\ EligibleAt(intervals, event[e].at)
    BY DEF IInv, TypeOK, Sound
  <2>2. event'[e] = event[e]
    BY <2>1
  <2>. QED BY <1>1, <1>3, <2>1, <2>2
<1>7. /\ watermark \in Positions /\ Behind(watermark) /\ Safe(watermark, queued \cup capped)
      /\ disp \in [Dispatchers -> Passes]
      /\ \A d \in Dispatchers : PassSound(disp[d], queued \cup capped)
  BY DEF IInv, TypeOK
<1>8. PICK w, h : w = watermark /\ h = queued \cup capped
  OBVIOUS
<1>9. Behind(watermark)' /\ Safe(watermark, queued \cup capped)'
  <2>1. Behind(w)' /\ Safe(w, h)'
    BY <1>2, <1>4, <1>7, <1>8
  <2>. QED BY <1>8, <2>1 DEF Behind, Safe
<1>10. ASSUME NEW d \in Dispatchers PROVE PassSound(disp[d], queued \cup capped)'
  <2>1. PICK r : r = disp[d]
    OBVIOUS
  <2>2. PassSound(r, h)'
    BY <1>5, <1>7, <1>8, <2>1
  <2>. QED BY <1>8, <2>1, <2>2 DEF PassSound, Behind, Safe, Judges, Paged, Quiet
<1>. QED BY <1>6, <1>9, <1>10 DEF IInv

(* Time passes only while every transaction that has stamped stays younger   *)
(* than the lag.                                                             *)
LEMMA TickInv == ASSUME IInv, Tick PROVE IInv'
<1>1. /\ TypeOK /\ FactsTimely /\ TogglesTimely /\ now \in Times /\ now \in Nat
      /\ MaxTime \in Nat /\ Lag \in Nat /\ now' = now + 1 /\ now < MaxTime
      /\ UNCHANGED <<event, intervals, toggle, toggles, others, watermark, disp, queued, open,
                     capped>>
  BY ConstantsTyped DEF IInv, TypeOK, Tick, Times
<1>2. TypeOK'
  <2>1. now' \in Times
    BY <1>1 DEF Times
  <2>. QED BY <1>1, <2>1 DEF TypeOK
<1>3. FactsTimely'
  <2>1. IsFiniteSet(Visible')
    BY <1>1 DEF FactsTimely, Visible
  <2>2. ASSUME NEW e \in Events
        PROVE  /\ event[e].at <= event[e].recorded
               /\ event[e].recorded <= now'
               /\ event[e].state = "stamped" => now' - Lag < event[e].recorded
    <3>1. event[e].recorded \in Nat
      BY <1>1, PositionTyped
    <3>2. event[e].state = "stamped" => now + 1 < event[e].recorded + Lag
      BY DEF Tick
    <3>. QED BY <1>1, <3>1, <3>2 DEF FactsTimely
  <2>. QED BY <1>1, <2>1, <2>2 DEF FactsTimely
<1>4. TogglesTimely'
  <2>1. \A i \in intervals : i.on \in Nat /\ i.on <= now'
    BY <1>1 DEF TypeOK, Intervals, Times, TogglesTimely
  <2>2. ASSUME toggle # Never
        PROVE  /\ now' - Lag < toggle /\ toggle <= now'
               /\ \A i \in intervals : i.on < toggle
    <3>1. toggle \in Nat /\ now + 1 < toggle + Lag
      BY <1>1, <2>2 DEF TypeOK, Times, Tick
    <3>. QED BY <1>1, <2>2, <3>1 DEF TogglesTimely
  <2>. QED BY <1>1, <2>1, <2>2 DEF TogglesTimely
<1>5. now <= now'
  BY <1>1
<1>. QED BY <1>1, <1>2, <1>3, <1>4, <1>5, OutsideStep

(* A step that leaves the events alone leaves them timely. *)
LEMMA FactsKept == ASSUME FactsTimely, UNCHANGED <<now, event>> PROVE FactsTimely'
BY DEF FactsTimely, Visible

(* An event is stamped with the present, and is not seen yet. *)
LEMMA EventStampsInv ==
  ASSUME IInv, NEW e \in Events, NEW at \in 0..now, EventStamps(e, at) PROVE IInv'
<1>1. PICK fact : fact = [state |-> "stamped", at |-> at, recorded |-> now]
  OBVIOUS
<1>2. /\ TypeOK /\ FactsTimely /\ now \in Times /\ now \in Nat /\ Lag \in Nat \ {0}
      /\ event \in [Events -> Facts] /\ event[e].state = "unborn"
      /\ event' = [event EXCEPT ![e] = fact]
      /\ UNCHANGED <<now, intervals, toggle, toggles, others, watermark, disp, queued, open,
                     capped>>
  BY <1>1, ConstantsTyped DEF IInv, TypeOK, EventStamps, Times
<1>3. /\ fact \in Facts /\ fact.state = "stamped" /\ fact.at = at /\ fact.recorded = now
      /\ at \in Nat /\ at <= now
  <2>1. at \in Nat /\ at <= now
    BY <1>2
  <2>2. at \in Times
    BY <1>2, <2>1, ConstantsTyped DEF Times
  <2>. QED BY <1>1, <1>2, <2>1, <2>2 DEF Facts
<1>4. \A f \in Events : event'[f] = IF f = e THEN fact ELSE event[f]
  BY <1>2
<1>5. TypeOK'
  BY <1>2, <1>3 DEF TypeOK
<1>6. FactsTimely'
  <2>1. Visible' = Visible
    BY <1>2, <1>3, <1>4 DEF Visible
  <2>2. now - Lag < now
    BY <1>2
  <2>. QED BY <1>2, <1>3, <1>4, <2>1, <2>2 DEF FactsTimely
<1>7. TogglesTimely' /\ now <= now'
  BY <1>2 DEF IInv, TogglesTimely
<1>8. \A t \in Nat : t <= now - Lag =>
        (EligibleAt(intervals', t) <=> EligibleAt(intervals, t))
  BY <1>2
<1>9. \A f \in Events :
        /\ event[f].state = "visible" => event'[f] = event[f]
        /\ event'[f].state = "visible" /\ event'[f].recorded <= now - Lag =>
             event[f].state = "visible"
  BY <1>2, <1>3, <1>4
<1>. QED BY <1>2, <1>5, <1>6, <1>7, <1>8, <1>9, OutsideStep

(* An event is seen within the lag of its stamp: no window that has ended     *)
(* reaches it.                                                               *)
LEMMA EventCommitsInv == ASSUME IInv, NEW e \in Events, EventCommits(e) PROVE IInv'
<1>1. PICK fact : fact = [event[e] EXCEPT !.state = "visible"]
  OBVIOUS
<1>2. /\ TypeOK /\ FactsTimely /\ now \in Times /\ now \in Nat /\ Lag \in Nat \ {0}
      /\ event \in [Events -> Facts] /\ event[e].state = "stamped"
      /\ event' = [event EXCEPT ![e] = fact]
      /\ UNCHANGED <<now, intervals, toggle, toggles, others, watermark, disp, queued, open,
                     capped>>
  BY <1>1, ConstantsTyped DEF IInv, TypeOK, EventCommits, Times
<1>3. /\ fact \in Facts /\ fact.state = "visible"
      /\ fact.at = event[e].at /\ fact.recorded = event[e].recorded
  BY <1>1, <1>2 DEF Facts
<1>4. \A f \in Events : event'[f] = IF f = e THEN fact ELSE event[f]
  BY <1>2
<1>5. TypeOK'
  BY <1>2, <1>3 DEF TypeOK
<1>6. FactsTimely'
  <2>1. Visible' = Visible \cup {e}
    BY <1>2, <1>3, <1>4 DEF Visible
  <2>2. IsFiniteSet(Visible \cup {e})
    BY <1>2, FS_AddElement DEF FactsTimely
  <2>. QED BY <1>2, <1>3, <1>4, <2>1, <2>2 DEF FactsTimely
<1>7. TogglesTimely' /\ now <= now'
  BY <1>2 DEF IInv, TogglesTimely
<1>8. \A t \in Nat : t <= now - Lag =>
        (EligibleAt(intervals', t) <=> EligibleAt(intervals, t))
  BY <1>2
<1>9. ~(event[e].recorded <= now - Lag)
  <2>1. now - Lag < event[e].recorded /\ event[e].recorded \in Nat
    BY <1>2, PositionTyped DEF FactsTimely
  <2>. QED BY <1>2, <2>1
<1>10. \A f \in Events :
         /\ event[f].state = "visible" => event'[f] = event[f]
         /\ event'[f].state = "visible" /\ event'[f].recorded <= now - Lag =>
              event[f].state = "visible"
  BY <1>2, <1>3, <1>4, <1>9
<1>. QED BY <1>2, <1>5, <1>6, <1>7, <1>8, <1>10, OutsideStep

(* A toggle is stamped with the present, later than any before it. *)
LEMMA ToggleStampsInv == ASSUME IInv, ToggleStamps PROVE IInv'
<1>1. /\ TypeOK /\ FactsTimely /\ TogglesTimely /\ now \in Times /\ now \in Nat
      /\ Lag \in Nat \ {0} /\ toggle' = now /\ \A i \in intervals : i.on # now
      /\ UNCHANGED <<now, event, intervals, others, watermark, disp, queued, open, capped>>
  BY ConstantsTyped DEF IInv, TypeOK, ToggleStamps, Times
<1>2. TypeOK' /\ FactsTimely' /\ now <= now'
  BY <1>1, FactsKept DEF TypeOK
<1>3. TogglesTimely'
  <2>1. \A i \in intervals : i.on \in Nat /\ i.on <= now /\ i.on < now
    BY <1>1 DEF TypeOK, Intervals, Times, TogglesTimely
  <2>2. now - Lag < now
    BY <1>1
  <2>. QED BY <1>1, <2>1, <2>2 DEF TogglesTimely
<1>. QED BY <1>1, <1>2, <1>3, OutsideStep

(* A toggle commits within the lag of its stamp: it changes no eligibility   *)
(* a window that has ended asks for.                                         *)
LEMMA ToggleCommitsInv == ASSUME IInv, ToggleCommits PROVE IInv'
<1>1. /\ TypeOK /\ FactsTimely /\ TogglesTimely /\ now \in Nat /\ Lag \in Nat
      /\ MaxTime \in Nat /\ now <= MaxTime /\ Never = MaxTime + 1
      /\ toggle # Never /\ toggle \in Times /\ toggle \in Nat /\ toggle' = Never
      /\ intervals \in SUBSET Intervals
      /\ UNCHANGED <<now, event, toggles, others, watermark, disp, queued, open, capped>>
  BY ConstantsTyped DEF IInv, TypeOK, ToggleCommits, Times, Never
<1>2. /\ now - Lag < toggle /\ toggle <= now
      /\ \A i \in intervals : /\ i.on \in Times /\ i.on \in Nat /\ i.off \in Times \cup {Never}
                              /\ i.off \in Nat /\ i.on < toggle /\ i.on <= i.off
  BY <1>1 DEF TogglesTimely, Intervals, Times
<1>3. /\ intervals' \subseteq Intervals
      /\ \A i \in intervals' : i.on <= now
      /\ \A t \in Nat : t < toggle =>
           (EligibleAt(intervals', t) <=> EligibleAt(intervals, t))
  <2>1. CASE Enabled
    <3> DEFINE closed(i) == [i EXCEPT !.off = IF @ = Never THEN toggle ELSE @]
    <3>1. intervals' = {closed(i) : i \in intervals}
      BY <2>1 DEF ToggleCommits
    <3>2. ASSUME NEW i \in intervals
          PROVE  /\ closed(i) \in Intervals /\ closed(i).on = i.on
                 /\ closed(i).off = IF i.off = Never THEN toggle ELSE i.off
      BY <1>1, <1>2 DEF Intervals
    <3>3. ASSUME NEW i \in intervals, NEW t \in Nat, t < toggle
          PROVE  Contains(closed(i), t) <=> Contains(i, t)
      <4>1. t < Never
        BY <1>1, <1>2, <3>3
      <4> HIDE DEF closed
      <4>. QED BY <1>1, <1>2, <3>2, <3>3, <4>1 DEF Contains
    <3> HIDE DEF closed
    <3>4. intervals' \subseteq Intervals
      BY <3>1, <3>2
    <3>5. \A i \in intervals' : i.on <= now
      BY <1>1, <1>2, <3>1, <3>2 DEF TogglesTimely
    <3>6. \A t \in Nat : t < toggle =>
            (EligibleAt(intervals', t) <=> EligibleAt(intervals, t))
      BY <3>1, <3>3 DEF EligibleAt
    <3>. QED BY <3>4, <3>5, <3>6
  <2>2. CASE ~Enabled
    <3>1. PICK fresh : fresh = [on |-> toggle, off |-> Never]
      OBVIOUS
    <3>2. intervals' = intervals \cup {fresh}
      BY <2>2, <3>1 DEF ToggleCommits
    <3>3. fresh \in Intervals /\ fresh.on = toggle
      BY <1>1, <1>2, <3>1 DEF Intervals
    <3>4. \A t \in Nat : t < toggle => ~Contains(fresh, t)
      BY <1>1, <3>3 DEF Contains
    <3>5. \A t \in Nat : t < toggle =>
            (EligibleAt(intervals', t) <=> EligibleAt(intervals, t))
      BY <3>2, <3>4 DEF EligibleAt
    <3>6. \A i \in intervals' : i.on <= now
      BY <1>1, <1>2, <3>2, <3>3 DEF TogglesTimely
    <3>. QED BY <1>1, <3>2, <3>3, <3>5, <3>6
  <2>. QED BY <2>1, <2>2
<1>4. TypeOK'
  BY <1>1, <1>3 DEF TypeOK
<1>5. FactsTimely' /\ now <= now'
  BY <1>1, FactsKept
<1>6. TogglesTimely'
  BY <1>1, <1>3 DEF TogglesTimely
<1>7. \A t \in Nat : t <= now - Lag =>
        (EligibleAt(intervals', t) <=> EligibleAt(intervals, t))
  BY <1>1, <1>2, <1>3
<1>. QED BY <1>1, <1>4, <1>5, <1>6, <1>7, OutsideStep

(* A notification ends, which the feed does not look at. *)
LEMMA EndsInv == ASSUME IInv, NEW e \in Events, Ends(e) PROVE IInv'
<1>1. /\ TypeOK /\ FactsTimely /\ TogglesTimely /\ now \in Nat
      /\ open' = open \ {e}
      /\ UNCHANGED <<now, event, intervals, toggle, toggles, others, watermark, disp, queued,
                     capped>>
  BY ConstantsTyped DEF IInv, TypeOK, Ends, Times
<1>2. TypeOK'
  BY <1>1 DEF TypeOK
<1>3. FactsTimely' /\ TogglesTimely' /\ now <= now'
  BY <1>1, FactsKept DEF TogglesTimely
<1>4. \A t \in Nat : t <= now - Lag =>
        (EligibleAt(intervals', t) <=> EligibleAt(intervals, t))
  BY <1>1
<1>5. \A f \in Events :
        /\ event[f].state = "visible" => event'[f] = event[f]
        /\ event'[f].state = "visible" /\ event'[f].recorded <= now - Lag =>
             event[f].state = "visible"
  BY <1>1
<1>. QED BY <1>1, <1>2, <1>3, <1>4, <1>5, OutsideStep

-----------------------------------------------------------------------------
(* The theorems. *)

(* The invariant holds at the start. *)
LEMMA InitInv == Init => IInv
<1> SUFFICES ASSUME Init PROVE IInv
  OBVIOUS
<1>1. PICK lost, origin, idle :
        lost \in BOOLEAN /\ origin = <<0, 0>> /\ lost = FALSE /\ idle = IdleDispatcher(lost, origin)
  OBVIOUS
<1>2. 0 \in Times /\ origin \in Positions /\ Behind(origin) /\ Unborn \in Facts
  BY <1>1, ConstantsTyped DEF Times, Positions, Keys, Behind, Facts, Unborn
<1>3. /\ now = 0 /\ event = [e \in Events |-> Unborn] /\ intervals = {} /\ toggle = Never
      /\ watermark = origin /\ disp = [d \in Dispatchers |-> idle]
      /\ queued = {} /\ open = {} /\ capped = {}
  BY <1>1 DEF Init
<1>4. \A e \in Events : /\ event[e].state = "unborn" /\ event[e].at = 0
                        /\ event[e].recorded = 0
  BY <1>3 DEF Unborn
<1>5. Visible = {}
  BY <1>4 DEF Visible
<1>6. idle \in Passes /\ PassSound(idle, queued \cup capped)
  BY <1>1, <1>2, IdleSound
<1>7. TypeOK
  BY <1>2, <1>3, <1>6 DEF TypeOK
<1>8. FactsTimely
  BY <1>3, <1>4, <1>5, FS_EmptySet DEF FactsTimely
<1>9. TogglesTimely /\ Sound(queued)
  BY <1>3 DEF TogglesTimely, Sound
<1>10. Behind(watermark) /\ Safe(watermark, queued \cup capped)
  BY <1>2, <1>3, <1>4 DEF Safe, Owed
<1>. QED BY <1>3, <1>6, <1>7, <1>8, <1>9, <1>10 DEF IInv

(* Every step keeps it. *)
LEMMA NextInv == IInv /\ [Next]_vars => IInv'
<1> SUFFICES ASSUME IInv, [Next]_vars PROVE IInv'
  OBVIOUS
<1>1. CASE Tick
  BY <1>1, TickInv
<1>2. CASE ToggleStamps
  BY <1>2, ToggleStampsInv
<1>3. CASE ToggleCommits
  BY <1>3, ToggleCommitsInv
<1>4. CASE \E e \in Events :
             EventCommits(e) \/ Ends(e) \/ \E at \in 0..now : EventStamps(e, at)
  BY <1>4, EventCommitsInv, EndsInv, EventStampsInv
<1>5. ASSUME NEW d \in Dispatchers,
             PassStep(d) \/ CommitAnswerLost(d) \/ Fails(d) \/ Dies(d)
      PROVE  IInv'
  BY <1>5, PassBeginsInv, ReadsEndpointsInv, ReadsPageInv, CommitsPageInv, ParksInv,
     CommitAnswerLostInv, FailsInv, DiesInv DEF PassStep
<1>6. CASE UNCHANGED vars
  <2>1. UNCHANGED <<now, event, intervals, toggle, toggles, others, watermark, disp, queued,
                    open, capped>>
    BY <1>6 DEF vars
  <2>. QED BY <2>1 DEF IInv, TypeOK, FactsTimely, TogglesTimely, Sound, Behind, Safe, PassSound,
       Judges, Paged, Quiet, Owed, Visible, Position
<1>. QED BY <1>1, <1>2, <1>3, <1>4, <1>5, <1>6 DEF Next

(* The inductive invariant holds throughout. *)
THEOREM Invariance == Spec => []IInv
BY InitInv, NextInv, PTL DEF Spec

(* Times, positions and passes keep their types. *)
THEOREM TypeCorrect == Spec => []TypeOK
<1>1. IInv => TypeOK
  BY DEF IInv
<1>. QED BY <1>1, Invariance, PTL

(* No owed event is skipped, by the watermark a restart resumes from or by a *)
(* cursor a replica has cached: the lag outlasts every transaction, the      *)
(* window is fixed before the endpoints are read, and the watermark moves    *)
(* only together with what it passes (worker.go:301, feedtail.go:42).        *)
THEOREM NoEventSkipped == Spec => []NoEventLost
<1>1. ASSUME IInv PROVE NoEventLost
  <2>1. Safe(watermark, queued \cup capped)
    BY <1>1 DEF IInv
  <2>2. \A d \in Dispatchers : disp[d].loaded => Safe(disp[d].cur, queued \cup capped)
    BY <1>1 DEF IInv, PassSound
  <2>. QED BY <2>1, <2>2 DEF NoEventLost, Safe, Handled
<1>. QED BY <1>1, Invariance, PTL

(* Nothing is queued for an endpoint that was disabled, or absent, when it   *)
(* happened: what a pass has read stays true of its window (worker.go:301).  *)
THEOREM QueuedWasEligible == Spec => []OnlyEligibleQueued
<1>1. IInv => OnlyEligibleQueued
  BY DEF IInv, Sound, OnlyEligibleQueued
<1>. QED BY <1>1, Invariance, PTL
=============================================================================
