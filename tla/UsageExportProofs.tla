-------------------------- MODULE UsageExportProofs --------------------------
(***************************************************************************)
(* Proofs of UsageExport's invariants for any number of emitters and of    *)
(* settles, any horizons and any amount of usage.                          *)
(***************************************************************************)
EXTENDS UsageExport, TLAPS

-----------------------------------------------------------------------------
(* The inductive invariant, in named parts. *)

RowType == [state : {"absent", "pending", "emitted", "rejected", "ambiguous"},
            quantity : Nat, attempted : Nat]

ProviderType ==
  [at : Nat, times : Nat, quantity : Nat, settled : BOOLEAN, blind : BOOLEAN]

PassType ==
  [at : {"idle", "select", "mark", "send", "record", "done"},
   kind : {"none", "full", "fast", "settle"}, quantity : Nat,
   answer : {"none", "accepted", "rejected"}, owed : BOOLEAN]

Typed ==
  /\ hour \in Nat \ {0}
  /\ meter \in {"fast", "metered"}
  /\ row \in RowType
  /\ issue \in [kind : {"none", "permanent_reject", "stamp_ambiguity"},
                resolution : {"none", "open", "acknowledge", "retry", "mark_repaired"}]
  /\ provider \in ProviderType
  /\ passes \in [Passers -> PassType]
  /\ recording \in BOOLEAN
  /\ running \in Nat

\* What a pass holds fits how far it is.
Orderly ==
  \A p \in Passers :
    /\ passes[p].at = "idle" => passes[p] = NoPass
    /\ passes[p].kind = "settle" <=> p \in Settlers /\ passes[p].at # "idle"
    /\ passes[p].kind = "none" => passes[p].at = "idle"
    /\ passes[p].answer # "none" <=> passes[p].at = "record"
    /\ passes[p].at \in {"mark", "send", "record"} => row.state # "absent"
    /\ passes[p].at \in {"send", "record"} => row.attempted # 0

\* Time stamps lie in the past, and an absent row was never sent.
Stamped ==
  /\ row.attempted <= hour /\ provider.at <= hour
  /\ provider.times > 0 => provider.at > 0 /\ row.state # "absent"
  /\ provider.at > 0 => provider.times > 0
  /\ row.state = "absent" => row.attempted = 0

\* An attempt a full pass works on is one the provider remembers: it was not
\* quarantined, and no hour passes before the pass ends.
Fresh ==
  \A p \in Passers :
    passes[p].kind = "full" /\ (row.state = "pending" \/ passes[p].at = "send") =>
      ~Older(row.attempted, DedupHours)

\* A row is counted once, at its first attempt or later; what the provider
\* refuses it has not counted.
Once ==
  ~provider.blind =>
    /\ provider.times <= 1
    /\ provider.times = 1 => 0 < row.attempted /\ row.attempted <= provider.at
    /\ Refuses => provider.times = 0

\* No usage can be added to the row any more.
Final == IF meter = "fast" THEN hour > 1 /\ ~recording ELSE 1 + SealHours <= hour

\* A running sandbox is observed before its hours are final.
Observed ==
  /\ recording => meter = "fast"
  /\ running # 0 => meter = "metered" /\ running <= hour /\ hour < running + SealHours

\* An emitter's pass reads a final quantity, and that is what is counted.
Whole ==
  /\ \A p \in Passers :
       passes[p].kind \in {"full", "fast"} /\ passes[p].at \in {"mark", "send", "record"} =>
         Final /\ passes[p].quantity = row.quantity
  /\ provider.times > 0 /\ ~provider.settled => Final /\ provider.quantity = row.quantity
  /\ \A p \in Passers : passes[p].answer = "accepted" => provider.times > 0
  /\ row.state = "emitted" => provider.times > 0 \/ issue.resolution = "mark_repaired"

\* What a settle owes was due when it began, and would still be read.
Owes ==
  \A p \in Passers :
    passes[p].owed => /\ passes[p].kind = "settle"
                      /\ Seals("settle")
                      /\ row.state # "absent"

IInv == /\ Typed /\ Orderly /\ Stamped /\ Fresh /\ Once /\ Observed /\ Whole /\ Owes
        /\ HeldByItsIssue /\ SettleLeavesNothing
-----------------------------------------------------------------------------
(* What the operators on a row, an event and a pass do. *)

(* No pass is a pass by type.                                              *)
LEMMA NoPassTyped == NoPass \in PassType
BY DEF NoPass, PassType

(* Usage is added to the quantity; a row that was absent is pending. *)
LEMMA AddedRow ==
  ASSUME row \in RowType
  PROVE  /\ Added \in RowType
         /\ Added.quantity = row.quantity + 1
         /\ Added.attempted = row.attempted
         /\ row.state = "absent" => Added.state = "pending"
         /\ row.state # "absent" => Added.state = row.state
<1> DEFINE state == IF row.state = "absent" THEN "pending" ELSE row.state
           stated == [row EXCEPT !.state = state]
<1>1. stated \in RowType /\ stated.state = state
      /\ stated.quantity = row.quantity /\ stated.attempted = row.attempted
  BY DEF RowType
<1>2. Added = [stated EXCEPT !.quantity = row.quantity + 1]
  BY DEF Added
<1> HIDE DEF stated
<1>. QED BY <1>1, <1>2 DEF RowType

(* The first attempt is stamped, and stays. *)
LEMMA AttemptedRow ==
  ASSUME row \in RowType, hour \in Nat \ {0}
  PROVE  /\ Attempted \in RowType
         /\ Attempted.state = row.state
         /\ Attempted.quantity = row.quantity
         /\ Attempted.attempted # 0
         /\ Attempted.attempted = row.attempted
            \/ (row.attempted = 0 /\ Attempted.attempted = hour)
<1>1. CASE row.attempted = 0
  BY <1>1 DEF Attempted, RowType
<1>2. CASE row.attempted # 0
  BY <1>2 DEF Attempted, RowType
<1>. QED BY <1>1, <1>2

(* An event is counted when it is new to the provider and taken. *)
LEMMA SentEvent ==
  ASSUME provider \in ProviderType, row \in RowType, hour \in Nat \ {0},
         NEW pass \in PassType, NEW counted \in BOOLEAN, NEW new, new = Sent(pass, counted)
  PROVE  /\ new \in ProviderType
         /\ new.blind <=> provider.blind \/ (pass.kind # "full" /\ Older(row.attempted, DedupHours))
         /\ ~counted \/ Remembers =>
              /\ new.at = provider.at
              /\ new.times = provider.times
              /\ new.quantity = provider.quantity
              /\ new.settled = provider.settled
         /\ counted /\ ~Remembers =>
              /\ new.at = hour
              /\ new.times = provider.times + 1
              /\ new.quantity = pass.quantity
              /\ new.settled <=> provider.settled \/ pass.kind = "settle"
<1> DEFINE old == pass.kind # "full" /\ Older(row.attempted, DedupHours)
           heard == [provider EXCEPT !.blind = @ \/ old]
<1>1. old \in BOOLEAN
  BY DEF Older
<1>2. heard \in ProviderType /\ (heard.blind <=> provider.blind \/ old)
      /\ heard.at = provider.at /\ heard.times = provider.times
      /\ heard.quantity = provider.quantity /\ heard.settled = provider.settled
  BY <1>1 DEF ProviderType
<1> DEFINE at == [heard EXCEPT !.at = hour]
           times == [at EXCEPT !.times = heard.times + 1]
           quantity == [times EXCEPT !.quantity = pass.quantity]
           settled == [quantity EXCEPT !.settled = heard.settled \/ pass.kind = "settle"]
<1>3. Sent(pass, counted) = IF ~counted \/ Remembers THEN heard ELSE settled
  BY DEF Sent
<1> HIDE DEF heard
<1>4. CASE ~counted \/ Remembers
  BY <1>2, <1>3, <1>4 DEF ProviderType
<1>5. CASE counted /\ ~Remembers
  <2>1. at \in ProviderType /\ at.at = hour /\ at.times = heard.times
        /\ at.blind = heard.blind
    BY <1>2 DEF ProviderType
  <2> HIDE DEF at
  <2>2. times \in ProviderType /\ times.at = hour /\ times.times = heard.times + 1
        /\ times.blind = heard.blind
    BY <1>2, <2>1 DEF ProviderType
  <2> HIDE DEF times
  <2>3. quantity \in ProviderType /\ quantity.at = hour /\ quantity.times = heard.times + 1
        /\ quantity.quantity = pass.quantity /\ quantity.blind = heard.blind
    BY <1>2, <2>2 DEF ProviderType, PassType
  <2> HIDE DEF quantity
  <2>4. settled \in ProviderType /\ settled.at = hour /\ settled.times = heard.times + 1
        /\ settled.quantity = pass.quantity /\ settled.blind = heard.blind
        /\ (settled.settled <=> heard.settled \/ pass.kind = "settle")
    BY <1>2, <2>3 DEF ProviderType
  <2>. QED BY <1>2, <1>3, <1>5, <2>4
<1>. QED BY <1>4, <1>5

\* Only pass p changes.
Alone(p) == /\ passes' \in [Passers -> PassType]
            /\ \A q \in Passers : q # p => passes'[q] = passes[q]

\* What is left of a pass that is over with its batch.
Over(p) ==
  \/ passes'[p] = NoPass
  \/ /\ passes'[p].at = "select" \/ (p \in Settlers /\ passes'[p].at = "done")
     /\ passes'[p].kind = passes[p].kind
     /\ passes'[p].owed = passes[p].owed
     /\ passes'[p].answer = "none"

(* A pass whose batch is dealt with ends, reads on, or, in a settle, is done. *)
LEMMA PassOver ==
  ASSUME passes \in [Passers -> PassType], Orderly, NEW p \in Passers,
         passes[p].at # "idle", ReadsOn(p) \/ Finishes(p) \/ Ends(p)
  PROVE  Alone(p) /\ Over(p)
<1> USE DEF Alone, Over
<1>1. CASE ReadsOn(p)
  BY <1>1 DEF ReadsOn, Goes, PassType
<1>2. CASE Ends(p)
  BY <1>2, NoPassTyped DEF Ends, Goes
<1>3. CASE p \in Settlers /\ Finishes(p)
  <2> DEFINE new == [NoPass EXCEPT !.at = "done", !.kind = "settle", !.owed = passes[p].owed]
  <2>1. passes' = [passes EXCEPT ![p] = new]
    BY <1>3 DEF Finishes, Goes
  <2>2. new \in PassType /\ new.at = "done" /\ new.kind = "settle"
        /\ new.owed = passes[p].owed /\ new.answer = "none"
    BY DEF NoPass, PassType
  <2>3. passes[p].kind = "settle"
    BY <1>3 DEF Orderly
  <2>. QED BY <1>3, <2>1, <2>2, <2>3
<1>4. CASE p \notin Settlers /\ Finishes(p)
  BY <1>2, <1>4 DEF Finishes
<1>. QED BY <1>1, <1>2, <1>3, <1>4

\* A pass has read a batch.
Selected(p) ==
  /\ Alone(p)
  /\ \/ /\ Due(passes[p].kind)
        /\ passes'[p].at = "mark"
        /\ passes'[p].kind = passes[p].kind
        /\ passes'[p].quantity = row.quantity
        /\ passes'[p].answer = passes[p].answer
        /\ passes'[p].owed = passes[p].owed
     \/ ~Due(passes[p].kind) /\ Over(p)

(* A pass reads the row with the quantity it has if the row is due. *)
LEMMA SelectsPass ==
  ASSUME Typed, Orderly, NEW p \in Passers, Selects(p)
  PROVE  Selected(p)
<1> USE DEF Selected
<1>1. CASE Due(passes[p].kind)
  <2> DEFINE marking == [passes[p] EXCEPT !.at = "mark"]
             new == [marking EXCEPT !.quantity = row.quantity]
  <2>1. passes' = [passes EXCEPT ![p] = new]
    BY <1>1 DEF Selects, Goes
  <2>2. marking \in PassType /\ marking.at = "mark" /\ marking.kind = passes[p].kind
        /\ marking.answer = passes[p].answer /\ marking.owed = passes[p].owed
    BY DEF Typed, PassType
  <2> HIDE DEF marking
  <2>3. new \in PassType /\ new.at = "mark" /\ new.kind = passes[p].kind
        /\ new.quantity = row.quantity /\ new.answer = passes[p].answer
        /\ new.owed = passes[p].owed
    BY <2>2 DEF Typed, PassType, RowType
  <2> HIDE DEF new
  <2>. QED BY <1>1, <2>1, <2>3 DEF Alone, Typed
<1>2. CASE ~Due(passes[p].kind)
  BY <1>2, PassOver DEF Selects, Typed
<1>. QED BY <1>1, <1>2

\* A pass has stamped its batch.
Marked(p) ==
  /\ Alone(p)
  /\ row' = row \/ (row.state = "pending" /\ row' = Attempted)
  /\ \/ /\ row.state = "pending" /\ row' = Attempted
        /\ passes'[p].at = "send"
        /\ passes'[p].kind = passes[p].kind
        /\ passes'[p].quantity = passes[p].quantity
        /\ passes'[p].answer = passes[p].answer
        /\ passes'[p].owed = passes[p].owed
     \/ passes'[p] = NoPass

(* A pass that has stamped the row sends it, or ends. *)
LEMMA MarksPass ==
  ASSUME Typed, Orderly, NEW p \in Passers, Marks(p)
  PROVE  Marked(p)
<1> USE DEF Marked
<1> DEFINE new == [passes[p] EXCEPT !.at = "send"]
<1>1. new \in PassType /\ new.at = "send" /\ new.kind = passes[p].kind
      /\ new.quantity = passes[p].quantity /\ new.answer = passes[p].answer
      /\ new.owed = passes[p].owed
  BY DEF Typed, PassType
<1>2. \/ row.state = "pending" /\ row' = Attempted /\ passes' = [passes EXCEPT ![p] = new]
      \/ (row' = row \/ (row.state = "pending" /\ row' = Attempted))
         /\ passes' = [passes EXCEPT ![p] = NoPass]
  BY DEF Marks, Goes, Ends
<1> HIDE DEF new
<1>. QED BY <1>1, <1>2, NoPassTyped DEF Alone, Typed

(* A pass that has an answer records it. *)
LEMMA AnsweredPass ==
  ASSUME Typed, NEW p \in Passers, NEW answer \in {"accepted", "rejected"},
         Goes(p, [passes[p] EXCEPT !.at = "record", !.answer = answer])
  PROVE  /\ Alone(p)
         /\ passes'[p].at = "record"
         /\ passes'[p].kind = passes[p].kind
         /\ passes'[p].quantity = passes[p].quantity
         /\ passes'[p].answer = answer
         /\ passes'[p].owed = passes[p].owed
<1> DEFINE answered == [passes[p] EXCEPT !.at = "record"]
           new == [answered EXCEPT !.answer = answer]
<1>1. passes' = [passes EXCEPT ![p] = new]
  BY DEF Goes
<1>2. answered \in PassType /\ answered.at = "record" /\ answered.kind = passes[p].kind
      /\ answered.quantity = passes[p].quantity /\ answered.owed = passes[p].owed
  BY DEF Typed, PassType
<1> HIDE DEF answered
<1>3. new \in PassType /\ new.at = "record" /\ new.kind = passes[p].kind
      /\ new.quantity = passes[p].quantity /\ new.owed = passes[p].owed
      /\ new.answer = answer
  BY <1>2 DEF PassType
<1> HIDE DEF new
<1>. QED BY <1>1, <1>3 DEF Alone, Typed

\* A pass has begun.
Begun(p, kind) ==
  /\ Alone(p)
  /\ passes[p].at = "idle"
  /\ kind = "settle" <=> p \in Settlers
  /\ passes'[p].at = "select"
  /\ passes'[p].kind = kind
  /\ passes'[p].answer = "none"
  /\ passes'[p].owed => kind = "settle" /\ Due(kind)
  /\ \/ row' = row /\ issue' = issue /\ ~(kind = "full" /\ Quarantinable)
     \/ /\ row.state = "pending"
        /\ row' \in RowType
        /\ row'.state = "ambiguous"
        /\ row'.quantity = row.quantity
        /\ row'.attempted = row.attempted
        /\ issue' = [kind |-> "stamp_ambiguity", resolution |-> "open"]

(* A pass begins by quarantining, if it is a full one, and by reading. *)
LEMMA BeginsPass ==
  ASSUME Typed, NEW p \in Passers, NEW kind \in {"full", "fast", "settle"}, Begins(p, kind)
  PROVE  Begun(p, kind)
<1> USE DEF Begun
<1>1. Started(kind).owed \in BOOLEAN /\ Started(kind) \in PassType
      /\ Started(kind).at = "select" /\ Started(kind).kind = kind
      /\ Started(kind).answer = "none"
      /\ (Started(kind).owed => kind = "settle" /\ Due(kind))
  BY DEF Started, NoPass, PassType
<1>2. passes' = [passes EXCEPT ![p] = Started(kind)]
  BY DEF Begins, Goes
<1>3. kind = "settle" <=> p \in Settlers
  BY DEF Begins, Kinds
<1>4. \/ row' = row /\ issue' = issue /\ ~(kind = "full" /\ Quarantinable)
      \/ row.state = "pending" /\ row' = [row EXCEPT !.state = "ambiguous"]
         /\ issue' = [kind |-> "stamp_ambiguity", resolution |-> "open"]
  BY DEF Begins, Quarantinable, Reported
<1>5. passes[p].at = "idle"
  BY DEF Begins
<1>6. [row EXCEPT !.state = "ambiguous"] \in RowType
      /\ [row EXCEPT !.state = "ambiguous"].state = "ambiguous"
      /\ [row EXCEPT !.state = "ambiguous"].quantity = row.quantity
      /\ [row EXCEPT !.state = "ambiguous"].attempted = row.attempted
  BY DEF Typed, RowType
<1>7. Alone(p) /\ passes'[p] = Started(kind)
  BY <1>1, <1>2 DEF Alone, Typed
<1>. QED BY <1>1, <1>3, <1>4, <1>5, <1>6, <1>7

\* What the provider makes of an event it hears.
Heard(p, counted) ==
  /\ provider' \in ProviderType
  /\ provider'.blind <=> provider.blind \/ (passes[p].kind # "full" /\ Older(row.attempted, DedupHours))
  /\ ~counted \/ Remembers =>
       /\ provider'.at = provider.at
       /\ provider'.times = provider.times
       /\ provider'.quantity = provider.quantity
       /\ provider'.settled = provider.settled
  /\ counted /\ ~Remembers =>
       /\ provider'.at = hour
       /\ provider'.times = provider.times + 1
       /\ provider'.quantity = passes[p].quantity
       /\ provider'.settled <=> provider.settled \/ passes[p].kind = "settle"

(* An event that reaches the provider is heard. *)
LEMMA HearsEvent ==
  ASSUME Typed, NEW p \in Passers, NEW counted \in BOOLEAN, provider' = Sent(passes[p], counted)
  PROVE  Heard(p, counted)
<1>1. passes[p] \in PassType
  BY DEF Typed
<1>. QED BY <1>1, SentEvent DEF Heard, Typed

\* A pass has its answer.
Answered(p, answer) ==
  /\ Alone(p)
  /\ passes'[p].at = "record"
  /\ passes'[p].kind = passes[p].kind
  /\ passes'[p].quantity = passes[p].quantity
  /\ passes'[p].answer = answer
  /\ passes'[p].owed = passes[p].owed

(* The provider takes the event. *)
LEMMA AcceptsPass ==
  ASSUME Typed, NEW p \in Passers, Accepts(p)
  PROVE  Heard(p, TRUE) /\ Answered(p, "accepted")
<1>1. passes[p] \in PassType /\ provider' = Sent(passes[p], TRUE)
  BY DEF Accepts, Typed
<1>2. Heard(p, TRUE)
  BY <1>1, HearsEvent
<1>3. Answered(p, "accepted")
  BY AnsweredPass DEF Accepts, Answered
<1>. QED BY <1>2, <1>3

(* The provider rejects the event. *)
LEMMA RejectsPass ==
  ASSUME Typed, NEW p \in Passers, Rejects(p)
  PROVE  Heard(p, FALSE) /\ Answered(p, "rejected")
<1>1. passes[p] \in PassType /\ provider' = Sent(passes[p], FALSE)
  BY DEF Rejects, Typed
<1>2. Heard(p, FALSE)
  BY <1>1, HearsEvent
<1>3. Answered(p, "rejected")
  BY AnsweredPass DEF Rejects, Answered
<1>. QED BY <1>2, <1>3

(* The answer is lost and the pass ends. *)
LEMMA LosesAnswerPass ==
  ASSUME Typed, NEW p \in Passers, NEW counted \in BOOLEAN, LosesAnswer(p, counted)
  PROVE  Heard(p, counted) /\ Alone(p) /\ passes'[p] = NoPass
<1>1. passes[p] \in PassType /\ provider' = Sent(passes[p], counted)
  BY DEF LosesAnswer, Typed
<1>2. Heard(p, counted)
  BY <1>1, HearsEvent
<1>. QED BY <1>2, NoPassTyped DEF LosesAnswer, Ends, Goes, Alone, Typed

\* A pass has recorded its answers.
Recorded(p) ==
  /\ Alone(p) /\ Over(p)
  /\ passes[p].answer \in {"accepted", "rejected"}
  /\ row' \in RowType /\ row'.quantity = row.quantity /\ row'.attempted = row.attempted
  /\ row.state # "pending" => row' = row
  /\ row.state = "pending" =>
       row'.state = IF passes[p].answer = "accepted" THEN "emitted" ELSE "rejected"
  /\ issue' = IF row.state = "pending" /\ passes[p].answer = "rejected"
              THEN [kind |-> "permanent_reject", resolution |-> "open"] ELSE issue

(* A pending row takes the recorded result; one that has moved on stays. *)
LEMMA RecordsPass ==
  ASSUME Typed, Orderly, NEW p \in Passers, Records(p)
  PROVE  Recorded(p)
<1> USE DEF Recorded
<1>1. Alone(p) /\ Over(p)
  BY PassOver DEF Records, Typed
<1>2. passes[p].answer \in {"accepted", "rejected"}
  BY DEF Records, Orderly, Typed, PassType
<1>3. CASE passes[p].answer = "accepted"
  BY <1>1, <1>2, <1>3 DEF Records, RecordsAccept, Typed, RowType
<1>4. CASE passes[p].answer = "rejected"
  BY <1>1, <1>2, <1>4 DEF Records, RecordsReject, Reported, Typed, RowType
<1>. QED BY <1>2, <1>3, <1>4

(* Passes that end leave nothing. *)
LEMMA EndsPass ==
  ASSUME Typed, NEW p \in Passers, Ends(p)
  PROVE  Alone(p) /\ passes'[p] = NoPass
BY NoPassTyped DEF Ends, Goes, Alone, Typed

(* Every action keeps the types. *)
LEMMA TypedStep ==
  ASSUME Typed, Orderly,
         [Next]_vars
  PROVE  Typed'
<1>0. CASE UNCHANGED vars
  BY <1>0 DEF vars, Typed, RowType, ProviderType, PassType
<1>1. CASE ReportArrives
  BY <1>1 DEF ReportArrives, Typed, RowType, ProviderType, PassType
<1>2. CASE ReportRecorded
  BY AddedRow, <1>2 DEF ReportRecorded, Grows, Typed, RowType, ProviderType, PassType
<1>3. CASE SandboxStarts
  BY <1>3 DEF SandboxStarts, Typed, RowType, ProviderType, PassType
<1>4. CASE SandboxObserved
  BY AddedRow, <1>4 DEF SandboxObserved, Typed, RowType, ProviderType, PassType
<1>5. CASE Acknowledge
  BY <1>5 DEF Acknowledge, Typed, RowType, ProviderType, PassType
<1>6. CASE Retry
  BY <1>6 DEF Retry, Typed, RowType, ProviderType, PassType
<1>7. CASE MarkRepaired
  BY <1>7 DEF MarkRepaired, Typed, RowType, ProviderType, PassType
<1>8. CASE HourPasses
  BY <1>8 DEF HourPasses, Typed, RowType, ProviderType, PassType
<1>9. ASSUME NEW p \in Passers, NEW kind \in {"full", "fast", "settle"}, Begins(p, kind)
      PROVE  Typed'
  <2>1. Begun(p, kind)
    BY <1>9, BeginsPass
  <2>. QED BY <1>9, <2>1 DEF Begins, Begun, Alone, Typed, RowType, ProviderType, PassType
<1>10. ASSUME NEW p \in Passers, Selects(p)
      PROVE  Typed'
  <2>1. Selected(p)
    BY <1>10, SelectsPass
  <2>. QED BY <1>10, <2>1 DEF Selects, Selected, Alone, Over, NoPass, Typed, RowType, ProviderType, PassType
<1>11. ASSUME NEW p \in Passers, Marks(p)
      PROVE  Typed'
  <2>1. Marked(p)
    BY <1>11, MarksPass
  <2>2. row' \in RowType /\ row'.state = row.state /\ row'.quantity = row.quantity
        /\ (row'.attempted = row.attempted \/ (row.attempted = 0 /\ row'.attempted = hour))
        /\ (passes'[p].at = "send" => row'.attempted # 0)
    BY <2>1, AttemptedRow DEF Typed, Marked, NoPass
  <2>. QED BY <1>11, <2>1, <2>2 DEF Marks, Marked, Alone, NoPass, Typed, RowType, ProviderType, PassType
<1>12. ASSUME NEW p \in Passers, Accepts(p)
      PROVE  Typed'
  <2>1. Heard(p, TRUE) /\ Answered(p, "accepted")
    BY <1>12, AcceptsPass
  <2>. QED BY <1>12, <2>1 DEF Accepts, Heard, Answered, Alone, Typed, RowType, ProviderType, PassType
<1>13. ASSUME NEW p \in Passers, Rejects(p)
      PROVE  Typed'
  <2>1. Heard(p, FALSE) /\ Answered(p, "rejected")
    BY <1>13, RejectsPass
  <2>. QED BY <1>13, <2>1 DEF Rejects, Heard, Answered, Alone, Typed, RowType, ProviderType, PassType
<1>14. ASSUME NEW p \in Passers, Records(p)
      PROVE  Typed'
  <2>1. Recorded(p)
    BY <1>14, RecordsPass
  <2>. QED BY <1>14, <2>1 DEF Records, Recorded, Alone, Over, NoPass, Typed, RowType, ProviderType, PassType
<1>15. ASSUME NEW p \in Passers, Returns(p)
      PROVE  Typed'
  <2>1. Alone(p) /\ passes'[p] = NoPass
    BY <1>15, EndsPass DEF Returns
  <2>. QED BY <1>15, <2>1 DEF Returns, Alone, NoPass, Typed, RowType, ProviderType, PassType
<1>16. ASSUME NEW p \in Passers, PassDies(p)
      PROVE  Typed'
  <2>1. Alone(p) /\ passes'[p] = NoPass
    BY <1>16, EndsPass DEF PassDies
  <2>. QED BY <1>16, <2>1 DEF PassDies, Alone, NoPass, Typed, RowType, ProviderType, PassType
<1>17. ASSUME NEW p \in Passers, NEW counted \in BOOLEAN, LosesAnswer(p, counted)
      PROVE  Typed'
  <2>1. Heard(p, counted) /\ Alone(p) /\ passes'[p] = NoPass
    BY <1>17, LosesAnswerPass
  <2>. QED BY <1>17, <2>1 DEF LosesAnswer, Heard, Alone, NoPass, Typed, RowType, ProviderType, PassType
<1>. QED BY <1>0, <1>1, <1>2, <1>3, <1>4, <1>5, <1>6, <1>7, <1>8, <1>9, <1>10, <1>11, <1>12, <1>13, <1>14, <1>15, <1>16, <1>17 DEF Next

(* Every action leaves what a pass holds fitting how far it is. *)
LEMMA OrderlyStep ==
  ASSUME Typed, Orderly, Typed',
         [Next]_vars
  PROVE  Orderly'
<1>0. CASE UNCHANGED vars
  BY <1>0 DEF vars, Typed, Orderly, Passers, RowType, ProviderType, PassType
<1>1. CASE ReportArrives
  BY <1>1 DEF ReportArrives, Typed, Orderly, Passers, RowType, ProviderType, PassType
<1>2. CASE ReportRecorded
  BY AddedRow, <1>2 DEF ReportRecorded, Grows, Typed, Orderly, Passers, RowType, ProviderType, PassType
<1>3. CASE SandboxStarts
  BY <1>3 DEF SandboxStarts, Typed, Orderly, Passers, RowType, ProviderType, PassType
<1>4. CASE SandboxObserved
  BY AddedRow, <1>4 DEF SandboxObserved, Typed, Orderly, Passers, RowType, ProviderType, PassType
<1>5. CASE Acknowledge
  BY <1>5 DEF Acknowledge, Typed, Orderly, Passers, RowType, ProviderType, PassType
<1>6. CASE Retry
  BY <1>6 DEF Retry, Typed, Orderly, Passers, RowType, ProviderType, PassType
<1>7. CASE MarkRepaired
  BY <1>7 DEF MarkRepaired, Typed, Orderly, Passers, RowType, ProviderType, PassType
<1>8. CASE HourPasses
  BY <1>8 DEF HourPasses, Typed, Orderly, Passers, RowType, ProviderType, PassType
<1>9. ASSUME NEW p \in Passers, NEW kind \in {"full", "fast", "settle"}, Begins(p, kind)
      PROVE  Orderly'
  <2>1. Begun(p, kind)
    BY <1>9, BeginsPass
  <2>. QED BY <1>9, <2>1 DEF Begins, Begun, Alone, Typed, Orderly, Passers, RowType, ProviderType, PassType
<1>10. ASSUME NEW p \in Passers, Selects(p)
      PROVE  Orderly'
  <2>1. Selected(p)
    BY <1>10, SelectsPass
  <2>2. CASE Due(passes[p].kind)
    <3>1. row.state = "pending"
      BY <2>2 DEF Due
    <3>. QED BY <1>10, <2>1, <2>2, <3>1 DEF Selects, Selected, Alone, Typed, Orderly, Passers, RowType, PassType
  <2>3. CASE ~Due(passes[p].kind)
    BY <1>10, <2>1, <2>3 DEF Selects, Selected, Alone, Over, NoPass, Typed, Orderly, Passers, RowType, PassType
  <2>. QED BY <2>2, <2>3
<1>11. ASSUME NEW p \in Passers, Marks(p)
      PROVE  Orderly'
  <2>1. Marked(p)
    BY <1>11, MarksPass
  <2>2. row' \in RowType /\ row'.state = row.state /\ row'.quantity = row.quantity
        /\ (row'.attempted = row.attempted \/ (row.attempted = 0 /\ row'.attempted = hour))
        /\ (passes'[p].at = "send" => row'.attempted # 0)
    BY <2>1, AttemptedRow DEF Typed, Marked, NoPass
  <2>. QED BY <1>11, <2>1, <2>2 DEF Marks, Marked, Alone, NoPass, Typed, Orderly, Passers, RowType, ProviderType, PassType
<1>12. ASSUME NEW p \in Passers, Accepts(p)
      PROVE  Orderly'
  <2>1. Heard(p, TRUE) /\ Answered(p, "accepted")
    BY <1>12, AcceptsPass
  <2>. QED BY <1>12, <2>1 DEF Accepts, Heard, Answered, Alone, Typed, Orderly, Passers, RowType, ProviderType, PassType
<1>13. ASSUME NEW p \in Passers, Rejects(p)
      PROVE  Orderly'
  <2>1. Heard(p, FALSE) /\ Answered(p, "rejected")
    BY <1>13, RejectsPass
  <2>. QED BY <1>13, <2>1 DEF Rejects, Heard, Answered, Alone, Typed, Orderly, Passers, RowType, ProviderType, PassType
<1>14. ASSUME NEW p \in Passers, Records(p)
      PROVE  Orderly'
  <2>1. Recorded(p)
    BY <1>14, RecordsPass
  <2>. QED BY <1>14, <2>1 DEF Records, Recorded, Alone, Over, NoPass, Typed, Orderly, Passers, RowType, ProviderType, PassType
<1>15. ASSUME NEW p \in Passers, Returns(p)
      PROVE  Orderly'
  <2>1. Alone(p) /\ passes'[p] = NoPass
    BY <1>15, EndsPass DEF Returns
  <2>. QED BY <1>15, <2>1 DEF Returns, Alone, NoPass, Typed, Orderly, Passers, RowType, ProviderType, PassType
<1>16. ASSUME NEW p \in Passers, PassDies(p)
      PROVE  Orderly'
  <2>1. Alone(p) /\ passes'[p] = NoPass
    BY <1>16, EndsPass DEF PassDies
  <2>. QED BY <1>16, <2>1 DEF PassDies, Alone, NoPass, Typed, Orderly, Passers, RowType, ProviderType, PassType
<1>17. ASSUME NEW p \in Passers, NEW counted \in BOOLEAN, LosesAnswer(p, counted)
      PROVE  Orderly'
  <2>1. Heard(p, counted) /\ Alone(p) /\ passes'[p] = NoPass
    BY <1>17, LosesAnswerPass
  <2>. QED BY <1>17, <2>1 DEF LosesAnswer, Heard, Alone, NoPass, Typed, Orderly, Passers, RowType, ProviderType, PassType
<1>. QED BY <1>0, <1>1, <1>2, <1>3, <1>4, <1>5, <1>6, <1>7, <1>8, <1>9, <1>10, <1>11, <1>12, <1>13, <1>14, <1>15, <1>16, <1>17 DEF Next

(* Every action stamps with the open hour, and only a row that is there. *)
LEMMA StampedStep ==
  ASSUME Typed, Orderly, Stamped, Typed',
         [Next]_vars
  PROVE  Stamped'
<1>0. CASE UNCHANGED vars
  BY <1>0 DEF vars, Typed, Orderly, Stamped, RowType, ProviderType, PassType
<1>1. CASE ReportArrives
  BY <1>1 DEF ReportArrives, Typed, Orderly, Stamped, RowType, ProviderType, PassType
<1>2. CASE ReportRecorded
  BY AddedRow, <1>2 DEF ReportRecorded, Grows, Typed, Orderly, Stamped, RowType, ProviderType, PassType
<1>3. CASE SandboxStarts
  BY <1>3 DEF SandboxStarts, Typed, Orderly, Stamped, RowType, ProviderType, PassType
<1>4. CASE SandboxObserved
  BY AddedRow, <1>4 DEF SandboxObserved, Typed, Orderly, Stamped, RowType, ProviderType, PassType
<1>5. CASE Acknowledge
  BY <1>5 DEF Acknowledge, Typed, Orderly, Stamped, RowType, ProviderType, PassType
<1>6. CASE Retry
  BY <1>6 DEF Retry, Typed, Orderly, Stamped, RowType, ProviderType, PassType
<1>7. CASE MarkRepaired
  BY <1>7 DEF MarkRepaired, Typed, Orderly, Stamped, RowType, ProviderType, PassType
<1>8. CASE HourPasses
  BY <1>8 DEF HourPasses, Typed, Orderly, Stamped, RowType, ProviderType, PassType
<1>9. ASSUME NEW p \in Passers, NEW kind \in {"full", "fast", "settle"}, Begins(p, kind)
      PROVE  Stamped'
  <2>1. Begun(p, kind)
    BY <1>9, BeginsPass
  <2>. QED BY <1>9, <2>1 DEF Begins, Begun, Alone, Typed, Orderly, Stamped, RowType, ProviderType, PassType
<1>10. ASSUME NEW p \in Passers, Selects(p)
      PROVE  Stamped'
  <2>1. Selected(p)
    BY <1>10, SelectsPass
  <2>. QED BY <1>10, <2>1 DEF Selects, Selected, Alone, Over, NoPass, Typed, Orderly, Stamped, RowType, ProviderType, PassType
<1>11. ASSUME NEW p \in Passers, Marks(p)
      PROVE  Stamped'
  <2>1. Marked(p)
    BY <1>11, MarksPass
  <2>2. row' \in RowType /\ row'.state = row.state /\ row'.quantity = row.quantity
        /\ (row'.attempted = row.attempted \/ (row.attempted = 0 /\ row'.attempted = hour))
        /\ (passes'[p].at = "send" => row'.attempted # 0)
    BY <2>1, AttemptedRow DEF Typed, Marked, NoPass
  <2>. QED BY <1>11, <2>1, <2>2 DEF Marks, Marked, Alone, NoPass, Typed, Orderly, Stamped, RowType, ProviderType, PassType
<1>12. ASSUME NEW p \in Passers, Accepts(p)
      PROVE  Stamped'
  <2>1. Heard(p, TRUE)
    BY <1>12, AcceptsPass
  <2>2. row.state # "absent" /\ row' = row /\ hour' = hour
    BY <1>12 DEF Accepts, Orderly
  <2>3. CASE Remembers
    BY <2>1, <2>2, <2>3 DEF Heard, Typed, Stamped, RowType, ProviderType
  <2>4. CASE ~Remembers
    BY <2>1, <2>2, <2>4 DEF Heard, Typed, Stamped, RowType, ProviderType
  <2>. QED BY <2>3, <2>4
<1>13. ASSUME NEW p \in Passers, Rejects(p)
      PROVE  Stamped'
  <2>1. Heard(p, FALSE) /\ Answered(p, "rejected")
    BY <1>13, RejectsPass
  <2>. QED BY <1>13, <2>1 DEF Rejects, Heard, Answered, Alone, Typed, Orderly, Stamped, RowType, ProviderType, PassType
<1>14. ASSUME NEW p \in Passers, Records(p)
      PROVE  Stamped'
  <2>1. Recorded(p)
    BY <1>14, RecordsPass
  <2>. QED BY <1>14, <2>1 DEF Records, Recorded, Alone, Over, NoPass, Typed, Orderly, Stamped, RowType, ProviderType, PassType
<1>15. ASSUME NEW p \in Passers, Returns(p)
      PROVE  Stamped'
  <2>1. Alone(p) /\ passes'[p] = NoPass
    BY <1>15, EndsPass DEF Returns
  <2>. QED BY <1>15, <2>1 DEF Returns, Alone, NoPass, Typed, Orderly, Stamped, RowType, ProviderType, PassType
<1>16. ASSUME NEW p \in Passers, PassDies(p)
      PROVE  Stamped'
  <2>1. Alone(p) /\ passes'[p] = NoPass
    BY <1>16, EndsPass DEF PassDies
  <2>. QED BY <1>16, <2>1 DEF PassDies, Alone, NoPass, Typed, Orderly, Stamped, RowType, ProviderType, PassType
<1>17. ASSUME NEW p \in Passers, NEW counted \in BOOLEAN, LosesAnswer(p, counted)
      PROVE  Stamped'
  <2>1. Heard(p, counted) /\ Alone(p) /\ passes'[p] = NoPass
    BY <1>17, LosesAnswerPass
  <2>. QED BY <1>17, <2>1 DEF LosesAnswer, Heard, Alone, NoPass, Typed, Orderly, Stamped, RowType, ProviderType, PassType
<1>. QED BY <1>0, <1>1, <1>2, <1>3, <1>4, <1>5, <1>6, <1>7, <1>8, <1>9, <1>10, <1>11, <1>12, <1>13, <1>14, <1>15, <1>16, <1>17 DEF Next

(* A full pass begins without attempts the provider may have forgotten, and none
   ages while it runs. *)
LEMMA FreshStep ==
  ASSUME Typed, Orderly, Stamped, Fresh, Typed',
         [Next]_vars
  PROVE  Fresh'
<1>0. CASE UNCHANGED vars
  BY <1>0 DEF vars, Typed, Orderly, Stamped, Fresh, Older, NoPass, Quarantinable, RowType, ProviderType, PassType
<1>1. CASE ReportArrives
  BY <1>1 DEF ReportArrives, Typed, Orderly, Stamped, Fresh, Older, NoPass, Quarantinable, RowType, ProviderType, PassType
<1>2. CASE ReportRecorded
  BY AddedRow, <1>2 DEF ReportRecorded, Grows, Typed, Orderly, Stamped, Fresh, Older, NoPass, Quarantinable, RowType, ProviderType, PassType
<1>3. CASE SandboxStarts
  BY <1>3 DEF SandboxStarts, Typed, Orderly, Stamped, Fresh, Older, NoPass, Quarantinable, RowType, ProviderType, PassType
<1>4. CASE SandboxObserved
  BY AddedRow, <1>4 DEF SandboxObserved, Typed, Orderly, Stamped, Fresh, Older, NoPass, Quarantinable, RowType, ProviderType, PassType
<1>5. CASE Acknowledge
  BY <1>5 DEF Acknowledge, Typed, Orderly, Stamped, Fresh, Older, NoPass, Quarantinable, RowType, ProviderType, PassType
<1>6. CASE Retry
  BY <1>6 DEF Retry, Typed, Orderly, Stamped, Fresh, Older, NoPass, Quarantinable, RowType, ProviderType, PassType
<1>7. CASE MarkRepaired
  BY <1>7 DEF MarkRepaired, Typed, Orderly, Stamped, Fresh, Older, NoPass, Quarantinable, RowType, ProviderType, PassType
<1>8. CASE HourPasses
  BY <1>8 DEF HourPasses, Typed, Orderly, Stamped, Fresh, Older, NoPass, Quarantinable, RowType, ProviderType, PassType
<1>9. ASSUME NEW p \in Passers, NEW kind \in {"full", "fast", "settle"}, Begins(p, kind)
      PROVE  Fresh'
  <2>1. Begun(p, kind)
    BY <1>9, BeginsPass
  <2>. QED BY <1>9, <2>1 DEF Begins, Begun, Alone, Typed, Orderly, Stamped, Fresh, Older, NoPass, Quarantinable, RowType, ProviderType, PassType
<1>10. ASSUME NEW p \in Passers, Selects(p)
      PROVE  Fresh'
  <2>1. Selected(p)
    BY <1>10, SelectsPass
  <2>. QED BY <1>10, <2>1 DEF Selects, Selected, Alone, Over, NoPass, Typed, Orderly, Stamped, Fresh, Older, NoPass, Quarantinable, RowType, ProviderType, PassType
<1>11. ASSUME NEW p \in Passers, Marks(p)
      PROVE  Fresh'
  <2>1. Marked(p)
    BY <1>11, MarksPass
  <2>2. row' \in RowType /\ row'.state = row.state /\ row'.quantity = row.quantity
        /\ (row'.attempted = row.attempted \/ (row.attempted = 0 /\ row'.attempted = hour))
        /\ (passes'[p].at = "send" => row'.attempted # 0)
    BY <2>1, AttemptedRow DEF Typed, Marked, NoPass
  <2>. QED BY <1>11, <2>1, <2>2, UsageAssumption DEF Marks, Marked, Alone, NoPass, Typed, Orderly, Stamped, Fresh, Older, NoPass, Quarantinable, RowType, ProviderType, PassType
<1>12. ASSUME NEW p \in Passers, Accepts(p)
      PROVE  Fresh'
  <2>1. Heard(p, TRUE) /\ Answered(p, "accepted")
    BY <1>12, AcceptsPass
  <2>. QED BY <1>12, <2>1 DEF Accepts, Heard, Answered, Alone, Typed, Orderly, Stamped, Fresh, Older, NoPass, Quarantinable, RowType, ProviderType, PassType
<1>13. ASSUME NEW p \in Passers, Rejects(p)
      PROVE  Fresh'
  <2>1. Heard(p, FALSE) /\ Answered(p, "rejected")
    BY <1>13, RejectsPass
  <2>. QED BY <1>13, <2>1 DEF Rejects, Heard, Answered, Alone, Typed, Orderly, Stamped, Fresh, Older, NoPass, Quarantinable, RowType, ProviderType, PassType
<1>14. ASSUME NEW p \in Passers, Records(p)
      PROVE  Fresh'
  <2>1. Recorded(p)
    BY <1>14, RecordsPass
  <2>. QED BY <1>14, <2>1 DEF Records, Recorded, Alone, Over, NoPass, Typed, Orderly, Stamped, Fresh, Older, NoPass, Quarantinable, RowType, ProviderType, PassType
<1>15. ASSUME NEW p \in Passers, Returns(p)
      PROVE  Fresh'
  <2>1. Alone(p) /\ passes'[p] = NoPass
    BY <1>15, EndsPass DEF Returns
  <2>. QED BY <1>15, <2>1 DEF Returns, Alone, NoPass, Typed, Orderly, Stamped, Fresh, Older, NoPass, Quarantinable, RowType, ProviderType, PassType
<1>16. ASSUME NEW p \in Passers, PassDies(p)
      PROVE  Fresh'
  <2>1. Alone(p) /\ passes'[p] = NoPass
    BY <1>16, EndsPass DEF PassDies
  <2>. QED BY <1>16, <2>1 DEF PassDies, Alone, NoPass, Typed, Orderly, Stamped, Fresh, Older, NoPass, Quarantinable, RowType, ProviderType, PassType
<1>17. ASSUME NEW p \in Passers, NEW counted \in BOOLEAN, LosesAnswer(p, counted)
      PROVE  Fresh'
  <2>1. Heard(p, counted) /\ Alone(p) /\ passes'[p] = NoPass
    BY <1>17, LosesAnswerPass
  <2>. QED BY <1>17, <2>1 DEF LosesAnswer, Heard, Alone, NoPass, Typed, Orderly, Stamped, Fresh, Older, NoPass, Quarantinable, RowType, ProviderType, PassType
<1>. QED BY <1>0, <1>1, <1>2, <1>3, <1>4, <1>5, <1>6, <1>7, <1>8, <1>9, <1>10, <1>11, <1>12, <1>13, <1>14, <1>15, <1>16, <1>17 DEF Next

(* An event the provider does not remember, from a pass that is not a blind
   replay, is the first it hears of the row. *)
LEMMA NewIsFirst ==
  ASSUME Typed, Orderly, Stamped, Fresh, Once, NEW p \in Passers, NEW counted \in BOOLEAN,
         passes[p].at = "send", Heard(p, counted), ~provider'.blind
  PROVE  /\ ~provider.blind
         /\ row.attempted # 0
         /\ Remembers \/ provider.times = 0
<1>1. ~provider.blind /\ row.attempted # 0 /\ ~Older(row.attempted, DedupHours)
  BY DEF Heard, Fresh, Orderly
<1>2. CASE provider.times # 0
  <2>1. provider.times = 1 /\ row.attempted <= provider.at /\ provider.at # 0
    BY <1>1, <1>2 DEF Typed, Once, ProviderType, RowType
  <2>2. ~Older(provider.at, DedupHours)
    BY <1>1, <2>1, UsageAssumption DEF Older, Typed, RowType, ProviderType
  <2>. QED BY <1>1, <2>1, <2>2 DEF Remembers
<1>. QED BY <1>1, <1>2

(* Every action leaves the row counted at most once. *)
LEMMA OnceStep ==
  ASSUME Typed, Orderly, Stamped, Fresh, Once, Typed',
         [Next]_vars
  PROVE  Once'
<1>0. CASE UNCHANGED vars
  BY <1>0 DEF vars, Typed, Orderly, Stamped, Fresh, Once, Older, Refuses, RowType, ProviderType, PassType
<1>1. CASE ReportArrives
  BY <1>1 DEF ReportArrives, Typed, Orderly, Stamped, Fresh, Once, Older, Refuses, RowType, ProviderType, PassType
<1>2. CASE ReportRecorded
  BY AddedRow, <1>2 DEF ReportRecorded, Grows, Typed, Orderly, Stamped, Fresh, Once, Older, Refuses, RowType, ProviderType, PassType
<1>3. CASE SandboxStarts
  BY <1>3 DEF SandboxStarts, Typed, Orderly, Stamped, Fresh, Once, Older, Refuses, RowType, ProviderType, PassType
<1>4. CASE SandboxObserved
  BY AddedRow, <1>4 DEF SandboxObserved, Typed, Orderly, Stamped, Fresh, Once, Older, Refuses, RowType, ProviderType, PassType
<1>5. CASE Acknowledge
  BY <1>5 DEF Acknowledge, Typed, Orderly, Stamped, Fresh, Once, Older, Refuses, RowType, ProviderType, PassType
<1>6. CASE Retry
  BY <1>6 DEF Retry, Typed, Orderly, Stamped, Fresh, Once, Older, Refuses, RowType, ProviderType, PassType
<1>7. CASE MarkRepaired
  BY <1>7 DEF MarkRepaired, Typed, Orderly, Stamped, Fresh, Once, Older, Refuses, RowType, ProviderType, PassType
<1>8. CASE HourPasses
  BY <1>8 DEF HourPasses, Typed, Orderly, Stamped, Fresh, Once, Older, Refuses, RowType, ProviderType, PassType
<1>9. ASSUME NEW p \in Passers, NEW kind \in {"full", "fast", "settle"}, Begins(p, kind)
      PROVE  Once'
  <2>1. Begun(p, kind)
    BY <1>9, BeginsPass
  <2>. QED BY <1>9, <2>1 DEF Begins, Begun, Alone, Typed, Orderly, Stamped, Fresh, Once, Older, Refuses, RowType, ProviderType, PassType
<1>10. ASSUME NEW p \in Passers, Selects(p)
      PROVE  Once'
  <2>1. Selected(p)
    BY <1>10, SelectsPass
  <2>. QED BY <1>10, <2>1 DEF Selects, Selected, Alone, Over, NoPass, Typed, Orderly, Stamped, Fresh, Once, Older, Refuses, RowType, ProviderType, PassType
<1>11. ASSUME NEW p \in Passers, Marks(p)
      PROVE  Once'
  <2>1. Marked(p)
    BY <1>11, MarksPass
  <2>2. row' \in RowType /\ row'.state = row.state /\ row'.quantity = row.quantity
        /\ (row'.attempted = row.attempted \/ (row.attempted = 0 /\ row'.attempted = hour))
        /\ (passes'[p].at = "send" => row'.attempted # 0)
    BY <2>1, AttemptedRow DEF Typed, Marked, NoPass
  <2>. QED BY <1>11, <2>1, <2>2 DEF Marks, Marked, Alone, NoPass, Typed, Orderly, Stamped, Fresh, Once, Older, Refuses, RowType, ProviderType, PassType
<1>12. ASSUME NEW p \in Passers, Accepts(p)
      PROVE  Once'
  <2>1. Heard(p, TRUE) /\ Answered(p, "accepted") /\ passes[p].at = "send" /\ UNCHANGED <<hour, row>>
    BY <1>12, AcceptsPass DEF Accepts
  <2>. SUFFICES ASSUME ~provider'.blind
                PROVE  Once'
    BY DEF Once
  <2>2. ~provider.blind /\ row.attempted # 0 /\ (Remembers \/ provider.times = 0)
    BY <2>1, NewIsFirst
  <2>3. ~Refuses /\ ~Refuses'
    BY <1>12, <2>1 DEF Accepts, Refuses, Answered, Alone
  <2>4. CASE Remembers
    BY <2>1, <2>2, <2>3, <2>4 DEF Heard, Once
  <2>5. CASE ~Remembers
    BY <2>1, <2>2, <2>3, <2>5 DEF Heard, Once, Stamped, Typed, RowType, ProviderType
  <2>. QED BY <2>4, <2>5
<1>13. ASSUME NEW p \in Passers, Rejects(p)
      PROVE  Once'
  <2>1. Heard(p, FALSE) /\ Answered(p, "rejected") /\ passes[p].at = "send" /\ UNCHANGED <<hour, row>>
    BY <1>13, RejectsPass DEF Rejects
  <2>. SUFFICES ASSUME ~provider'.blind
                PROVE  Once'
    BY DEF Once
  <2>2. ~provider.blind /\ row.attempted # 0 /\ (Remembers \/ provider.times = 0)
    BY <2>1, NewIsFirst
  <2>3. provider.times = 0
    BY <1>13, <2>2 DEF Rejects
  <2>. QED BY <2>1, <2>3 DEF Heard, Once
<1>14. ASSUME NEW p \in Passers, Records(p)
      PROVE  Once'
  <2>1. Recorded(p)
    BY <1>14, RecordsPass
  <2>. QED BY <1>14, <2>1 DEF Records, Recorded, Alone, Over, NoPass, Typed, Orderly, Stamped, Fresh, Once, Older, Refuses, RowType, ProviderType, PassType
<1>15. ASSUME NEW p \in Passers, Returns(p)
      PROVE  Once'
  <2>1. Alone(p) /\ passes'[p] = NoPass
    BY <1>15, EndsPass DEF Returns
  <2>. QED BY <1>15, <2>1 DEF Returns, Alone, NoPass, Typed, Orderly, Stamped, Fresh, Once, Older, Refuses, RowType, ProviderType, PassType
<1>16. ASSUME NEW p \in Passers, PassDies(p)
      PROVE  Once'
  <2>1. Alone(p) /\ passes'[p] = NoPass
    BY <1>16, EndsPass DEF PassDies
  <2>. QED BY <1>16, <2>1 DEF PassDies, Alone, NoPass, Typed, Orderly, Stamped, Fresh, Once, Older, Refuses, RowType, ProviderType, PassType
<1>17. ASSUME NEW p \in Passers, NEW counted \in BOOLEAN, LosesAnswer(p, counted)
      PROVE  Once'
  <2>1. Heard(p, counted) /\ Alone(p) /\ passes'[p] = NoPass /\ passes[p].at = "send" /\ UNCHANGED <<hour, row>>
    BY <1>17, LosesAnswerPass DEF LosesAnswer
  <2>. SUFFICES ASSUME ~provider'.blind
                PROVE  Once'
    BY DEF Once
  <2>2. ~provider.blind /\ row.attempted # 0 /\ (Remembers \/ provider.times = 0)
    BY <2>1, NewIsFirst
  <2>3. Refuses' => Refuses
    BY <1>17, <2>1 DEF Refuses, Alone, NoPass
  <2>4. CASE ~counted \/ Remembers
    BY <2>1, <2>2, <2>3, <2>4 DEF Heard, Once
  <2>5. CASE counted /\ ~Remembers
    <3>1. ~Refuses
      BY <1>17, <2>5 DEF LosesAnswer
    <3>. QED BY <2>1, <2>2, <2>3, <2>5, <3>1 DEF Heard, Once, Stamped, Typed, RowType, ProviderType
  <2>. QED BY <2>4, <2>5
<1>. QED BY <1>0, <1>1, <1>2, <1>3, <1>4, <1>5, <1>6, <1>7, <1>8, <1>9, <1>10, <1>11, <1>12, <1>13, <1>14, <1>15, <1>16, <1>17 DEF Next

(* Every action keeps a running sandbox observed. *)
LEMMA ObservedStep ==
  ASSUME Typed, Observed, Typed',
         [Next]_vars
  PROVE  Observed'
<1>0. CASE UNCHANGED vars
  BY <1>0 DEF vars, Typed, Observed, RowType, ProviderType, PassType
<1>1. CASE ReportArrives
  BY <1>1 DEF ReportArrives, Typed, Observed, RowType, ProviderType, PassType
<1>2. CASE ReportRecorded
  BY AddedRow, <1>2 DEF ReportRecorded, Grows, Typed, Observed, RowType, ProviderType, PassType
<1>3. CASE SandboxStarts
  BY UsageAssumption, <1>3 DEF SandboxStarts, Typed, Observed, RowType, ProviderType, PassType
<1>4. CASE SandboxObserved
  BY AddedRow, UsageAssumption, <1>4 DEF SandboxObserved, Typed, Observed, RowType, ProviderType, PassType
<1>5. CASE Acknowledge
  BY <1>5 DEF Acknowledge, Typed, Observed, RowType, ProviderType, PassType
<1>6. CASE Retry
  BY <1>6 DEF Retry, Typed, Observed, RowType, ProviderType, PassType
<1>7. CASE MarkRepaired
  BY <1>7 DEF MarkRepaired, Typed, Observed, RowType, ProviderType, PassType
<1>8. CASE HourPasses
  BY <1>8 DEF HourPasses, Typed, Observed, RowType, ProviderType, PassType
<1>9. ASSUME NEW p \in Passers, NEW kind \in {"full", "fast", "settle"}, Begins(p, kind)
      PROVE  Observed'
  BY <1>9 DEF Begins, Observed
<1>10. ASSUME NEW p \in Passers, Selects(p)
      PROVE  Observed'
  BY <1>10 DEF Selects, Observed
<1>11. ASSUME NEW p \in Passers, Marks(p)
      PROVE  Observed'
  BY <1>11 DEF Marks, Observed
<1>12. ASSUME NEW p \in Passers, Accepts(p)
      PROVE  Observed'
  BY <1>12 DEF Accepts, Observed
<1>13. ASSUME NEW p \in Passers, Rejects(p)
      PROVE  Observed'
  BY <1>13 DEF Rejects, Observed
<1>14. ASSUME NEW p \in Passers, Records(p)
      PROVE  Observed'
  BY <1>14 DEF Records, Observed
<1>15. ASSUME NEW p \in Passers, Returns(p)
      PROVE  Observed'
  BY <1>15 DEF Returns, Observed
<1>16. ASSUME NEW p \in Passers, PassDies(p)
      PROVE  Observed'
  BY <1>16 DEF PassDies, Observed
<1>17. ASSUME NEW p \in Passers, NEW counted \in BOOLEAN, LosesAnswer(p, counted)
      PROVE  Observed'
  BY <1>17 DEF LosesAnswer, Observed
<1>. QED BY <1>0, <1>1, <1>2, <1>3, <1>4, <1>5, <1>6, <1>7, <1>8, <1>9, <1>10, <1>11, <1>12, <1>13, <1>14, <1>15, <1>16, <1>17 DEF Next

(* What is read, and what is counted, stays the quantity of the row. *)
LEMMA WholeStep ==
  ASSUME Typed, Orderly, Stamped, Observed, HeldByItsIssue, Whole, Typed',
         [Next]_vars
  PROVE  Whole'
<1>0. CASE UNCHANGED vars
  BY <1>0 DEF vars, Typed, Orderly, Stamped, Observed, Whole, Final, NoPass, HeldByItsIssue, Passers, RowType, ProviderType, PassType
<1>1. CASE ReportArrives
  BY <1>1 DEF ReportArrives, Typed, Orderly, Stamped, Observed, Whole, Final, NoPass, HeldByItsIssue, Passers, RowType, ProviderType, PassType
<1>2. CASE ReportRecorded
  BY AddedRow, <1>2 DEF ReportRecorded, Grows, Typed, Orderly, Stamped, Observed, Whole, Final, NoPass, HeldByItsIssue, Passers, RowType, ProviderType, PassType
<1>3. CASE SandboxStarts
  BY <1>3 DEF SandboxStarts, Typed, Orderly, Stamped, Observed, Whole, Final, NoPass, HeldByItsIssue, Passers, RowType, ProviderType, PassType
<1>4. CASE SandboxObserved
  <2>1. CASE running = 1
    <3>1. ~Final /\ ~Final'
      BY <1>4, <2>1, UsageAssumption DEF SandboxObserved, Final, Observed, Typed
    <3>2. row'.state = "emitted" => row.state = "emitted"
      BY <1>4, <2>1, AddedRow DEF SandboxObserved, Typed, RowType
    <3>. QED BY <1>4, <3>1, <3>2 DEF SandboxObserved, Whole
  <2>2. CASE running # 1
    BY <1>4, <2>2 DEF SandboxObserved, Whole, Final
  <2>. QED BY <2>1, <2>2
<1>5. CASE Acknowledge
  BY <1>5 DEF Acknowledge, Typed, Orderly, Stamped, Observed, Whole, Final, NoPass, HeldByItsIssue, Passers, RowType, ProviderType, PassType
<1>6. CASE Retry
  BY <1>6 DEF Retry, Typed, Orderly, Stamped, Observed, Whole, Final, NoPass, HeldByItsIssue, Passers, RowType, ProviderType, PassType
<1>7. CASE MarkRepaired
  BY <1>7 DEF MarkRepaired, Typed, Orderly, Stamped, Observed, Whole, Final, NoPass, HeldByItsIssue, Passers, RowType, ProviderType, PassType
<1>8. CASE HourPasses
  BY UsageAssumption, <1>8 DEF HourPasses, Typed, Orderly, Stamped, Observed, Whole, Final, NoPass, HeldByItsIssue, Passers, RowType, ProviderType, PassType
<1>9. ASSUME NEW p \in Passers, NEW kind \in {"full", "fast", "settle"}, Begins(p, kind)
      PROVE  Whole'
  <2>1. Begun(p, kind)
    BY <1>9, BeginsPass
  <2>. QED BY <1>9, <2>1 DEF Begins, Begun, Alone, Typed, Orderly, Stamped, Observed, Whole, Final, NoPass, HeldByItsIssue, Passers, RowType, ProviderType, PassType
<1>10. ASSUME NEW p \in Passers, Selects(p)
      PROVE  Whole'
  <2>1. Selected(p)
    BY <1>10, SelectsPass
  <2>2. Due(passes[p].kind) /\ passes[p].kind \in {"full", "fast"} => Final
    BY DEF Due, Seals, Final, Typed
  <2>. QED BY <1>10, <2>1, <2>2 DEF Selects, Selected, Alone, Over, NoPass, Typed, Whole, Final, PassType
<1>11. ASSUME NEW p \in Passers, Marks(p)
      PROVE  Whole'
  <2>1. Marked(p)
    BY <1>11, MarksPass
  <2>2. row' \in RowType /\ row'.state = row.state /\ row'.quantity = row.quantity
        /\ (row'.attempted = row.attempted \/ (row.attempted = 0 /\ row'.attempted = hour))
        /\ (passes'[p].at = "send" => row'.attempted # 0)
    BY <2>1, AttemptedRow DEF Typed, Marked, NoPass
  <2>. QED BY <1>11, <2>1, <2>2 DEF Marks, Marked, Alone, NoPass, Typed, Orderly, Stamped, Observed, Whole, Final, NoPass, HeldByItsIssue, Passers, RowType, ProviderType, PassType
<1>12. ASSUME NEW p \in Passers, Accepts(p)
      PROVE  Whole'
  <2>1. Heard(p, TRUE) /\ Answered(p, "accepted") /\ passes[p].at = "send" /\ UNCHANGED <<hour, meter, row, issue, recording>>
    BY <1>12, AcceptsPass DEF Accepts
  <2>2. passes[p].kind # "settle" => Final /\ passes[p].quantity = row.quantity
    BY <2>1 DEF Whole, Orderly, Typed, PassType
  <2>3. provider'.times > 0 /\ ~provider'.settled => Final /\ provider'.quantity = row.quantity
    BY <2>1, <2>2 DEF Heard, Whole, Typed, ProviderType
  <2>4. provider.times > 0 => provider'.times > 0
    BY <2>1 DEF Heard, Typed, ProviderType
  <2>5. Final' <=> Final
    BY <2>1 DEF Final
  <2>6. provider'.times > 0
    BY <2>1 DEF Heard, Typed, ProviderType, Remembers, Stamped
  <2>. QED BY <2>1, <2>2, <2>3, <2>4, <2>5, <2>6 DEF Answered, Alone, Whole
<1>13. ASSUME NEW p \in Passers, Rejects(p)
      PROVE  Whole'
  <2>1. Heard(p, FALSE) /\ Answered(p, "rejected") /\ passes[p].at = "send" /\ UNCHANGED <<hour, meter, row, issue, recording>>
    BY <1>13, RejectsPass DEF Rejects
  <2>2. passes[p].kind # "settle" => Final /\ passes[p].quantity = row.quantity
    BY <2>1 DEF Whole, Orderly, Typed, PassType
  <2>3. provider'.times > 0 /\ ~provider'.settled => Final /\ provider'.quantity = row.quantity
    BY <2>1, <2>2 DEF Heard, Whole, Typed, ProviderType
  <2>4. provider.times > 0 => provider'.times > 0
    BY <2>1 DEF Heard, Typed, ProviderType
  <2>5. Final' <=> Final
    BY <2>1 DEF Final
  <2>. QED BY <2>1, <2>2, <2>3, <2>4, <2>5 DEF Answered, Alone, Whole
<1>14. ASSUME NEW p \in Passers, Records(p)
      PROVE  Whole'
  <2>1. Recorded(p)
    BY <1>14, RecordsPass
  <2>. QED BY <1>14, <2>1 DEF Records, Recorded, Alone, Over, NoPass, Typed, Orderly, Stamped, Observed, Whole, Final, NoPass, HeldByItsIssue, Passers, RowType, ProviderType, PassType
<1>15. ASSUME NEW p \in Passers, Returns(p)
      PROVE  Whole'
  <2>1. Alone(p) /\ passes'[p] = NoPass
    BY <1>15, EndsPass DEF Returns
  <2>. QED BY <1>15, <2>1 DEF Returns, Alone, NoPass, Typed, Orderly, Stamped, Observed, Whole, Final, NoPass, HeldByItsIssue, Passers, RowType, ProviderType, PassType
<1>16. ASSUME NEW p \in Passers, PassDies(p)
      PROVE  Whole'
  <2>1. Alone(p) /\ passes'[p] = NoPass
    BY <1>16, EndsPass DEF PassDies
  <2>. QED BY <1>16, <2>1 DEF PassDies, Alone, NoPass, Typed, Orderly, Stamped, Observed, Whole, Final, NoPass, HeldByItsIssue, Passers, RowType, ProviderType, PassType
<1>17. ASSUME NEW p \in Passers, NEW counted \in BOOLEAN, LosesAnswer(p, counted)
      PROVE  Whole'
  <2>1. Heard(p, counted) /\ Alone(p) /\ passes'[p] = NoPass /\ passes[p].at = "send" /\ UNCHANGED <<hour, meter, row, issue, recording>>
    BY <1>17, LosesAnswerPass DEF LosesAnswer
  <2>2. passes[p].kind # "settle" => Final /\ passes[p].quantity = row.quantity
    BY <2>1 DEF Whole, Orderly, Typed, PassType
  <2>3. provider'.times > 0 /\ ~provider'.settled => Final /\ provider'.quantity = row.quantity
    BY <2>1, <2>2 DEF Heard, Whole, Typed, ProviderType
  <2>4. provider.times > 0 => provider'.times > 0
    BY <2>1 DEF Heard, Typed, ProviderType
  <2>5. Final' <=> Final
    BY <2>1 DEF Final
  <2>. QED BY <2>1, <2>2, <2>3, <2>4, <2>5 DEF Alone, NoPass, Whole
<1>. QED BY <1>0, <1>1, <1>2, <1>3, <1>4, <1>5, <1>6, <1>7, <1>8, <1>9, <1>10, <1>11, <1>12, <1>13, <1>14, <1>15, <1>16, <1>17 DEF Next

(* What a settle owes stays due to it. *)
LEMMA OwesStep ==
  ASSUME Typed, Orderly, Owes, Typed',
         [Next]_vars
  PROVE  Owes'
<1>0. CASE UNCHANGED vars
  BY <1>0 DEF vars, Typed, Orderly, Owes, Seals, Due, RowType, ProviderType, PassType
<1>1. CASE ReportArrives
  BY <1>1 DEF ReportArrives, Typed, Orderly, Owes, Seals, Due, RowType, ProviderType, PassType
<1>2. CASE ReportRecorded
  BY AddedRow, <1>2 DEF ReportRecorded, Grows, Typed, Orderly, Owes, Seals, Due, RowType, ProviderType, PassType
<1>3. CASE SandboxStarts
  BY <1>3 DEF SandboxStarts, Typed, Orderly, Owes, Seals, Due, RowType, ProviderType, PassType
<1>4. CASE SandboxObserved
  BY AddedRow, <1>4 DEF SandboxObserved, Typed, Orderly, Owes, Seals, Due, RowType, ProviderType, PassType
<1>5. CASE Acknowledge
  BY <1>5 DEF Acknowledge, Typed, Orderly, Owes, Seals, Due, RowType, ProviderType, PassType
<1>6. CASE Retry
  BY <1>6 DEF Retry, Typed, Orderly, Owes, Seals, Due, RowType, ProviderType, PassType
<1>7. CASE MarkRepaired
  BY <1>7 DEF MarkRepaired, Typed, Orderly, Owes, Seals, Due, RowType, ProviderType, PassType
<1>8. CASE HourPasses
  BY <1>8 DEF HourPasses, Typed, Orderly, Owes, Seals, Due, RowType, ProviderType, PassType
<1>9. ASSUME NEW p \in Passers, NEW kind \in {"full", "fast", "settle"}, Begins(p, kind)
      PROVE  Owes'
  <2>1. Begun(p, kind)
    BY <1>9, BeginsPass
  <2>. QED BY <1>9, <2>1 DEF Begins, Begun, Alone, Typed, Orderly, Owes, Seals, Due, RowType, ProviderType, PassType
<1>10. ASSUME NEW p \in Passers, Selects(p)
      PROVE  Owes'
  <2>1. Selected(p)
    BY <1>10, SelectsPass
  <2>. QED BY <1>10, <2>1 DEF Selects, Selected, Alone, Over, NoPass, Typed, Orderly, Owes, Seals, Due, RowType, ProviderType, PassType
<1>11. ASSUME NEW p \in Passers, Marks(p)
      PROVE  Owes'
  <2>1. Marked(p)
    BY <1>11, MarksPass
  <2>2. row' \in RowType /\ row'.state = row.state /\ row'.quantity = row.quantity
        /\ (row'.attempted = row.attempted \/ (row.attempted = 0 /\ row'.attempted = hour))
        /\ (passes'[p].at = "send" => row'.attempted # 0)
    BY <2>1, AttemptedRow DEF Typed, Marked, NoPass
  <2>. QED BY <1>11, <2>1, <2>2 DEF Marks, Marked, Alone, NoPass, Typed, Orderly, Owes, Seals, Due, RowType, ProviderType, PassType
<1>12. ASSUME NEW p \in Passers, Accepts(p)
      PROVE  Owes'
  <2>1. Heard(p, TRUE) /\ Answered(p, "accepted")
    BY <1>12, AcceptsPass
  <2>. QED BY <1>12, <2>1 DEF Accepts, Heard, Answered, Alone, Typed, Orderly, Owes, Seals, Due, RowType, ProviderType, PassType
<1>13. ASSUME NEW p \in Passers, Rejects(p)
      PROVE  Owes'
  <2>1. Heard(p, FALSE) /\ Answered(p, "rejected")
    BY <1>13, RejectsPass
  <2>. QED BY <1>13, <2>1 DEF Rejects, Heard, Answered, Alone, Typed, Orderly, Owes, Seals, Due, RowType, ProviderType, PassType
<1>14. ASSUME NEW p \in Passers, Records(p)
      PROVE  Owes'
  <2>1. Recorded(p)
    BY <1>14, RecordsPass
  <2>. QED BY <1>14, <2>1 DEF Records, Recorded, Alone, Over, NoPass, Typed, Orderly, Owes, Seals, Due, RowType, ProviderType, PassType
<1>15. ASSUME NEW p \in Passers, Returns(p)
      PROVE  Owes'
  <2>1. Alone(p) /\ passes'[p] = NoPass
    BY <1>15, EndsPass DEF Returns
  <2>. QED BY <1>15, <2>1 DEF Returns, Alone, NoPass, Typed, Orderly, Owes, Seals, Due, RowType, ProviderType, PassType
<1>16. ASSUME NEW p \in Passers, PassDies(p)
      PROVE  Owes'
  <2>1. Alone(p) /\ passes'[p] = NoPass
    BY <1>16, EndsPass DEF PassDies
  <2>. QED BY <1>16, <2>1 DEF PassDies, Alone, NoPass, Typed, Orderly, Owes, Seals, Due, RowType, ProviderType, PassType
<1>17. ASSUME NEW p \in Passers, NEW counted \in BOOLEAN, LosesAnswer(p, counted)
      PROVE  Owes'
  <2>1. Heard(p, counted) /\ Alone(p) /\ passes'[p] = NoPass
    BY <1>17, LosesAnswerPass
  <2>. QED BY <1>17, <2>1 DEF LosesAnswer, Heard, Alone, NoPass, Typed, Orderly, Owes, Seals, Due, RowType, ProviderType, PassType
<1>. QED BY <1>0, <1>1, <1>2, <1>3, <1>4, <1>5, <1>6, <1>7, <1>8, <1>9, <1>10, <1>11, <1>12, <1>13, <1>14, <1>15, <1>16, <1>17 DEF Next

(* Every action leaves the row held by its issue. *)
LEMMA HeldStep ==
  ASSUME Typed, Orderly, HeldByItsIssue, Typed',
         [Next]_vars
  PROVE  HeldByItsIssue'
<1>0. CASE UNCHANGED vars
  BY <1>0 DEF vars, Typed, Orderly, HeldByItsIssue, RowType, ProviderType, PassType
<1>1. CASE ReportArrives
  BY <1>1 DEF ReportArrives, Typed, Orderly, HeldByItsIssue, RowType, ProviderType, PassType
<1>2. CASE ReportRecorded
  BY AddedRow, <1>2 DEF ReportRecorded, Grows, Typed, Orderly, HeldByItsIssue, RowType, ProviderType, PassType
<1>3. CASE SandboxStarts
  BY <1>3 DEF SandboxStarts, Typed, Orderly, HeldByItsIssue, RowType, ProviderType, PassType
<1>4. CASE SandboxObserved
  BY AddedRow, <1>4 DEF SandboxObserved, Typed, Orderly, HeldByItsIssue, RowType, ProviderType, PassType
<1>5. CASE Acknowledge
  BY <1>5 DEF Acknowledge, Typed, Orderly, HeldByItsIssue, RowType, ProviderType, PassType
<1>6. CASE Retry
  BY <1>6 DEF Retry, Typed, Orderly, HeldByItsIssue, RowType, ProviderType, PassType
<1>7. CASE MarkRepaired
  BY <1>7 DEF MarkRepaired, Typed, Orderly, HeldByItsIssue, RowType, ProviderType, PassType
<1>8. CASE HourPasses
  BY <1>8 DEF HourPasses, Typed, Orderly, HeldByItsIssue, RowType, ProviderType, PassType
<1>9. ASSUME NEW p \in Passers, NEW kind \in {"full", "fast", "settle"}, Begins(p, kind)
      PROVE  HeldByItsIssue'
  <2>1. Begun(p, kind)
    BY <1>9, BeginsPass
  <2>. QED BY <1>9, <2>1 DEF Begins, Begun, Alone, Typed, Orderly, HeldByItsIssue, RowType, ProviderType, PassType
<1>10. ASSUME NEW p \in Passers, Selects(p)
      PROVE  HeldByItsIssue'
  <2>1. Selected(p)
    BY <1>10, SelectsPass
  <2>. QED BY <1>10, <2>1 DEF Selects, Selected, Alone, Over, NoPass, Typed, Orderly, HeldByItsIssue, RowType, ProviderType, PassType
<1>11. ASSUME NEW p \in Passers, Marks(p)
      PROVE  HeldByItsIssue'
  <2>1. Marked(p)
    BY <1>11, MarksPass
  <2>2. row' \in RowType /\ row'.state = row.state /\ row'.quantity = row.quantity
        /\ (row'.attempted = row.attempted \/ (row.attempted = 0 /\ row'.attempted = hour))
        /\ (passes'[p].at = "send" => row'.attempted # 0)
    BY <2>1, AttemptedRow DEF Typed, Marked, NoPass
  <2>. QED BY <1>11, <2>1, <2>2 DEF Marks, Marked, Alone, NoPass, Typed, Orderly, HeldByItsIssue, RowType, ProviderType, PassType
<1>12. ASSUME NEW p \in Passers, Accepts(p)
      PROVE  HeldByItsIssue'
  <2>1. Heard(p, TRUE) /\ Answered(p, "accepted")
    BY <1>12, AcceptsPass
  <2>. QED BY <1>12, <2>1 DEF Accepts, Heard, Answered, Alone, Typed, Orderly, HeldByItsIssue, RowType, ProviderType, PassType
<1>13. ASSUME NEW p \in Passers, Rejects(p)
      PROVE  HeldByItsIssue'
  <2>1. Heard(p, FALSE) /\ Answered(p, "rejected")
    BY <1>13, RejectsPass
  <2>. QED BY <1>13, <2>1 DEF Rejects, Heard, Answered, Alone, Typed, Orderly, HeldByItsIssue, RowType, ProviderType, PassType
<1>14. ASSUME NEW p \in Passers, Records(p)
      PROVE  HeldByItsIssue'
  <2>1. Recorded(p)
    BY <1>14, RecordsPass
  <2>. QED BY <1>14, <2>1 DEF Records, Recorded, Alone, Over, NoPass, Typed, Orderly, HeldByItsIssue, RowType, ProviderType, PassType
<1>15. ASSUME NEW p \in Passers, Returns(p)
      PROVE  HeldByItsIssue'
  <2>1. Alone(p) /\ passes'[p] = NoPass
    BY <1>15, EndsPass DEF Returns
  <2>. QED BY <1>15, <2>1 DEF Returns, Alone, NoPass, Typed, Orderly, HeldByItsIssue, RowType, ProviderType, PassType
<1>16. ASSUME NEW p \in Passers, PassDies(p)
      PROVE  HeldByItsIssue'
  <2>1. Alone(p) /\ passes'[p] = NoPass
    BY <1>16, EndsPass DEF PassDies
  <2>. QED BY <1>16, <2>1 DEF PassDies, Alone, NoPass, Typed, Orderly, HeldByItsIssue, RowType, ProviderType, PassType
<1>17. ASSUME NEW p \in Passers, NEW counted \in BOOLEAN, LosesAnswer(p, counted)
      PROVE  HeldByItsIssue'
  <2>1. Heard(p, counted) /\ Alone(p) /\ passes'[p] = NoPass
    BY <1>17, LosesAnswerPass
  <2>. QED BY <1>17, <2>1 DEF LosesAnswer, Heard, Alone, NoPass, Typed, Orderly, HeldByItsIssue, RowType, ProviderType, PassType
<1>. QED BY <1>0, <1>1, <1>2, <1>3, <1>4, <1>5, <1>6, <1>7, <1>8, <1>9, <1>10, <1>11, <1>12, <1>13, <1>14, <1>15, <1>16, <1>17 DEF Next

(* A settle is done only when the row is not pending for it. *)
LEMMA SettlesStep ==
  ASSUME Typed, Orderly, Owes, HeldByItsIssue, SettleLeavesNothing, Typed',
         [Next]_vars
  PROVE  SettleLeavesNothing'
<1>0. CASE UNCHANGED vars
  BY <1>0 DEF vars, Typed, Orderly, Owes, Due, HeldByItsIssue, SettleLeavesNothing, Passers, RowType, ProviderType, PassType
<1>1. CASE ReportArrives
  BY <1>1 DEF ReportArrives, Typed, Orderly, Owes, Due, HeldByItsIssue, SettleLeavesNothing, Passers, RowType, ProviderType, PassType
<1>2. CASE ReportRecorded
  BY AddedRow, <1>2 DEF ReportRecorded, Grows, Typed, Orderly, Owes, Due, HeldByItsIssue, SettleLeavesNothing, Passers, RowType, ProviderType, PassType
<1>3. CASE SandboxStarts
  BY <1>3 DEF SandboxStarts, Typed, Orderly, Owes, Due, HeldByItsIssue, SettleLeavesNothing, Passers, RowType, ProviderType, PassType
<1>4. CASE SandboxObserved
  BY AddedRow, <1>4 DEF SandboxObserved, Typed, Orderly, Owes, Due, HeldByItsIssue, SettleLeavesNothing, Passers, RowType, ProviderType, PassType
<1>5. CASE Acknowledge
  BY <1>5 DEF Acknowledge, Typed, Orderly, Owes, Due, HeldByItsIssue, SettleLeavesNothing, Passers, RowType, ProviderType, PassType
<1>6. CASE Retry
  BY <1>6 DEF Retry, Typed, Orderly, Owes, Due, HeldByItsIssue, SettleLeavesNothing, Passers, RowType, ProviderType, PassType
<1>7. CASE MarkRepaired
  BY <1>7 DEF MarkRepaired, Typed, Orderly, Owes, Due, HeldByItsIssue, SettleLeavesNothing, Passers, RowType, ProviderType, PassType
<1>8. CASE HourPasses
  BY <1>8 DEF HourPasses, Typed, Orderly, Owes, Due, HeldByItsIssue, SettleLeavesNothing, Passers, RowType, ProviderType, PassType
<1>9. ASSUME NEW p \in Passers, NEW kind \in {"full", "fast", "settle"}, Begins(p, kind)
      PROVE  SettleLeavesNothing'
  <2>1. Begun(p, kind)
    BY <1>9, BeginsPass
  <2>. QED BY <1>9, <2>1 DEF Begins, Begun, Alone, Typed, Orderly, Owes, Due, HeldByItsIssue, SettleLeavesNothing, Passers, RowType, ProviderType, PassType
<1>10. ASSUME NEW p \in Passers, Selects(p)
      PROVE  SettleLeavesNothing'
  <2>1. Selected(p)
    BY <1>10, SelectsPass
  <2>. QED BY <1>10, <2>1 DEF Selects, Selected, Alone, Over, NoPass, Typed, Orderly, Owes, Due, HeldByItsIssue, SettleLeavesNothing, Passers, RowType, ProviderType, PassType
<1>11. ASSUME NEW p \in Passers, Marks(p)
      PROVE  SettleLeavesNothing'
  <2>1. Marked(p)
    BY <1>11, MarksPass
  <2>2. row' \in RowType /\ row'.state = row.state /\ row'.quantity = row.quantity
        /\ (row'.attempted = row.attempted \/ (row.attempted = 0 /\ row'.attempted = hour))
        /\ (passes'[p].at = "send" => row'.attempted # 0)
    BY <2>1, AttemptedRow DEF Typed, Marked, NoPass
  <2>. QED BY <1>11, <2>1, <2>2 DEF Marks, Marked, Alone, NoPass, Typed, Orderly, Owes, Due, HeldByItsIssue, SettleLeavesNothing, Passers, RowType, ProviderType, PassType
<1>12. ASSUME NEW p \in Passers, Accepts(p)
      PROVE  SettleLeavesNothing'
  <2>1. Heard(p, TRUE) /\ Answered(p, "accepted")
    BY <1>12, AcceptsPass
  <2>. QED BY <1>12, <2>1 DEF Accepts, Heard, Answered, Alone, Typed, Orderly, Owes, Due, HeldByItsIssue, SettleLeavesNothing, Passers, RowType, ProviderType, PassType
<1>13. ASSUME NEW p \in Passers, Rejects(p)
      PROVE  SettleLeavesNothing'
  <2>1. Heard(p, FALSE) /\ Answered(p, "rejected")
    BY <1>13, RejectsPass
  <2>. QED BY <1>13, <2>1 DEF Rejects, Heard, Answered, Alone, Typed, Orderly, Owes, Due, HeldByItsIssue, SettleLeavesNothing, Passers, RowType, ProviderType, PassType
<1>14. ASSUME NEW p \in Passers, Records(p)
      PROVE  SettleLeavesNothing'
  <2>1. Recorded(p)
    BY <1>14, RecordsPass
  <2>. QED BY <1>14, <2>1 DEF Records, Recorded, Alone, Over, NoPass, Typed, Orderly, Owes, Due, HeldByItsIssue, SettleLeavesNothing, Passers, RowType, ProviderType, PassType
<1>15. ASSUME NEW p \in Passers, Returns(p)
      PROVE  SettleLeavesNothing'
  <2>1. Alone(p) /\ passes'[p] = NoPass
    BY <1>15, EndsPass DEF Returns
  <2>. QED BY <1>15, <2>1 DEF Returns, Alone, NoPass, Typed, Orderly, Owes, Due, HeldByItsIssue, SettleLeavesNothing, Passers, RowType, ProviderType, PassType
<1>16. ASSUME NEW p \in Passers, PassDies(p)
      PROVE  SettleLeavesNothing'
  <2>1. Alone(p) /\ passes'[p] = NoPass
    BY <1>16, EndsPass DEF PassDies
  <2>. QED BY <1>16, <2>1 DEF PassDies, Alone, NoPass, Typed, Orderly, Owes, Due, HeldByItsIssue, SettleLeavesNothing, Passers, RowType, ProviderType, PassType
<1>17. ASSUME NEW p \in Passers, NEW counted \in BOOLEAN, LosesAnswer(p, counted)
      PROVE  SettleLeavesNothing'
  <2>1. Heard(p, counted) /\ Alone(p) /\ passes'[p] = NoPass
    BY <1>17, LosesAnswerPass
  <2>. QED BY <1>17, <2>1 DEF LosesAnswer, Heard, Alone, NoPass, Typed, Orderly, Owes, Due, HeldByItsIssue, SettleLeavesNothing, Passers, RowType, ProviderType, PassType
<1>. QED BY <1>0, <1>1, <1>2, <1>3, <1>4, <1>5, <1>6, <1>7, <1>8, <1>9, <1>10, <1>11, <1>12, <1>13, <1>14, <1>15, <1>16, <1>17 DEF Next

-----------------------------------------------------------------------------
(* The invariant and what follows from it. *)

(* The invariant holds when there is neither usage nor a pass. *)
LEMMA InitInv == Init => IInv
<1> SUFFICES ASSUME Init PROVE IInv
  OBVIOUS
<1>1. Typed
  <2>1. row \in RowType /\ provider \in ProviderType
    BY DEF Init, RowType, ProviderType
  <2>2. passes \in [Passers -> PassType]
    BY NoPassTyped DEF Init
  <2>3. issue \in [kind : {"none", "permanent_reject", "stamp_ambiguity"},
                  resolution : {"none", "open", "acknowledge", "retry", "mark_repaired"}]
    BY DEF Init
  <2>4. hour \in Nat \ {0} /\ meter \in {"fast", "metered"}
        /\ running \in Nat
    BY DEF Init
  <2>5. recording \in BOOLEAN
    BY DEF Init
  <2>. QED BY <2>1, <2>2, <2>3, <2>4, <2>5 DEF Typed
<1>2. Orderly
  BY DEF Init, Orderly, NoPass
<1>3. Stamped /\ Fresh /\ Once /\ Observed
  BY DEF Init, Stamped, Fresh, Once, Observed, Refuses, NoPass
<1>4. Whole /\ Owes
  BY DEF Init, Whole, Owes, NoPass
<1>5. HeldByItsIssue /\ SettleLeavesNothing
  BY DEF Init, HeldByItsIssue, SettleLeavesNothing, NoPass, Passers
<1>. QED BY <1>1, <1>2, <1>3, <1>4, <1>5 DEF IInv

(* Every step keeps the invariant. *)
LEMMA NextInv == IInv /\ [Next]_vars => IInv'
<1> SUFFICES ASSUME IInv, [Next]_vars PROVE IInv'
  OBVIOUS
<1>. USE DEF IInv
<1>1. Typed'
  BY TypedStep
<1>2. Orderly' /\ Stamped' /\ Fresh' /\ Once'
  BY <1>1, OrderlyStep, StampedStep, FreshStep, OnceStep
<1>3. Observed' /\ Whole' /\ Owes'
  BY <1>1, ObservedStep, WholeStep, OwesStep
<1>4. HeldByItsIssue' /\ SettleLeavesNothing'
  BY <1>1, HeldStep, SettlesStep
<1>. QED BY <1>1, <1>2, <1>3, <1>4

(* The invariant holds in every reachable state. *)
LEMMA Invariant == Spec => []IInv
BY InitInv, NextInv, PTL DEF Spec

(* The hour, the row, its issue, the provider's count and every pass keep
   their type. *)
THEOREM TypeCorrect == Spec => []Typed
<1>1. IInv => Typed
  BY DEF IInv
<1>. QED BY Invariant, <1>1, PTL

(* A row is held back exactly as long as an open or acknowledged issue says so,
   whatever passes race, die, or are repaired by operators (HeldByItsIssue). *)
THEOREM RowsAreHeldByTheirIssue == Spec => []HeldByItsIssue
<1>1. IInv => HeldByItsIssue
  BY DEF IInv
<1>. QED BY Invariant, <1>1, PTL

(* The provider counts a row once, unless a pass that quarantines nothing has
   replayed an attempt the provider had forgotten (CountedOnce). *)
THEOREM RowsAreCountedOnce == Spec => []CountedOnce
<1>1. IInv => CountedOnce
  BY DEF IInv, Once, CountedOnce
<1>. QED BY Invariant, <1>1, PTL

(* What an emitter's pass exported was counted with the quantity the row has
   (BilledInFull). *)
THEOREM RowsAreBilledInFull == Spec => []BilledInFull
<1>1. IInv => BilledInFull
  BY DEF IInv, Whole, BilledInFull
<1>. QED BY Invariant, <1>1, PTL

(* A settle that is done leaves no row that was due when it began pending
   (SettleLeavesNothing). *)
THEOREM SettlesLeaveNothing == Spec => []SettleLeavesNothing
<1>1. IInv => SettleLeavesNothing
  BY DEF IInv
<1>. QED BY Invariant, <1>1, PTL

=============================================================================
