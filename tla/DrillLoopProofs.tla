---------------------------- MODULE DrillLoopProofs ----------------------------
(***************************************************************************)
(* For any number of threads, operators, items and drills: every variable of *)
(* the drill loop keeps its type, every thread's frame fits its step, the map *)
(* of drills an anonymous route fills is bounded when nobody serves, and what *)
(* progress.json keeps of an operator is consistent, whatever answers are lost. *)
(***************************************************************************)
EXTENDS DrillLoop, SequenceTheorems, FiniteSetTheorems, TLAPS

EvictSteps == {"evict", "scan", "drop", "count", "pop"}
Steps == {"idle"} \cup ServeSteps \cup ScoreSteps

\* What a thread is sure of at a step, with so many runs made: whom it serves, the item,
\* the run, and that an answer it writes has left a row.
Fits(step, frame, made) ==
  /\ step # "idle" => frame.op \in Operators
  /\ frame.named => frame.item \in Items
  /\ step \in {"render", "withhold", "note", "hold"} => frame.item \in Items
  /\ step \in {"withhold", "note"} => frame.reason \in Reasons
  /\ step \in EvictSteps \cup ScoreSteps => frame.run \in 1 .. made
  /\ step \in {"progress", "save", "write"} => frame.verdict # "unscorable"
  /\ step \in {"write", "result"} /\ frame.verdict # "unscorable"
       => frame.copy.runs # << >>

SharedType ==
  /\ file \in Blob
  /\ runs \in Seq(Held)
  /\ pending \in Seq(1 .. Len(runs))
  /\ withheld \in [Items -> Reasons \cup {None, "unresolvable"}]

Frames == \A w \in Workers : Fits(pc[w], mine[w], Len(runs))

TInv == TypeOK /\ Frames

-----------------------------------------------------------------------------
(* The record *)

\* A rating stays in the band whichever way it moves.
LEMMA RatingsType ==
  ASSUME NEW before \in Ratings, NEW correct \in BOOLEAN
  PROVE  RatingsAfter(before, correct) \subseteq Ratings
  BY RatingAssumption DEF RatingsAfter, Ratings

\* A new operator's record.
LEMMA FreshType == fresh \in OperatorProgress
<1>1. DefaultRating \in Ratings
  BY RatingAssumption DEF Ratings
<1>2. << >> \in Seq(Row)
  OBVIOUS
<1> QED BY <1>1, <1>2 DEF fresh, OperatorProgress

\* The history is cut to its newest rows.
LEMMA KeptRows ==
  ASSUME NEW S, NEW rows \in Seq(S)
  PROVE  LET n == Len(rows)
             k == IF n > MaxRunHistory THEN MaxRunHistory ELSE n
         IN  /\ Kept(rows) \in Seq(S) /\ Len(Kept(rows)) = k
             /\ \A i \in 1 .. k : Kept(rows)[i] = rows[n - k + i]
<1> DEFINE n == Len(rows)
           from == IF n > MaxRunHistory THEN n - MaxRunHistory + 1 ELSE 1
<1>1. n \in Nat /\ from \in Int /\ MaxRunHistory \in Nat \ {0}
  BY LenProperties, HistoryAssumption
<1>2. \A i \in from .. n : rows[i] \in S
  BY <1>1, ElementOfSeq
<1>3. Kept(rows) = SubSeq(rows, from, n)
  BY DEF Kept
<1> HIDE DEF from
<1>4. /\ SubSeq(rows, from, n) \in Seq(S)
      /\ Len(SubSeq(rows, from, n)) = IF from <= n THEN n - from + 1 ELSE 0
      /\ \A i \in 1 .. n - from + 1 : SubSeq(rows, from, n)[i] = rows[from + i - 1]
  BY <1>1, <1>2, SubSeqProperties
<1>5. CASE n > MaxRunHistory
  BY <1>1, <1>3, <1>4, <1>5 DEF from
<1>6. CASE ~ (n > MaxRunHistory)
  BY <1>1, <1>3, <1>4, <1>6 DEF from
<1> QED BY <1>5, <1>6

\* A scored answer leaves a record, with its row in it.
LEMMA ScoredType ==
  ASSUME NEW p \in OperatorProgress, NEW row \in Row
  PROVE  /\ Scored(p, row) \in OperatorProgress
         /\ Scored(p, row).runs # << >>
<1> DEFINE rows == Append(p.runs, row)
<1>1. p.runs \in Seq(Row)
  BY DEF OperatorProgress
<1>2. rows \in Seq(Row) /\ Len(rows) \in Nat \ {0}
  BY <1>1, AppendProperties, EmptySeq
<1> HIDE DEF rows
<1>3. Kept(rows) \in Seq(Row) /\ Len(Kept(rows)) \in Nat \ {0}
  BY <1>2, KeptRows, HistoryAssumption
<1>4. p.correct + (IF row.correct THEN 1 ELSE 0) \in Nat /\ p.attempts + 1 \in Nat
  BY DEF OperatorProgress, Row
<1>5. [p.streak EXCEPT ![row.item] = StreakAfter(@, row.correct)] \in [Items -> Nat]
  BY DEF OperatorProgress, Row, StreakAfter
<1>6. row.after \in Ratings
  BY DEF Row
<1>7. Scored(p, row) \in OperatorProgress
  BY <1>3, <1>4, <1>5, <1>6 DEF Scored, OperatorProgress, rows
<1>8. Scored(p, row).runs = Kept(rows) /\ Kept(rows) # << >>
  BY <1>3, EmptySeq DEF Scored, rows
<1> QED BY <1>7, <1>8

\* The number of an attempt is a number.
LEMMA AttemptsType ==
  ASSUME NEW p \in OperatorProgress, NEW item
  PROVE  Attempts(p, item) \in Nat
<1> DEFINE which == {i \in DOMAIN p.runs : p.runs[i].item = item}
<1>1. Len(p.runs) \in Nat /\ DOMAIN p.runs = 1 .. Len(p.runs)
  BY DEF OperatorProgress
<1>2. IsFiniteSet(1 .. Len(p.runs)) /\ which \subseteq 1 .. Len(p.runs)
  BY <1>1, FS_Interval
<1>3. IsFiniteSet(which)
  BY <1>2, FS_Subset
<1> QED BY <1>3, FS_CardinalityType DEF Attempts

\* What a read gives back is a record of the operator.
LEMMA LoadType ==
  ASSUME NEW blob \in Blob, NEW op \in Operators
  PROVE  LoadFrom(blob, op) \in OperatorProgress
  BY FreshType DEF LoadFrom, Blob

LEMMA ReadType == ASSUME file \in Blob PROVE ReadBack \subseteq Blob
  BY DEF ReadBack, Blob, NoFile

LEMMA BlankType == blank \in Frame /\ NoFile \in Blob
  BY FreshType DEF blank, Frame, NoFile, Blob, Verdicts

-----------------------------------------------------------------------------
(* Types *)

\* What is at hand when a thread takes a step.
LEMMA Given ==
  ASSUME TInv, NEW w \in Workers
  PROVE  /\ SharedType /\ Len(runs) \in Nat
         /\ mine[w] \in Frame /\ pc[w] \in Steps /\ Fits(pc[w], mine[w], Len(runs))
         /\ mine = [mine EXCEPT ![w] = mine[w]]
         /\ pc = [pc EXCEPT ![w] = pc[w]]
<1>1. SharedType /\ mine \in [Workers -> Frame] /\ pc \in [Workers -> Steps] /\ Frames
  BY DEF TInv, TypeOK, SharedType, Steps
<1>2. Len(runs) \in Nat
  BY <1>1, LenProperties DEF SharedType
<1> QED BY <1>1, <1>2 DEF Frames

\* A thread goes to a step with a frame that fits it; runs are never taken back.
LEMMA MoveKeeps ==
  ASSUME TInv, NEW w \in Workers, NEW step \in Steps, NEW frame \in Frame,
         pc' = [pc EXCEPT ![w] = step], mine' = [mine EXCEPT ![w] = frame],
         SharedType', Len(runs') >= Len(runs), Fits(step, frame, Len(runs'))
  PROVE  TInv'
<1>1. mine \in [Workers -> Frame] /\ pc \in [Workers -> Steps] /\ Frames
  BY DEF TInv, TypeOK, Steps
<1>2. mine' \in [Workers -> Frame] /\ pc' \in [Workers -> Steps]
  BY <1>1
<1>3. TypeOK'
  BY <1>2 DEF TypeOK, SharedType, Steps
<1>4. Len(runs) \in Nat /\ Len(runs') \in Nat
  BY LenProperties DEF SharedType, TInv, TypeOK
<1>5. ASSUME NEW v \in Workers
      PROVE  Fits(pc'[v], mine'[v], Len(runs'))
  <2>1. CASE v = w
    BY <1>1, <2>1
  <2>2. CASE v # w
    <3>1. pc'[v] = pc[v] /\ mine'[v] = mine[v] /\ Fits(pc[v], mine[v], Len(runs))
      BY <1>1, <2>2 DEF Frames
    <3> QED BY <1>4, <3>1 DEF Fits
  <2> QED BY <2>1, <2>2
<1> QED BY <1>3, <1>5 DEF TInv, Frames

\* Nothing that is shared moves.
LEMMA StepKeeps ==
  ASSUME TInv, NEW w \in Workers, NEW step \in Steps, NEW frame \in Frame,
         pc' = [pc EXCEPT ![w] = step], mine' = [mine EXCEPT ![w] = frame],
         UNCHANGED shared, Fits(step, frame, Len(runs))
  PROVE  TInv'
<1>1. SharedType /\ Len(runs) \in Nat
  BY Given
<1>2. SharedType' /\ runs' = runs
  BY <1>1 DEF SharedType, shared
<1>3. Len(runs') >= Len(runs) /\ Fits(step, frame, Len(runs'))
  BY <1>1, <1>2
<1> QED BY <1>2, <1>3, MoveKeeps

\* A request ends: its thread is idle and its frame blank.
LEMMA BlankFits == ASSUME NEW made PROVE "idle" \in Steps /\ Fits("idle", blank, made)
  BY DEF Fits, blank, Steps, EvictSteps, ScoreSteps

LEMMA TypeInit == Init => TInv
<1> SUFFICES ASSUME Init PROVE TInv
  OBVIOUS
<1>1. Len(runs) = 0 /\ runs \in Seq(Held) /\ pending \in Seq(1 .. Len(runs))
  BY EmptySeq DEF Init
<1>2. withheld \in [Items -> Reasons \cup {None, "unresolvable"}]
  BY DEF Init, AtBoot
<1>3. TypeOK
  BY <1>1, <1>2, BlankType DEF Init, TypeOK
<1>4. Frames
  BY BlankFits DEF Init, Frames
<1> QED BY <1>3, <1>4 DEF TInv

LEMMA FinishKeeps ==
  ASSUME TInv, NEW w \in Workers, Finish(w), UNCHANGED shared
  PROVE  TInv'
  BY BlankFits, BlankType, StepKeeps DEF Finish, Goto, Become

LEMMA ServeKeeps ==
  ASSUME TInv, NEW w \in Workers, NEW op \in Operators, NEW want \in Wanted,
         Serve(w, op, want)
  PROVE  TInv'
<1> DEFINE frame == [blank EXCEPT !.op = op, !.item = want, !.named = (want # None)]
<1>1. frame \in Frame /\ Fits("load", frame, Len(runs)) /\ "load" \in Steps
  BY BlankType, SetsAssumption
  DEF Fits, Frame, blank, Steps, EvictSteps, ServeSteps, ScoreSteps
<1>2. /\ pc' = [pc EXCEPT ![w] = "load"] /\ mine' = [mine EXCEPT ![w] = frame]
      /\ UNCHANGED shared
  BY DEF Serve, Goto, Become
<1> QED BY <1>1, <1>2, StepKeeps

LEMMA ServeLoadKeeps ==
  ASSUME TInv, NEW w \in Workers, ServeLoad(w)
  PROVE  TInv'
<1>1. /\ SharedType /\ mine[w] \in Frame
      /\ pc[w] = "load" /\ Fits("load", mine[w], Len(runs))
  BY Given DEF ServeLoad
<1>2. PICK blob \in ReadBack :
        mine' = [mine EXCEPT ![w] = [mine[w] EXCEPT !.copy = LoadFrom(blob, mine[w].op)]]
  BY DEF ServeLoad, Become
<1> DEFINE frame == [mine[w] EXCEPT !.copy = LoadFrom(blob, mine[w].op)]
<1>3. LoadFrom(blob, mine[w].op) \in OperatorProgress
  BY <1>1, <1>2, ReadType, LoadType DEF SharedType, Fits
<1>4. frame \in Frame /\ Fits("select", frame, Len(runs)) /\ "select" \in Steps
  BY <1>1, <1>3 DEF Fits, Frame, Steps, EvictSteps, ServeSteps, ScoreSteps
<1>5. /\ pc' = [pc EXCEPT ![w] = "select"] /\ mine' = [mine EXCEPT ![w] = frame]
      /\ UNCHANGED shared
  BY <1>2 DEF ServeLoad, Goto
<1> QED BY <1>4, <1>5, StepKeeps

LEMMA SelectKeeps ==
  ASSUME TInv, NEW w \in Workers, Select(w)
  PROVE  TInv'
<1>1. mine[w] \in Frame /\ pc[w] = "select" /\ Fits("select", mine[w], Len(runs))
  BY Given DEF Select
<1>2. PICK i \in IF mine[w].named THEN {mine[w].item} ELSE Scorable :
        mine' = [mine EXCEPT ![w] =
                   [mine[w] EXCEPT !.item = i, !.seed = Attempts(mine[w].copy, i)]]
  BY DEF Select, Become
<1> DEFINE frame == [mine[w] EXCEPT !.item = i, !.seed = Attempts(mine[w].copy, i)]
<1>3. i \in Items
  BY <1>1, <1>2 DEF Fits, Scorable
<1>4. Attempts(mine[w].copy, i) \in Nat
  BY <1>1, AttemptsType DEF Frame
<1>5. frame \in Frame /\ Fits("render", frame, Len(runs)) /\ "render" \in Steps
  BY <1>1, <1>3, <1>4 DEF Fits, Frame, Steps, EvictSteps, ServeSteps, ScoreSteps
<1>6. /\ pc' = [pc EXCEPT ![w] = "render"] /\ mine' = [mine EXCEPT ![w] = frame]
      /\ UNCHANGED shared
  BY <1>2 DEF Select, Goto
<1> QED BY <1>5, <1>6, StepKeeps

LEMMA RenderKeeps ==
  ASSUME TInv, NEW w \in Workers, Render(w)
  PROVE  TInv'
<1>1. /\ mine[w] \in Frame /\ mine = [mine EXCEPT ![w] = mine[w]]
      /\ pc[w] = "render" /\ Fits("render", mine[w], Len(runs))
  BY Given DEF Render
<1>2. Fits("hold", mine[w], Len(runs)) /\ "hold" \in Steps
  BY <1>1 DEF Fits, Steps, EvictSteps, ServeSteps, ScoreSteps
<1>3. /\ pc' = [pc EXCEPT ![w] = "hold"] /\ mine' = [mine EXCEPT ![w] = mine[w]]
      /\ UNCHANGED shared
  BY <1>1 DEF Render, Goto
<1> QED BY <1>1, <1>2, <1>3, StepKeeps

LEMMA RenderRefusedKeeps ==
  ASSUME TInv, NEW w \in Workers, NEW why \in Reasons, RenderRefused(w, why)
  PROVE  TInv'
<1> DEFINE frame == [mine[w] EXCEPT !.reason = why]
<1>1. mine[w] \in Frame /\ pc[w] = "render" /\ Fits("render", mine[w], Len(runs))
  BY Given DEF RenderRefused
<1>2. frame \in Frame /\ Fits("withhold", frame, Len(runs)) /\ "withhold" \in Steps
  BY <1>1 DEF Fits, Frame, Steps, EvictSteps, ServeSteps, ScoreSteps
<1>3. /\ pc' = [pc EXCEPT ![w] = "withhold"] /\ mine' = [mine EXCEPT ![w] = frame]
      /\ UNCHANGED shared
  BY DEF RenderRefused, Goto, Become
<1> QED BY <1>2, <1>3, StepKeeps

\* Another try, or the end of the request.
LEMMA RetryMoves ==
  ASSUME TInv, NEW w \in Workers, pc[w] \in {"withhold", "note"}, Retry(w)
  PROVE  \E step \in Steps, frame \in Frame :
           /\ pc' = [pc EXCEPT ![w] = step] /\ mine' = [mine EXCEPT ![w] = frame]
           /\ Fits(step, frame, Len(runs))
<1>1. mine[w] \in Frame /\ Fits(pc[w], mine[w], Len(runs))
  BY Given
<1>2. CASE mine[w].named \/ mine[w].tries + 1 >= MaxTries
  BY <1>2, BlankFits, BlankType DEF Retry, Finish, Goto, Become
<1>3. CASE ~ (mine[w].named \/ mine[w].tries + 1 >= MaxTries)
  <2> DEFINE frame == [mine[w] EXCEPT !.tries = @ + 1]
  <2>1. frame \in Frame /\ Fits("select", frame, Len(runs)) /\ "select" \in Steps
    BY <1>1 DEF Fits, Frame, Steps, EvictSteps, ServeSteps, ScoreSteps
  <2>2. pc' = [pc EXCEPT ![w] = "select"] /\ mine' = [mine EXCEPT ![w] = frame]
    BY <1>3 DEF Retry, Goto, Become
  <2> QED BY <2>1, <2>2
<1> QED BY <1>2, <1>3

LEMMA WithholdKeeps ==
  ASSUME TInv, NEW w \in Workers, Withhold(w)
  PROVE  TInv'
<1>1. CASE withheld[mine[w].item] = None
  <2>1. /\ mine[w] \in Frame /\ mine = [mine EXCEPT ![w] = mine[w]]
        /\ pc[w] = "withhold" /\ Fits("withhold", mine[w], Len(runs))
    BY Given DEF Withhold
  <2>2. Fits("note", mine[w], Len(runs)) /\ "note" \in Steps
    BY <2>1 DEF Fits, Steps, EvictSteps, ServeSteps, ScoreSteps
  <2>3. /\ pc' = [pc EXCEPT ![w] = "note"] /\ mine' = [mine EXCEPT ![w] = mine[w]]
        /\ UNCHANGED shared
    BY <1>1, <2>1 DEF Withhold, Goto
  <2> QED BY <2>1, <2>2, <2>3, StepKeeps
<1>2. CASE withheld[mine[w].item] # None
  <2>1. pc[w] = "withhold" /\ Retry(w) /\ UNCHANGED shared
    BY <1>2 DEF Withhold
  <2> QED BY <2>1, RetryMoves, StepKeeps
<1> QED BY <1>1, <1>2

LEMMA NoteReasonKeeps ==
  ASSUME TInv, NEW w \in Workers, NoteReason(w)
  PROVE  TInv'
<1>1. SharedType /\ Fits(pc[w], mine[w], Len(runs)) /\ Len(runs) \in Nat
  BY Given
<1>2. pc[w] = "note" /\ Retry(w)
  BY DEF NoteReason
<1>3. PICK step \in Steps, frame \in Frame :
        /\ pc' = [pc EXCEPT ![w] = step] /\ mine' = [mine EXCEPT ![w] = frame]
        /\ Fits(step, frame, Len(runs))
  BY <1>2, RetryMoves
<1>4. mine[w].item \in Items /\ mine[w].reason \in Reasons
  BY <1>1, <1>2 DEF Fits
<1>5. SharedType' /\ runs' = runs
  BY <1>1, <1>4 DEF NoteReason, SharedType
<1>6. Len(runs') >= Len(runs) /\ Fits(step, frame, Len(runs'))
  BY <1>1, <1>3, <1>5
<1> QED BY <1>3, <1>5, <1>6, MoveKeeps

\* The map without a run it holds is the map with the places behind it closed up.
LEMMA WithoutIs ==
  ASSUME NEW S, pending \in Seq(S), NEW r, InPending(r)
  PROVE  \E at \in 1 .. Len(pending) :
           /\ pending[at] = r
           /\ Without(r) \in Seq(S) /\ Len(Without(r)) = Len(pending) - 1
           /\ \A i \in 1 .. Len(pending) - 1 :
                Without(r)[i] = IF i < at THEN pending[i] ELSE pending[i + 1]
<1> DEFINE at == CHOOSE i \in DOMAIN pending : pending[i] = r
           n == Len(pending)
           front == SubSeq(pending, 1, at - 1)
           back == SubSeq(pending, at + 1, n)
<1>1. at \in 1 .. n /\ pending[at] = r /\ n \in Nat
  BY LenProperties DEF InPending
<1>2. Without(r) = front \o back
  BY DEF Without, RemoveAt
<1> HIDE DEF at
<1>3. /\ front \in Seq(S) /\ Len(front) = at - 1
      /\ \A i \in 1 .. at - 1 : front[i] = pending[i]
  <2>1. at - 1 \in Int /\ \A i \in 1 .. at - 1 : pending[i] \in S
    BY <1>1, ElementOfSeq
  <2>2. /\ front \in Seq(S) /\ Len(front) = IF 1 <= at - 1 THEN at - 1 - 1 + 1 ELSE 0
        /\ \A i \in 1 .. at - 1 - 1 + 1 : front[i] = pending[1 + i - 1]
    BY <2>1, SubSeqProperties
  <2> QED BY <1>1, <2>2
<1>4. /\ back \in Seq(S) /\ Len(back) = n - at
      /\ \A i \in 1 .. n - at : back[i] = pending[at + i]
  <2>1. at + 1 \in Int /\ n \in Int /\ \A i \in at + 1 .. n : pending[i] \in S
    BY <1>1, ElementOfSeq
  <2>2. /\ back \in Seq(S) /\ Len(back) = IF at + 1 <= n THEN n - (at + 1) + 1 ELSE 0
        /\ \A i \in 1 .. n - (at + 1) + 1 : back[i] = pending[at + 1 + i - 1]
    BY <2>1, SubSeqProperties
  <2> QED BY <1>1, <2>2
<1> HIDE DEF front, back
<1>5. /\ front \o back \in Seq(S) /\ Len(front \o back) = Len(front) + Len(back)
      /\ \A i \in 1 .. Len(front) + Len(back) :
           (front \o back)[i] = IF i <= Len(front) THEN front[i] ELSE back[i - Len(front)]
  BY <1>3, <1>4, ConcatProperties
<1>6. /\ Without(r) \in Seq(S) /\ Len(Without(r)) = n - 1
      /\ \A i \in 1 .. n - 1 : Without(r)[i] = IF i < at THEN pending[i] ELSE pending[i + 1]
  BY <1>1, <1>2, <1>3, <1>4, <1>5
<1> QED BY <1>1, <1>6

LEMMA HoldKeeps ==
  ASSUME TInv, NEW w \in Workers, Hold(w)
  PROVE  TInv'
<1> DEFINE entry == [item |-> mine[w].item, seed |-> mine[w].seed,
                     result |-> None, known |-> FALSE]
           frame == [mine[w] EXCEPT !.run = Len(runs')]
<1>1. /\ SharedType /\ Len(runs) \in Nat /\ mine[w] \in Frame
      /\ pc[w] = "hold" /\ Fits("hold", mine[w], Len(runs))
  BY Given DEF Hold
<1>2. entry \in Held
  BY <1>1 DEF Fits, Held, Frame
<1>3. runs' = Append(runs, entry) /\ pending' = Append(pending, Len(runs'))
  BY DEF Hold
<1>4. runs' \in Seq(Held) /\ Len(runs') = Len(runs) + 1
  BY <1>1, <1>2, <1>3, AppendProperties DEF SharedType
<1>5. pending \in Seq(1 .. Len(runs')) /\ Len(runs') \in 1 .. Len(runs')
  <2>1. 1 .. Len(runs) \subseteq 1 .. Len(runs')
    BY <1>1, <1>4
  <2>2. pending \in Seq(1 .. Len(runs))
    BY <1>1 DEF SharedType
  <2> QED BY <1>1, <1>4, <2>1, <2>2, SeqMonotonic
<1>6. pending' \in Seq(1 .. Len(runs'))
  BY <1>3, <1>5, AppendProperties
<1>7. SharedType'
  BY <1>1, <1>4, <1>6 DEF Hold, served, SharedType
<1>8. frame \in Frame /\ Fits("evict", frame, Len(runs')) /\ "evict" \in Steps
  <2>1. Len(runs') \in Nat
    BY <1>1, <1>4
  <2>2. frame \in Frame
    BY <1>1, <2>1 DEF Frame
  <2>3. frame.run = Len(runs') /\ frame.named = mine[w].named /\ frame.item = mine[w].item
        /\ frame.op = mine[w].op
    BY <1>1 DEF Frame
  <2> QED
    BY <1>1, <1>5, <2>2, <2>3 DEF Fits, Steps, EvictSteps, ServeSteps, ScoreSteps
<1>9. pc' = [pc EXCEPT ![w] = "evict"] /\ mine' = [mine EXCEPT ![w] = frame]
  BY DEF Hold, Goto, Become
<1>10. Len(runs') >= Len(runs)
  BY <1>1, <1>4
<1> QED BY <1>7, <1>8, <1>9, <1>10, MoveKeeps

LEMMA ScanBeginKeeps ==
  ASSUME TInv, NEW w \in Workers, ScanBegin(w)
  PROVE  TInv'
<1>0. PICK old \in Cutoffs :
        mine' = [mine EXCEPT ![w] = [mine[w] EXCEPT !.expired = old, !.seen = pending]]
  BY DEF ScanBegin, Become
<1> DEFINE frame == [mine[w] EXCEPT !.expired = old, !.seen = pending]
<1>1. /\ SharedType /\ Len(runs) \in Nat /\ mine[w] \in Frame
      /\ pc[w] = "evict" /\ Fits("evict", mine[w], Len(runs))
  BY Given DEF ScanBegin
<1>2. pending \in Seq(Nat)
  BY <1>1, SeqMonotonic DEF SharedType
<1>3. old \in SUBSET Nat
  BY <1>1, LenProperties DEF SharedType, Cutoffs
<1>4. frame \in Frame /\ Fits("scan", frame, Len(runs)) /\ "scan" \in Steps
  BY <1>1, <1>2, <1>3 DEF Fits, Frame, Steps, EvictSteps, ServeSteps, ScoreSteps
<1>5. /\ pc' = [pc EXCEPT ![w] = "scan"] /\ mine' = [mine EXCEPT ![w] = frame]
      /\ UNCHANGED shared
  BY <1>0 DEF ScanBegin, Goto
<1> QED BY <1>4, <1>5, StepKeeps

LEMMA ScanEndKeeps ==
  ASSUME TInv, NEW w \in Workers, ScanEnd(w)
  PROVE  TInv'
<1>1. CASE pending = mine[w].seen
  <2> DEFINE frame == [mine[w] EXCEPT !.seen = << >>]
  <2>1. /\ mine[w] \in Frame /\ pc[w] = "scan" /\ Fits("scan", mine[w], Len(runs))
    BY Given DEF ScanEnd
  <2>2. frame \in Frame /\ Fits("drop", frame, Len(runs)) /\ "drop" \in Steps
    BY <2>1, EmptySeq DEF Fits, Frame, Steps, EvictSteps, ServeSteps, ScoreSteps
  <2>3. /\ pc' = [pc EXCEPT ![w] = "drop"] /\ mine' = [mine EXCEPT ![w] = frame]
        /\ UNCHANGED shared
    BY <1>1 DEF ScanEnd, Goto, Become
  <2> QED BY <2>2, <2>3, StepKeeps
<1>2. CASE pending # mine[w].seen
  BY <1>2, FinishKeeps DEF ScanEnd
<1> QED BY <1>1, <1>2

\* The oldest of a thread's expired runs.
Oldest(w) == CHOOSE r \in mine[w].expired : \A q \in mine[w].expired : r <= q

LEMMA DropKeeps ==
  ASSUME TInv, NEW w \in Workers, DropExpired(w)
  PROVE  TInv'
<1>1. CASE InPending(Oldest(w))
  <2> DEFINE frame == [mine[w] EXCEPT !.expired = @ \ {Oldest(w)}]
  <2>1. /\ SharedType /\ Len(runs) \in Nat /\ mine[w] \in Frame
        /\ pc[w] = "drop" /\ Fits("drop", mine[w], Len(runs)) /\ pc = [pc EXCEPT ![w] = pc[w]]
    BY Given DEF DropExpired
  <2>2. /\ pending' = Without(Oldest(w)) /\ UNCHANGED <<served, runs, pc>>
        /\ mine' = [mine EXCEPT ![w] = frame]
    BY <1>1 DEF DropExpired, Oldest, Become
  <2>3. Without(Oldest(w)) \in Seq(1 .. Len(runs))
    BY <1>1, <2>1, WithoutIs DEF SharedType
  <2>4. SharedType' /\ Len(runs') >= Len(runs)
    BY <2>1, <2>2, <2>3 DEF SharedType, served
  <2>5. frame \in Frame
    BY <2>1 DEF Frame
  <2>6. Fits("drop", frame, Len(runs')) /\ "drop" \in Steps
    BY <2>1, <2>2 DEF Fits, Frame, Steps, EvictSteps, ServeSteps, ScoreSteps
  <2>7. pc' = [pc EXCEPT ![w] = "drop"]
    BY <2>1, <2>2
  <2> QED BY <2>2, <2>4, <2>5, <2>6, <2>7, MoveKeeps
<1>2. CASE ~ InPending(Oldest(w))
  BY <1>2, FinishKeeps DEF DropExpired, Oldest, served, shared
<1> QED BY <1>1, <1>2

LEMMA CountKeeps ==
  ASSUME TInv, NEW w \in Workers, CountPending(w)
  PROVE  TInv'
<1>1. /\ SharedType /\ Len(runs) \in Nat /\ mine[w] \in Frame
      /\ pc[w] \in {"count", "drop"} /\ Fits(pc[w], mine[w], Len(runs))
      /\ mine = [mine EXCEPT ![w] = mine[w]]
  BY Given DEF CountPending
<1>2. mine[w].run \in 1 .. Len(runs)
  BY <1>1 DEF Fits, EvictSteps
<1>3. CASE Len(pending) > MaxPending
  <2>1. Fits("pop", mine[w], Len(runs)) /\ "pop" \in Steps
    BY <1>1 DEF Fits, Steps, EvictSteps, ServeSteps, ScoreSteps
  <2>2. /\ pc' = [pc EXCEPT ![w] = "pop"] /\ mine' = [mine EXCEPT ![w] = mine[w]]
        /\ UNCHANGED shared
    BY <1>1, <1>3 DEF CountPending, Goto, served, shared
  <2> QED BY <1>1, <2>1, <2>2, StepKeeps
<1>4. CASE ~ (Len(pending) > MaxPending)
  <2>1. /\ runs' = [runs EXCEPT ![mine[w].run].known = TRUE]
        /\ Finish(w) /\ UNCHANGED <<served, pending>>
    BY <1>4 DEF CountPending
  <2>2. runs \in Seq(Held) /\ [runs[mine[w].run] EXCEPT !.known = TRUE] \in Held
    <3>1. runs \in Seq(Held) /\ runs[mine[w].run] \in Held
      BY <1>1, <1>2, ElementOfSeq DEF SharedType
    <3> QED BY <3>1 DEF Held
  <2>3. runs' \in Seq(Held) /\ Len(runs') = Len(runs)
    BY <1>2, <2>1, <2>2, ExceptSeq
  <2>4. SharedType' /\ Len(runs') >= Len(runs)
    BY <1>1, <2>1, <2>3 DEF SharedType, served
  <2> QED BY <2>1, <2>4, BlankFits, BlankType, MoveKeeps DEF Finish, Goto, Become
<1> QED BY <1>3, <1>4

LEMMA PopKeeps ==
  ASSUME TInv, NEW w \in Workers, PopOldest(w)
  PROVE  TInv'
<1>1. CASE pending # << >>
  <2>1. /\ SharedType /\ Len(runs) \in Nat /\ mine[w] \in Frame
        /\ pc[w] = "pop" /\ Fits("pop", mine[w], Len(runs))
        /\ mine = [mine EXCEPT ![w] = mine[w]]
    BY Given DEF PopOldest
  <2>2. /\ pending' = Tail(pending) /\ pc' = [pc EXCEPT ![w] = "count"]
        /\ UNCHANGED <<served, runs, mine>>
    BY <1>1 DEF PopOldest, Goto
  <2>3. Tail(pending) \in Seq(1 .. Len(runs))
    BY <1>1, <2>1, HeadTailProperties DEF SharedType
  <2>4. SharedType' /\ Len(runs') >= Len(runs)
    BY <2>1, <2>2, <2>3 DEF SharedType, served
  <2>5. Fits("count", mine[w], Len(runs')) /\ "count" \in Steps
    BY <2>1, <2>2 DEF Fits, Steps, EvictSteps, ServeSteps, ScoreSteps
  <2>6. mine' = [mine EXCEPT ![w] = mine[w]]
    BY <2>1, <2>2
  <2> QED BY <2>1, <2>2, <2>4, <2>5, <2>6, MoveKeeps
<1>2. CASE pending = << >>
  BY <1>2, FinishKeeps DEF PopOldest, served, shared
<1> QED BY <1>1, <1>2

LEMMA ScoreKeeps ==
  ASSUME TInv, NEW w \in Workers, NEW op \in Operators, NEW r \in DOMAIN runs,
         NEW verdict \in Verdicts, Score(w, op, r, verdict)
  PROVE  TInv'
<1> DEFINE frame == [blank EXCEPT !.op = op, !.run = r, !.verdict = verdict]
<1>1. Len(runs) \in Nat /\ r \in 1 .. Len(runs)
  BY Given, LenProperties DEF SharedType
<1>2. r \in Nat /\ blank \in Frame
  BY <1>1, BlankType
<1>3. frame \in Frame
  BY <1>2 DEF Frame
<1>4. Fits("find", frame, Len(runs)) /\ "find" \in Steps
  BY <1>1, <1>2 DEF Fits, blank, Steps, EvictSteps, ServeSteps, ScoreSteps
<1>5. /\ pc' = [pc EXCEPT ![w] = "find"] /\ mine' = [mine EXCEPT ![w] = frame]
      /\ UNCHANGED shared
  BY DEF Score, Goto, Become
<1> QED BY <1>3, <1>4, <1>5, StepKeeps

LEMMA FindKeeps ==
  ASSUME TInv, NEW w \in Workers, Find(w)
  PROVE  TInv'
<1>1. CASE InPending(mine[w].run) /\ runs[mine[w].run].result = None
  <2> DEFINE step == IF mine[w].verdict = "unscorable" THEN "result" ELSE "progress"
  <2>1. /\ mine[w] \in Frame /\ pc[w] = "find" /\ Fits("find", mine[w], Len(runs))
        /\ mine = [mine EXCEPT ![w] = mine[w]]
    BY Given DEF Find
  <2>2. Fits(step, mine[w], Len(runs)) /\ step \in Steps
    BY <2>1 DEF Fits, Steps, EvictSteps, ServeSteps, ScoreSteps
  <2>3. /\ pc' = [pc EXCEPT ![w] = step] /\ mine' = [mine EXCEPT ![w] = mine[w]]
        /\ UNCHANGED shared
    BY <1>1, <2>1 DEF Find, Goto
  <2> HIDE DEF step
  <2> QED BY <2>1, <2>2, <2>3, StepKeeps
<1>2. CASE ~ (InPending(mine[w].run) /\ runs[mine[w].run].result = None)
  BY <1>2, FinishKeeps DEF Find
<1> QED BY <1>1, <1>2

LEMMA ScoreLoadKeeps ==
  ASSUME TInv, NEW w \in Workers, ScoreLoad(w)
  PROVE  TInv'
<1>1. /\ SharedType /\ mine[w] \in Frame
      /\ pc[w] = "progress" /\ Fits("progress", mine[w], Len(runs))
  BY Given DEF ScoreLoad
<1>2. PICK blob \in ReadBack :
        mine' = [mine EXCEPT ![w] = [mine[w] EXCEPT !.copy = LoadFrom(blob, mine[w].op)]]
  BY DEF ScoreLoad, Become
<1> DEFINE frame == [mine[w] EXCEPT !.copy = LoadFrom(blob, mine[w].op)]
<1>3. LoadFrom(blob, mine[w].op) \in OperatorProgress
  BY <1>1, <1>2, ReadType, LoadType DEF SharedType, Fits
<1>4. frame \in Frame /\ Fits("save", frame, Len(runs)) /\ "save" \in Steps
  BY <1>1, <1>3 DEF Fits, Frame, Steps, EvictSteps, ServeSteps, ScoreSteps
<1>5. /\ pc' = [pc EXCEPT ![w] = "save"] /\ mine' = [mine EXCEPT ![w] = frame]
      /\ UNCHANGED shared
  BY <1>2 DEF ScoreLoad, Goto
<1> QED BY <1>4, <1>5, StepKeeps

\* The row an answer adds.
RowOf(w, after) ==
  [run |-> mine[w].run, item |-> runs[mine[w].run].item, seed |-> PendingSeed(w),
   correct |-> mine[w].verdict = "hit", before |-> mine[w].copy.rating, after |-> after]

LEMMA RowType ==
  ASSUME TInv, NEW w \in Workers, pc[w] = "save",
         NEW after \in RatingsAfter(mine[w].copy.rating, mine[w].verdict = "hit")
  PROVE  RowOf(w, after) \in Row
<1>1. /\ SharedType /\ Len(runs) \in Nat /\ mine[w] \in Frame
      /\ Fits("save", mine[w], Len(runs))
  BY Given
<1>2. mine[w].run \in 1 .. Len(runs)
  BY <1>1 DEF Fits, ScoreSteps
<1>3. runs[mine[w].run] \in Held
  BY <1>1, <1>2, ElementOfSeq DEF SharedType
<1>4. mine[w].copy.rating \in Ratings
  BY <1>1 DEF Frame, OperatorProgress
<1>5. after \in Ratings
  BY <1>4, RatingsType
<1>6. PendingSeed(w) \in Nat \cup {NoSeed}
  BY <1>3 DEF PendingSeed, Held
<1> QED BY <1>1, <1>2, <1>3, <1>4, <1>5, <1>6 DEF RowOf, Row, Held

LEMMA RecordKeeps ==
  ASSUME TInv, NEW w \in Workers, Record(w)
  PROVE  TInv'
<1>1. /\ SharedType /\ mine[w] \in Frame
      /\ pc[w] = "save" /\ Fits("save", mine[w], Len(runs))
  BY Given DEF Record
<1>2. PICK after \in RatingsAfter(mine[w].copy.rating, mine[w].verdict = "hit"),
           blob \in ReadBack :
        mine' = [mine EXCEPT ![w] =
                   [mine[w] EXCEPT !.copy = Scored(@, RowOf(w, after)), !.blob = blob]]
  BY DEF Record, Become, RowOf
<1> DEFINE copy == Scored(mine[w].copy, RowOf(w, after))
           frame == [mine[w] EXCEPT !.copy = copy, !.blob = blob]
<1>3. copy \in OperatorProgress /\ copy.runs # << >>
  <2>1. mine[w].copy \in OperatorProgress
    BY <1>1 DEF Frame
  <2>2. RowOf(w, after) \in Row
    BY <1>1, RowType
  <2> QED BY <2>1, <2>2, ScoredType
<1>4. blob \in Blob
  BY <1>1, ReadType DEF SharedType
<1>5. /\ pc' = [pc EXCEPT ![w] = "write"] /\ mine' = [mine EXCEPT ![w] = frame]
      /\ UNCHANGED shared
  BY <1>1, <1>2 DEF Record, Goto
<1> HIDE DEF copy
<1>6. frame \in Frame
  BY <1>1, <1>3, <1>4 DEF Frame
<1>7. Fits("write", frame, Len(runs)) /\ "write" \in Steps
  BY <1>1, <1>3 DEF Fits, Frame, Steps, EvictSteps, ServeSteps, ScoreSteps
<1> QED BY <1>5, <1>6, <1>7, StepKeeps

LEMMA SaveWriteKeeps ==
  ASSUME TInv, NEW w \in Workers, SaveWrite(w)
  PROVE  TInv'
<1>1. /\ SharedType /\ Len(runs) \in Nat /\ mine[w] \in Frame
      /\ pc[w] = "write" /\ Fits("write", mine[w], Len(runs))
      /\ mine = [mine EXCEPT ![w] = mine[w]]
  BY Given DEF SaveWrite
<1>2. file' \in Blob
  BY <1>1 DEF SaveWrite, Frame, Fits, Blob
<1>3. SharedType' /\ runs' = runs /\ Len(runs') >= Len(runs)
  BY <1>1, <1>2 DEF SaveWrite, SharedType
<1>4. Fits("result", mine[w], Len(runs')) /\ "result" \in Steps
  BY <1>1, <1>3 DEF Fits, Steps, EvictSteps, ServeSteps, ScoreSteps
<1>5. pc' = [pc EXCEPT ![w] = "result"] /\ mine' = [mine EXCEPT ![w] = mine[w]]
  BY <1>1 DEF SaveWrite, Goto
<1> QED BY <1>1, <1>3, <1>4, <1>5, MoveKeeps

\* What a thread remembers of its answer is a result.
LEMMA ResultType ==
  ASSUME NEW w \in Workers, mine[w] \in Frame, Fits("result", mine[w], Len(runs))
  PROVE  ResultOf(w) \in Result
<1>1. CASE mine[w].verdict = "unscorable"
  BY <1>1, RatingAssumption DEF ResultOf, Result, Verdicts, Ratings
<1>2. CASE mine[w].verdict # "unscorable"
  <2> DEFINE kept == mine[w].copy.runs
  <2>1. kept \in Seq(Row) /\ kept # << >>
    BY <1>2 DEF Fits, Frame, OperatorProgress
  <2>2. kept[Len(kept)] \in Row
    BY <2>1, EmptySeq, ElementOfSeq
  <2>3. ResultOf(w) = [verdict |-> mine[w].verdict, before |-> kept[Len(kept)].before,
                       after |-> kept[Len(kept)].after]
    BY <1>2 DEF ResultOf
  <2> HIDE DEF kept
  <2> QED BY <1>2, <2>2, <2>3 DEF Result, Row, Frame
<1> QED BY <1>1, <1>2

LEMMA SetResultKeeps ==
  ASSUME TInv, NEW w \in Workers, SetResult(w)
  PROVE  TInv'
<1>1. /\ SharedType /\ Len(runs) \in Nat /\ mine[w] \in Frame
      /\ pc[w] = "result" /\ Fits("result", mine[w], Len(runs))
  BY Given DEF SetResult
<1>2. mine[w].run \in 1 .. Len(runs)
  BY <1>1 DEF Fits, ScoreSteps
<1>3. ResultOf(w) \in Result
  BY <1>1, ResultType
<1>4. runs \in Seq(Held) /\ [runs[mine[w].run] EXCEPT !.result = ResultOf(w)] \in Held
  <2>1. runs \in Seq(Held) /\ runs[mine[w].run] \in Held
    BY <1>1, <1>2, ElementOfSeq DEF SharedType
  <2> QED BY <1>3, <2>1 DEF Held
<1>5. /\ runs' = [runs EXCEPT ![mine[w].run].result = ResultOf(w)]
      /\ Finish(w) /\ UNCHANGED <<served, pending>>
  BY DEF SetResult
<1>6. runs' \in Seq(Held) /\ Len(runs') = Len(runs)
  BY <1>2, <1>4, <1>5, ExceptSeq
<1>7. SharedType' /\ Len(runs') >= Len(runs)
  BY <1>1, <1>5, <1>6 DEF SharedType, served
<1> QED BY <1>5, <1>7, BlankFits, BlankType, MoveKeeps DEF Finish, Goto, Become

LEMMA RestartKeeps == ASSUME TInv, Restart PROVE TInv'
<1>1. Len(runs) \in Nat /\ << >> \in Seq(1 .. Len(runs))
  BY LenProperties, EmptySeq DEF TInv, TypeOK
<1>2. AtBoot \in [Items -> Reasons \cup {None, "unresolvable"}]
  BY DEF AtBoot
<1>3. TypeOK'
  BY <1>1, <1>2, BlankType DEF Restart, TInv, TypeOK
<1>4. Frames'
  BY BlankFits DEF Restart, Frames
<1> QED BY <1>3, <1>4 DEF TInv

LEMMA TypeStep == TInv /\ [Next]_vars => TInv'
<1> SUFFICES ASSUME TInv, [Next]_vars PROVE TInv'
  OBVIOUS
<1>1. ASSUME NEW w \in Workers, NEW op \in Operators, NEW want \in Wanted, Serve(w, op, want)
      PROVE  TInv'
  BY <1>1, ServeKeeps
<1>2. ASSUME NEW w \in Workers, NEW op \in Operators, NEW r \in DOMAIN runs,
             NEW v \in Verdicts, Score(w, op, r, v)
      PROVE  TInv'
  BY <1>2, ScoreKeeps
<1>3. ASSUME NEW w \in Workers, Run(w)
      PROVE  TInv'
  <2>1. CASE ServeLoad(w) \/ Select(w) \/ Render(w) \/ Withhold(w) \/ NoteReason(w)
    BY <2>1, ServeLoadKeeps, SelectKeeps, RenderKeeps, WithholdKeeps, NoteReasonKeeps
  <2>2. CASE \E why \in Reasons : RenderRefused(w, why)
    BY <2>2, RenderRefusedKeeps
  <2>3. CASE SelectNothing(w) \/ SaveFails(w)
    BY <2>3, FinishKeeps DEF SelectNothing, SaveFails
  <2>4. CASE Hold(w) \/ ScanBegin(w) \/ ScanEnd(w) \/ DropExpired(w) \/ CountPending(w)
               \/ PopOldest(w)
    BY <2>4, HoldKeeps, ScanBeginKeeps, ScanEndKeeps, DropKeeps, CountKeeps, PopKeeps
  <2>5. CASE Find(w) \/ ScoreLoad(w) \/ Record(w) \/ SaveWrite(w) \/ SetResult(w)
    BY <2>5, FindKeeps, ScoreLoadKeeps, RecordKeeps, SaveWriteKeeps, SetResultKeeps
  <2> QED BY <1>3, <2>1, <2>2, <2>3, <2>4, <2>5 DEF Run
<1>4. CASE UNCHANGED vars
  BY <1>4 DEF vars, TInv, TypeOK, Frames
<1> QED BY <1>1, <1>2, <1>3, <1>4, RestartKeeps DEF Next

LEMMA TInvHolds == Spec => []TInv
  BY TypeInit, TypeStep, PTL DEF Spec

\* Every variable and every thread's frame keeps its type: in particular every rating
\* that is stored stays in its band.
THEOREM DrillTypeOK == Spec => []TypeOK
<1>1. TInv => TypeOK BY DEF TInv
<1> QED BY <1>1, TInvHolds, PTL

-----------------------------------------------------------------------------
(* The bound of the map *)

\* The map holds the newest runs, in order and without gaps: serving adds the next one,
\* and whoever takes one away takes the oldest.
Unbroken ==
  \A i \in 1 .. Len(pending) : pending[i] = Len(runs) - Len(pending) + i

\* The expired runs a thread found are what it saw, and among those still held, the
\* oldest ones.
Scans ==
  \A w \in Workers :
    /\ pc[w] = "scan" => \A e \in mine[w].expired : \E i \in DOMAIN mine[w].seen : mine[w].seen[i] = e
    /\ pc[w] \in {"scan", "drop"} =>
         \A e \in mine[w].expired :
           /\ e <= Len(runs)
           /\ \A q \in Nat : InPending(q) /\ q < e => q \in mine[w].expired

\* A thread that will still count what is held: nobody has pulled the map from under it.
WillCount(w) ==
  \/ pc[w] \in {"evict", "count", "pop"}
  \/ pc[w] = "scan" /\ mine[w].seen = pending
  \/ pc[w] = "drop" /\ \A e \in mine[w].expired : InPending(e)

\* While the map is over its bound, somebody has yet to count it.
SomebodyCounts == Len(pending) > MaxPending => \E w \in Workers : WillCount(w)

EInv == Unbroken /\ Scans /\ SomebodyCounts

\* The runs that are held.
LEMMA HeldAre ==
  ASSUME TInv, Unbroken, NEW q \in Nat
  PROVE  /\ Len(pending) \in Nat /\ Len(runs) \in Nat
         /\ InPending(q) <=> q \in Len(runs) - Len(pending) + 1 .. Len(runs)
<1>1. Len(pending) \in Nat /\ Len(runs) \in Nat /\ DOMAIN pending = 1 .. Len(pending)
  BY LenProperties DEF TInv, TypeOK
<1>2. ASSUME InPending(q) PROVE q \in Len(runs) - Len(pending) + 1 .. Len(runs)
  BY <1>1, <1>2 DEF InPending, Unbroken
<1>3. ASSUME q \in Len(runs) - Len(pending) + 1 .. Len(runs) PROVE InPending(q)
  <2>1. q - Len(runs) + Len(pending) \in 1 .. Len(pending)
    BY <1>1, <1>3
  <2>2. pending[q - Len(runs) + Len(pending)] = q
    BY <1>1, <2>1 DEF Unbroken
  <2> QED BY <1>1, <2>1, <2>2 DEF InPending
<1> QED BY <1>1, <1>2, <1>3

\* A set of numbers that is not empty has a least one.
LEMMA LeastExists ==
  ASSUME NEW T \in SUBSET Nat, T # {}
  PROVE  \E r \in T : \A q \in T : r <= q
<1>1. PICK r \in T : \A q \in T : ~ (<<q, r>> \in OpToRel(<, Nat))
  BY NatLessThanWellFounded, WFMin
<1>2. \A q \in T : ~ (q < r)
  BY <1>1 DEF OpToRel
<1> QED BY <1>2

\* A step outside the eviction disturbs nobody's eviction.
LEMMA CalmKeeps ==
  ASSUME TInv, EInv, NEW w \in Workers, NEW step \in Steps \ EvictSteps, NEW frame,
         pc[w] \notin EvictSteps,
         pc' = [pc EXCEPT ![w] = step], mine' = [mine EXCEPT ![w] = frame],
         pending' = pending, Len(runs') = Len(runs)
  PROVE  EInv'
<1>1. mine \in [Workers -> Frame] /\ pc \in [Workers -> Steps]
  BY DEF TInv, TypeOK, Steps
<1>2. pc'[w] \notin EvictSteps /\ ~ WillCount(w)
  BY <1>1 DEF WillCount, EvictSteps
<1>3. \A v \in Workers \ {w} : pc'[v] = pc[v] /\ mine'[v] = mine[v]
  BY <1>1
<1>4. \A q : InPending(q)' <=> InPending(q)
  BY DEF InPending
<1>5. Unbroken'
  BY DEF EInv, Unbroken
<1>6. Scans'
  BY <1>2, <1>3, <1>4 DEF EInv, Scans, EvictSteps
<1>7. \A v \in Workers \ {w} : WillCount(v) => WillCount(v)'
  BY <1>3, <1>4 DEF WillCount
<1>8. SomebodyCounts'
  BY <1>2, <1>7 DEF EInv, SomebodyCounts
<1> QED BY <1>5, <1>6, <1>8 DEF EInv

\* A thread that gives up its eviction was not one to count.
LEMMA GivesUpKeeps ==
  ASSUME TInv, EInv, NEW w \in Workers, NEW frame,
         ~ WillCount(w) \/ ~ (Len(pending) > MaxPending),
         pc' = [pc EXCEPT ![w] = "idle"], mine' = [mine EXCEPT ![w] = frame],
         pending' = pending, Len(runs') = Len(runs)
  PROVE  EInv'
<1>1. mine \in [Workers -> Frame] /\ pc \in [Workers -> Steps]
  BY DEF TInv, TypeOK, Steps
<1>2. pc'[w] \notin EvictSteps
  BY <1>1 DEF EvictSteps
<1>3. \A v \in Workers \ {w} : pc'[v] = pc[v] /\ mine'[v] = mine[v]
  BY <1>1
<1>4. \A q : InPending(q)' <=> InPending(q)
  BY DEF InPending
<1>5. Unbroken'
  BY DEF EInv, Unbroken
<1>6. Scans'
  BY <1>2, <1>3, <1>4 DEF EInv, Scans, EvictSteps
<1>7. \A v \in Workers \ {w} : WillCount(v) => WillCount(v)'
  BY <1>3, <1>4 DEF WillCount
<1>8. SomebodyCounts'
  BY <1>2, <1>7 DEF EInv, SomebodyCounts
<1> QED BY <1>5, <1>6, <1>8 DEF EInv

\* The thread that has just served counts.
LEMMA HoldCounts ==
  ASSUME TInv, EInv, NEW w \in Workers, Hold(w)
  PROVE  EInv'
<1> DEFINE n == Len(runs)
           entry == [item |-> mine[w].item, seed |-> mine[w].seed,
                     result |-> None, known |-> FALSE]
<1>1. /\ mine \in [Workers -> Frame] /\ pc \in [Workers -> Steps]
      /\ runs \in Seq(Held) /\ n \in Nat
      /\ pending \in Seq(1 .. n) /\ Len(pending) \in Nat
  BY LenProperties DEF TInv, TypeOK, Steps
<1>2. /\ runs' = Append(runs, entry) /\ pending' = Append(pending, Len(runs'))
      /\ pc' = [pc EXCEPT ![w] = "evict"]
      /\ \A v \in Workers \ {w} : mine'[v] = mine[v]
  BY <1>1 DEF Hold, Goto, Become
<1>3. Len(runs') = n + 1
  <2>1. entry \in Held
    BY <1>1, Given DEF Hold, Fits, Held, Frame
  <2> QED BY <1>1, <1>2, <2>1, AppendProperties
<1>4. /\ Len(pending') = Len(pending) + 1
      /\ \A i \in 1 .. Len(pending) : pending'[i] = pending[i]
      /\ pending'[Len(pending) + 1] = n + 1
  <2>1. pending \in Seq(1 .. n + 1)
    BY <1>1, SeqMonotonic
  <2> QED BY <1>1, <1>2, <1>3, <2>1, AppendProperties
<1>5. Unbroken'
  <2>1. ASSUME NEW i \in 1 .. Len(pending) + 1
        PROVE  pending'[i] = n + 1 - (Len(pending) + 1) + i
    <3>1. CASE i = Len(pending) + 1
      BY <1>1, <1>4, <3>1
    <3>2. CASE i \in 1 .. Len(pending)
      BY <1>1, <1>4, <3>2 DEF EInv, Unbroken
    <3> QED BY <1>1, <3>1, <3>2
  <2> QED BY <1>3, <1>4, <2>1 DEF Unbroken
<1>6. \A q \in Nat : InPending(q)' => InPending(q) \/ q = n + 1
  <2>1. pending' \in Seq(1 .. n + 1)
    BY <1>2, <1>3, HoldKeeps DEF TInv, TypeOK
  <2>2. DOMAIN pending' = 1 .. Len(pending) + 1 /\ DOMAIN pending = 1 .. Len(pending)
    BY <1>1, <1>4, <2>1, LenProperties
  <2> QED BY <1>1, <1>4, <2>2 DEF InPending
<1>7. Scans'
  <2>1. ASSUME NEW v \in Workers
        PROVE  /\ pc'[v] = "scan" => \A e \in mine'[v].expired : \E i \in DOMAIN mine'[v].seen : mine'[v].seen[i] = e
               /\ pc'[v] \in {"scan", "drop"} =>
                    \A e \in mine'[v].expired :
                      /\ e <= Len(runs')
                      /\ \A q \in Nat : InPending(q)' /\ q < e => q \in mine'[v].expired
    <3>1. CASE v = w
      BY <1>1, <1>2, <3>1
    <3>2. CASE v # w
      <4>1. pc'[v] = pc[v] /\ mine'[v] = mine[v] /\ mine[v].expired \subseteq Nat
        BY <1>1, <1>2, <3>2 DEF Frame
      <4> QED BY <1>1, <1>3, <1>6, <4>1 DEF EInv, Scans
    <3> QED BY <3>1, <3>2
  <2> QED BY <2>1 DEF Scans
<1>8. WillCount(w)'
  BY <1>1, <1>2 DEF WillCount
<1> QED BY <1>5, <1>7, <1>8 DEF EInv, SomebodyCounts

\* The clock of the host has not been set back between two drills: what is past its
\* time to live is then the oldest part of the map.
LEMMA ScanBeginCounts ==
  ASSUME ClockNeverSteps, TInv, EInv, NEW w \in Workers, ScanBegin(w)
  PROVE  EInv'
<1>0. PICK old \in Cutoffs :
        mine' = [mine EXCEPT ![w] = [mine[w] EXCEPT !.expired = old, !.seen = pending]]
  BY DEF ScanBegin, Become
<1> DEFINE frame == [mine[w] EXCEPT !.expired = old, !.seen = pending]
<1>1. /\ mine \in [Workers -> Frame] /\ pc \in [Workers -> Steps]
      /\ DOMAIN runs = 1 .. Len(runs) /\ Len(runs) \in Nat
  BY LenProperties DEF TInv, TypeOK, Steps
<1>2. /\ pc' = [pc EXCEPT ![w] = "scan"] /\ mine' = [mine EXCEPT ![w] = frame]
      /\ pending' = pending /\ runs' = runs
  BY <1>0 DEF ScanBegin, Goto, shared
<1>3. \A q : InPending(q)' <=> InPending(q)
  BY <1>2 DEF InPending
<1>4. /\ pc'[w] = "scan" /\ mine'[w].seen = pending
      /\ mine'[w].expired = old
      /\ \A v \in Workers \ {w} : pc'[v] = pc[v] /\ mine'[v] = mine[v]
  BY <1>1, <1>2 DEF Frame
<1>5. Unbroken'
  BY <1>2 DEF EInv, Unbroken
<1>6. Scans'
  <2>1. ASSUME NEW e \in mine'[w].expired
        PROVE  /\ \E i \in DOMAIN mine'[w].seen : mine'[w].seen[i] = e
               /\ e <= Len(runs')
               /\ \A q \in Nat : InPending(q)' /\ q < e => q \in mine'[w].expired
    <3>1. e \in 1 .. Len(runs) /\ InPending(e)
      BY <1>1, <1>4, <2>1 DEF Cutoffs
    <3>2. \A q \in Nat : InPending(q) => q \in 1 .. Len(runs)
      BY LenProperties, ElementOfSeq, <1>1 DEF InPending, TInv, TypeOK
    <3>3. \A q \in Nat : InPending(q)' /\ q < e => q \in mine'[w].expired
      BY <1>1, <1>3, <1>4, <2>1, <3>1, <3>2 DEF Cutoffs
    <3> QED BY <1>1, <1>2, <1>4, <3>1, <3>3 DEF InPending
  <2>2. ASSUME NEW v \in Workers, v # w
        PROVE  /\ pc'[v] = "scan" => \A e \in mine'[v].expired : \E i \in DOMAIN mine'[v].seen : mine'[v].seen[i] = e
               /\ pc'[v] \in {"scan", "drop"} =>
                    \A e \in mine'[v].expired :
                      /\ e <= Len(runs')
                      /\ \A q \in Nat : InPending(q)' /\ q < e => q \in mine'[v].expired
    BY <1>2, <1>3, <1>4, <2>2 DEF EInv, Scans
  <2> QED BY <2>1, <2>2 DEF Scans
<1>7. WillCount(w)'
  BY <1>2, <1>4 DEF WillCount
<1> QED BY <1>5, <1>6, <1>7 DEF EInv, SomebodyCounts

LEMMA ScanEndCounts ==
  ASSUME TInv, EInv, NEW w \in Workers, ScanEnd(w)
  PROVE  EInv'
<1>1. CASE pending = mine[w].seen
  <2> DEFINE frame == [mine[w] EXCEPT !.seen = << >>]
  <2>1. mine \in [Workers -> Frame] /\ pc \in [Workers -> Steps] /\ pc[w] = "scan"
    BY DEF TInv, TypeOK, Steps, ScanEnd
  <2>2. /\ pc' = [pc EXCEPT ![w] = "drop"] /\ mine' = [mine EXCEPT ![w] = frame]
        /\ pending' = pending /\ runs' = runs
    BY <1>1 DEF ScanEnd, Goto, Become, shared
  <2>3. \A q : InPending(q)' <=> InPending(q)
    BY <2>2 DEF InPending
  <2>4. /\ pc'[w] = "drop" /\ mine'[w].expired = mine[w].expired
        /\ \A v \in Workers \ {w} : pc'[v] = pc[v] /\ mine'[v] = mine[v]
    BY <2>1, <2>2 DEF Frame
  <2>5. Unbroken'
    BY <2>2 DEF EInv, Unbroken
  <2>6. Scans'
    BY <2>1, <2>2, <2>3, <2>4 DEF EInv, Scans
  <2>7. \A e \in mine'[w].expired : InPending(e)'
    BY <1>1, <2>1, <2>3, <2>4 DEF EInv, Scans, InPending
  <2>8. WillCount(w)'
    BY <2>4, <2>7 DEF WillCount
  <2> QED BY <2>5, <2>6, <2>8 DEF EInv, SomebodyCounts
<1>2. CASE pending # mine[w].seen
  <2>1. ~ WillCount(w) /\ pending' = pending /\ runs' = runs
    BY <1>2 DEF ScanEnd, WillCount, shared
  <2>2. pc' = [pc EXCEPT ![w] = "idle"] /\ mine' = [mine EXCEPT ![w] = blank]
    BY <1>2 DEF ScanEnd, Finish, Goto, Become
  <2> QED BY <2>1, <2>2, GivesUpKeeps
<1> QED BY <1>1, <1>2

\* The oldest run is taken away, and nothing else, by a thread that will count.
LEMMA ShorterKeeps ==
  ASSUME TInv, EInv, NEW w \in Workers, TInv', pending # << >>, runs' = runs,
         Len(pending') = Len(pending) - 1,
         \A i \in 1 .. Len(pending) - 1 : pending'[i] = pending[i + 1],
         \A v \in Workers \ {w} : pc'[v] = pc[v] /\ mine'[v] = mine[v],
         pc'[w] \in {"scan", "drop"} =>
            /\ pc[w] = "drop" /\ pc'[w] = "drop"
            /\ mine'[w].expired = mine[w].expired \ {pending[1]},
         WillCount(w)'
  PROVE  EInv'
<1>1. /\ Len(pending) \in Nat \ {0} /\ Len(runs) \in Nat
      /\ DOMAIN pending = 1 .. Len(pending) /\ DOMAIN pending' = 1 .. Len(pending')
  BY EmptySeq, LenProperties DEF TInv, TypeOK
<1>2. Unbroken'
  BY <1>1 DEF EInv, Unbroken
<1>3. pending[1] = Len(runs) - Len(pending) + 1
  BY <1>1 DEF EInv, Unbroken
<1>4. \A q \in Nat : InPending(q)' => InPending(q) /\ q # pending[1]
  <2>1. ASSUME NEW q \in Nat, NEW i \in 1 .. Len(pending) - 1, pending'[i] = q
        PROVE  InPending(q) /\ q # pending[1]
    <3>1. i + 1 \in 1 .. Len(pending) /\ pending[i + 1] = q
      BY <1>1, <2>1
    <3>2. pending[i + 1] = Len(runs) - Len(pending) + (i + 1)
      BY <3>1 DEF EInv, Unbroken
    <3>3. q # pending[1]
      BY <1>1, <1>3, <3>1, <3>2
    <3> QED BY <1>1, <3>1, <3>3 DEF InPending
  <2> QED BY <1>1, <2>1 DEF InPending
<1>5. \A v \in Workers : mine[v].expired \subseteq Nat
  BY DEF TInv, TypeOK, Frame
<1>6. Scans'
  BY <1>4, <1>5 DEF EInv, Scans
<1> QED BY <1>2, <1>6 DEF EInv, SomebodyCounts

\* What an expired run's thread takes away is the oldest run held.
LEMMA DropCounts ==
  ASSUME TInv, EInv, NEW w \in Workers, DropExpired(w)
  PROVE  EInv'
<1>1. /\ mine \in [Workers -> Frame] /\ pc \in [Workers -> Steps]
      /\ pc[w] = "drop" /\ mine[w].expired # {} /\ mine[w].expired \in SUBSET Nat
      /\ pending \in Seq(1 .. Len(runs)) /\ Len(pending) \in Nat /\ Len(runs) \in Nat
  BY LenProperties DEF TInv, TypeOK, Steps, DropExpired, Frame
<1>2. Oldest(w) \in mine[w].expired /\ \A q \in mine[w].expired : Oldest(w) <= q
  BY <1>1, LeastExists DEF Oldest
<1>3. CASE InPending(Oldest(w))
  <2> DEFINE frame == [mine[w] EXCEPT !.expired = @ \ {Oldest(w)}]
  <2>1. /\ pending' = Without(Oldest(w)) /\ UNCHANGED <<runs, pc>>
        /\ mine' = [mine EXCEPT ![w] = frame]
    BY <1>3 DEF DropExpired, Oldest, Become
  <2>2. PICK at \in 1 .. Len(pending) :
          /\ pending[at] = Oldest(w)
          /\ Len(pending') = Len(pending) - 1
          /\ \A i \in 1 .. Len(pending) - 1 :
               pending'[i] = IF i < at THEN pending[i] ELSE pending[i + 1]
    <3>1. PICK at \in 1 .. Len(pending) :
            /\ pending[at] = Oldest(w)
            /\ Len(Without(Oldest(w))) = Len(pending) - 1
            /\ \A i \in 1 .. Len(pending) - 1 :
                 Without(Oldest(w))[i] = IF i < at THEN pending[i] ELSE pending[i + 1]
      BY <1>1, <1>3, WithoutIs
    <3> QED BY <2>1, <3>1
  <2>3. pending # << >> /\ InPending(pending[1]) /\ pending[1] \in Nat
    <3>1. 1 \in 1 .. Len(pending) /\ DOMAIN pending = 1 .. Len(pending)
      BY <1>1, <2>2, LenProperties
    <3>2. pending[1] \in 1 .. Len(runs)
      BY <1>1, <3>1, ElementOfSeq
    <3>3. pending # << >>
      BY <1>1, <3>1, EmptySeq
    <3> QED BY <3>1, <3>2, <3>3 DEF InPending
  <2>4. pending[1] = Len(runs) - Len(pending) + 1 /\ pending[at] = Len(runs) - Len(pending) + at
    BY <1>1, <2>2 DEF EInv, Unbroken
  <2>5. at = 1
    <3>1. SUFFICES ASSUME at > 1 PROVE FALSE
      BY <1>1, <2>2
    <3>2. pending[1] < Oldest(w)
      BY <1>1, <2>2, <2>4, <3>1
    <3>3. pending[1] \in mine[w].expired
      BY <1>1, <1>2, <2>3, <3>2 DEF EInv, Scans
    <3> QED BY <1>1, <1>2, <2>3, <3>2, <3>3
  <2>6. /\ \A i \in 1 .. Len(pending) - 1 : pending'[i] = pending[i + 1]
        /\ pending[1] = Oldest(w)
    BY <1>1, <2>2, <2>5
  <2>7. /\ pc'[w] = "drop" /\ mine'[w].expired = mine[w].expired \ {pending[1]}
        /\ \A v \in Workers \ {w} : pc'[v] = pc[v] /\ mine'[v] = mine[v]
    BY <1>1, <2>1, <2>6 DEF Frame
  <2>8. ASSUME NEW e \in mine'[w].expired PROVE InPending(e)'
    <3>1. e \in Nat /\ e <= Len(runs) /\ e > pending[1]
      BY <1>1, <1>2, <2>3, <2>6, <2>7, <2>8 DEF EInv, Scans
    <3>2. e - pending[1] \in 1 .. Len(pending) - 1
      BY <1>1, <2>4, <3>1
    <3>3. pending'[e - pending[1]] = e
      <4>1. pending'[e - pending[1]] = pending[e - pending[1] + 1]
        BY <2>6, <3>2
      <4>2. e - pending[1] + 1 \in 1 .. Len(pending)
        BY <1>1, <3>2
      <4>3. pending[e - pending[1] + 1] = Len(runs) - Len(pending) + (e - pending[1] + 1)
        BY <4>2 DEF EInv, Unbroken
      <4> QED BY <1>1, <2>3, <2>4, <3>1, <4>1, <4>3
    <3>4. DOMAIN pending' = 1 .. Len(pending) - 1
      BY <2>2, DropKeeps, LenProperties DEF TInv, TypeOK
    <3> QED BY <3>2, <3>3, <3>4 DEF InPending
  <2>9. WillCount(w)'
    BY <2>7, <2>8 DEF WillCount
  <2>10. runs' = runs /\ TInv'
    BY <2>1, DropKeeps
  <2> QED BY <1>1, <2>2, <2>3, <2>6, <2>7, <2>9, <2>10, ShorterKeeps
<1>4. CASE ~ InPending(Oldest(w))
  <2>1. ~ WillCount(w)
    BY <1>1, <1>2, <1>4 DEF WillCount
  <2>2. /\ pc' = [pc EXCEPT ![w] = "idle"] /\ mine' = [mine EXCEPT ![w] = blank]
        /\ pending' = pending /\ runs' = runs
    BY <1>4 DEF DropExpired, Oldest, Finish, Goto, Become
  <2> QED BY <2>1, <2>2, GivesUpKeeps
<1> QED BY <1>3, <1>4

LEMMA CountCounts ==
  ASSUME TInv, EInv, NEW w \in Workers, CountPending(w)
  PROVE  EInv'
<1>1. /\ mine \in [Workers -> Frame] /\ pc \in [Workers -> Steps]
      /\ runs \in Seq(Held)
  BY DEF TInv, TypeOK, Steps
<1>2. CASE Len(pending) > MaxPending
  <2>1. /\ pc' = [pc EXCEPT ![w] = "pop"] /\ mine' = mine
        /\ pending' = pending /\ runs' = runs
    BY <1>2 DEF CountPending, Goto
  <2>2. pc'[w] = "pop" /\ \A v \in Workers \ {w} : pc'[v] = pc[v]
    BY <1>1, <2>1
  <2>3. \A q : InPending(q)' <=> InPending(q)
    BY <2>1 DEF InPending
  <2>4. Unbroken' /\ Scans'
    BY <2>1, <2>2, <2>3 DEF EInv, Unbroken, Scans
  <2>5. WillCount(w)'
    BY <2>2 DEF WillCount
  <2> QED BY <2>4, <2>5 DEF EInv, SomebodyCounts
<1>3. CASE ~ (Len(pending) > MaxPending)
  <2>1. /\ pc' = [pc EXCEPT ![w] = "idle"] /\ mine' = [mine EXCEPT ![w] = blank]
        /\ pending' = pending /\ runs' = [runs EXCEPT ![mine[w].run].known = TRUE]
    BY <1>3 DEF CountPending, Finish, Goto, Become
  <2>2. Len(runs') = Len(runs)
    BY <1>1, <2>1
  <2> QED BY <1>3, <2>1, <2>2, GivesUpKeeps
<1> QED BY <1>2, <1>3

LEMMA PopCounts ==
  ASSUME TInv, EInv, NEW w \in Workers, PopOldest(w)
  PROVE  EInv'
<1>1. /\ mine \in [Workers -> Frame] /\ pc \in [Workers -> Steps] /\ pc[w] = "pop"
      /\ pending \in Seq(1 .. Len(runs))
  BY DEF TInv, TypeOK, Steps, PopOldest
<1>2. CASE pending # << >>
  <2>1. /\ pc' = [pc EXCEPT ![w] = "count"] /\ mine' = mine
        /\ pending' = Tail(pending) /\ runs' = runs
    BY <1>2 DEF PopOldest, Goto
  <2>2. /\ Len(pending') = Len(pending) - 1
        /\ \A i \in 1 .. Len(pending) - 1 : pending'[i] = pending[i + 1]
    BY <1>1, <1>2, <2>1, HeadTailProperties
  <2>3. pc'[w] = "count" /\ \A v \in Workers \ {w} : pc'[v] = pc[v] /\ mine'[v] = mine[v]
    BY <1>1, <2>1
  <2>4. WillCount(w)' /\ TInv'
    BY <2>3, PopKeeps DEF WillCount
  <2> QED BY <1>2, <2>1, <2>2, <2>3, <2>4, ShorterKeeps
<1>3. CASE pending = << >>
  <2>1. ~ (Len(pending) > MaxPending)
    BY <1>3, EmptySeq, BoundsAssumption
  <2>2. /\ pc' = [pc EXCEPT ![w] = "idle"] /\ mine' = [mine EXCEPT ![w] = blank]
        /\ pending' = pending /\ runs' = runs
    BY <1>3 DEF PopOldest, Finish, Goto, Become
  <2> QED BY <2>1, <2>2, GivesUpKeeps
<1> QED BY <1>2, <1>3

\* No run is held before the first is served, and none after a restart.
LEMMA EmptyMap ==
  ASSUME pending = << >>, \A w \in Workers : pc[w] = "idle", Len(runs) \in Nat
  PROVE  EInv
<1>1. Len(pending) = 0 /\ ~ (Len(pending) > MaxPending)
  BY EmptySeq, BoundsAssumption
<1>2. Unbroken /\ SomebodyCounts
  BY <1>1 DEF Unbroken, SomebodyCounts
<1>3. Scans
  BY DEF Scans
<1> QED BY <1>2, <1>3 DEF EInv

LEMMA EvictionInit == Init => EInv
<1> SUFFICES ASSUME Init PROVE EInv
  OBVIOUS
<1>1. /\ pending = << >> /\ Len(runs) \in Nat
      /\ \A w \in Workers : pc[w] = "idle"
  BY EmptySeq DEF Init
<1> QED BY <1>1, EmptyMap

\* Serving a drill up to the point where it is held.
LEMMA ServingIsCalm ==
  ASSUME TInv, EInv, NEW w \in Workers,
         \/ \E op \in Operators, want \in Wanted : Serve(w, op, want)
         \/ ServeLoad(w) \/ Select(w) \/ SelectNothing(w) \/ Render(w)
         \/ \E why \in Reasons : RenderRefused(w, why)
         \/ Withhold(w) \/ NoteReason(w)
  PROVE  EInv'
<1>1. mine = [mine EXCEPT ![w] = mine[w]]
  BY Given
<1>2. {"idle", "load", "select", "render", "withhold", "note", "hold"} \subseteq Steps \ EvictSteps
  BY DEF Steps, EvictSteps, ServeSteps
<1>3. pc[w] \notin EvictSteps /\ pending' = pending /\ Len(runs') = Len(runs)
  BY DEF Serve, ServeLoad, Select, SelectNothing, Render, RenderRefused, Withhold,
         NoteReason, shared, EvictSteps
<1>4. \E step \in {"idle", "load", "select", "render", "withhold", "note", "hold"} :
        pc' = [pc EXCEPT ![w] = step]
  BY DEF Serve, ServeLoad, Select, SelectNothing, Render, RenderRefused, Withhold,
         NoteReason, Retry, Finish, Goto
<1>5. \E frame : mine' = [mine EXCEPT ![w] = frame]
  <2>1. CASE \E op \in Operators, want \in Wanted : Serve(w, op, want)
    BY <2>1 DEF Serve, Become
  <2>2. CASE ServeLoad(w) \/ Select(w) \/ SelectNothing(w)
    BY <2>2 DEF ServeLoad, Select, SelectNothing, Finish, Become
  <2>3. CASE Render(w)
    BY <1>1, <2>3 DEF Render
  <2>4. CASE \E why \in Reasons : RenderRefused(w, why)
    BY <2>4 DEF RenderRefused, Become
  <2>5. CASE Withhold(w) \/ NoteReason(w)
    BY <1>1, <2>5 DEF Withhold, NoteReason, Retry, Finish, Become
  <2> QED BY <2>1, <2>2, <2>3, <2>4, <2>5
<1> QED BY <1>2, <1>3, <1>4, <1>5, CalmKeeps

\* Scoring touches neither the map nor an eviction.
LEMMA ScoringIsCalm ==
  ASSUME TInv, EInv, NEW w \in Workers,
         \/ \E op \in Operators, r \in DOMAIN runs, v \in Verdicts : Score(w, op, r, v)
         \/ Find(w) \/ ScoreLoad(w) \/ Record(w) \/ SaveWrite(w) \/ SaveFails(w)
         \/ SetResult(w)
  PROVE  EInv'
<1>1. mine = [mine EXCEPT ![w] = mine[w]] /\ runs \in Seq(Held)
  BY Given DEF SharedType
<1>2. {"idle", "find", "progress", "save", "write", "result"} \subseteq Steps \ EvictSteps
  BY DEF Steps, EvictSteps, ScoreSteps
<1>3. pc[w] \notin EvictSteps /\ pending' = pending
  BY DEF Score, Find, ScoreLoad, Record, SaveWrite, SaveFails, SetResult, shared, EvictSteps
<1>4. Len(runs') = Len(runs)
  <2>1. CASE SetResult(w)
    <3>1. runs' = [runs EXCEPT ![mine[w].run].result = ResultOf(w)]
      BY <2>1 DEF SetResult
    <3> QED BY <1>1, <3>1
  <2>2. CASE runs' = runs
    BY <2>2
  <2> QED
    BY <2>1, <2>2 DEF Score, Find, ScoreLoad, Record, SaveWrite, SaveFails, shared
<1>5. \E step \in {"idle", "find", "progress", "save", "write", "result"} :
        pc' = [pc EXCEPT ![w] = step]
  BY DEF Score, Find, ScoreLoad, Record, SaveWrite, SaveFails, SetResult, Finish, Goto
<1>6. \E frame : mine' = [mine EXCEPT ![w] = frame]
  <2>1. CASE \E op \in Operators, r \in DOMAIN runs, v \in Verdicts : Score(w, op, r, v)
    BY <2>1 DEF Score, Become
  <2>2. CASE Find(w) \/ SaveWrite(w)
    BY <1>1, <2>2 DEF Find, SaveWrite, Finish, Become
  <2>3. CASE ScoreLoad(w) \/ Record(w)
    BY <2>3 DEF ScoreLoad, Record, Become
  <2>4. CASE SaveFails(w) \/ SetResult(w)
    BY <2>4 DEF SaveFails, SetResult, Finish, Become
  <2> QED BY <2>1, <2>2, <2>3, <2>4
<1> QED BY <1>2, <1>3, <1>4, <1>5, <1>6, CalmKeeps

LEMMA EvictionStep == ClockNeverSteps /\ TInv /\ EInv /\ [Next]_vars => EInv'
<1> SUFFICES ASSUME ClockNeverSteps, TInv, EInv, [Next]_vars PROVE EInv'
  OBVIOUS
<1>1. ASSUME NEW w \in Workers,
             \/ \E op \in Operators, want \in Wanted : Serve(w, op, want)
             \/ \E op \in Operators, r \in DOMAIN runs, v \in Verdicts : Score(w, op, r, v)
             \/ Run(w)
      PROVE  EInv'
  <2>1. CASE Hold(w) \/ ScanBegin(w) \/ ScanEnd(w) \/ DropExpired(w) \/ CountPending(w)
               \/ PopOldest(w)
    BY <2>1, HoldCounts, ScanBeginCounts, ScanEndCounts, DropCounts, CountCounts, PopCounts
  <2>2. CASE \/ \E op \in Operators, r \in DOMAIN runs, v \in Verdicts : Score(w, op, r, v)
             \/ Find(w) \/ ScoreLoad(w) \/ Record(w) \/ SaveWrite(w) \/ SaveFails(w)
             \/ SetResult(w)
    BY <2>2, ScoringIsCalm
  <2>3. CASE \/ \E op \in Operators, want \in Wanted : Serve(w, op, want)
             \/ ServeLoad(w) \/ Select(w) \/ SelectNothing(w) \/ Render(w)
             \/ \E why \in Reasons : RenderRefused(w, why)
             \/ Withhold(w) \/ NoteReason(w)
    BY <2>3, ServingIsCalm
  <2> QED BY <1>1, <2>1, <2>2, <2>3 DEF Run
<1>2. CASE UNCHANGED vars
  <2>1. UNCHANGED <<runs, pending, pc, mine>>
    BY <1>2 DEF vars
  <2> QED BY <2>1 DEF EInv, Unbroken, Scans, SomebodyCounts, WillCount, InPending
<1>3. CASE Restart
  <2>1. Len(runs') \in Nat /\ pending' = << >> /\ \A w \in Workers : pc'[w] = "idle"
    BY <1>3, LenProperties DEF Restart, TInv, TypeOK
  <2>2. Len(pending') = 0 /\ ~ (Len(pending') > MaxPending)
    BY <2>1, EmptySeq, BoundsAssumption
  <2>3. Unbroken' /\ SomebodyCounts'
    BY <2>2 DEF Unbroken, SomebodyCounts
  <2>4. Scans'
    BY <2>1 DEF Scans
  <2> QED BY <2>3, <2>4 DEF EInv
<1> QED BY <1>1, <1>2, <1>3 DEF Next

\* The map of drills a route without authentication fills is bounded, however many
\* threads serve and evict at once: when all are done, MAX_PENDING drills are held at most.
\* An eviction that stops on an error leaves the counting to the thread that disturbed it.
\* That holds while the clock of the host is not set back: an older drill is then never
\* kept when a newer one expires.
THEOREM DrillPendingIsBounded ==
  ASSUME ClockNeverSteps PROVE Spec => []PendingIsBounded
<1>0. TInv /\ EInv /\ [Next]_vars => EInv'
  BY EvictionStep
<1>1. Spec => []EInv
  BY <1>0, EvictionInit, TInvHolds, PTL DEF Spec
<1>2. TInv /\ EInv => PendingIsBounded
  <2> SUFFICES ASSUME TInv, EInv, \A w \in Workers : pc[w] = "idle", Len(pending) > MaxPending
               PROVE  FALSE
    BY LenProperties, BoundsAssumption DEF PendingIsBounded, TInv, TypeOK
  <2>1. \A w \in Workers : ~ WillCount(w)
    BY DEF WillCount
  <2> QED BY <2>1 DEF EInv, SomebodyCounts
<1> QED BY <1>1, <1>2, TInvHolds, PTL

-----------------------------------------------------------------------------
(* The history: what progress.json keeps of an operator is consistent in itself, *)
(* whatever answers are lost.                                                      *)

\* The places of the rows that are hits.
Hits(rows) == {i \in DOMAIN rows : rows[i].correct}

LEMMA HitsCount ==
  ASSUME NEW rows \in Seq(Row)
  PROVE  IsFiniteSet(Hits(rows)) /\ Cardinality(Hits(rows)) \in Nat
<1>1. Len(rows) \in Nat /\ DOMAIN rows = 1 .. Len(rows)
  BY LenProperties
<1>2. IsFiniteSet(1 .. Len(rows)) /\ Hits(rows) \subseteq 1 .. Len(rows)
  BY <1>1, FS_Interval DEF Hits
<1>3. IsFiniteSet(Hits(rows))
  BY <1>2, FS_Subset
<1> QED BY <1>3, FS_CardinalityType

\* One more row, and one more hit if it is one.
LEMMA HitsAppend ==
  ASSUME NEW rows \in Seq(Row), NEW row \in Row
  PROVE  Cardinality(Hits(Append(rows, row)))
           = Cardinality(Hits(rows)) + (IF row.correct THEN 1 ELSE 0)
<1> DEFINE n == Len(rows)
           more == Append(rows, row)
<1>1. n \in Nat /\ DOMAIN rows = 1 .. n
  BY LenProperties
<1>2. /\ more \in Seq(Row) /\ Len(more) = n + 1
      /\ \A i \in 1 .. n : more[i] = rows[i]
      /\ more[n + 1] = row
  BY AppendProperties
<1>3. DOMAIN more = 1 .. n + 1
  BY <1>2, LenProperties
<1> HIDE DEF more
<1>4. IsFiniteSet(Hits(rows)) /\ Cardinality(Hits(rows)) \in Nat /\ n + 1 \notin Hits(rows)
  <2>1. n + 1 \notin Hits(rows)
    BY <1>1 DEF Hits
  <2> QED BY <2>1, HitsCount
<1>5. CASE row.correct
  <2>1. Hits(more) = Hits(rows) \cup {n + 1}
    BY <1>1, <1>2, <1>3, <1>5 DEF Hits
  <2> QED BY <1>4, <1>5, <2>1, FS_AddElement DEF more
<1>6. CASE ~ row.correct
  <2>1. Hits(more) = Hits(rows)
    BY <1>1, <1>2, <1>3, <1>6 DEF Hits
  <2> QED BY <1>4, <1>6, <2>1 DEF more
<1> QED BY <1>5, <1>6

\* Without the oldest row there is one hit less at most.
LEMMA HitsShift ==
  ASSUME NEW rows \in Seq(Row), NEW kept \in Seq(Row), Len(rows) = Len(kept) + 1,
         \A i \in 1 .. Len(kept) : kept[i] = rows[i + 1]
  PROVE  /\ Cardinality(Hits(kept)) <= Cardinality(Hits(rows))
         /\ Cardinality(Hits(rows)) <= Cardinality(Hits(kept)) + 1
<1> DEFINE n == Len(kept)
           later == Hits(rows) \ {1}
<1>1. n \in Nat /\ DOMAIN kept = 1 .. n /\ DOMAIN rows = 1 .. n + 1
  BY LenProperties
<1>2. /\ IsFiniteSet(Hits(rows)) /\ Cardinality(Hits(rows)) \in Nat
      /\ IsFiniteSet(Hits(kept)) /\ Cardinality(Hits(kept)) \in Nat
  BY HitsCount
<1>3. Cardinality(later) = Cardinality(Hits(rows))
        \/ Cardinality(later) = Cardinality(Hits(rows)) - 1
  BY <1>2, FS_RemoveElement
<1>4. Cardinality(later) = Cardinality(Hits(kept))
  <2> DEFINE f == [i \in Hits(kept) |-> i + 1]
  <2>1. f \in [Hits(kept) -> later]
    BY <1>1 DEF Hits
  <2>2. \A i, j \in Hits(kept) : f[i] = f[j] => i = j
    BY <1>1 DEF Hits
  <2>3. \A j \in later : \E i \in Hits(kept) : f[i] = j
    <3>1. ASSUME NEW j \in later PROVE j - 1 \in Hits(kept) /\ f[j - 1] = j
      <4>1. j \in 1 .. n + 1 /\ j # 1 /\ rows[j].correct
        BY <1>1 DEF Hits
      <4>2. j - 1 \in 1 .. n /\ kept[j - 1] = rows[j - 1 + 1] /\ j - 1 + 1 = j
        BY <1>1, <4>1
      <4>3. j - 1 \in Hits(kept)
        BY <1>1, <4>1, <4>2 DEF Hits
      <4> QED BY <4>1, <4>2, <4>3
    <3> QED BY <3>1
  <2> HIDE DEF f, later
  <2>4. f \in Bijection(Hits(kept), later)
    BY <2>1, <2>2, <2>3 DEF Bijection, Injection, Surjection, IsInjective
  <2>5. ExistsBijection(Hits(kept), later)
    BY <2>4 DEF ExistsBijection
  <2> QED BY <1>2, <2>5, FS_Bijection
<1> QED BY <1>2, <1>3, <1>4

\* The hits AddsUp counts.
LEMMA AddsUpHits ==
  ASSUME NEW p \in OperatorProgress
  PROVE  /\ p.runs \in Seq(Row) /\ Len(p.runs) \in Nat
         /\ {i \in 1 .. Len(p.runs) : p.runs[i].correct} = Hits(p.runs)
<1>1. p.runs \in Seq(Row)
  BY DEF OperatorProgress
<1> QED BY <1>1, LenProperties DEF Hits

\* The balance of hits, misses and attempts after one more answer.
LEMMA Balance ==
  ASSUME NEW attempts \in Nat, NEW correct \in Nat, NEW n \in Nat, NEW hits \in Nat,
         NEW c \in Nat, NEW k \in Nat, NEW h \in Nat,
         hits <= correct, correct <= attempts - (n - hits), h <= hits + c,
         \/ k = n /\ hits + c <= h + 1
         \/ k = n + 1 /\ h = hits + c
  PROVE  h <= correct + c /\ correct + c <= attempts + 1 - (k - h)
  OBVIOUS

\* An answer whose row starts at the stored rating leaves a record that adds up.
LEMMA ScoredAddsUp ==
  ASSUME NEW p \in OperatorProgress, AddsUp(p), NEW row \in Row, row.before = p.rating
  PROVE  AddsUp(Scored(p, row))
<1> DEFINE n == Len(p.runs)
           rows == Append(p.runs, row)
           k == IF n + 1 > MaxRunHistory THEN MaxRunHistory ELSE n + 1
           kept == Kept(rows)
           q == Scored(p, row)
           c == IF row.correct THEN 1 ELSE 0
           hits == Cardinality(Hits(p.runs))
<1>1. /\ p.runs \in Seq(Row) /\ n \in Nat /\ MaxRunHistory \in Nat \ {0}
      /\ p.attempts \in Nat /\ p.correct \in Nat /\ hits \in Nat /\ c \in Nat
  BY AddsUpHits, HitsCount, HistoryAssumption DEF OperatorProgress
<1>2. /\ n = IF p.attempts < MaxRunHistory THEN p.attempts ELSE MaxRunHistory
      /\ \A i \in 1 .. n - 1 : p.runs[i].after = p.runs[i + 1].before
      /\ p.rating = IF n = 0 THEN DefaultRating ELSE p.runs[n].after
      /\ hits <= p.correct /\ p.correct <= p.attempts - (n - hits)
  BY AddsUpHits DEF AddsUp
<1>3. /\ rows \in Seq(Row) /\ Len(rows) = n + 1 /\ rows[n + 1] = row
      /\ \A i \in 1 .. n : rows[i] = p.runs[i]
      /\ Cardinality(Hits(rows)) = hits + c
  BY <1>1, AppendProperties, HitsAppend
<1> HIDE DEF rows
<1>4. /\ kept \in Seq(Row) /\ Len(kept) = k
      /\ \A i \in 1 .. k : kept[i] = rows[n + 1 - k + i]
  <2>1. /\ Kept(rows) \in Seq(Row)
        /\ Len(Kept(rows)) = IF Len(rows) > MaxRunHistory THEN MaxRunHistory ELSE Len(rows)
        /\ \A i \in 1 .. Len(Kept(rows)) :
             Kept(rows)[i] = rows[Len(rows) - Len(Kept(rows)) + i]
    BY <1>3, KeptRows
  <2>2. Len(Kept(rows)) = k
    BY <1>3, <2>1
  <2> HIDE DEF k
  <2> QED BY <1>3, <2>1, <2>2
<1>5. /\ q.runs = kept /\ q.rating = row.after
      /\ q.attempts = p.attempts + 1 /\ q.correct = p.correct + c
  BY DEF Scored, rows
<1>6. q \in OperatorProgress
  BY ScoredType
<1>7. /\ n + 1 > MaxRunHistory => k = MaxRunHistory
      /\ ~ (n + 1 > MaxRunHistory) => k = n + 1
  OBVIOUS
<1> HIDE DEF kept, q, c, hits, n, k
<1>8. /\ p.attempts < MaxRunHistory => n = p.attempts /\ k = n + 1
      /\ ~ (p.attempts < MaxRunHistory) => n = MaxRunHistory /\ k = n
  BY <1>1, <1>2, <1>7
<1>9. n \in Nat /\ k \in Nat /\ k # 0 /\ k <= n + 1
  BY <1>1, <1>8
<1>10. \A i \in 1 .. k - 1 : kept[i].after = kept[i + 1].before
  <2>1. ASSUME NEW i \in 1 .. n PROVE rows[i].after = rows[i + 1].before
    <3>1. CASE i = n
      <4>1. n # 0 /\ rows[n] = p.runs[n] /\ rows[n + 1] = row
        BY <1>3, <1>9, <3>1
      <4> QED BY <1>2, <3>1, <4>1
    <3>2. CASE i # n
      <4>1. i \in 1 .. n - 1 /\ i + 1 \in 1 .. n
        BY <1>9, <3>2
      <4> QED BY <1>2, <1>3, <4>1
    <3> QED BY <3>1, <3>2
  <2>2. ASSUME NEW i \in 1 .. k - 1 PROVE kept[i].after = kept[i + 1].before
    <3>1. i \in 1 .. k /\ i + 1 \in 1 .. k /\ n + 1 - k + i \in 1 .. n
      BY <1>9
    <3>2. kept[i] = rows[n + 1 - k + i] /\ kept[i + 1] = rows[n + 1 - k + (i + 1)]
      BY <1>4, <3>1
    <3>3. n + 1 - k + (i + 1) = (n + 1 - k + i) + 1
      BY <1>9
    <3> QED BY <2>1, <3>1, <3>2, <3>3
  <2> QED BY <2>2
<1>11. q.rating = kept[k].after
  <2>1. k \in 1 .. k /\ n + 1 - k + k = n + 1
    BY <1>9
  <2>2. kept[k] = rows[n + 1 - k + k]
    BY <1>4, <2>1
  <2> QED BY <1>3, <1>5, <2>1, <2>2
<1>12. /\ Cardinality(Hits(kept)) <= q.correct
       /\ q.correct <= q.attempts - (k - Cardinality(Hits(kept)))
  <2> DEFINE h == Cardinality(Hits(kept))
  <2>1. h \in Nat
    BY <1>4, HitsCount
  <2>2. CASE k = n
    <3>1. \A i \in 1 .. k : kept[i] = rows[i + 1]
      <4>1. \A i \in 1 .. k : n + 1 - k + i = i + 1
        BY <1>9, <2>2
      <4> QED BY <1>4, <4>1
    <3>2. Len(rows) = Len(kept) + 1
      BY <1>3, <1>4, <2>2
    <3>3. h <= hits + c /\ hits + c <= h + 1
      BY <1>3, <1>4, <3>1, <3>2, HitsShift
    <3>4. h <= p.correct + c /\ p.correct + c <= p.attempts + 1 - (k - h)
      BY <1>1, <1>2, <1>9, <2>1, <2>2, <3>3, Balance
    <3>5. q.correct = p.correct + c /\ q.attempts = p.attempts + 1
      BY <1>5
    <3> QED BY <1>1, <1>9, <2>1, <3>4, <3>5
  <2>3. CASE k = n + 1
    <3>1. \A i \in 1 .. n + 1 : kept[i] = rows[i]
      <4>1. \A i \in 1 .. k : n + 1 - k + i = i
        BY <1>9, <2>3
      <4> QED BY <1>4, <2>3, <4>1
    <3>2. DOMAIN kept = 1 .. n + 1 /\ DOMAIN rows = 1 .. n + 1
      BY <1>3, <1>4, <2>3, LenProperties
    <3>3. h = hits + c
      <4>1. Hits(kept) = Hits(rows)
        BY <3>1, <3>2 DEF Hits
      <4> QED BY <1>3, <4>1
    <3>4. h <= p.correct + c /\ p.correct + c <= p.attempts + 1 - (k - h)
      <4>1. hits <= p.correct /\ p.correct <= p.attempts - (n - hits)
        BY <1>2
      <4>2. h <= p.correct + c
        BY <1>1, <2>1, <3>3, <4>1
      <4>3. k - h = n - hits + 1 - c
        BY <1>1, <1>9, <2>1, <2>3, <3>3
      <4> QED BY <1>1, <1>9, <2>1, <4>1, <4>2, <4>3
    <3>5. q.correct = p.correct + c /\ q.attempts = p.attempts + 1
      BY <1>5
    <3> QED BY <1>1, <1>9, <2>1, <3>4, <3>5
  <2> QED BY <1>8, <2>2, <2>3
<1>13. k = IF q.attempts < MaxRunHistory THEN q.attempts ELSE MaxRunHistory
  BY <1>1, <1>5, <1>8
<1>14. /\ Len(q.runs) = k
       /\ {i \in 1 .. Len(q.runs) : q.runs[i].correct} = Hits(q.runs)
  BY <1>4, <1>5, <1>6, AddsUpHits
<1>15. AddsUp(q)
  BY <1>5, <1>9, <1>10, <1>11, <1>12, <1>13, <1>14 DEF AddsUp
<1> QED BY <1>15 DEF q

LEMMA FreshAddsUp == AddsUp(fresh)
<1>1. fresh.runs = << >> /\ fresh.attempts = 0 /\ fresh.correct = 0
      /\ fresh.rating = DefaultRating
  BY DEF fresh
<1>2. Len(fresh.runs) = 0 /\ {i \in 1 .. 0 : fresh.runs[i].correct} = {}
  BY <1>1, EmptySeq
<1>3. Cardinality({}) = 0
  BY FS_EmptySet
<1> QED BY <1>1, <1>2, <1>3, HistoryAssumption DEF AddsUp

-----------------------------------------------------------------------------
(* Streaks *)

\* The places of the hits of an item since its last miss, and whether it was missed.
Since(rows, item) ==
  {i \in DOMAIN rows :
     /\ rows[i].item = item
     /\ \A j \in DOMAIN rows : j >= i /\ rows[j].item = item => rows[j].correct}

Missed(rows, item) == \E i \in DOMAIN rows : rows[i].item = item /\ ~ rows[i].correct

LEMMA SinceCount ==
  ASSUME NEW rows \in Seq(Row), NEW item
  PROVE  IsFiniteSet(Since(rows, item)) /\ Cardinality(Since(rows, item)) \in Nat
<1>1. Len(rows) \in Nat /\ DOMAIN rows = 1 .. Len(rows)
  BY LenProperties
<1>2. IsFiniteSet(1 .. Len(rows)) /\ Since(rows, item) \subseteq 1 .. Len(rows)
  BY <1>1, FS_Interval DEF Since
<1>3. IsFiniteSet(Since(rows, item))
  BY <1>2, FS_Subset
<1> QED BY <1>3, FS_CardinalityType

\* One more row: a hit of the item counts, a miss ends the count, another item's changes
\* nothing.
LEMMA SinceAppend ==
  ASSUME NEW rows \in Seq(Row), NEW row \in Row, NEW item
  PROVE  LET more == Append(rows, row)
             was  == Cardinality(Since(rows, item))
             is   == Cardinality(Since(more, item))
         IN  /\ row.item # item =>
                  is = was /\ (Missed(more, item) <=> Missed(rows, item))
             /\ row.item = item /\ row.correct =>
                  is = was + 1 /\ (Missed(more, item) <=> Missed(rows, item))
             /\ row.item = item /\ ~ row.correct => is = 0
<1> DEFINE n == Len(rows)
           more == Append(rows, row)
<1>1. n \in Nat /\ DOMAIN rows = 1 .. n
  BY LenProperties
<1>2. /\ more \in Seq(Row) /\ Len(more) = n + 1
      /\ \A i \in 1 .. n : more[i] = rows[i]
      /\ more[n + 1] = row
  BY AppendProperties
<1>3. DOMAIN more = 1 .. n + 1
  BY <1>2, LenProperties
<1> HIDE DEF more
<1>4. /\ IsFiniteSet(Since(rows, item)) /\ Cardinality(Since(rows, item)) \in Nat
      /\ n + 1 \notin Since(rows, item)
  <2>1. n + 1 \notin Since(rows, item)
    BY <1>1 DEF Since
  <2> QED BY <2>1, SinceCount
<1>5. \A i \in 1 .. n + 1 : i \in 1 .. n \/ i = n + 1
  BY <1>1
<1>6. CASE row.item # item
  <2>1. Since(more, item) = Since(rows, item)
    BY <1>1, <1>2, <1>3, <1>5, <1>6 DEF Since
  <2>2. Missed(more, item) <=> Missed(rows, item)
    BY <1>1, <1>2, <1>3, <1>5, <1>6 DEF Missed
  <2> QED BY <1>6, <2>1, <2>2 DEF more
<1>7. CASE row.item = item /\ row.correct
  <2>1. Since(more, item) = Since(rows, item) \cup {n + 1}
    BY <1>1, <1>2, <1>3, <1>5, <1>7 DEF Since
  <2>2. Missed(more, item) <=> Missed(rows, item)
    BY <1>1, <1>2, <1>3, <1>5, <1>7 DEF Missed
  <2>3. Cardinality(Since(more, item)) = Cardinality(Since(rows, item)) + 1
    BY <1>4, <2>1, FS_AddElement
  <2> QED BY <1>7, <2>2, <2>3 DEF more
<1>8. CASE row.item = item /\ ~ row.correct
  <2>1. Since(more, item) = {}
    BY <1>1, <1>2, <1>3, <1>5, <1>8 DEF Since
  <2> QED BY <1>8, <2>1, FS_EmptySet DEF more
<1> QED BY <1>6, <1>7, <1>8

\* Without the oldest row: a miss that is still there means that the oldest row did not
\* count, and otherwise one hit may be gone.
LEMMA SinceShift ==
  ASSUME NEW rows \in Seq(Row), NEW kept \in Seq(Row), Len(rows) = Len(kept) + 1,
         \A i \in 1 .. Len(kept) : kept[i] = rows[i + 1], NEW item
  PROVE  /\ Missed(kept, item) =>
              /\ Missed(rows, item)
              /\ Cardinality(Since(kept, item)) = Cardinality(Since(rows, item))
         /\ Cardinality(Since(kept, item)) <= Cardinality(Since(rows, item))
<1> DEFINE n == Len(kept)
           later == Since(rows, item) \ {1}
<1>1. n \in Nat /\ DOMAIN kept = 1 .. n /\ DOMAIN rows = 1 .. n + 1
  BY LenProperties
<1>2. /\ IsFiniteSet(Since(rows, item)) /\ Cardinality(Since(rows, item)) \in Nat
      /\ IsFiniteSet(Since(kept, item)) /\ Cardinality(Since(kept, item)) \in Nat
  BY SinceCount
<1>3. /\ Cardinality(later) = Cardinality(Since(rows, item))
           \/ Cardinality(later) = Cardinality(Since(rows, item)) - 1
      /\ 1 \notin Since(rows, item) => Cardinality(later) = Cardinality(Since(rows, item))
  BY <1>2, FS_RemoveElement
<1>4. \A j \in 2 .. n + 1 : j - 1 \in 1 .. n /\ kept[j - 1] = rows[j]
  <2>1. ASSUME NEW j \in 2 .. n + 1 PROVE j - 1 \in 1 .. n /\ kept[j - 1] = rows[j]
    <3>1. j - 1 \in 1 .. n /\ j - 1 + 1 = j
      BY <1>1
    <3> QED BY <3>1
  <2> QED BY <2>1
<1>5. ASSUME NEW i \in 1 .. n
      PROVE  i \in Since(kept, item) <=> i + 1 \in Since(rows, item)
  <2>1. i + 1 \in 1 .. n + 1 /\ kept[i] = rows[i + 1]
    BY <1>1
  <2>2. ASSUME i \in Since(kept, item) PROVE i + 1 \in Since(rows, item)
    <3>1. ASSUME NEW j \in 1 .. n + 1, j >= i + 1, rows[j].item = item
          PROVE  rows[j].correct
      <4>1. j \in 2 .. n + 1 /\ j - 1 >= i
        BY <1>1, <3>1
      <4>2. j - 1 \in 1 .. n /\ kept[j - 1] = rows[j]
        BY <1>4, <4>1
      <4> QED BY <1>1, <2>2, <3>1, <4>1, <4>2 DEF Since
    <3> QED BY <1>1, <2>1, <2>2, <3>1 DEF Since
  <2>3. ASSUME i + 1 \in Since(rows, item) PROVE i \in Since(kept, item)
    <3>1. ASSUME NEW j \in 1 .. n, j >= i, kept[j].item = item
          PROVE  kept[j].correct
      <4>1. j + 1 \in 1 .. n + 1 /\ j + 1 >= i + 1 /\ kept[j] = rows[j + 1]
        BY <1>1, <3>1
      <4> QED BY <1>1, <2>3, <3>1, <4>1 DEF Since
    <3> QED BY <1>1, <2>1, <2>3, <3>1 DEF Since
  <2> QED BY <2>2, <2>3
<1>6. Cardinality(later) = Cardinality(Since(kept, item))
  <2> DEFINE f == [i \in Since(kept, item) |-> i + 1]
  <2>1. \A i \in Since(kept, item) : i \in 1 .. n
    BY <1>1 DEF Since
  <2>2. f \in [Since(kept, item) -> later]
    BY <1>1, <1>5, <2>1
  <2>3. \A i, j \in Since(kept, item) : f[i] = f[j] => i = j
    BY <1>1, <2>1
  <2>4. \A j \in later : \E i \in Since(kept, item) : f[i] = j
    <3>1. ASSUME NEW j \in later
          PROVE  j - 1 \in Since(kept, item) /\ f[j - 1] = j
      <4>1. j \in 1 .. n + 1 /\ j # 1
        BY <1>1 DEF Since
      <4>2. j - 1 \in 1 .. n /\ j - 1 + 1 = j
        BY <1>1, <4>1
      <4> QED BY <1>5, <4>2
    <3> QED BY <3>1
  <2> HIDE DEF f, later
  <2>5. f \in Bijection(Since(kept, item), later)
    BY <2>2, <2>3, <2>4 DEF Bijection, Injection, Surjection, IsInjective
  <2>6. ExistsBijection(Since(kept, item), later)
    BY <2>5 DEF ExistsBijection
  <2> QED BY <1>2, <2>6, FS_Bijection
<1>7. ASSUME Missed(kept, item)
      PROVE  Missed(rows, item) /\ 1 \notin Since(rows, item)
  <2>1. PICK i \in 1 .. n : kept[i].item = item /\ ~ kept[i].correct
    BY <1>1, <1>7 DEF Missed
  <2>2. i + 1 \in 1 .. n + 1 /\ i + 1 >= 1 /\ kept[i] = rows[i + 1]
    BY <1>1
  <2> QED BY <1>1, <2>1, <2>2 DEF Missed, Since
<1> HIDE DEF later
<1> QED BY <1>2, <1>3, <1>6, <1>7

\* A record that agrees with its rows in every streak.
StreaksHold(p) == \A i \in Items : StreakAgrees(p, i)

LEMMA StreakIs ==
  ASSUME NEW p, NEW item
  PROVE  StreakAgrees(p, item) <=>
           IF Missed(p.runs, item) \/ p.attempts <= MaxRunHistory
             THEN p.streak[item] = Cardinality(Since(p.runs, item))
             ELSE p.streak[item] >= Cardinality(Since(p.runs, item))
  BY DEF StreakAgrees, HitsSinceMiss, Missed, Since

\* One scored answer keeps the streaks in step with the rows, below the cap of the history
\* and at it.
LEMMA ScoredStreaks ==
  ASSUME NEW p \in OperatorProgress, AddsUp(p), StreaksHold(p), NEW row \in Row
  PROVE  StreaksHold(Scored(p, row))
<1> DEFINE n == Len(p.runs)
           more == Append(p.runs, row)
           kept == Kept(more)
           q == Scored(p, row)
<1>1. /\ p.runs \in Seq(Row) /\ n \in Nat /\ MaxRunHistory \in Nat \ {0}
      /\ p.attempts \in Nat /\ p.streak \in [Items -> Nat]
      /\ row.item \in Items /\ row.correct \in BOOLEAN
  BY LenProperties, HistoryAssumption DEF OperatorProgress, Row
<1>2. n = IF p.attempts < MaxRunHistory THEN p.attempts ELSE MaxRunHistory
  BY DEF AddsUp
<1>3. more \in Seq(Row) /\ Len(more) = n + 1
  BY <1>1, AppendProperties
<1>4. /\ q.runs = kept /\ q.attempts = p.attempts + 1
      /\ q.streak = [p.streak EXCEPT ![row.item] = StreakAfter(@, row.correct)]
  BY DEF Scored
<1>5. /\ kept \in Seq(Row)
      /\ Len(kept) = IF n + 1 > MaxRunHistory THEN MaxRunHistory ELSE n + 1
      /\ \A i \in 1 .. Len(kept) : kept[i] = more[n + 1 - Len(kept) + i]
  <2>1. LET m == Len(more)
            k == IF m > MaxRunHistory THEN MaxRunHistory ELSE m
        IN  /\ Kept(more) \in Seq(Row) /\ Len(Kept(more)) = k
            /\ \A i \in 1 .. k : Kept(more)[i] = more[m - k + i]
    BY <1>3, KeptRows
  <2> HIDE DEF more
  <2> QED BY <1>3, <2>1
<1> SUFFICES ASSUME NEW item \in Items PROVE StreakAgrees(q, item)
  BY DEF StreaksHold
<1> DEFINE was == Cardinality(Since(p.runs, item))
           mid == Cardinality(Since(more, item))
           is  == Cardinality(Since(kept, item))
<1>6. was \in Nat /\ mid \in Nat /\ is \in Nat /\ q.streak[item] \in Nat
  <2>1. q.streak[item] \in Nat
    BY <1>1, <1>4 DEF StreakAfter
  <2>2. was \in Nat /\ mid \in Nat /\ is \in Nat
    BY <1>1, <1>3, <1>5, SinceCount
  <2> QED BY <2>1, <2>2
<1>7. IF Missed(p.runs, item) \/ p.attempts <= MaxRunHistory
        THEN p.streak[item] = was ELSE p.streak[item] >= was
  BY StreakIs DEF StreaksHold
<1>8. /\ row.item # item => mid = was /\ (Missed(more, item) <=> Missed(p.runs, item))
      /\ row.item = item /\ row.correct =>
           mid = was + 1 /\ (Missed(more, item) <=> Missed(p.runs, item))
      /\ row.item = item /\ ~ row.correct => mid = 0
  BY <1>1, SinceAppend
<1>9. q.streak[item] = IF row.item = item THEN StreakAfter(p.streak[item], row.correct)
                                          ELSE p.streak[item]
  BY <1>1, <1>4
<1> HIDE DEF was, mid, is, q, more, kept
<1>10. IF Missed(more, item) \/ p.attempts <= MaxRunHistory
         THEN q.streak[item] = mid ELSE q.streak[item] >= mid
  <2>1. p.streak[item] \in Nat
    BY <1>1
  <2>2. CASE row.item # item
    BY <1>7, <1>8, <1>9, <2>2
  <2>3. CASE row.item = item /\ row.correct
    BY <1>6, <1>7, <1>8, <1>9, <2>1, <2>3 DEF StreakAfter
  <2>4. CASE row.item = item /\ ~ row.correct
    BY <1>6, <1>8, <1>9, <2>4 DEF StreakAfter
  <2> QED BY <1>1, <2>2, <2>3, <2>4
<1>11. CASE ~ (n + 1 > MaxRunHistory)
  <2>1. Len(kept) = n + 1 /\ \A i \in 1 .. n + 1 : kept[i] = more[i]
    <3>1. Len(kept) = n + 1
      BY <1>5, <1>11
    <3>2. \A i \in 1 .. n + 1 : n + 1 - (n + 1) + i = i
      BY <1>1
    <3> QED BY <1>5, <3>1, <3>2
  <2>2. DOMAIN kept = DOMAIN more /\ \A i \in DOMAIN more : kept[i] = more[i]
    BY <1>3, <1>5, <2>1, LenProperties
  <2>3. Since(kept, item) = Since(more, item) /\ (Missed(kept, item) <=> Missed(more, item))
    BY <2>2 DEF Since, Missed
  <2>4. p.attempts <= MaxRunHistory /\ q.attempts <= MaxRunHistory
    BY <1>1, <1>2, <1>4, <1>11
  <2>5. is = mid
    BY <2>3 DEF is, mid
  <2>6. q.streak[item] = is
    BY <1>10, <2>4, <2>5
  <2> QED BY <1>4, <2>4, <2>6, StreakIs DEF is
<1>12. CASE n + 1 > MaxRunHistory
  <2>1. n = MaxRunHistory /\ Len(kept) = n /\ q.attempts > MaxRunHistory
    BY <1>1, <1>2, <1>4, <1>5, <1>12
  <2>2. Len(more) = Len(kept) + 1 /\ \A i \in 1 .. Len(kept) : kept[i] = more[i + 1]
    <3>1. \A i \in 1 .. n : n + 1 - n + i = i + 1
      BY <1>1
    <3> QED BY <1>3, <1>5, <2>1, <3>1
  <2>3. /\ Missed(kept, item) => Missed(more, item) /\ is = mid
        /\ is <= mid
    BY <1>3, <1>5, <2>2, SinceShift DEF is, mid
  <2>4. IF Missed(kept, item) THEN q.streak[item] = is ELSE q.streak[item] >= is
    BY <1>6, <1>10, <2>3
  <2>5. ~ (q.attempts <= MaxRunHistory)
    BY <1>1, <1>4, <2>1
  <2> QED BY <1>4, <2>4, <2>5, StreakIs DEF is
<1> QED BY <1>11, <1>12

-----------------------------------------------------------------------------
(* The stored records *)

\* What is kept of an operator agrees with itself.
Consistent(p) == AddsUp(p) /\ StreaksHold(p)

LEMMA ScoredConsistent ==
  ASSUME NEW p \in OperatorProgress, Consistent(p), NEW row \in Row, row.before = p.rating
  PROVE  Consistent(Scored(p, row))
  BY ScoredAddsUp, ScoredStreaks DEF Consistent

LEMMA FreshConsistent == Consistent(fresh)
<1>1. ASSUME NEW i \in Items PROVE StreakAgrees(fresh, i)
  <2>1. fresh.runs = << >> /\ fresh.attempts = 0 /\ fresh.streak[i] = 0
    BY DEF fresh
  <2>2. Since(fresh.runs, i) = {}
    BY <2>1 DEF Since
  <2>3. Cardinality(Since(fresh.runs, i)) = 0
    BY <2>2, FS_EmptySet
  <2>4. 0 <= MaxRunHistory
    BY HistoryAssumption
  <2> HIDE DEF fresh
  <2> QED BY <2>1, <2>3, <2>4, StreakIs
<1> QED BY <1>1, FreshAddsUp DEF Consistent, StreaksHold

FileConsistent == \A o \in Operators : file[o] # None => Consistent(file[o])

\* Every record in a file adds up.
BlobConsistent(blob) == \A o \in Operators : blob[o] # None => Consistent(blob[o])

\* The copies the threads work on, and the files they have read, add up as well.
CopiesConsistent == \A w \in Workers : Consistent(mine[w].copy) /\ BlobConsistent(mine[w].blob)

HInv == FileConsistent /\ CopiesConsistent

LEMMA NothingConsistent == BlobConsistent(NoFile) /\ Consistent(blank.copy) /\ BlobConsistent(blank.blob)
  BY FreshConsistent DEF BlobConsistent, NoFile, blank

LEMMA ReadConsistent ==
  ASSUME TInv, HInv, NEW blob \in ReadBack
  PROVE  BlobConsistent(blob) /\ \A op \in Operators : Consistent(LoadFrom(blob, op))
<1>1. BlobConsistent(blob)
  BY NothingConsistent DEF ReadBack, HInv, FileConsistent, BlobConsistent
<1> QED BY <1>1, FreshConsistent DEF BlobConsistent, LoadFrom

\* A thread goes on with a frame that adds up, and the file is left alone.
LEMMA FrameConsistent ==
  ASSUME TInv, HInv, NEW w \in Workers, NEW frame,
         mine' = [mine EXCEPT ![w] = frame], file' = file,
         Consistent(frame.copy), BlobConsistent(frame.blob)
  PROVE  HInv'
<1>1. mine \in [Workers -> Frame]
  BY DEF TInv, TypeOK
<1>2. \A v \in Workers : mine'[v] = IF v = w THEN frame ELSE mine[v]
  BY <1>1
<1>3. FileConsistent'
  BY DEF HInv, FileConsistent
<1>4. CopiesConsistent'
  BY <1>2 DEF HInv, CopiesConsistent, BlobConsistent
<1> QED BY <1>3, <1>4 DEF HInv

LEMMA HistoryInit == Init => HInv
<1> SUFFICES ASSUME Init PROVE HInv
  OBVIOUS
<1>1. file = NoFile /\ mine = [w \in Workers |-> blank]
  BY DEF Init
<1>2. FileConsistent
  BY <1>1, NothingConsistent DEF FileConsistent, BlobConsistent
<1>3. CopiesConsistent
  BY <1>1, NothingConsistent DEF CopiesConsistent
<1> QED BY <1>2, <1>3 DEF HInv

LEMMA RecordConsistent ==
  ASSUME TInv, HInv, NEW w \in Workers, Record(w)
  PROVE  HInv'
<1>1. mine[w] \in Frame /\ pc[w] = "save" /\ Consistent(mine[w].copy)
  BY Given DEF Record, HInv, CopiesConsistent
<1>2. PICK after \in RatingsAfter(mine[w].copy.rating, mine[w].verdict = "hit"),
           blob \in ReadBack :
        mine' = [mine EXCEPT ![w] =
                   [mine[w] EXCEPT !.copy = Scored(@, RowOf(w, after)), !.blob = blob]]
  BY DEF Record, Become, RowOf
<1> DEFINE copy == Scored(mine[w].copy, RowOf(w, after))
           frame == [mine[w] EXCEPT !.copy = copy, !.blob = blob]
<1>3. Consistent(copy)
  <2>1. mine[w].copy \in OperatorProgress
    BY <1>1 DEF Frame
  <2>2. RowOf(w, after) \in Row /\ RowOf(w, after).before = mine[w].copy.rating
    BY <1>1, RowType DEF RowOf
  <2> QED BY <1>1, <2>1, <2>2, ScoredConsistent
<1>4. BlobConsistent(blob)
  BY ReadConsistent
<1> HIDE DEF copy
<1>5. frame.copy = copy /\ frame.blob = blob
  BY <1>1 DEF Frame
<1>6. mine' = [mine EXCEPT ![w] = frame] /\ file' = file
  BY <1>2 DEF Record, shared, copy
<1> HIDE DEF frame
<1> QED BY <1>3, <1>4, <1>5, <1>6, FrameConsistent

LEMMA SaveWriteConsistent ==
  ASSUME TInv, HInv, NEW w \in Workers, SaveWrite(w)
  PROVE  HInv'
<1>1. mine[w] \in Frame /\ Consistent(mine[w].copy) /\ BlobConsistent(mine[w].blob) /\ mine' = mine
  BY Given DEF SaveWrite, HInv, CopiesConsistent
<1>2. /\ mine[w].blob \in Blob
      /\ file' = [mine[w].blob EXCEPT ![mine[w].op] = mine[w].copy]
  BY <1>1 DEF SaveWrite, Frame
<1>3. \A o \in Operators :
        file'[o] = IF o = mine[w].op THEN mine[w].copy ELSE mine[w].blob[o]
  BY <1>2 DEF Blob
<1>4. FileConsistent'
  BY <1>1, <1>3 DEF FileConsistent, BlobConsistent
<1>5. CopiesConsistent'
  BY <1>1 DEF HInv, CopiesConsistent
<1> QED BY <1>4, <1>5 DEF HInv

\* A read leaves a thread with a record that adds up.
LEMMA LoadsConsistent ==
  ASSUME TInv, HInv, NEW w \in Workers, ServeLoad(w) \/ ScoreLoad(w)
  PROVE  HInv'
<1>1. /\ mine[w] \in Frame /\ mine[w].op \in Operators /\ BlobConsistent(mine[w].blob)
  BY Given DEF ServeLoad, ScoreLoad, Fits, HInv, CopiesConsistent
<1>2. PICK blob \in ReadBack :
        mine' = [mine EXCEPT ![w] = [mine[w] EXCEPT !.copy = LoadFrom(blob, mine[w].op)]]
  BY DEF ServeLoad, ScoreLoad, Become
<1> DEFINE frame == [mine[w] EXCEPT !.copy = LoadFrom(blob, mine[w].op)]
<1>3. Consistent(LoadFrom(blob, mine[w].op))
  BY <1>1, ReadConsistent
<1>4. frame.copy = LoadFrom(blob, mine[w].op) /\ frame.blob = mine[w].blob
  BY <1>1 DEF Frame
<1>5. mine' = [mine EXCEPT ![w] = frame] /\ file' = file
  BY <1>2 DEF ServeLoad, ScoreLoad, shared
<1> HIDE DEF frame
<1> QED BY <1>1, <1>3, <1>4, <1>5, FrameConsistent

\* The file is left alone, and so are the record and the file a thread has read; or its
\* request begins or ends.
KeepsRecord(w) ==
  /\ file' = file
  /\ \E frame :
       /\ mine' = [mine EXCEPT ![w] = frame]
       /\ \/ frame.copy = mine[w].copy /\ frame.blob = mine[w].blob
          \/ frame.copy = blank.copy /\ frame.blob = blank.blob

LEMMA ServingKeepsRecord ==
  ASSUME TInv, NEW w \in Workers,
         \/ \E op \in Operators, want \in Wanted : Serve(w, op, want)
         \/ Select(w) \/ SelectNothing(w) \/ Render(w)
         \/ \E why \in Reasons : RenderRefused(w, why)
         \/ Withhold(w) \/ NoteReason(w)
  PROVE  KeepsRecord(w)
<1>1. mine[w] \in Frame /\ mine = [mine EXCEPT ![w] = mine[w]] /\ blank \in Frame
  BY Given, BlankType
<1>2. file' = file
  BY DEF Serve, Select, SelectNothing, Render, RenderRefused, Withhold, NoteReason, shared
<1>3. CASE \E op \in Operators, want \in Wanted : Serve(w, op, want)
  <2>1. PICK op \in Operators, want \in Wanted :
          mine' = [mine EXCEPT ![w] =
                     [blank EXCEPT !.op = op, !.item = want, !.named = (want # None)]]
    BY <1>3 DEF Serve, Become
  <2> DEFINE frame == [blank EXCEPT !.op = op, !.item = want, !.named = (want # None)]
  <2>2. frame.copy = blank.copy /\ frame.blob = blank.blob
    BY <1>1 DEF Frame
  <2> HIDE DEF frame
  <2>3. mine' = [mine EXCEPT ![w] = frame]
    BY <2>1 DEF frame
  <2> QED BY <1>2, <2>2, <2>3 DEF KeepsRecord
<1>4. CASE Select(w)
  <2>1. PICK i \in IF mine[w].named THEN {mine[w].item} ELSE Scorable :
          mine' = [mine EXCEPT ![w] =
                     [mine[w] EXCEPT !.item = i, !.seed = Attempts(mine[w].copy, i)]]
    BY <1>4 DEF Select, Become
  <2> DEFINE frame == [mine[w] EXCEPT !.item = i, !.seed = Attempts(mine[w].copy, i)]
  <2>2. frame.copy = mine[w].copy /\ frame.blob = mine[w].blob
    BY <1>1 DEF Frame
  <2> HIDE DEF frame
  <2>3. mine' = [mine EXCEPT ![w] = frame]
    BY <2>1 DEF frame
  <2> QED BY <1>2, <2>2, <2>3 DEF KeepsRecord
<1>5. CASE Render(w)
  BY <1>1, <1>2, <1>5 DEF KeepsRecord, Render
<1>6. CASE SelectNothing(w)
  BY <1>2, <1>6 DEF KeepsRecord, SelectNothing, Finish, Become
<1>7. CASE \E why \in Reasons : RenderRefused(w, why)
  <2>1. PICK why \in Reasons : mine' = [mine EXCEPT ![w] = [mine[w] EXCEPT !.reason = why]]
    BY <1>7 DEF RenderRefused, Become
  <2> DEFINE frame == [mine[w] EXCEPT !.reason = why]
  <2>2. frame.copy = mine[w].copy /\ frame.blob = mine[w].blob
    BY <1>1 DEF Frame
  <2> HIDE DEF frame
  <2>3. mine' = [mine EXCEPT ![w] = frame]
    BY <2>1 DEF frame
  <2> QED BY <1>2, <2>2, <2>3 DEF KeepsRecord
<1>8. CASE Withhold(w) \/ NoteReason(w)
  <2>1. \/ mine' = mine
        \/ mine' = [mine EXCEPT ![w] = blank]
        \/ mine' = [mine EXCEPT ![w] = [mine[w] EXCEPT !.tries = @ + 1]]
    BY <1>8 DEF Withhold, NoteReason, Retry, Finish, Become
  <2>2. CASE mine' = mine
    BY <1>1, <1>2, <2>2 DEF KeepsRecord
  <2>3. CASE mine' = [mine EXCEPT ![w] = blank]
    BY <1>2, <2>3 DEF KeepsRecord
  <2>4. CASE mine' = [mine EXCEPT ![w] = [mine[w] EXCEPT !.tries = @ + 1]]
    <3> DEFINE frame == [mine[w] EXCEPT !.tries = @ + 1]
    <3>1. frame.copy = mine[w].copy /\ frame.blob = mine[w].blob
      BY <1>1 DEF Frame
    <3> HIDE DEF frame
    <3>2. mine' = [mine EXCEPT ![w] = frame]
      BY <2>4 DEF frame
    <3> QED BY <1>2, <3>1, <3>2 DEF KeepsRecord
  <2> QED BY <2>1, <2>2, <2>3, <2>4
<1> QED BY <1>3, <1>4, <1>5, <1>6, <1>7, <1>8

LEMMA EvictingKeepsRecord ==
  ASSUME TInv, NEW w \in Workers,
         \/ Hold(w) \/ ScanBegin(w) \/ ScanEnd(w) \/ DropExpired(w) \/ CountPending(w)
         \/ PopOldest(w)
  PROVE  KeepsRecord(w)
<1>1. mine[w] \in Frame /\ mine = [mine EXCEPT ![w] = mine[w]]
  BY Given
<1>2. file' = file
  BY DEF Hold, ScanBegin, ScanEnd, DropExpired, CountPending, PopOldest, shared, served
<1>3. CASE Hold(w)
  <2> DEFINE frame == [mine[w] EXCEPT !.run = Len(runs')]
  <2>1. frame.copy = mine[w].copy /\ frame.blob = mine[w].blob
    BY <1>1 DEF Frame
  <2> HIDE DEF frame
  <2>2. mine' = [mine EXCEPT ![w] = frame]
    BY <1>3 DEF Hold, Become, frame
  <2> QED BY <1>2, <2>1, <2>2 DEF KeepsRecord
<1>4. CASE ScanBegin(w)
  <2>0. PICK old \in Cutoffs :
          mine' = [mine EXCEPT ![w] = [mine[w] EXCEPT !.expired = old, !.seen = pending]]
    BY <1>4 DEF ScanBegin, Become
  <2> DEFINE frame == [mine[w] EXCEPT !.expired = old, !.seen = pending]
  <2>1. frame.copy = mine[w].copy /\ frame.blob = mine[w].blob
    BY <1>1 DEF Frame
  <2> HIDE DEF frame
  <2>2. mine' = [mine EXCEPT ![w] = frame]
    BY <2>0 DEF frame
  <2> QED BY <1>2, <2>1, <2>2 DEF KeepsRecord
<1>5. CASE ScanEnd(w)
  <2> DEFINE frame == [mine[w] EXCEPT !.seen = << >>]
  <2>1. frame.copy = mine[w].copy /\ frame.blob = mine[w].blob
    BY <1>1 DEF Frame
  <2> HIDE DEF frame
  <2>2. mine' = [mine EXCEPT ![w] = frame] \/ mine' = [mine EXCEPT ![w] = blank]
    BY <1>5 DEF ScanEnd, Finish, Become, frame
  <2> QED BY <1>2, <2>1, <2>2 DEF KeepsRecord
<1>6. CASE DropExpired(w)
  <2> DEFINE frame == [mine[w] EXCEPT !.expired = @ \ {Oldest(w)}]
  <2>1. frame.copy = mine[w].copy /\ frame.blob = mine[w].blob
    BY <1>1 DEF Frame
  <2> HIDE DEF frame
  <2>2. mine' = [mine EXCEPT ![w] = frame] \/ mine' = [mine EXCEPT ![w] = blank]
    BY <1>6 DEF DropExpired, Oldest, Finish, Become, frame
  <2> QED BY <1>2, <2>1, <2>2 DEF KeepsRecord
<1>7. CASE CountPending(w) \/ PopOldest(w)
  <2>1. mine' = mine \/ mine' = [mine EXCEPT ![w] = blank]
    BY <1>7 DEF CountPending, PopOldest, Finish, Become
  <2> QED BY <1>1, <1>2, <2>1 DEF KeepsRecord
<1> QED BY <1>3, <1>4, <1>5, <1>6, <1>7

LEMMA ScoringKeepsRecord ==
  ASSUME TInv, NEW w \in Workers,
         \/ \E op \in Operators, r \in DOMAIN runs, v \in Verdicts : Score(w, op, r, v)
         \/ Find(w) \/ SaveFails(w) \/ SetResult(w)
  PROVE  KeepsRecord(w)
<1>1. mine = [mine EXCEPT ![w] = mine[w]] /\ blank \in Frame
  BY Given, BlankType
<1>2. file' = file
  BY DEF Score, Find, SaveFails, SetResult, shared, served
<1>3. CASE \E op \in Operators, r \in DOMAIN runs, v \in Verdicts : Score(w, op, r, v)
  <2>1. PICK op \in Operators, r \in DOMAIN runs, v \in Verdicts :
          mine' = [mine EXCEPT ![w] = [blank EXCEPT !.op = op, !.run = r, !.verdict = v]]
    BY <1>3 DEF Score, Become
  <2> DEFINE frame == [blank EXCEPT !.op = op, !.run = r, !.verdict = v]
  <2>2. frame.copy = blank.copy /\ frame.blob = blank.blob
    BY <1>1 DEF Frame
  <2> HIDE DEF frame
  <2>3. mine' = [mine EXCEPT ![w] = frame]
    BY <2>1 DEF frame
  <2> QED BY <1>2, <2>2, <2>3 DEF KeepsRecord
<1>4. CASE Find(w) \/ SaveFails(w) \/ SetResult(w)
  <2>1. mine' = mine \/ mine' = [mine EXCEPT ![w] = blank]
    BY <1>4 DEF Find, SaveFails, SetResult, Finish, Become
  <2> QED BY <1>1, <1>2, <2>1 DEF KeepsRecord
<1> QED BY <1>3, <1>4

LEMMA OthersConsistent ==
  ASSUME TInv, HInv, NEW w \in Workers, KeepsRecord(w)
  PROVE  HInv'
<1>1. Consistent(mine[w].copy) /\ BlobConsistent(mine[w].blob)
  BY DEF HInv, CopiesConsistent
<1> QED BY <1>1, NothingConsistent, FrameConsistent DEF KeepsRecord

LEMMA HistoryStep == TInv /\ HInv /\ [Next]_vars => HInv'
<1> SUFFICES ASSUME TInv, HInv, [Next]_vars PROVE HInv'
  OBVIOUS
<1>1. ASSUME NEW w \in Workers,
             \/ \E op \in Operators, want \in Wanted : Serve(w, op, want)
             \/ \E op \in Operators, r \in DOMAIN runs, v \in Verdicts : Score(w, op, r, v)
             \/ Run(w)
      PROVE  HInv'
  <2>1. CASE \/ \E op \in Operators, want \in Wanted : Serve(w, op, want)
             \/ Select(w) \/ SelectNothing(w) \/ Render(w)
             \/ \E why \in Reasons : RenderRefused(w, why)
             \/ Withhold(w) \/ NoteReason(w)
    BY <2>1, ServingKeepsRecord, OthersConsistent
  <2>2. CASE \/ Hold(w) \/ ScanBegin(w) \/ ScanEnd(w) \/ DropExpired(w) \/ CountPending(w)
             \/ PopOldest(w)
    BY <2>2, EvictingKeepsRecord, OthersConsistent
  <2>3. CASE \/ \E op \in Operators, r \in DOMAIN runs, v \in Verdicts : Score(w, op, r, v)
             \/ Find(w) \/ SaveFails(w) \/ SetResult(w)
    BY <2>3, ScoringKeepsRecord, OthersConsistent
  <2>4. CASE ServeLoad(w) \/ ScoreLoad(w) \/ Record(w) \/ SaveWrite(w)
    BY <2>4, LoadsConsistent, RecordConsistent, SaveWriteConsistent
  <2> QED BY <1>1, <2>1, <2>2, <2>3, <2>4 DEF Run
<1>2. CASE UNCHANGED vars
  BY <1>2 DEF vars, HInv, FileConsistent, CopiesConsistent
<1>3. CASE Restart
  <2>1. file' = file /\ mine' = [w \in Workers |-> blank]
    BY <1>3 DEF Restart
  <2> QED BY <2>1, NothingConsistent DEF HInv, FileConsistent, CopiesConsistent
<1> QED BY <1>1, <1>2, <1>3 DEF Next

LEMMA HInvHolds == Spec => []HInv
  BY HistoryInit, HistoryStep, TInvHolds, PTL DEF Spec

\* Whatever the threads lose of one another's answers, what is stored of an operator is
\* consistent in itself: the rating is the last row's, every row starts where the one
\* before it ended, and the totals count what the rows show (_record and save()).
THEOREM DrillHistoryAddsUp == Spec => []HistoryAddsUp
<1>1. HInv => HistoryAddsUp
  BY DEF HInv, FileConsistent, Consistent, HistoryAddsUp
<1> QED BY <1>1, HInvHolds, PTL

\* The streak that spaces an item out is the one the kept rows show, with the history
\* below its cap or at it, and whatever other threads do (update_competency and the
\* due dates): it may only be longer when rows of the streak have aged out.
THEOREM DrillStreaksAgree == Spec => []StreaksAgree
<1>1. HInv => StreaksAgree
  BY DEF HInv, FileConsistent, Consistent, StreaksHold, StreaksAgree
<1> QED BY <1>1, HInvHolds, PTL

-----------------------------------------------------------------------------
(* The seeds: what a stored run is drawn with again *)

HeldNow == {r \in 1 .. Len(runs) : InPending(r)}

\* The row is of a run that was made, with the seed that served it, or without one when
\* the run is not held any more.
Own(row, made, held) ==
  /\ row.run \in 1 .. Len(made)
  /\ \/ row.seed = made[row.run].seed
     \/ row.seed = NoSeed /\ row.run \notin held

OwnRows(p, made, held) == \A i \in DOMAIN p.runs : Own(p.runs[i], made, held)
OwnBlob(blob, made, held) ==
  \A o \in Operators : blob[o] # None => OwnRows(blob[o], made, held)

\* The rows of the file, of the records the threads work on and of the files they read.
DInv ==
  /\ OwnBlob(file, runs, HeldNow)
  /\ \A w \in Workers : /\ OwnRows(mine[w].copy, runs, HeldNow)
                        /\ OwnBlob(mine[w].blob, runs, HeldNow)

\* A run keeps its seed, and one that left the map does not come back.
SeedsStay ==
  /\ Len(runs) <= Len(runs')
  /\ \A r \in 1 .. Len(runs) :
       runs'[r].seed = runs[r].seed /\ (InPending(r)' => InPending(r))

LEMMA OwnStays ==
  ASSUME TInv, TInv', SeedsStay
  PROVE  \A row : Own(row, runs, HeldNow) => Own(row, runs', HeldNow')
<1>1. Len(runs) \in Nat /\ Len(runs') \in Nat
  BY LenProperties DEF TInv, TypeOK
<1>2. \A r \in 1 .. Len(runs) : r \in HeldNow' => r \in HeldNow
  BY <1>1 DEF SeedsStay, HeldNow
<1> QED BY <1>1, <1>2 DEF SeedsStay, Own

LEMMA SameSeeds ==
  ASSUME TInv, UNCHANGED <<runs, pending>>
  PROVE  SeedsStay
<1>1. Len(runs) \in Nat
  BY LenProperties DEF TInv, TypeOK
<1> QED BY <1>1 DEF SeedsStay, InPending

LEMMA HoldSeeds ==
  ASSUME TInv, NEW w \in Workers, Hold(w)
  PROVE  SeedsStay
<1>1. Len(runs) \in Nat /\ runs \in Seq(Held) /\ pending \in Seq(1 .. Len(runs))
  BY LenProperties DEF TInv, TypeOK
<1> DEFINE run == [item |-> mine[w].item, seed |-> mine[w].seed, result |-> None,
                   known |-> FALSE]
<1>2. runs' = Append(runs, run)
  BY DEF Hold
<1> HIDE DEF run
<1>3. /\ Len(runs') = Len(runs) + 1
      /\ \A r \in 1 .. Len(runs) : runs'[r] = runs[r]
  BY <1>1, <1>2
<1>4. ASSUME NEW r \in 1 .. Len(runs), InPending(r)' PROVE InPending(r)
  <2>1. /\ DOMAIN pending' = 1 .. Len(pending) + 1 /\ DOMAIN pending = 1 .. Len(pending)
        /\ pending'[Len(pending) + 1] = Len(runs) + 1
        /\ \A i \in 1 .. Len(pending) : pending'[i] = pending[i]
        /\ Len(pending) \in Nat
    BY <1>1, <1>3 DEF Hold
  <2>2. PICK i \in 1 .. Len(pending) + 1 : pending'[i] = r
    BY <1>4, <2>1 DEF InPending
  <2>3. i # Len(pending) + 1
    BY <1>1, <2>1, <2>2
  <2> QED BY <2>1, <2>2, <2>3 DEF InPending
<1> QED BY <1>1, <1>3, <1>4 DEF SeedsStay

\* What is removed from the map leaves the rest.
LEMMA Removed ==
  ASSUME TInv, NEW r, \/ InPending(r) /\ pending' = Without(r)
                      \/ pending # << >> /\ pending' = Tail(pending)
  PROVE  \A q : InPending(q)' => InPending(q)
<1>1. pending \in Seq(1 .. Len(runs))
  BY DEF TInv, TypeOK
<1>2. CASE InPending(r) /\ pending' = Without(r)
  <2>1. PICK at \in 1 .. Len(pending) :
          /\ Without(r) \in Seq(1 .. Len(runs)) /\ Len(Without(r)) = Len(pending) - 1
          /\ \A i \in 1 .. Len(pending) - 1 :
               Without(r)[i] = IF i < at THEN pending[i] ELSE pending[i + 1]
    BY <1>1, <1>2, WithoutIs
  <2>2. DOMAIN Without(r) = 1 .. Len(pending) - 1 /\ DOMAIN pending = 1 .. Len(pending)
        /\ Len(pending) \in Nat
    BY <1>1, <2>1, LenProperties
  <2>3. \A i \in DOMAIN Without(r) : \E j \in DOMAIN pending : Without(r)[i] = pending[j]
    <3> TAKE i \in DOMAIN Without(r)
    <3>1. i \in 1 .. Len(pending) /\ i + 1 \in 1 .. Len(pending)
      BY <2>2
    <3> QED BY <2>1, <2>2, <3>1
  <2> QED BY <1>2, <2>3 DEF InPending
<1>3. CASE pending # << >> /\ pending' = Tail(pending)
  <2>1. /\ DOMAIN Tail(pending) = 1 .. Len(pending) - 1 /\ DOMAIN pending = 1 .. Len(pending)
        /\ Len(pending) \in Nat
        /\ \A i \in 1 .. Len(pending) - 1 : Tail(pending)[i] = pending[i + 1]
    BY <1>1, <1>3, HeadTailProperties, LenProperties
  <2>2. \A i \in 1 .. Len(pending) - 1 : i + 1 \in 1 .. Len(pending)
    BY <2>1
  <2> QED BY <1>3, <2>1, <2>2 DEF InPending
<1> QED BY <1>2, <1>3

LEMMA RemovalSeeds ==
  ASSUME TInv, NEW w \in Workers, DropExpired(w) \/ PopOldest(w)
  PROVE  SeedsStay
<1>1. runs' = runs /\ Len(runs) \in Nat
  BY LenProperties DEF DropExpired, PopOldest, TInv, TypeOK
<1>2. \/ InPending(Oldest(w)) /\ pending' = Without(Oldest(w))
      \/ pending # << >> /\ pending' = Tail(pending)
      \/ pending' = pending
  BY DEF DropExpired, PopOldest, Oldest
<1>3. CASE \/ InPending(Oldest(w)) /\ pending' = Without(Oldest(w))
           \/ pending # << >> /\ pending' = Tail(pending)
  BY <1>1, <1>3, Removed DEF SeedsStay
<1>4. CASE pending' = pending
  BY <1>1, <1>4, SameSeeds
<1> QED BY <1>2, <1>3, <1>4

\* What is noted of a run when it is sent, or scored, leaves its seed.
LEMMA NoteSeeds ==
  ASSUME TInv, TInv', NEW w \in Workers, CountPending(w) \/ SetResult(w)
  PROVE  SeedsStay
<1>1. /\ runs \in Seq(Held) /\ runs' \in Seq(Held) /\ pending' = pending
      /\ Len(runs) \in Nat /\ DOMAIN runs = 1 .. Len(runs) /\ DOMAIN runs' = 1 .. Len(runs')
      /\ Len(runs') \in Nat
  BY LenProperties DEF CountPending, SetResult, TInv, TypeOK
<1>2. \/ runs' = runs
      \/ runs' = [runs EXCEPT ![mine[w].run].known = TRUE]
      \/ runs' = [runs EXCEPT ![mine[w].run].result = ResultOf(w)]
  BY DEF CountPending, SetResult
<1>3. DOMAIN runs' = DOMAIN runs /\ \A r \in 1 .. Len(runs) : runs[r] \in Held
  BY <1>1, <1>2, ElementOfSeq
<1>4. Len(runs') = Len(runs)
  <2>1. runs' \in Seq(Held) /\ Len(runs) \in Nat /\ DOMAIN runs' = 1 .. Len(runs)
    BY <1>1, <1>3
  <2> QED BY <2>1, LenProperties
<1>5. \A r \in 1 .. Len(runs) : runs'[r].seed = runs[r].seed
  <2>1. CASE runs' = runs
    BY <2>1
  <2>2. CASE runs' = [runs EXCEPT ![mine[w].run].known = TRUE]
    BY <1>1, <1>3, <2>2 DEF Held
  <2>3. CASE runs' = [runs EXCEPT ![mine[w].run].result = ResultOf(w)]
    BY <1>1, <1>3, <2>3 DEF Held
  <2> QED BY <1>2, <2>1, <2>2, <2>3
<1> QED BY <1>1, <1>4, <1>5 DEF SeedsStay, InPending

LEMMA RestartSeeds ==
  ASSUME TInv, Restart
  PROVE  SeedsStay
<1>1. Len(runs) \in Nat /\ runs' = runs /\ pending' = << >>
  BY LenProperties DEF TInv, TypeOK, Restart
<1>2. \A r : ~ InPending(r)'
  BY <1>1 DEF InPending
<1> QED BY <1>1, <1>2 DEF SeedsStay

LEMMA NextSeeds ==
  ASSUME TInv, TInv', [Next]_vars
  PROVE  SeedsStay
<1>1. ASSUME NEW w \in Workers, Run(w) PROVE SeedsStay
  <2>1. CASE Hold(w)
    BY <2>1, HoldSeeds
  <2>2. CASE DropExpired(w) \/ PopOldest(w)
    BY <2>2, RemovalSeeds
  <2>3. CASE CountPending(w) \/ SetResult(w)
    BY <2>3, NoteSeeds
  <2>4. CASE UNCHANGED <<runs, pending>>
    BY <2>4, SameSeeds
  <2> QED
    BY <1>1, <2>1, <2>2, <2>3, <2>4
    DEF Run, ServeLoad, Select, SelectNothing, Render, RenderRefused, Withhold, NoteReason,
        ScanBegin, ScanEnd, Find, ScoreLoad, Record, SaveWrite, SaveFails, shared
<1>2. CASE UNCHANGED <<runs, pending>>
  BY <1>2, SameSeeds
<1>3. ASSUME NEW w \in Workers,
             \/ \E op \in Operators, want \in Wanted : Serve(w, op, want)
             \/ \E op \in Operators, r \in DOMAIN runs, v \in Verdicts : Score(w, op, r, v)
      PROVE  UNCHANGED <<runs, pending>>
  BY <1>3 DEF Serve, Score, shared
<1> QED BY <1>1, <1>2, <1>3, RestartSeeds DEF Next, vars

-----------------------------------------------------------------------------
LEMMA NothingOwn ==
  ASSUME NEW made, NEW held
  PROVE  /\ OwnRows(fresh, made, held) /\ OwnRows(blank.copy, made, held)
         /\ OwnBlob(NoFile, made, held) /\ OwnBlob(blank.blob, made, held)
  BY DEF OwnRows, OwnBlob, NoFile, blank, fresh

\* A record with its newest answer: every row was there, or is the answer's.
LEMMA ScoredOwn ==
  ASSUME NEW made, NEW held, NEW p \in OperatorProgress, NEW row \in Row,
         OwnRows(p, made, held), Own(row, made, held)
  PROVE  OwnRows(Scored(p, row), made, held)
<1> DEFINE rows == Append(p.runs, row)
           n == Len(rows)
           k == IF n > MaxRunHistory THEN MaxRunHistory ELSE n
<1>1. p.runs \in Seq(Row) /\ Len(p.runs) \in Nat /\ DOMAIN p.runs = 1 .. Len(p.runs)
  BY LenProperties DEF OperatorProgress
<1>2. /\ rows \in Seq(Row) /\ n = Len(p.runs) + 1
      /\ \A i \in 1 .. Len(p.runs) : rows[i] = p.runs[i]
      /\ rows[n] = row
  BY <1>1, AppendProperties
<1> HIDE DEF rows
<1>3. \A i \in 1 .. n : Own(rows[i], made, held)
  <2> TAKE i \in 1 .. n
  <2>1. CASE i = n
    BY <1>2, <2>1
  <2>2. CASE i # n
    <3>1. i \in 1 .. Len(p.runs)
      BY <1>1, <1>2, <2>2
    <3> QED BY <1>1, <1>2, <3>1 DEF OwnRows
  <2> QED BY <2>1, <2>2
<1>4. /\ Kept(rows) \in Seq(Row) /\ Len(Kept(rows)) = k
      /\ \A i \in 1 .. k : Kept(rows)[i] = rows[n - k + i]
  BY <1>2, KeptRows
<1>5. \A i \in 1 .. k : n - k + i \in 1 .. n
  <2>1. n \in Nat /\ k \in Nat /\ k <= n
    BY <1>1, <1>2, HistoryAssumption
  <2> HIDE DEF n, k
  <2> QED BY <2>1
<1>6. \A i \in DOMAIN Kept(rows) : Own(Kept(rows)[i], made, held)
  BY <1>3, <1>4, <1>5, LenProperties
<1>7. Scored(p, row).runs = Kept(rows)
  BY DEF Scored, rows
<1> QED BY <1>6, <1>7 DEF OwnRows

\* Another file, and another frame for a thread; everything else stays.
LEMMA FrameOwn ==
  ASSUME TInv, TInv', DInv, SeedsStay, NEW w \in Workers, NEW frame,
         mine' = [mine EXCEPT ![w] = frame], file' = file,
         OwnRows(frame.copy, runs, HeldNow), OwnBlob(frame.blob, runs, HeldNow)
  PROVE  DInv'
<1>1. mine \in [Workers -> Frame]
  BY DEF TInv, TypeOK
<1>2. \A v \in Workers : mine'[v] = IF v = w THEN frame ELSE mine[v]
  BY <1>1
<1>3. \A row : Own(row, runs, HeldNow) => Own(row, runs', HeldNow')
  BY OwnStays
<1>4. \A p : OwnRows(p, runs, HeldNow) => OwnRows(p, runs', HeldNow')
  BY <1>3 DEF OwnRows
<1>5. \A blob : OwnBlob(blob, runs, HeldNow) => OwnBlob(blob, runs', HeldNow')
  BY <1>4 DEF OwnBlob
<1> QED BY <1>2, <1>4, <1>5 DEF DInv

LEMMA OthersOwn ==
  ASSUME TInv, TInv', DInv, SeedsStay, NEW w \in Workers, KeepsRecord(w)
  PROVE  DInv'
<1>1. OwnRows(mine[w].copy, runs, HeldNow) /\ OwnBlob(mine[w].blob, runs, HeldNow)
  BY DEF DInv
<1> QED BY <1>1, NothingOwn, FrameOwn DEF KeepsRecord

LEMMA ReadOwn ==
  ASSUME DInv, NEW blob \in ReadBack
  PROVE  /\ OwnBlob(blob, runs, HeldNow)
         /\ \A op \in Operators : OwnRows(LoadFrom(blob, op), runs, HeldNow)
<1>1. OwnBlob(blob, runs, HeldNow)
  BY NothingOwn DEF ReadBack, DInv
<1> QED BY <1>1, NothingOwn DEF OwnBlob, LoadFrom

LEMMA LoadsOwn ==
  ASSUME TInv, TInv', DInv, SeedsStay, NEW w \in Workers, ServeLoad(w) \/ ScoreLoad(w)
  PROVE  DInv'
<1>1. /\ mine[w] \in Frame /\ mine[w].op \in Operators
      /\ OwnBlob(mine[w].blob, runs, HeldNow)
  BY Given DEF ServeLoad, ScoreLoad, Fits, DInv
<1>2. PICK blob \in ReadBack :
        mine' = [mine EXCEPT ![w] = [mine[w] EXCEPT !.copy = LoadFrom(blob, mine[w].op)]]
  BY DEF ServeLoad, ScoreLoad, Become
<1> DEFINE frame == [mine[w] EXCEPT !.copy = LoadFrom(blob, mine[w].op)]
<1>3. OwnRows(LoadFrom(blob, mine[w].op), runs, HeldNow)
  BY <1>1, ReadOwn
<1>4. frame.copy = LoadFrom(blob, mine[w].op) /\ frame.blob = mine[w].blob
  BY <1>1 DEF Frame
<1>5. mine' = [mine EXCEPT ![w] = frame] /\ file' = file
  BY <1>2 DEF ServeLoad, ScoreLoad, shared
<1> HIDE DEF frame
<1> QED BY <1>1, <1>3, <1>4, <1>5, FrameOwn

\* The seed is looked up again: it is the run's, or the run is not held.
LEMMA RecordOwn ==
  ASSUME TInv, TInv', DInv, SeedsStay, NEW w \in Workers, Record(w)
  PROVE  DInv'
<1>1. /\ mine[w] \in Frame /\ pc[w] = "save" /\ mine[w].run \in 1 .. Len(runs)
      /\ mine[w].copy \in OperatorProgress /\ OwnRows(mine[w].copy, runs, HeldNow)
  BY Given DEF Record, DInv, Fits, ScoreSteps, Frame
<1>2. PICK after \in RatingsAfter(mine[w].copy.rating, mine[w].verdict = "hit"),
           blob \in ReadBack :
        mine' = [mine EXCEPT ![w] =
                   [mine[w] EXCEPT !.copy = Scored(@, RowOf(w, after)), !.blob = blob]]
  BY DEF Record, Become, RowOf
<1> DEFINE copy == Scored(mine[w].copy, RowOf(w, after))
           frame == [mine[w] EXCEPT !.copy = copy, !.blob = blob]
<1>3. RowOf(w, after).run = mine[w].run /\ RowOf(w, after).seed = PendingSeed(w)
  BY DEF RowOf
<1>4. Own(RowOf(w, after), runs, HeldNow)
  BY <1>1, <1>3 DEF Own, PendingSeed, HeldNow
<1>5. OwnRows(copy, runs, HeldNow)
  <2>1. RowOf(w, after) \in Row
    BY <1>1, RowType
  <2> QED BY <1>1, <1>4, <2>1, ScoredOwn
<1>6. OwnBlob(blob, runs, HeldNow)
  BY ReadOwn
<1> HIDE DEF copy
<1>7. frame.copy = copy /\ frame.blob = blob
  BY <1>1 DEF Frame
<1>8. mine' = [mine EXCEPT ![w] = frame] /\ file' = file
  BY <1>2 DEF Record, shared, copy
<1> HIDE DEF frame
<1> QED BY <1>5, <1>6, <1>7, <1>8, FrameOwn

LEMMA SaveWriteOwn ==
  ASSUME TInv, DInv, NEW w \in Workers, SaveWrite(w)
  PROVE  DInv'
<1>1. /\ mine[w] \in Frame /\ mine' = mine
      /\ OwnRows(mine[w].copy, runs, HeldNow) /\ OwnBlob(mine[w].blob, runs, HeldNow)
  BY Given DEF SaveWrite, DInv
<1>2. /\ mine[w].blob \in Blob
      /\ file' = [mine[w].blob EXCEPT ![mine[w].op] = mine[w].copy]
      /\ runs' = runs /\ pending' = pending
  BY <1>1 DEF SaveWrite, Frame
<1>3. HeldNow' = HeldNow
  BY <1>2 DEF HeldNow, InPending
<1>4. \A o \in Operators :
        file'[o] = IF o = mine[w].op THEN mine[w].copy ELSE mine[w].blob[o]
  BY <1>2 DEF Blob
<1>5. OwnBlob(file', runs, HeldNow)
  BY <1>1, <1>4 DEF OwnBlob
<1> QED BY <1>1, <1>2, <1>3, <1>5 DEF DInv

LEMMA SeedsInit == Init => DInv
<1> SUFFICES ASSUME Init PROVE DInv
  OBVIOUS
<1>1. file = NoFile /\ mine = [w \in Workers |-> blank]
  BY DEF Init
<1> QED BY <1>1, NothingOwn DEF DInv

LEMMA SeedsStep == TInv /\ TInv' /\ DInv /\ [Next]_vars => DInv'
<1> SUFFICES ASSUME TInv, TInv', DInv, [Next]_vars PROVE DInv'
  OBVIOUS
<1>1. SeedsStay
  BY NextSeeds
<1>2. ASSUME NEW w \in Workers,
             \/ \E op \in Operators, want \in Wanted : Serve(w, op, want)
             \/ \E op \in Operators, r \in DOMAIN runs, v \in Verdicts : Score(w, op, r, v)
             \/ Run(w)
      PROVE  DInv'
  <2>1. CASE \/ \E op \in Operators, want \in Wanted : Serve(w, op, want)
             \/ Select(w) \/ SelectNothing(w) \/ Render(w)
             \/ \E why \in Reasons : RenderRefused(w, why)
             \/ Withhold(w) \/ NoteReason(w)
    BY <1>1, <2>1, ServingKeepsRecord, OthersOwn
  <2>2. CASE \/ Hold(w) \/ ScanBegin(w) \/ ScanEnd(w) \/ DropExpired(w) \/ CountPending(w)
             \/ PopOldest(w)
    BY <1>1, <2>2, EvictingKeepsRecord, OthersOwn
  <2>3. CASE \/ \E op \in Operators, r \in DOMAIN runs, v \in Verdicts : Score(w, op, r, v)
             \/ Find(w) \/ SaveFails(w) \/ SetResult(w)
    BY <1>1, <2>3, ScoringKeepsRecord, OthersOwn
  <2>4. CASE ServeLoad(w) \/ ScoreLoad(w) \/ Record(w) \/ SaveWrite(w)
    BY <1>1, <2>4, LoadsOwn, RecordOwn, SaveWriteOwn
  <2> QED BY <1>2, <2>1, <2>2, <2>3, <2>4 DEF Run
<1>3. CASE UNCHANGED vars
  BY <1>3 DEF vars, DInv, HeldNow, InPending
<1>4. CASE Restart
  <2>1. file' = file /\ mine' = [w \in Workers |-> blank]
    BY <1>4 DEF Restart
  <2>2. \A row : Own(row, runs, HeldNow) => Own(row, runs', HeldNow')
    BY <1>1, OwnStays
  <2>3. OwnBlob(file', runs', HeldNow')
    BY <2>1, <2>2 DEF DInv, OwnBlob, OwnRows
  <2> QED BY <2>1, <2>3, NothingOwn DEF DInv
<1> QED BY <1>2, <1>3, <1>4 DEF Next

\* However many threads serve, evict and score, a stored answer is drawn again with the
\* seed it was served with; _pending_seed leaves a row without one only when the run has
\* left the map for good, and never gives it another drill's.
THEOREM DrillDebriefRedraws == Spec => []DebriefRedraws
<1>1. Spec => []DInv
  BY SeedsInit, SeedsStep, TInvHolds, PTL DEF Spec
<1>2. DInv => DebriefRedraws
  BY DEF DInv, OwnBlob, OwnRows, Own, HeldNow, DebriefRedraws
<1> QED BY <1>1, <1>2, PTL
=============================================================================
