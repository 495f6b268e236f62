---------------------------- MODULE OperatorRecord ---------------------------
(***************************************************************************)
(* What progress.json keeps about one operator, and how one scored answer   *)
(* changes it: training/progress.py with the arithmetic of                  *)
(* training/scoring.py reduced to the direction a rating moves in.          *)
(*                                                                          *)
(* The competency axes are summed to one; due dates are left out, and so    *)
(* are the columns of a run row that nothing reads back.                    *)
(***************************************************************************)
EXTENDS Integers, Sequences, FiniteSets

CONSTANTS
  Items,           \* drill ids
  MinRating, MaxRating, DefaultRating,   \* 600, 2400 and 1200 in the code
  MaxRunHistory    \* MAX_RUN_HISTORY, 200 in the code

ASSUME RatingAssumption ==
  /\ MinRating \in Nat /\ MaxRating \in Nat
  /\ DefaultRating \in MinRating .. MaxRating
ASSUME HistoryAssumption == MaxRunHistory \in Nat \ {0}

Ratings == MinRating .. MaxRating

\* A RunRecord.  "run" is not stored: it is kept to tell the rows of two runs
\* apart.  The seed is a hash of operator, item and attempt: the attempt stands
\* for it, and NoSeed for the 0 of a run that is no longer held.
NoSeed == -1

Row == [run : Nat, item : Items, seed : Nat \cup {NoSeed}, correct : BOOLEAN,
        before : Ratings, after : Ratings]

OperatorProgress ==
  [rating : Ratings, attempts : Nat, correct : Nat,
   streak : [Items -> Nat], runs : Seq(Row)]

fresh == [rating |-> DefaultRating, attempts |-> 0, correct |-> 0,
          streak |-> [i \in Items |-> 0], runs |-> << >>]

\* The attempt number a new serve of the item gets.
Attempts(p, item) == Cardinality({i \in DOMAIN p.runs : p.runs[i].item = item})

\* update_ratings: a hit never lowers the rating and a miss never raises it; by
\* how much is Elo's affair, and it may be by nothing.
RatingsAfter(before, correct) ==
  IF correct THEN before .. MaxRating ELSE MinRating .. before

\* Mutant: a miss does not reset the streak.
StreakAfter_NoReset(streak, correct) == IF correct THEN streak + 1 ELSE streak

StreakAfter(streak, correct) == IF correct THEN streak + 1 ELSE 0

\* Mutant: the oldest rows are the ones kept.
Kept_Oldest(runs) ==
  SubSeq(runs, 1, IF Len(runs) > MaxRunHistory THEN MaxRunHistory ELSE Len(runs))

\* progress.runs[-MAX_RUN_HISTORY:]
Kept(runs) ==
  SubSeq(runs, IF Len(runs) > MaxRunHistory THEN Len(runs) - MaxRunHistory + 1
                                            ELSE 1, Len(runs))

\* The record after the answer row describes, as save() writes it.
Scored(p, row) ==
  [rating   |-> row.after,
   attempts |-> p.attempts + 1,
   correct  |-> p.correct + (IF row.correct THEN 1 ELSE 0),
   streak   |-> [p.streak EXCEPT ![row.item] = StreakAfter(@, row.correct)],
   runs     |-> Kept(Append(p.runs, row))]

-----------------------------------------------------------------------------
\* The rating is what the last kept row left it at, every row starts where the
\* one before it ended, and the totals count what the history shows.
AddsUp(p) ==
  LET n == Len(p.runs)
  IN  /\ n = IF p.attempts < MaxRunHistory THEN p.attempts ELSE MaxRunHistory
      /\ \A i \in 1 .. n - 1 : p.runs[i].after = p.runs[i + 1].before
      /\ p.rating = IF n = 0 THEN DefaultRating ELSE p.runs[n].after
      /\ LET hits == Cardinality({i \in 1 .. n : p.runs[i].correct})
         IN  hits <= p.correct /\ p.correct <= p.attempts - (n - hits)

\* The kept rows of the item since its last miss.
HitsSinceMiss(p, item) ==
  {i \in DOMAIN p.runs :
     /\ p.runs[i].item = item
     /\ \A j \in DOMAIN p.runs :
          j >= i /\ p.runs[j].item = item => p.runs[j].correct}

\* The streak the schedule works from is the one the history shows; it may only
\* be longer when rows have aged out.
StreakAgrees(p, item) ==
  LET n == Cardinality(HitsSinceMiss(p, item))
      missed == \E i \in DOMAIN p.runs :
                  p.runs[i].item = item /\ ~ p.runs[i].correct
  IN  IF missed \/ p.attempts <= MaxRunHistory
        THEN p.streak[item] = n
        ELSE p.streak[item] >= n
=============================================================================
