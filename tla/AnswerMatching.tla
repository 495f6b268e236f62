---------------------------- MODULE AnswerMatching ----------------------------
(***************************************************************************)
(* scoring.matching: what a typed answer is worth against an item's key.    *)
(* A text is the sequence of its words as case folding, the removal of      *)
(* punctuation and the split at blanks leave them; a number is a word too.  *)
(* Credits are in quarters of a full answer.                                *)
(***************************************************************************)
EXTENDS Integers, SequencesExt, NoValue

CONSTANTS
  Fillers,       \* _FILLERS, each a sequence of words, in the order they are tried
  Negations,     \* NEGATIONS, each a sequence of words
  Motion,        \* NEGATION_CONNECTIVES
  StemOf,        \* the compass direction of each word that spells one
  CompoundOf,    \* the word two adjacent direction words fold into, by pair
  ContractionOf, \* the word two halves of a contraction fold into, by pair
  Unhyphened,    \* the word each hyphened one closes up to
  NumberOf,      \* the number each word that spells one stands for
  MaxLength      \* MAX_ANSWER_LENGTH, in words

\* COMPASS_DIRECTIONS: the direction words that carry no suffix.
Compass == {w \in DOMAIN StemOf : StemOf[w] = w}

ASSUME DirectionsAssumption ==
  /\ DOMAIN CompoundOf \subseteq Compass \X DOMAIN StemOf
  /\ \A pair \in DOMAIN CompoundOf : CompoundOf[pair] \in DOMAIN StemOf

Sentinel == <<"computed_from_params">>  \* COMPUTED_SENTINEL
FullCredit == 4
PartialDirectionCredit == 2             \* PARTIAL_DIRECTION_CREDIT
ConnectiveLimit == 3                    \* NEGATION_CONNECTIVE_LIMIT

\* A Match: what was matched, its credit, whether a number was near enough, and
\* the authored reason of a reject.
Outcome(matched, credit, within, why) ==
  [matched |-> matched, credit |-> credit, within |-> within, why |-> why]

Accepted == Outcome("accept", FullCredit, "unasked", None)
Unmatched == Outcome("none", 0, "unasked", None)
Unscorable == Outcome("unscorable", 0, "unasked", None)

\* What stands for no outcome is none.
ASSUME OutcomesAssumption == None \notin {Unmatched, Outcome("none", 0, "outside", None)}

-----------------------------------------------------------------------------
\* One pass of normalise(): the first filler the text starts with, if more follows.
WithoutFiller(text) ==
  LET at == SelectInSeq(Fillers, LAMBDA f : Len(f) < Len(text) /\ IsPrefix(f, text))
  IN  IF at = 0 THEN text ELSE SubSeq(text, Len(Fillers[at]) + 1, Len(text))

Normalised(text) == WithoutFiller(WithoutFiller(text))

\* _numeric(): the first number in the text.
Numeric(text) ==
  LET at == SelectInSeq(text, LAMBDA w : w \in DOMAIN NumberOf)
  IN  IF at = 0 THEN None ELSE NumberOf[text[at]]

Magnitude(n) == IF n < 0 THEN -n ELSE n

\* _within(); a relative tolerance is in hundredths.
Within(value, expected, tolerance) ==
  LET off == Magnitude(value - expected)
  IN  CASE tolerance.kind = "absolute" -> off <= tolerance.by
        [] tolerance.kind = "relative" -> 100 * off <= Magnitude(expected) * tolerance.by
        [] OTHER -> value = expected

-----------------------------------------------------------------------------
(* Directions *)

\* The adjacent words that stand in pairs, from the left and without overlap:
\* a pair in the table becomes its word, any other is passed over as it is.
Rejoined(text, pairs, table) ==
  LET from[i \in 1 .. (Len(text) + 1)] ==
        IF i > Len(text) THEN << >>
        ELSE LET pair == SubSeq(text, i, i + 1)
             IN  IF i = Len(text) \/ pair \notin pairs
                   THEN <<text[i]>> \o from[i + 1]
                   ELSE (IF pair \in DOMAIN table THEN <<table[pair]>> ELSE pair)
                        \o from[i + 2]
  IN  from[1]

\* Mutant: any two direction words are folded, whether or not they are a compound.
Closed_Unguarded(text) ==
  Rejoined(text, Compass \X DOMAIN StemOf,
           [pair \in Compass \X DOMAIN StemOf |->
              IF pair \in DOMAIN CompoundOf THEN CompoundOf[pair] ELSE "joined"])

\* _closed(): hyphens closed, contractions rejoined, then compounds folded.
Closed(text) ==
  LET unhyphened == [i \in DOMAIN text |->
                       IF text[i] \in DOMAIN Unhyphened THEN Unhyphened[text[i]]
                                                        ELSE text[i]]
      rejoined == Rejoined(unhyphened, DOMAIN ContractionOf, ContractionOf)
  IN  Rejoined(rejoined, Compass \X DOMAIN StemOf, CompoundOf)

\* One direction is spelled inside another: "east" in "northeast".
Absorbs(compound, d) ==
  \E pair \in DOMAIN CompoundOf :
    CompoundOf[pair] = compound /\ d \in {StemOf[pair[1]], StemOf[pair[2]]}

\* _directions_named()
DirectionsNamed(text) ==
  LET found == {StemOf[w] : w \in ToSet(Closed(text)) \cap DOMAIN StemOf}
  IN  {d \in found : ~ \E other \in found \ {d} : Absorbs(other, d)}

\* A denial, then at most three motion words, then the direction.
Denies(text, d) ==
  LET closed == Closed(text)
  IN  \E negation \in Negations, i \in DOMAIN closed, gap \in 0 .. ConnectiveLimit :
        LET start == i + Len(negation)
        IN  /\ start + gap <= Len(closed)
            /\ SubSeq(closed, i, start - 1) = negation
            /\ \A j \in start .. (start + gap - 1) : closed[j] \in Motion
            /\ closed[start + gap] \in DOMAIN StemOf
            /\ StemOf[closed[start + gap]] = d

\* _contradicted(): another direction is named, or a drawn one is denied.
Contradicted(text, drawn) ==
  DirectionsNamed(text) \ drawn # {} \/ \E d \in drawn : Denies(text, d)

\* _match_partial() and _match_reject(), or None
Partial(text, key) ==
  LET at == SelectInSeq(key.partial, LAMBDA p : Normalised(p.text) = Normalised(text))
  IN  IF at = 0 THEN None
      ELSE Outcome("partial", key.partial[at].credit, "unasked", None)

Reject(text, key, within) ==
  LET at == SelectInSeq(key.reject, LAMBDA r : Normalised(r.text) = Normalised(text))
  IN  IF at = 0 THEN None ELSE Outcome("reject", 0, within, key.reject[at].why)

FirstOf(outcomes) ==
  LET at == SelectInSeq(outcomes, LAMBDA o : o # None) IN outcomes[at]

\* match_derived_text(): the direction the renderer drew.
MatchDerivedText(text, key, derived) ==
  LET typed == Normalised(text)
  IN  CASE derived.directions = {} -> Unscorable
        [] derived.directions # {} /\ Contradicted(typed, derived.directions) -> Unmatched
        [] OTHER ->
             IF \E w \in ToSet(Closed(typed)) \cap DOMAIN StemOf :
                  StemOf[w] \in derived.directions
               THEN Accepted
               ELSE FirstOf(<<Partial(text, key), Reject(text, key, "unasked"), Unmatched>>)

-----------------------------------------------------------------------------
(* Numbers and texts *)

\* The expected number: authored, the generator's, or the first accept value's.
Expected(key, derived) ==
  LET at == SelectInSeq(key.accept, LAMBDA a : a = Sentinel \/ Numeric(a) # None)
  IN  CASE key.value # None -> key.value
        [] key.value = None /\ at = 0 -> None
        [] OTHER -> IF key.accept[at] = Sentinel THEN derived.value
                                                 ELSE Numeric(key.accept[at])

\* _match_magnitude_and_direction()
MatchMagnitudeAndDirection(text, key, derived, given, expected) ==
  CASE ~ Within(Magnitude(given), Magnitude(expected), key.tolerance) ->
         Outcome("none", 0, "outside", None)
    [] MatchDerivedText(text, key, derived).matched # "accept" ->
         Outcome("partial", PartialDirectionCredit, "inside", None)
    [] OTHER -> Outcome("accept", FullCredit, "inside", None)

\* match_numeric()
MatchNumeric(text, key, derived) ==
  LET given == Numeric(text)
      expected == Expected(key, derived)
  IN  IF expected = None THEN Unscorable
      ELSE IF given = None THEN Unmatched
      ELSE IF derived.directions # {}
        THEN MatchMagnitudeAndDirection(text, key, derived, given, expected)
      ELSE IF Within(given, expected, key.tolerance)
        THEN Outcome("accept", FullCredit, "inside", None)
        ELSE FirstOf(<<Reject(text, key, "outside"), Outcome("none", 0, "outside", None)>>)

\* match_text(): accept, then partial, then reject, then nothing.
MatchText(text, key) ==
  IF \E a \in ToSet(key.accept) : Normalised(a) = Normalised(text)
    THEN Accepted
    ELSE FirstOf(<<Partial(text, key), Reject(text, key, "unasked"), Unmatched>>)

\* match()
Match(text, key, derived) ==
  IF Len(text) > MaxLength THEN Unmatched
  ELSE IF key.format = "numeric_estimate" THEN MatchNumeric(text, key, derived)
  ELSE IF Sentinel \in ToSet(key.accept) THEN MatchDerivedText(text, key, derived)
  ELSE MatchText(text, key)
=============================================================================
