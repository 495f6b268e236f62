----------------------------- MODULE TrainingDays -----------------------------
(***************************************************************************)
(* Days of training: one operator, one request at a time, over the content  *)
(* package, the boards, the matcher, the rubric and the scheduler.  What    *)
(* overlapping requests do to each other is DrillLoop's.                    *)
(***************************************************************************)
EXTENDS AnswerMatching, RubricScoring, AnonymousReads

CONSTANTS
  Trees,         \* the content trees that may be deployed, by name
  Readings,      \* answers: words, the directions they claim and exclude, a number, and
                 \* whether they deny in words the matcher does not look for
  Facts,         \* what each renderer may draw, by product: directions and a value
  Spacing,       \* SPACING_DAYS
  Edge,          \* how far above the rating selection aims
  MaxTries,      \* MAX_SELECTION_ATTEMPTS
  DefaultRating, \* DEFAULT_OPERATOR_RATING
  AttemptCap,    \* bound: attempts on an axis are counted up to this
  MaxRestarts    \* bound: how often the service is restarted

ASSUME ScheduleAssumption ==
  /\ Spacing \in Seq(Nat \ {0})
  /\ \A i, j \in DOMAIN Spacing : i <= j => Spacing[i] <= Spacing[j]
  /\ Spacing # << >> /\ MaxTries \in Nat \ {0} /\ Edge \in Nat
  /\ AttemptCap \in Nat \ {0} /\ MaxRestarts \in Nat
  /\ DefaultRating \in MinElo .. MaxElo

VARIABLES
  deployed,  \* the tree the running service was started on
  withheld,  \* _unresolvable: the ids out of selection
  rating,    \* the operator's, persisted
  schedule,  \* by item: the streak and the days until it is due, persisted
  attempts,  \* by axis, persisted
  screen,    \* the drill on screen and what was drawn, or None
  reveal,    \* the debrief on screen: its item, and whether it was scored; or None
  restarts

vars == <<deployed, withheld, rating, schedule, attempts, screen, reveal, restarts>>

Packages == [name \in DOMAIN Trees |-> Load(Trees[name])]
tree == Trees[deployed]
content == Packages[deployed]

Items == UNION {DrillsOf(Trees[name]) : name \in DOMAIN Trees}
ItemIds == {d.id : d \in Items}
\* A content tree: its lists are lists, identifiers have an order, no two drills share
\* one, and a file that is whole has no text that cannot be encoded (_read_json).
IsList(list) == list \in Seq(ToSet(list))
IsTree(t) ==
  /\ t.file \in [Required \cup ThresholdFiles -> FileStates]
  /\ IsList(t.drills) /\ IsList(t.cues) /\ IsList(t.procedures)
  /\ \A d \in DrillsOf(t) : d.id \in Nat
  /\ \A i, j \in DOMAIN t.drills : t.drills[i].id = t.drills[j].id => i = j
  /\ \A p \in ToSet(t.procedures) : p.bytes \in Nat
  /\ t.file["procedures"] = "whole" =>
       \A p \in ToSet(t.procedures) : IsList(p.name) /\ Encodable(p.name)
ASSUME TreesAssumption ==
  /\ \A name \in DOMAIN Trees : IsTree(Trees[name])
  /\ \A a, b \in ItemIds : NameOf[a] = NameOf[b] => a = b

Axes == {None} \cup UNION {ToSet(Trees[name].competencies) : name \in DOMAIN Trees}

Computed(drill) == Sentinel \in ToSet(drill.key.accept)
ItemOf(id) == CHOOSE d \in ToSet(content.drills) : d.id = id

-----------------------------------------------------------------------------
(* Selection *)

\* _items_without_a_resolvable_answer(): probed once, at construction.
AtBoot ==
  [name \in DOMAIN Trees |->
    {d.id : d \in {e \in ToSet(Packages[name].drills) :
       Computed(e) /\ (\/ compose(e.stimulus).refused # None
                       \/ Supplied(compose(e.stimulus).drawn) = {})}}]

Scorable(out) == {d \in ToSet(content.drills) : d.id \notin out}
Due(out) == {d \in Scorable(out) : schedule[d.id].due = 0}

\* Mutant: the item nearest the rating, due or not.
Selected_NearestFirst(out) ==
  LET off(d) == Magnitude(d.elo - (rating + Edge))
  IN  CHOOSE d \in Scorable(out) :
        \A e \in Scorable(out) : off(d) < off(e) \/ (off(d) = off(e) /\ d.id <= e.id)

\* select(): due first, then nearest the band just above the operator.
Selected(out) ==
  LET pool == IF Due(out) # {} THEN Due(out) ELSE Scorable(out)
      off(d) == Magnitude(d.elo - (rating + Edge))
  IN  CHOOSE d \in pool :
        \A e \in pool : off(d) < off(e) \/ (off(d) = off(e) /\ d.id <= e.id)

Boarded == [d \in Items |-> Served(d.stimulus, Computed(d))]
Renders(d) == Boarded[d].refused = None

\* One attempt to serve: an item that refuses is withheld and selection runs again.
Attempted[out \in SUBSET ItemIds] ==
  IF Scorable(out) = {} \/ Renders(Selected(out)) THEN out ELSE out \cup {Selected(out).id}

\* What is withheld after the attempts of one request.
WithheldAfter ==
  LET out[n \in 0 .. MaxTries] == IF n = 0 THEN withheld ELSE Attempted[out[n - 1]]
  IN  out[MaxTries]

\* _withhold(): the first reason stays until the service starts again.
Reasons ==
  [id \in withheld |->
     IF id \in AtBoot[deployed] THEN "unsupplied" ELSE Boarded[ItemOf(id)].refused]

\* The facts kept of what was drawn: none unless the key is computed.
Drawn(d) ==
  IF ~ Computed(d) THEN {[directions |-> {}, value |-> None]}
  ELSE UNION {Facts[p] : p \in {q \in ToSet(Boarded[d].drawn) :
                                 Supplies[q] # {}}}

\* GET /drill/next
Serve ==
  /\ Ready(content)
  /\ withheld' = WithheldAfter
  /\ reveal' = None
  /\ IF \/ Scorable(withheld') = {}
        \/ Cardinality(withheld' \ withheld) = MaxTries
       THEN screen' = None
       ELSE \E drawn \in Drawn(Selected(withheld')) :
              screen' = [item |-> Selected(withheld').id, drawn |-> drawn]
  /\ UNCHANGED <<deployed, rating, schedule, attempts, restarts>>

-----------------------------------------------------------------------------
(* Marking *)

\* next_interval_days(); the streak is the one after the answer.
next_interval_days(streak, correct) ==
  IF ~ correct THEN Spacing[1]
  ELSE LET index == Least(IF streak > 0 THEN streak ELSE 0, Len(Spacing) - 1)
       IN  Spacing[index + 1]

\* CueSchedule.record(); a streak past the table counts no further.
Rescheduled(cue, correct) ==
  LET streak == IF correct THEN Least(cue.streak + 1, Len(Spacing)) ELSE 0
  IN  [streak |-> streak, due |-> next_interval_days(streak, correct)]

\* Mutant: the operator's side of the clamp is forgotten.
RatingsAfter_Unclamped(correct) == {rating, IF correct THEN rating + 1 ELSE rating - 1}

\* update_ratings(): towards the outcome, inside the band; by how much is left open.
RatingsAfter(correct) ==
  {rating} \cup {r \in MinElo .. MaxElo :
                   r = IF correct THEN rating + 1 ELSE rating - 1}

\* What every answer is worth, by item and by what is drawn for it.
Marks ==
  [d \in Items |-> [drawn \in Drawn(d) |->
    [text \in {r.text : r \in Readings} |-> Match(text, d.key, drawn)]]]

OutcomeOf(text) == Marks[ItemOf(screen.item)][screen.drawn][text]

\* The points _record() files for an outcome.
Points(outcome, in_time) ==
  evaluate([matched |-> outcome.matched, within |-> outcome.within,
            credit |-> outcome.credit, confidence |-> 3, in_time |-> in_time]).total

\* score() and _record(): a marked answer moves rating, schedule and axis.
Answer(reading) ==
  /\ screen # None /\ content.drill_rubric
  /\ OutcomeOf(reading.text).matched # "unscorable"
  /\ LET correct == OutcomeOf(reading.text).matched = "accept"
         axis == CompetencyFor(content, ItemOf(screen.item))
     IN  /\ rating' \in RatingsAfter(correct)
         /\ schedule' = [schedule EXCEPT ![screen.item] = Rescheduled(@, correct)]
         /\ attempts' = [attempts EXCEPT ![axis] = Least(@ + 1, AttemptCap)]
  /\ reveal' = [item |-> screen.item, scored |-> TRUE]
  /\ screen' = None
  /\ UNCHANGED <<deployed, withheld, restarts>>

\* _unscored(): the debrief is shown and nothing is recorded.
AnswerUnscored(reading) ==
  /\ screen # None /\ content.drill_rubric
  /\ OutcomeOf(reading.text).matched = "unscorable"
  /\ reveal' = [item |-> screen.item, scored |-> FALSE]
  /\ screen' = None
  /\ UNCHANGED <<deployed, withheld, rating, schedule, attempts, restarts>>

-----------------------------------------------------------------------------
\* A day ends, once the operator has answered what was due.
Tick ==
  /\ Ready(content) => Due(withheld) = {}
  /\ schedule' = [id \in ItemIds |->
                    [schedule[id] EXCEPT !.due = IF @ = 0 THEN 0 ELSE @ - 1]]
  /\ UNCHANGED <<deployed, withheld, rating, attempts, screen, reveal, restarts>>

\* The service starts on a tree: what it withheld and what was on screen are gone.
Restart(name) ==
  /\ restarts < MaxRestarts
  /\ restarts' = restarts + 1
  /\ deployed' = name
  /\ withheld' = AtBoot[name]
  /\ screen' = None
  /\ reveal' = None
  /\ UNCHANGED <<rating, schedule, attempts>>

Init ==
  /\ deployed \in DOMAIN Trees
  /\ withheld = AtBoot[deployed]
  /\ rating = DefaultRating
  /\ schedule = [id \in ItemIds |-> [streak |-> 0, due |-> 0]]
  /\ attempts = [axis \in Axes |-> 0]
  /\ screen = None
  /\ reveal = None
  /\ restarts = 0

Next ==
  \/ Serve
  \/ \E reading \in Readings : Answer(reading) \/ AnswerUnscored(reading)
  \/ Tick
  \/ \E name \in DOMAIN Trees : Restart(name)

Spec == Init /\ [][Next]_vars

\* The operator asks for drills, answers them, and the days go by.
FairSpec ==
  /\ Spec
  /\ WF_vars(Serve /\ screen = None)
  /\ WF_vars(\E reading \in Readings : Answer(reading) \/ AnswerUnscored(reading))
  /\ WF_vars(Tick)

-----------------------------------------------------------------------------
(* Properties *)

\* Every variable keeps its type: in particular the rating stays in the band the
\* items are authored in, and what is on screen is an item of the loaded package.
TypeOK ==
  /\ deployed \in DOMAIN Trees /\ withheld \subseteq ItemIds
  /\ rating \in MinElo .. MaxElo
  /\ schedule \in [ItemIds -> [streak : 0 .. Len(Spacing), due : 0 .. Spacing[Len(Spacing)]]]
  /\ attempts \in [Axes -> 0 .. AttemptCap]
  /\ screen # None => /\ Ready(content)
                      /\ screen.item \in {d.id : d \in ToSet(content.drills)} \ withheld
                      /\ screen.drawn \in Drawn(ItemOf(screen.item))
  /\ reveal # None => reveal.item \in ItemIds /\ reveal.scored \in BOOLEAN
  /\ restarts \in 0 .. MaxRestarts

\* The reference for a reading of what was drawn: what it claims is the direction drawn
\* and no other, and a number asked for is near enough.
Right(reading, key, drawn) ==
  /\ reading.claims = drawn.directions
  /\ key.format = "numeric_estimate" =>
       /\ reading.number # None
       /\ Within(Magnitude(reading.number), Magnitude(drawn.value), key.tolerance)

\* Where a direction was drawn, the mark of an answer and its meaning part ways only in
\* the gaps that _contradicted() names (matching.py): what is marked right without being
\* right denies the direction drawn in words outside the matcher's vocabulary; what is
\* right and not marked so names another direction to exclude it.
ReadingIsMarked ==
  screen # None /\ screen.drawn.directions # {} =>
    \A r \in Readings :
      LET right == Right(r, ItemOf(screen.item).key, screen.drawn)
          marked == OutcomeOf(r.text).matched = "accept"
      IN  /\ marked /\ ~ right => r.open /\ r.excludes \cap screen.drawn.directions # {}
          /\ right /\ ~ marked => r.excludes # {}

\* Every answer marked right, however slow, earns more than every other, however fast.
RightEarnsMore ==
  screen # None =>
    LET marks == {OutcomeOf(r.text) : r \in Readings}
    IN  \A o, p \in marks : o.matched = "accept" /\ p.matched # "accept" =>
          Points(o, FALSE) > Points(p, TRUE)

\* Points are earned by reading the plot, but for those gaps.
PointsAreEarned == ReadingIsMarked /\ RightEarnsMore

\* A rubric and credits that let them be: nothing is taken away, a right answer is worth
\* something, uncapped, and more than a miss or the whole of a partial answer; as shipped.
FairRubric ==
  /\ IsList(Rules) /\ \A i, j \in DOMAIN Rules : Rules[i].id = Rules[j].id => i = j
  /\ \A r \in ToSet(Rules) : r.award \in Nat /\ r.cap \in Nat \cup {None}
  /\ \E c \in ToSet(Rules) :
       /\ c.id = "D-CORRECT" /\ c.cap = None /\ c.award > 0
       /\ \A r \in ToSet(Rules) : r.id \in {"D-PARTIAL", "D-MISS"} => r.award < c.award
  /\ MaxBonus \in Nat \cup {None}
FairCredits ==
  \A d \in Items : /\ IsList(d.key.partial)
                    /\ \A p \in ToSet(d.key.partial) : p.credit \in 0 .. FullCredit

\* The census of unread parameters is of the board that is drawn: for every item that
\* composes, the products drawn are those board_for names, and a parameter is unread
\* exactly when no renderer that drew, and no composition mode, honours it, unless its name
\* marks it as one that nobody is meant to ("the census
\* and the render cannot disagree about what is on screen", generators/base.py).
CensusIsOfTheBoard ==
  \A d \in ToSet(content.drills) :
    LET s == d.stimulus
    IN  compose(s).refused = None =>
          /\ compose(s).drawn = board_for(s)
          /\ \A key \in DOMAIN s.params :
               key \in unread(s, board_for(s)) <=>
                 /\ key \notin Markers
                 /\ ~ \E p \in ToSet(compose(s).drawn) : key \in Reads[p]
                 /\ s.generator \in DOMAIN CompositionReads
                      => key \notin CompositionReads[s.generator]

\* Nothing stops being asked in silence: what selection leaves out and what it may
\* choose add up to the package, and each item left out has a line of its own, under a
\* name of its own and with its own reason, as far as the list goes; the total is never
\* cut, and no item that renders is left out without one.  So has each item that is due
\* ("NAMED, so nothing is hidden", drill.py).
GapsAreNamed ==
  LET served == served_manifest(content, Reasons)
      listed == ToSet(Leading(Sorted(withheld), "withheld"))
      answer == me(content, attempts, {id \in ItemIds : schedule[id].due = 0})
  IN  /\ served.total + Cardinality(Scorable(withheld)) = Len(content.drills)
      /\ Cardinality(DOMAIN served.reasons) = Least(served.total, MaxServed["withheld"])
      /\ \A id \in listed : served.reasons[served_identifier(NameOf[id])] = Reasons[id]
      /\ \A id \in withheld : Reasons[id] # None
      /\ answer.status = 200 =>
           Cardinality(ToSet(answer.board.due_items))
             = Least(answer.board.due_now, MaxServed["due"])

\* What the manifest discloses is true and complete: the census and the gaps.
ManifestIsHonest == CensusIsOfTheBoard /\ GapsAreNamed

\* A library that is listed is a library that opens: a card opens the procedure it was
\* made of, or nothing where its identifier had to be shortened, or a refusal that says
\* the document is too large; its name is whole or says that it is not.  Of documents
\* with one identifier the first opens.  A malformed record takes the index away and no
\* document.
CardsOpen ==
  LET index == procedure_index(content)
      opened(name) == procedure_detail(content, name)
      Fit(id) == \A p \in ToSet(content.procedures) : p.id = id => p.bytes <= MaxDocument
      Leads(card, p) ==
        /\ card.name.marked \/ card.name.shown = p.name
        /\ IF card.id.digest # << >> THEN opened(card.id).status = 404
           ELSE \/ opened(card.id).status = 200 /\ opened(card.id).procedure.id = p.id
                \/ opened(card.id).status = 503 /\ ~ Fit(p.id)
  IN  content.ok =>
        /\ index.status = 200 =>
             \A i \in DOMAIN index.cards : Leads(index.cards[i], content.procedures[i])
        /\ \A p \in ToSet(content.procedures) : Fit(p.id) =>
             opened([shown |-> p.id, digest |-> << >>]).status = 200

\* What the authors' check passes, the service serves: a tree the validator approves
\* loads whole, every answer is filed under a cue and a procedure that exist, and an
\* item that names one product has its renderer.  The conditions are what the two do
\* not share: the validator parses no local thresholds, accepts strings that cannot be
\* served, checks no rating, and takes the contract and the products from the content.
ApprovedIsServed ==
  /\ validate(tree) = 0
  /\ tree.file["local"] \in {"absent", "whole"}
  /\ \A f \in Required \cup {"example"} : tree.file[f] # "unservable"
  /\ \A d \in DrillsOf(tree) : d.elo \in MinElo .. MaxElo
  /\ tree.contract \subseteq Canonical /\ tree.products \subseteq DOMAIN RendererOf
  =>
  /\ content.ok /\ ToSet(content.drills) = DrillsOf(tree)
  /\ \A d \in ToSet(content.drills) :
       /\ \E c \in ToSet(content.cues) : c.id = d.cue_id
       /\ ProcedureFor(content, d) \in ProcedureIds(tree) \cup {None}
       /\ d.stimulus.generator # "composite" /\ d.stimulus.product_id # None
            => Chosen(d.stimulus) # None

\* Every item of the package can be marked whatever is drawn.
Fits(d) ==
  \A drawn \in Drawn(d) :
    IF d.key.format = "numeric_estimate" THEN Expected(d.key, drawn) # None
    ELSE Computed(d) => drawn.directions # {}

Owed(id) ==
  /\ Ready(content) /\ content.drill_rubric
  /\ \A d \in Scorable(AtBoot[deployed]) : Fits(d)
  /\ \E d \in Scorable(AtBoot[deployed]) : d.id = id /\ Renders(d)

\* Every item comes back: with an operator who answers what is due before the day ends,
\* right or wrong, every item that renders is asked and scored again and again, whatever
\* its distance from the rating, whatever refuses around it and across restarts.
EveryItemComesBack ==
  \A id \in ItemIds :
    []<>(~ Owed(id) \/ (reveal # None /\ reveal.scored /\ reveal.item = id))

\* An answer is measured: once an item was scored, every competency its cue names
\* has an attempt on the dashboard, for a tree the validator approves.
AnsweredIsMeasured ==
  validate(tree) = 0 /\ reveal # None /\ reveal.scored =>
    \A c \in CueOf(content, ItemOf(reveal.item)).competency_ids :
      [id |-> c, measured |-> TRUE] \in ToSet(me(content, attempts, {}).board.competencies)
=============================================================================
