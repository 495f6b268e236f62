--------------------------- MODULE ContentPackage ---------------------------
(***************************************************************************)
(* content.loader and content.models: a tree of content files, and what the *)
(* service makes of it at start.  tools/validate_content.py, which authors  *)
(* run on a tree before it ships, is the operator validate.                 *)
(***************************************************************************)
EXTENDS Boards, FiniteSets

CONSTANTS
  ReadOrder,        \* the required files in the order _read() reads them
  MinElo, MaxElo    \* the rated band

ASSUME FilesAssumption ==
  ReadOrder \in Seq(ToSet(ReadOrder)) /\ IsInjective(ReadOrder)
  /\ {"drills", "cues", "rubrics", "competencies", "procedures"} \subseteq ToSet(ReadOrder)
ASSUME BandAssumption == MinElo \in Int /\ MaxElo \in Int /\ MinElo <= MaxElo

\* A file is absent, whole, malformed (no JSON, no object, no list of records),
\* undecodable (not UTF-8), or unservable: JSON with a lone surrogate or too deep.
FileStates == {"absent", "whole", "malformed", "undecodable", "unservable"}
Required == ToSet(ReadOrder)
ThresholdFiles == {"local", "example"}
Canonical == RendererNames \cup DOMAIN CompositionReads

\* The local thresholds, else the example.
ThresholdsRead(tree) ==
  IF tree.file["local"] # "absent" THEN "local"
  ELSE IF tree.file["example"] # "absent" THEN "example" ELSE None

\* The files _read() opens, in order, and those it gets through.
Opened(tree) ==
  ReadOrder \o (IF ThresholdsRead(tree) = None THEN << >> ELSE <<ThresholdsRead(tree)>>)

Reached(tree) ==
  {Opened(tree)[i] : i \in {j \in DOMAIN Opened(tree) :
                               \A k \in 1 .. j : tree.file[Opened(tree)[k]] = "whole"}}

\* The validators of Drill and Stimulus: a canonical generator, a rating in the band.
Valid(drill) == drill.stimulus.generator \in Canonical /\ drill.elo \in MinElo .. MaxElo

\* What a loop over a list keeps of it, in its order: _parse_all() the records that parse.
Kept(list, good) ==
  LET kept[n \in 0 .. Len(list)] ==
        IF n = 0 THEN << >>
        ELSE IF list[n] \in good THEN Append(kept[n - 1], list[n]) ELSE kept[n - 1]
  IN  kept[Len(list)]

Missing(tree) == {f \in Required : tree.file[f] = "absent"}

\* load(): the package, and what it could not make of the tree.  Nothing is read
\* when a file is missing; records that do not parse are left out and named; a file
\* that raises ends the read with what was parsed before it.
Load(tree) ==
  LET opens == Missing(tree) = {}
      whole == opens /\ ToSet(Opened(tree)) = Reached(tree)
      got(f) == opens /\ f \in Reached(tree)
      drills == IF got("drills") THEN tree.drills ELSE << >>
  IN  [ok |-> whole /\ \A d \in ToSet(drills) : Valid(d),
       drills |-> Kept(drills, {d \in ToSet(drills) : Valid(d)}),
       cues |-> IF got("cues") THEN tree.cues ELSE << >>,
       competencies |-> IF got("competencies") THEN tree.competencies ELSE << >>,
       procedures |-> IF got("procedures") THEN tree.procedures ELSE << >>,
       drill_rubric |-> got("rubrics") /\ "RUB-DRILL" \in tree.rubrics,
       replaced |-> whole /\ ThresholdsRead(tree) # None
                    /\ tree.replaced[ThresholdsRead(tree)] = "yes"]

\* DrillLoop.ready, and scored_scenarios_ready
Ready(content) == content.ok /\ content.drills # << >>
ScoredScenariosReady(content) == content.ok /\ content.replaced

\* _cue(): the first cue of that id, or one that names nothing.
CueOf(content, drill) ==
  LET at == SelectInSeq(content.cues, LAMBDA c : c.id = drill.cue_id)
  IN  IF at = 0 THEN [competency_id |-> None, competency_ids |-> {}, procedure_id |-> None]
                ELSE content.cues[at]

\* _competency_for() and _procedure_for(): the fields of Cue.
CompetencyFor(content, drill) == CueOf(content, drill).competency_id
ProcedureFor(content, drill) == CueOf(content, drill).procedure_id

-----------------------------------------------------------------------------
(* tools/validate_content.py *)

DrillsOf(tree) == ToSet(tree.drills)
CueIds(tree) == {c.id : c \in ToSet(tree.cues)}
ProcedureIds(tree) == {p.id : p \in ToSet(tree.procedures)}

\* Mutant: only the drills' products are followed.
Unresolved_ProductsOnly(tree) ==
  {d.id : d \in {e \in DrillsOf(tree) :
                   e.stimulus.product_id \notin tree.products \cup {None}}}

\* check_references(): drills and cues with an identifier that resolves nowhere; an
\* empty one passes.
Unresolved(tree) ==
  {d.id : d \in {e \in DrillsOf(tree) :
                   \/ e.cue_id \notin CueIds(tree)
                   \/ e.stimulus.product_id \notin tree.products \cup {None}}}
  \cup {c.id : c \in {e \in ToSet(tree.cues) :
                   \/ ~ e.competency_ids \subseteq ToSet(tree.competencies)
                   \/ e.procedure_id \notin ProcedureIds(tree) \cup {None}}}

\* check_generator_contract(): generators the drills file does not declare.
OffContract(tree) ==
  {d.id : d \in {e \in DrillsOf(tree) : e.stimulus.generator \notin tree.contract}}

\* check_production_format(): drills with no accepted answer.
Unanswerable(tree) == {d.id : d \in {e \in DrillsOf(tree) : e.key.accept = << >>}}

\* main(): the exit status.  Every JSON file is read as text, for the redaction check;
\* the local thresholds are never parsed.
validate(tree) ==
  IF \/ \E f \in Required \cup {"example"} : tree.file[f] \notin {"whole", "unservable"}
     \/ tree.file["local"] = "undecodable"
    THEN 2
  ELSE IF Unresolved(tree) \cup OffContract(tree) \cup Unanswerable(tree) # {} THEN 1
  ELSE 0
=============================================================================
