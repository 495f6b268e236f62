---------------------------- MODULE MCTrainingDays ----------------------------
EXTENDS TrainingDays

MCStemOf ==
  [east |-> "east", eastward |-> "east", west |-> "west", north |-> "north",
   south |-> "south", northeast |-> "northeast", northeastward |-> "northeast"]
MCCompoundOf == <<"north", "east">> :> "northeast" @@
                <<"north", "eastward">> :> "northeastward"
MCContractionOf == <<"isn", "t">> :> "isnt"
MCUnhyphened == "north-east" :> "northeast"
MCNumberOf == "4" :> 4 @@ "-4" :> -4 @@ "9" :> 9
MCFillers == <<<<"i", "think">>, <<"probably">>, <<"it", "is">>>>
MCNegations == {<<"not">>, <<"isnt">>, <<"rather", "than">>}
MCMotion == {"drifting", "to", "the"}
MCSpacing == <<1, 3>>

MCRules ==
  <<[id |-> "D-CORRECT", award |-> 4, cap |-> None],
    [id |-> "D-PARTIAL", award |-> 2, cap |-> None],
    [id |-> "D-WITHIN-TOLERANCE", award |-> 4, cap |-> None],
    [id |-> "D-CALIBRATION", award |-> 0, cap |-> 0],
    [id |-> "D-FAST-AND-CORRECT", award |-> 1, cap |-> 1],
    [id |-> "D-ORDERED", award |-> 2, cap |-> None],
    [id |-> "D-MISS", award |-> 0, cap |-> None]>>

MCProductIds == <<"PRD-DC", "PRD-TRIC", "PRD-WATERFALL">>
MCRendererOf == "PRD-DC" :> "dc_table" @@ "PRD-TRIC" :> "tric"
                @@ "PRD-WATERFALL" :> "waterfall"
MCReads == "PRD-DC" :> {"days"} @@ "PRD-TRIC" :> {"count"}
           @@ "PRD-WATERFALL" :> {"rows", "drift"}
MCCompositionReads == [composite |-> {"products", "tier"},
                       probe |-> {"product_id", "product", "question", "tier"}]
MCMarkers == {"_legacy_generator"}
MCSupplies == "PRD-DC" :> {"value", "text"} @@ "PRD-TRIC" :> {}
              @@ "PRD-WATERFALL" :> {"text"}
MCFacts ==
  "PRD-DC" :> {[directions |-> {"west"}, value |-> -4], [directions |-> {"east"}, value |-> 4]}
  @@ "PRD-TRIC" :> {}
  @@ "PRD-WATERFALL" :> {[directions |-> {d}, value |-> None] : d \in {"east", "northeast"}}

-----------------------------------------------------------------------------
Says(text, directions) ==
  [text |-> text, claims |-> directions, excludes |-> {}, open |-> FALSE, number |-> None]
Excludes(text, direction) == [Says(text, {}) EXCEPT !.excludes = {direction}]
Counts(text, number, directions) == [Says(text, directions) EXCEPT !.number = number]

\* The named gaps of _contradicted(): a denial in words it does not look for or through a
\* word it does not pass, and a direction named in order to exclude it.
OpenDenials ==
  {[Excludes(text, "east") EXCEPT !.open = TRUE] :
     text \in {<<"it", "doesn", "t", "drift", "east">>, <<"cannot", "be", "east">>,
               <<"east", "is", "wrong">>, <<"anything", "but", "east">>,
               <<"hardly", "east">>, <<"not", "obviously", "east">>}}
Eliminations ==
  {[Says(text, {"east"}) EXCEPT !.excludes = {"west"}] :
     text \in {<<"not", "west", "east">>,
               <<"not", "drifting", "west", "drifting", "east">>}}

MCReadings ==
  OpenDenials \cup Eliminations \cup
  {Says(<<"east">>, {"east"}), Says(<<"drifting", "eastward">>, {"east"}),
   Says(<<"it", "is", "probably", "east">>, {"east"}),
   Says(<<"north", "east">>, {"northeast"}), Says(<<"north-east">>, {"northeast"}),
   Says(<<"i", "think", "north", "eastward">>, {"northeast"}),
   Says(<<"east", "west">>, {"east", "west"}),
   Says(<<"east", "west", "east">>, {"east", "west"}),
   Says(<<"north", "south">>, {"north", "south"}),
   Says(<<"north", "to", "east">>, {"north", "east"}),
   Says(<<"not", "a", "doubt", "east">>, {"east"}),
   Excludes(<<"not", "east">>, "east"),
   Excludes(<<"isn", "t", "drifting", "to", "the", "east">>, "east"),
   Excludes(<<"rather", "than", "north-east">>, "northeast"),
   Says(<<"a", "drifting", "object">>, {}), Says(<<"station", "keeping">>, {}),
   Counts(<<"4", "east">>, 4, {"east"}), Counts(<<"-4", "west">>, -4, {"west"}),
   Counts(<<"4">>, 4, {}), Counts(<<"9", "west">>, 9, {"west"})}

Stimulus(generator, product_id, params) ==
  [generator |-> generator, product_id |-> product_id, named |-> None, all |-> TRUE,
   products |-> << >>, params |-> params]
TextKey(accept) ==
  [format |-> "free_classification", value |-> None, accept |-> accept,
   partial |-> <<[text |-> <<"a", "drifting", "object">>, credit |-> 2]>>,
   reject |-> <<[text |-> <<"station", "keeping">>, why |-> "the track slopes"]>>,
   tolerance |-> [kind |-> "none", by |-> 0]]
NumberKey(accept, by) ==
  [TextKey(accept) EXCEPT !.format = "numeric_estimate",
                          !.tolerance = [kind |-> "relative", by |-> by]]
Drill(id, elo, stimulus, key) ==
  [id |-> id, cue_id |-> "CUE-1", elo |-> elo, stimulus |-> stimulus, key |-> key]

\* Computed from a plot, a table, and a product that computes nothing.
Seen == Drill(1, 2, Stimulus("waterfall", "PRD-WATERFALL", [drift |-> "number"]),
              TextKey(<<Sentinel>>))
Counted == Drill(2, 4, Stimulus("dc_table", "PRD-DC", [days |-> "number", rows |-> "number",
                                                       _legacy_generator |-> "number"]),
                 NumberKey(<<Sentinel>>, 10))
Unsupplied == Drill(3, 3, Stimulus("tric", "PRD-TRIC", [count |-> "number"]),
                    TextKey(<<Sentinel>>))
\* An authored key, on a probe whose parameters name another product.
Asked == Drill(4, 1, [Stimulus("probe", "PRD-TRIC", [product |-> "number", drift |-> "number"])
                        EXCEPT !.named = "PRD-WATERFALL"],
               TextKey(<<<<"station", "keeping">>>>))
\* Three that refuse: two answers on one board, a parameter, a size.
Twice == Drill(5, 2, Stimulus("composite", None, [tier |-> "number"]), TextKey(<<Sentinel>>))
Unusable == Drill(6, 3, Stimulus("tric", None, [count |-> "unusable"]),
                  TextKey(<<<<"east">>>>))
Huge == Drill(7, 3, [Stimulus("composite", None, [rows |-> "huge", days |-> "number"])
                       EXCEPT !.all = FALSE, !.products = <<"PRD-WATERFALL", "PRD-DC">>],
              TextKey(<<<<"east">>>>))
\* A number is asked for and none is authored.
NoNumber == Drill(8, 2, Stimulus("dc_table", "PRD-DC", << >>), NumberKey(<<<<"east">>>>, 10))

\* Names of up to four bytes are served as they are; the last two differ past the cap.
MCWidth == "?" :> 1 @@ "a" :> 1 @@ "b" :> 1 @@ "e" :> 2
MCNameOf == <<<<"a">>, <<"b">>, <<"a", "b">>, <<"a", "a">>, <<"a", "e", "e", "a">>,
              <<"a", "e", "e", "b">>, <<"e", "e">>, <<"b", "b">>>>
MCParamOrder == <<"count", "days", "drift", "product", "rows", "tier">>
MCMaxServed == [withheld |-> 2, params |-> 2, competencies |-> 1, due |-> 3]

Procedure(id, name, purpose, bytes) ==
  [id |-> id, name |-> name, regime |-> "list", steps |-> "list", purpose |-> purpose,
   bytes |-> bytes]
Wide == <<"a", "e", "e", "a">>
\* One card is shortened to another's name; one record is no text; an index too large.
LongNames == <<Procedure(<<"a">>, <<"b">>, "text", 2), Procedure(<<"a", "e">>, Wide, "text", 2),
               Procedure(Wide, <<"b">>, "text", 2)>>
BadPurpose == <<Procedure(<<"a">>, <<"b">>, "text", 2), Procedure(<<"b">>, <<"b">>, "list", 2)>>
TooMany == [i \in 1 .. 3 |-> Procedure(<<"a", "e", "b">>, Wide, "text", 2)]
             \o <<Procedure(<<"a">>, Wide, "text", 2)>>

\* Two documents of one identifier, and only the second fits.
Homonyms == <<Procedure(<<"a">>, <<"b">>, "text", 20), Procedure(<<"a">>, Wide, "text", 2)>>

MCReadOrder == <<"drills", "cues", "rubrics", "competencies", "procedures">>
Cue(id, competency) ==
  [id |-> id, competency_id |-> competency, competency_ids |-> {"CMP-01"},
   procedure_id |-> <<"a">>]
TreeOf(drills) ==
  [file |-> [f \in ToSet(MCReadOrder) \cup {"local", "example"} |->
               IF f = "local" THEN "absent" ELSE "whole"],
   drills |-> drills, cues |-> <<Cue("CUE-1", "CMP-01")>>, competencies |-> <<"CMP-01">>,
   procedures |-> <<Procedure(<<"a">>, <<"b">>, "text", 2),
                    Procedure(<<"a", "b">>, Wide, "absent", 20)>>,
   products |-> ToSet(MCProductIds),
   contract |-> {"waterfall", "dc_table", "tric", "composite", "probe"},
   rubrics |-> {"RUB-DRILL"}, replaced |-> [local |-> "no", example |-> "no"]]

Sound == TreeOf(<<Seen, Counted, Unsupplied>>)
Refusing == TreeOf(<<Seen, Asked, Twice, Unusable, Huge>>)

SomeTrees ==
  [sound |-> Sound, refusing |-> Refusing,
   unmarkable |-> TreeOf(<<NoNumber, Asked>>),
   unanswered |-> [TreeOf(<<Unsupplied>>) EXCEPT !.procedures = Homonyms],
   empty |-> [TreeOf(<< >>) EXCEPT !.procedures = BadPurpose],
   all_refuse |-> [TreeOf(<<Twice, Unusable>>) EXCEPT !.procedures = LongNames],
   off_band |-> TreeOf(<<[Seen EXCEPT !.elo = 9]>>),
   no_such_cue |-> TreeOf(<<[Seen EXCEPT !.cue_id = "CUE-2"]>>),
   no_such_product |-> TreeOf(<<[Asked EXCEPT !.stimulus.product_id = "PRD-COCO"]>>),
   no_cues |-> [Sound EXCEPT !.file["cues"] = "absent"],
   typo |-> [Sound EXCEPT !.file["local"] = "malformed"],
   surrogate |-> [Sound EXCEPT !.file["procedures"] = "unservable"],
   no_rubric |-> [Sound EXCEPT !.rubrics = {}, !.procedures = TooMany]]

ASSUME FairRubric /\ FairCredits

\* The gaps are there: where east was drawn each such denial is marked right, and neither
\* of the right answers is.
ASSUME
  LET mark(r) == Match(r.text, TextKey(<<Sentinel>>), [directions |-> {"east"}, value |-> None])
  IN  /\ \A r \in OpenDenials : mark(r).matched = "accept"
      /\ \A r \in Eliminations : mark(r).matched # "accept"

\* As shipped: the cues carry competency_ids.
ShippedTrees == [shipped |-> [Sound EXCEPT !.cues = <<Cue("CUE-1", None)>>]]
=============================================================================
