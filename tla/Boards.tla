-------------------------------- MODULE Boards --------------------------------
(***************************************************************************)
(* generators: which products an item draws, what the renderers refuse, and *)
(* what the drill loop keeps of what they computed.  The numbers a renderer *)
(* draws are left out: a product has the parameters it reads and the facts  *)
(* it supplies for the answer.                                              *)
(***************************************************************************)
EXTENDS Integers, SequencesExt, NoValue

CONSTANTS
  ProductIds,       \* the registry's product ids, sorted
  RendererOf,       \* the generator name that renders each product
  Reads,            \* the parameters each renderer honours
  CompositionReads, \* COMPOSITION_READS, by composition mode
  Supplies,         \* the ANSWER_KEYS each renderer sets, "value" and "text"
  Markers           \* the parameters whose name begins with an underscore

ASSUME RegistryAssumption ==
  /\ IsInjective(ProductIds)
  /\ ToSet(ProductIds) = DOMAIN RendererOf
  /\ DOMAIN Reads = DOMAIN RendererOf /\ DOMAIN Supplies = DOMAIN RendererOf
  /\ IsInjective(RendererOf)
  /\ DOMAIN CompositionReads = {"composite", "probe"}

RendererNames == {RendererOf[p] : p \in DOMAIN RendererOf}

\* A composition mode is no renderer (PRODUCT_RENDERERS, COMPOSITION_MODES), and nothing
\* that stands for None is a product, a board or a refusal.
ASSUME NothingAssumption ==
  /\ RendererNames \cap {"composite", "probe"} = {}
  /\ None \notin DOMAIN RendererOf /\ None \notin Seq(DOMAIN RendererOf)
  /\ None \notin {"lookup", "render", "collision", "budget", "unsupplied"}

\* GeneratorRegistry.by_name()
ProductOf(name) == CHOOSE p \in DOMAIN RendererOf : RendererOf[p] = name

\* What a parameter's value does to a renderer that reads it: a number it can draw,
\* a value render() raises on, or a count that makes the payload too large.
Values == {"number", "unusable", "huge"}

\* The product a probe names: the stimulus's own, else the parameters'.
Target(stimulus) ==
  IF stimulus.product_id # None THEN stimulus.product_id ELSE stimulus.named

\* The products a composite asks for: a list, or everything there is.
Requested(stimulus) == IF stimulus.all THEN ProductIds ELSE stimulus.products

-----------------------------------------------------------------------------
\* Mutant: the parameters' product goes first.
board_for_ParamsFirst(stimulus) ==
  CASE stimulus.generator \in RendererNames -> <<ProductOf(stimulus.generator)>>
    [] stimulus.generator = "probe" ->
         IF stimulus.named # None THEN <<stimulus.named>> ELSE <<stimulus.product_id>>
    [] OTHER -> Requested(stimulus)

\* The products on the board, for the census.
board_for(stimulus) ==
  CASE stimulus.generator \in RendererNames -> <<ProductOf(stimulus.generator)>>
    [] stimulus.generator = "probe" ->
         IF Target(stimulus) = None THEN << >> ELSE <<Target(stimulus)>>
    [] OTHER -> Requested(stimulus)

\* The products to render, or None: no renderer, or a board that names one twice.
Chosen(stimulus) ==
  CASE stimulus.generator \in RendererNames -> <<ProductOf(stimulus.generator)>>
    [] stimulus.generator = "probe" ->
         IF Target(stimulus) \in DOMAIN RendererOf THEN <<Target(stimulus)>> ELSE None
    [] stimulus.generator = "composite" ->
         IF IsInjective(Requested(stimulus))
            /\ ToSet(Requested(stimulus)) \subseteq DOMAIN RendererOf
           THEN Requested(stimulus) ELSE None
    [] OTHER -> None

\* render() raises: the product reads a parameter it cannot use.
Fails(product, params) ==
  \E key \in Reads[product] \cap DOMAIN params : params[key] = "unusable"

\* compose(): the products drawn, or why it raised.
compose(stimulus) ==
  LET chosen == Chosen(stimulus)
      refuse(why) == [drawn |-> << >>, refused |-> why]
  IN  IF chosen = None THEN refuse("lookup")
      ELSE IF \E p \in ToSet(chosen) : Fails(p, stimulus.params) THEN refuse("render")
      ELSE [drawn |-> chosen, refused |-> None]

\* The facts for the answer that the products drawn supply between them.
Supplied(drawn) == UNION {Supplies[p] : p \in ToSet(drawn)}

\* Two products on the board computed the same one of them.
Collides(drawn) ==
  \E i, j \in DOMAIN drawn : i < j /\ Supplies[drawn[i]] \cap Supplies[drawn[j]] # {}

\* MAX_PAYLOAD_BYTES is exceeded: a count one renderer reads is huge.
TooLarge(drawn, params) ==
  \E p \in ToSet(drawn), key \in DOMAIN params : key \in Reads[p] /\ params[key] = "huge"

\* _serve_one() as far as the run id: the refusals in their order.
Served(stimulus, computed) ==
  LET made == compose(stimulus)
      refuse(why) == [drawn |-> << >>, refused |-> why]
  IN  CASE made.refused # None -> made
        [] made.refused = None /\ computed /\ Collides(made.drawn) -> refuse("collision")
        [] OTHER -> IF TooLarge(made.drawn, stimulus.params) THEN refuse("budget") ELSE made

\* GeneratorRegistry.unread(): the authored parameters nobody on the board honours, but
\* for the markers, which nobody is meant to.
unread(stimulus, board) ==
  LET authored == DOMAIN stimulus.params \ Markers
      beneath == UNION {Reads[p] : p \in ToSet(board) \cap DOMAIN RendererOf}
  IN  CASE stimulus.generator \in DOMAIN CompositionReads ->
             (authored \ CompositionReads[stimulus.generator]) \ beneath
        [] stimulus.generator \in RendererNames ->
             authored \ Reads[ProductOf(stimulus.generator)]
        [] OTHER -> authored

=============================================================================
