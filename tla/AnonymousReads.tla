---------------------------- MODULE AnonymousReads ----------------------------
(***************************************************************************)
(* What anybody may read of the training layer: the manifest, the dashboard *)
(* and the library of procedures.  Every list is cut at a length of its own, *)
(* every identifier is shortened, a document is served whole or not at all.  *)
(***************************************************************************)
EXTENDS ContentPackage, ServedText

CONSTANTS
  NameOf,       \* how the identifier of each drill is written
  ParamOrder,   \* the names of parameters, sorted
  MaxServed,    \* MAX_SERVED_WITHHELD, _PARAMS, _COMPETENCIES and _DUE_ITEMS
  MaxDocument   \* MAX_SERVED_DOCUMENT_BYTES

ASSUME CapsAssumption ==
  /\ MaxServed \in [{"withheld", "params", "competencies", "due"} -> Nat \ {0}]
  /\ MaxDocument \in Nat

Leading(list, kind) ==
  SubSeq(list, 1, IF Len(list) < MaxServed[kind] THEN Len(list) ELSE MaxServed[kind])

\* sorted(): a set of identifiers in their order.
Sorted(ids) ==
  CHOOSE list \in [1 .. Cardinality(ids) -> ids] :
    \A i, j \in 1 .. Cardinality(ids) : i < j => list[i] < list[j]

Unavailable == [status |-> 503, error |-> "content_unavailable"]

-----------------------------------------------------------------------------
(* The manifest and the dashboard *)

Before(a, b) ==
  \E i, j \in DOMAIN ParamOrder : i < j /\ ParamOrder[i] = a /\ ParamOrder[j] = b

\* _unread_params(): how many drills have each parameter that nothing on their board
\* reads, the most frequent first, and how many drills have none.
unread_params(content) ==
  LET gaps == [i \in DOMAIN content.drills |->
                 LET s == content.drills[i].stimulus IN unread(s, board_for(s))]
      count(key) == Cardinality({i \in DOMAIN gaps : key \in gaps[i]})
      names == SetToSortSeq(UNION Range(gaps),
                 LAMBDA a, b : count(a) > count(b) \/ (count(a) = count(b) /\ Before(a, b)))
  IN  [expressed |-> Cardinality({i \in DOMAIN gaps : gaps[i] = {}}),
       total |-> Len(content.drills),
       params |-> [key \in ToSet(Leading(names, "params")) |-> count(key)]]

\* manifest(); reason maps the raw identifiers that are withheld to why.  Of two
\* identifiers served under one name the later one keeps its reason.
manifest(content, reason) ==
  LET ids == Leading(Sorted(DOMAIN reason), "withheld")
      name(id) == served_identifier(NameOf[id])
  IN  [withheld |-> [i \in DOMAIN ids |-> name(ids[i])],
       reasons |-> [n \in {name(id) : id \in ToSet(ids)} |->
                      reason[Max({id \in ToSet(ids) : name(id) = n})]],
       total |-> Cardinality(DOMAIN reason),
       unread |-> unread_params(content)]

\* GET /content/manifest passes it on, and says whether a scenario may be scored.
served_manifest(content, reason) ==
  [withheld |-> manifest(content, reason).withheld,
   reasons |-> manifest(content, reason).reasons,
   total |-> manifest(content, reason).total,
   unread |-> manifest(content, reason).unread,
   ok |-> content.ok,
   scored_scenarios_ready |-> ScoredScenariosReady(content),
   why_not_ready |-> IF ScoredScenariosReady(content) THEN "" ELSE "placeholders"]

\* dashboard(): the first axes of the package, and what is due, withheld or not.
dashboard(content, attempts, due) ==
  LET axes == Leading(content.competencies, "competencies")
      ids == Kept([i \in DOMAIN content.drills |-> content.drills[i].id], due)
  IN  [competencies |-> [i \in DOMAIN axes |->
                           [id |-> axes[i], measured |-> attempts[axes[i]] > 0]],
       due_now |-> Len(ids),
       due_items |-> [i \in DOMAIN Leading(ids, "due") |-> served_identifier(NameOf[ids[i]])]]

\* GET /me
me(content, attempts, due) ==
  IF ~ content.ok THEN Unavailable ELSE [status |-> 200, board |-> dashboard(content, attempts, due)]

-----------------------------------------------------------------------------
(* The library *)

\* An authored field is absent, a text, a list of texts, a list with something else in
\* it ("ragged"), or something else.  _authored_text() and _authored_sequence(): what is
\* of another shape than the field's is a content fault.
IsText(shape) == shape \in {"absent", "text"}
IsSequence(shape) == shape \in {"absent", "list", "ragged"}

\* A record the index cannot be made of.
Malformed(p) ==
  \/ ~ IsSequence(p.regime) \/ ~ IsSequence(p.steps)
  \/ ~ IsText(p.purpose) \/ p.regime = "ragged"

\* _procedure_index(): of each procedure its identifier and its name, each shortened its
\* own way; the terms and the prose beside them are left out.
Card(p) == [id |-> served_identifier(p.id), name |-> capped(p.name, MaxIdentifier)]
SizeOf(card) ==
  Bytes(card.id.shown) + (IF card.id.digest = << >> THEN 0 ELSE DigestBytes)
  + Bytes(card.name.shown) + (IF card.name.marked THEN MarkBytes ELSE 0)

\* _within_document_budget()
WithinBudget(bytes, answer) ==
  IF bytes > MaxDocument THEN [status |-> 503, error |-> "document_too_large"] ELSE answer

\* GET /content/procedures: one malformed record, and there is no index.
procedure_index(content) ==
  LET cards == [i \in DOMAIN content.procedures |-> Card(content.procedures[i])]
  IN  IF ~ content.ok \/ \E p \in ToSet(content.procedures) : Malformed(p)
        THEN Unavailable
      ELSE WithinBudget(FoldLeft(LAMBDA sum, c : sum + SizeOf(c), 0, cards),
                        [status |-> 200, cards |-> cards])

\* GET /content/procedure/{procedure_id}: the first procedure of exactly that name, and
\* a shortened name is nobody's.
procedure_detail(content, name) ==
  LET at == SelectInSeq(content.procedures,
                        LAMBDA p : name.digest = << >> /\ p.id = name.shown)
  IN  IF ~ content.ok THEN Unavailable
      ELSE IF at = 0 THEN [status |-> 404, error |-> "not_found"]
      ELSE WithinBudget(content.procedures[at].bytes,
                        [status |-> 200, procedure |-> content.procedures[at]])
=============================================================================
