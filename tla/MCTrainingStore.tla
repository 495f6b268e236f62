--------------------------- MODULE MCTrainingStore --------------------------
(* TLC instances of TrainingStore: which requests the callers make.         *)
EXTENDS TrainingStore

CONSTANTS Revisions  \* the revisions a caller may name in If-Match

\* A field is set or not: that is all the merge looks at.
BodyOf(fields) == [f \in Fields |-> IF f \in fields THEN "set" ELSE Absent]

MCValues == {"set"}

Seeds == {[kind |-> "seed", id |-> CHOOSE i \in Ids : TRUE,
           body |-> BodyOf({}), expected |-> NoRevision]}

Writes(kind, bodies) ==
  [kind : {kind}, id : Ids, body : {BodyOf(fields) : fields \in bodies},
   expected : Revisions \cup {NoRevision}]

\* SessionUpsert requires the title; SessionPatch requires nothing.
StoreRequests ==
  Seeds \cup Writes("post", {{"title"}}) \cup Writes("patch", {{}})

=============================================================================
