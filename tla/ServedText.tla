------------------------------ MODULE ServedText ------------------------------
(***************************************************************************)
(* identifiers, and capped() of the drill loop: how a text that content     *)
(* authored is shortened on its way to a wire, a log line or a stored row.  *)
(* A text is a sequence of characters; its size is counted in bytes.        *)
(***************************************************************************)
EXTENDS Integers, SequencesExt, NoValue

CONSTANTS
  Width,          \* the bytes of UTF-8 of each character; None for a lone surrogate
  MaxIdentifier,  \* MAX_CONTENT_STRING
  DigestBytes,    \* the digest of a shortened identifier and its marker
  MarkBytes       \* TRUNCATION_MARK

ASSUME WidthAssumption ==
  /\ "?" \in DOMAIN Width /\ Width["?"] = 1
  /\ \A c \in DOMAIN Width : Width[c] = None \/ Width[c] \in 1 .. 4
ASSUME SizesAssumption ==
  MaxIdentifier \in Nat /\ MarkBytes \in Nat /\ DigestBytes \in 0 .. MaxIdentifier

Encodable(text) == \A i \in DOMAIN text : Width[text[i]] # None

\* What cannot be encoded becomes a question mark.
utf8(text) == [i \in DOMAIN text |-> IF Width[text[i]] = None THEN "?" ELSE text[i]]
Bytes(text) == FoldLeft(LAMBDA sum, c : sum + Width[c], 0, utf8(text))

\* The longest prefix that fits, whole characters only.
cut_to_bytes(text, limit) ==
  SubSeq(utf8(text), 1, Max({n \in 0 .. Len(text) : Bytes(SubSeq(text, 1, n)) <= limit}))

\* Mutant: a long identifier is cut, and nothing tells it from another.
served_identifier_Cut(text) == [shown |-> cut_to_bytes(text, MaxIdentifier), digest |-> << >>]

\* A shortened identifier ends in a digest of the whole of it.  Two texts with one
\* digest, and an authored text that looks like a digest, are left out.
served_identifier(text) ==
  IF Encodable(text) /\ Bytes(text) <= MaxIdentifier
    THEN [shown |-> text, digest |-> << >>]
    ELSE [shown |-> cut_to_bytes(text, MaxIdentifier - DigestBytes), digest |-> text]

\* Prose is cut and says so.
capped(text, limit) ==
  IF Bytes(text) <= limit THEN [shown |-> utf8(text), marked |-> FALSE]
  ELSE [shown |-> cut_to_bytes(text, IF limit > MarkBytes THEN limit - MarkBytes ELSE 0),
        marked |-> TRUE]
=============================================================================
