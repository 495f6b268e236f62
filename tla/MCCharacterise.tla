----------------------------- MODULE MCCharacterise -----------------------------
\* Seven observations, four of them at one moment, and three element sets.
EXTENDS Characterise

MCRecords == 1..10
MCKind == [r \in MCRecords |-> IF r <= 7 THEN "observation" ELSE "elset"]
MCAt == <<2, 1, 1, 1, 1, 4, 7, 4, 8, 2>>
MCMarking == <<"U", "U//PR", "U", "U", "U", "U//PR", "U//PR-OWNER-EO", "U", "U", "U">>
MCSensor == <<"dish", "dish", "dish", "mast", "mast", "dish", "12345", "mast", "mast", "mast">>
MCWindows == {[from |-> 0, to |-> 8], [from |-> 1, to |-> 1], [from |-> 2, to |-> 4]}
MCArchive == <<9, 10, 7, 8, 5, 3, 1, 2, 6, 4>>
MCListing ==
  [q \in Entities \X Moments \X Moments |->
     SelectSeq(MCArchive, LAMBDA r : Kind[r] = q[1] /\ q[2] <= At[r] /\ At[r] <= q[3])]
=================================================================================
