--------------------------- MODULE CharacteriseProofs ---------------------------
(***************************************************************************)
(* For any archive, profile, window, cap and page size: the noise model      *)
(* speaks for every record of its window or says which it leaves out,        *)
(* nothing it should keep is put out or readable, and the recursion is as     *)
(* deep as its bound.                                                        *)
(***************************************************************************)
EXTENDS Characterise, SequenceTheorems, TLAPS

\* What the step the tool is at presupposes of its arguments and its stack.
Ready ==
  /\ step \in {"count", "page"} => args.mode = "fetch" /\ window = args.window
  /\ step = "page" => todo # << >>
  /\ step \in {"open", "mode", "write"} =>
       IF into = "dump" THEN args.mode = "fetch" /\ window = args.window
                        ELSE args.mode = "queryhelp"
  /\ step = "report" => args.mode \in {"fetch", "analyse"} /\ window \in Windows

TInv == TypeOK /\ Ready

-----------------------------------------------------------------------------
(* The archive and the slices *)

LEMMA ElementsConcat ==
  ASSUME NEW S, NEW s \in Seq(S), NEW t \in Seq(S)
  PROVE  Elements(s \o t) = Elements(s) \cup Elements(t)
<1>1. /\ s \o t \in Seq(S) /\ Len(s \o t) = Len(s) + Len(t)
      /\ \A i \in 1 .. Len(s) + Len(t) :
           (s \o t)[i] = IF i <= Len(s) THEN s[i] ELSE t[i - Len(s)]
  BY ConcatProperties
<1>2. /\ Len(s) \in Nat /\ Len(t) \in Nat
      /\ DOMAIN s = 1 .. Len(s) /\ DOMAIN t = 1 .. Len(t)
      /\ DOMAIN (s \o t) = 1 .. Len(s) + Len(t)
  BY <1>1, LenProperties
<1>3. \A x \in Elements(s \o t) : x \in Elements(s) \cup Elements(t)
  <2> SUFFICES ASSUME NEW i \in 1 .. Len(s) + Len(t)
               PROVE  (s \o t)[i] \in Elements(s) \cup Elements(t)
    BY <1>2 DEF Elements
  <2>1. CASE i <= Len(s)
    BY <2>1, <1>1, <1>2 DEF Elements
  <2>2. CASE ~ (i <= Len(s))
    <3>1. i - Len(s) \in 1 .. Len(t)
      BY <2>2, <1>2
    <3> QED BY <3>1, <2>2, <1>1, <1>2 DEF Elements
  <2> QED BY <2>1, <2>2
<1>4. \A i \in DOMAIN s : s[i] \in Elements(s \o t)
  <2> SUFFICES ASSUME NEW i \in 1 .. Len(s) PROVE s[i] \in Elements(s \o t)
    BY <1>2
  <2>1. i \in 1 .. Len(s) + Len(t) /\ i <= Len(s)
    BY <1>2
  <2> QED BY <2>1, <1>1, <1>2 DEF Elements
<1>5. \A i \in DOMAIN t : t[i] \in Elements(s \o t)
  <2> SUFFICES ASSUME NEW i \in 1 .. Len(t) PROVE t[i] \in Elements(s \o t)
    BY <1>2
  <2>1. /\ Len(s) + i \in 1 .. Len(s) + Len(t) /\ ~ (Len(s) + i <= Len(s))
        /\ (Len(s) + i) - Len(s) = i
    BY <1>2
  <2> QED BY <2>1, <1>1, <1>2 DEF Elements
<1> QED BY <1>3, <1>4, <1>5 DEF Elements

LEMMA ElementsOfSeq ==
  ASSUME NEW S, NEW s \in Seq(S)
  PROVE  Elements(s) \subseteq S
  BY LenProperties, ElementOfSeq DEF Elements

\* A half lies in the span it halves, however it is rounded.
LEMMA HalfIsInside ==
  ASSUME NEW span \in Nat, span > 1
  PROVE  Half(span) \in 0 .. span
<1> DEFINE q == span \div 2
<1>1. q \in Nat /\ 2 * q <= span /\ span < 2 * q + 2
  OBVIOUS
<1>2. q % 2 \in {0, 1}
  BY <1>1
<1>3. Half(span) \in {q, q + (q % 2)}
  BY DEF Half
<1> HIDE DEF q
<1>4. q >= 1
  BY <1>1
<1> QED BY <1>1, <1>2, <1>3, <1>4

\* Halving leaves nothing out: the halves are slices, and every record of the slice is
\* in one of them.
LEMMA HalvesCover ==
  ASSUME NEW s \in Slice, ~ CannotNarrow(s)
  PROVE  LET middle == s.from + Half(s.to - s.from)
             left == [from |-> s.from, to |-> middle, depth |-> s.depth + 1]
             right == [from |-> middle, to |-> s.to, depth |-> s.depth + 1]
         IN  /\ left \in Slice /\ right \in Slice
             /\ s.depth <= MaxSliceDepth
             /\ \A r \in Records : Within(r, s) => Within(r, left) \/ Within(r, right)
<1> DEFINE half == Half(s.to - s.from)
           middle == s.from + half
           left == [from |-> s.from, to |-> middle, depth |-> s.depth + 1]
           right == [from |-> middle, to |-> s.to, depth |-> s.depth + 1]
<1>1. /\ s.from \in Nat /\ s.to \in Nat /\ s.from <= MaxMoment /\ s.to <= MaxMoment
      /\ s.depth \in Nat /\ MaxMoment \in Nat
  BY RecordsAssumption DEF Slice, Moments
<1>2. s.to - s.from \in Nat /\ s.to - s.from > 1 /\ s.depth <= MaxSliceDepth
  BY <1>1, LimitsAssumption DEF CannotNarrow
<1>3. half \in 0 .. (s.to - s.from)
  BY <1>2, HalfIsInside
<1> HIDE DEF half
<1>4. middle \in Moments
  BY <1>1, <1>2, <1>3 DEF Moments
<1>5. left \in Slice /\ right \in Slice
  BY <1>1, <1>4 DEF Slice, Moments
<1>6. ASSUME NEW r \in Records, Within(r, s)
      PROVE  Within(r, left) \/ Within(r, right)
  <2>1. At[r] \in Int /\ middle \in Int
    BY <1>4, RecordsAssumption DEF Moments
  <2>2. s.from <= At[r] /\ At[r] <= s.to
    BY <1>6 DEF Within
  <2>3. CASE At[r] <= middle
    BY <2>2, <2>3 DEF Within
  <2>4. CASE ~ (At[r] <= middle)
    <3>1. middle <= At[r]
      BY <2>1, <2>4
    <3> QED BY <2>2, <3>1 DEF Within
  <2> QED BY <2>3, <2>4
<1> QED BY <1>2, <1>5, <1>6 DEF half

\* The archive lists what a slice holds, and a count is how much that is.
LEMMA ListedIs ==
  ASSUME NEW e \in Entities, NEW s \in Slice
  PROVE  /\ Listed(e, s) \in Seq(Records) /\ Len(Listed(e, s)) \in Nat
         /\ Elements(Listed(e, s)) = {r \in Records : Kind[r] = e /\ Within(r, s)}
<1> DEFINE w == [from |-> s.from, to |-> s.to]
<1>1. s.from \in Moments /\ s.to \in Moments /\ w \in [from : Moments, to : Moments]
  BY DEF Slice
<1>2. Listed(e, s) = Listed(e, w) /\ \A r : Within(r, s) = Within(r, w)
  BY DEF Listed, Within
<1>3. Elements(Listed(e, w)) = {r \in Records : Kind[r] = e /\ Within(r, w)}
  BY <1>1, ListingAssumption
<1>4. Listed(e, s) \in Seq(Records)
  BY <1>1, ListingAssumption DEF Listed
<1> QED BY <1>2, <1>3, <1>4, LenProperties

\* A page is part of what is listed.
LEMMA ReturnedType ==
  ASSUME entity \in Entities, NEW s \in Slice, NEW from \in Nat
  PROVE  Returned(s, from) \in Seq(Records)
<1> DEFINE all == Listed(entity, s)
           most == IF PageSize <= ServicePage THEN PageSize ELSE ServicePage
           last == IF from + most <= Len(all) THEN from + most ELSE Len(all)
<1>1. all \in Seq(Records) /\ Len(all) \in Nat
  BY ListedIs
<1>2. most \in Nat \ {0}
  BY LimitsAssumption
<1> HIDE DEF all, most
<1>3. last \in Int /\ last <= Len(all)
  BY <1>1, <1>2
<1>4. Returned(s, from) = SubSeq(all, from + 1, last)
  BY DEF Returned, all, most
<1> HIDE DEF last
<1>5. \A i \in from + 1 .. last : all[i] \in Records
  BY <1>1, <1>3, ElementOfSeq
<1> QED BY <1>3, <1>4, <1>5, SubSeqProperties

\* Where the archive returns what it is asked for, a page holds the next PageSize of
\* what is listed, and is empty only behind the last of it.
LEMMA ReturnedIs ==
  ASSUME entity \in Entities, NEW s \in Slice, NEW from \in Nat, PageSize <= ServicePage
  PROVE  LET all == Listed(entity, s)
         IN  /\ Returned(s, from) = << >> => Len(all) <= from
             /\ \A i \in 1 .. Len(all) : from < i /\ i <= from + PageSize
                  => all[i] \in Elements(Returned(s, from))
<1> DEFINE all == Listed(entity, s)
           last == IF from + PageSize <= Len(all) THEN from + PageSize ELSE Len(all)
           page == Returned(s, from)
<1>1. all \in Seq(Records) /\ Len(all) \in Nat
  BY ListedIs
<1>2. PageSize \in Nat \ {0}
  BY LimitsAssumption
<1>3. page = SubSeq(all, from + 1, last)
  BY DEF Returned
<1> HIDE DEF all, page
<1>4. last \in Int /\ last <= Len(all) /\ (from < Len(all) => from + 1 <= last)
  BY <1>1, <1>2
<1>5. \A i \in 1 .. Len(all) : from < i /\ i <= from + PageSize
        => i - from \in 1 .. last - from
  BY <1>1, <1>2
<1> HIDE DEF last
<1>6. \A i \in from + 1 .. last : all[i] \in Records
  BY <1>1, <1>4, ElementOfSeq
<1>7. /\ page \in Seq(Records)
      /\ Len(page) = IF from + 1 <= last THEN last - (from + 1) + 1 ELSE 0
      /\ \A i \in 1 .. last - (from + 1) + 1 : page[i] = all[from + 1 + i - 1]
  BY <1>3, <1>4, <1>6, SubSeqProperties
<1>8. ASSUME page = << >>
      PROVE  Len(all) <= from
  <2>1. Len(page) = 0
    BY <1>8
  <2> QED BY <2>1, <1>1, <1>4, <1>7
<1>9. ASSUME NEW i \in 1 .. Len(all), from < i, i <= from + PageSize
      PROVE  all[i] \in Elements(page)
  <2>1. i - from \in 1 .. last - from
    BY <1>5, <1>9
  <2>2. /\ last - from = last - (from + 1) + 1 /\ from + 1 <= last
        /\ from + 1 + (i - from) - 1 = i
    BY <2>1, <1>1, <1>4
  <2>3. page[i - from] = all[i] /\ i - from \in 1 .. Len(page)
    BY <2>1, <2>2, <1>7
  <2> QED BY <2>3, <1>7, LenProperties DEF Elements
<1> QED BY <1>8, <1>9 DEF all, page

-----------------------------------------------------------------------------
(* Types *)

LEMMA NoRowsType == NoRows \in Fetched
  BY EmptySeq DEF NoRows, Fetched

LEMMA EmptyTypes == << >> \in Seq(Slice) /\ << >> \in Seq(Gap)
  BY EmptySeq

\* An invocation that ends leaves the tool idle.
LEMMA EndsType ==
  ASSUME TypeOK, NEW how \in {"ok", "failed", "refused", "killed"}, Ends(how),
         UNCHANGED workspace,
         files' \in [{"dump", "help"} -> [filled : BOOLEAN, private : BOOLEAN]],
         dump' \in Dump \cup {None}, crossed' \in Crossed
  PROVE  TInv'
<1>1. Ready'
  BY DEF Ends, Ready
<1>2. TypeOK'
  BY NoRowsType, EmptyTypes DEF TypeOK, Ends, workspace, Entities
<1> QED BY <1>1, <1>2 DEF TInv

LEMMA ParameterFileType ==
  ASSUME TInv, step = "report"
  PROVE  ParameterFile \in Crossed
<1>1. /\ args \in Arguments /\ args.mode \in {"fetch", "analyse"} /\ window \in Windows
      /\ rows \in Fetched /\ gaps \in Seq(Gap)
  BY NoneAssumption DEF TInv, TypeOK, Ready
<1>2. args.verbatim \in BOOLEAN /\ (args.mode = "fetch") \in BOOLEAN
  BY <1>1 DEF Arguments
<1>3. Elements(rows["observation"]) \subseteq Records
  BY <1>1, ElementsOfSeq DEF Fetched, Entities
<1> DEFINE seen == Elements(rows["observation"])
<1>4. NamesOf(seen) \in Names
  <2> HIDE DEF seen
  <2>1. {Sensor[r] : r \in seen} \subseteq {Sensor[r] : r \in Records}
    BY <1>3 DEF seen
  <2>2. {Marking[r] : r \in seen} \subseteq {Marking[r] : r \in Records}
    BY <1>3 DEF seen
  <2> QED BY <2>1, <2>2 DEF NamesOf, Names
<1> HIDE DEF seen
<1>5. ParameterFile = [kind |-> "parameters", live |-> args.mode = "fetch", rows |-> rows,
                       window |-> window, gaps |-> gaps, names |-> NamesOf(seen)]
  BY DEF ParameterFile, seen
<1>6. ParameterFile \in [kind : {"parameters"}, live : BOOLEAN, rows : Fetched,
                         window : Windows, gaps : Seq(Gap), names : Names]
  BY <1>1, <1>2, <1>4, <1>5
<1> QED BY <1>6 DEF Crossed

LEMMA TypeInit == Init => TInv
<1> SUFFICES ASSUME Init PROVE TInv
  OBVIOUS
<1>1. crossed \in Crossed
  BY DEF Init, Crossed
<1>2. TypeOK
  BY <1>1, NoRowsType, EmptyTypes DEF Init, Idle, TypeOK, Entities
<1>3. Ready
  BY DEF Init, Ready
<1> QED BY <1>2, <1>3 DEF TInv

\* The next call of the stack, and the stack without it.
LEMMA TopType ==
  ASSUME TypeOK, todo # << >>
  PROVE  /\ Head(todo) \in Slice /\ Tail(todo) \in Seq(Slice)
         /\ Listed(entity, Head(todo)) \in Seq(Records)
         /\ CountOf(Head(todo)) \in Nat
  BY HeadTailProperties, ListedIs DEF TypeOK, CountOf

LEMMA BeginType ==
  ASSUME args \in Arguments, args.mode = "fetch", NEW e \in Entities, Begin(e, args.window)
  PROVE  entity' \in Entities /\ todo' \in Seq(Slice) /\ step' = "count"
<1>1. args.window \in [from : Moments, to : Moments]
  BY RecordsAssumption DEF Arguments
<1>2. [from |-> args.window.from, to |-> args.window.to, depth |-> 0] \in Slice
  BY <1>1 DEF Slice
<1> QED BY <1>2 DEF Begin

LEMMA TypeStep == TInv /\ [Next]_vars => TInv'
<1> SUFFICES ASSUME TInv, [Next]_vars PROVE TInv'
  OBVIOUS
<1> USE DEF TInv
<1>a. step # "idle" => args \in Arguments
  BY DEF TypeOK
<1>1. CASE Prepare
  BY <1>1 DEF Prepare, TypeOK, Ready, search, disk
<1>2. CASE Invoke
  BY <1>2, NoneAssumption DEF Invoke, TypeOK, Ready, workspace, search, disk
<1>3. CASE LoadFetch
  <2>1. /\ entity' \in Entities /\ todo' \in Seq(Slice) /\ step' = "count"
        /\ args.window \in Windows
    BY <1>3, <1>a, BeginType DEF LoadFetch, Entities, Arguments
  <2> QED BY <1>3, <2>1 DEF LoadFetch, TypeOK, Ready, workspace, disk
<1>4. CASE LoadDump
  <2>1. dump \in Dump
    BY <1>4 DEF LoadDump, TypeOK
  <2>2. rows' \in Fetched /\ window' \in Windows /\ gaps' \in Seq(Gap)
    BY <1>4, <2>1, EmptyTypes DEF LoadDump, Dump
  <2> QED BY <1>4, <2>2 DEF LoadDump, TypeOK, Ready, workspace, disk
<1>5. CASE LoadFails \/ RequestFails \/ Kill
  BY <1>5, EndsType DEF LoadFails, RequestFails, Kill, Keeps, TypeOK
<1>6. ASSUME NEW clean \in BOOLEAN, Queryhelp(clean)
      PROVE  TInv'
  <2>1. CASE clean
    <3>1. crossed' = [kind |-> "reference", clean |-> clean]
      BY <1>6, <2>1 DEF Queryhelp
    <3>2. crossed' \in [kind : {"reference"}, clean : BOOLEAN]
      BY <3>1
    <3>3. crossed' \in Crossed
      BY <3>2 DEF Crossed
    <3> QED BY <1>6, <2>1, <3>3, EndsType DEF Queryhelp, TypeOK
  <2>2. CASE ~ clean
    BY <1>6, <2>2 DEF Queryhelp, TypeOK, Ready, workspace, search
  <2> QED BY <2>1, <2>2
<1>7. CASE CountsNothing
  BY <1>7, TopType DEF CountsNothing, Called, TypeOK, Ready, workspace, disk
<1>8. CASE GiveUp
  <2>1. gaps' \in Seq(Gap)
    <3>1. [from |-> Head(todo).from, to |-> Head(todo).to, count |-> CountOf(Head(todo))]
            \in Gap
      BY <1>8, TopType DEF GiveUp, Called, Gap, Slice
    <3> QED BY <1>8, <3>1, AppendProperties DEF GiveUp, TypeOK
  <2>2. todo' \in Seq(Slice)
    BY <1>8, TopType DEF GiveUp, Called
  <2> QED BY <1>8, <2>1, <2>2 DEF GiveUp, Called, TypeOK, Ready, workspace, disk
<1>9. CASE Bisect
  <2>1. todo' \in Seq(Slice)
    <3> DEFINE s == Head(todo)
               middle == s.from + Half(s.to - s.from)
               left == [from |-> s.from, to |-> middle, depth |-> s.depth + 1]
               right == [from |-> middle, to |-> s.to, depth |-> s.depth + 1]
    <3>1. s \in Slice /\ Tail(todo) \in Seq(Slice) /\ ~ CannotNarrow(s)
      BY <1>9, TopType DEF Bisect, Called
    <3>2. left \in Slice /\ right \in Slice
      BY <3>1, HalvesCover
    <3>3. todo' = <<left, right>> \o Tail(todo)
      BY <1>9 DEF Bisect
    <3> HIDE DEF left, right
    <3> QED BY <3>1, <3>2, <3>3, ConcatProperties
  <2> QED BY <1>9, <2>1 DEF Bisect, Called, TypeOK, Ready, workspace, disk
<1>10. CASE StartPaging
  BY <1>10, TopType DEF StartPaging, Called, TypeOK, Ready, workspace, disk
<1>11. CASE Page
  <2>1. Head(todo) \in Slice /\ Tail(todo) \in Seq(Slice)
    BY <1>11, TopType DEF Page, Ready
  <2>2. Returned(Head(todo), offset) \in Seq(Records)
    BY <2>1, ReturnedType DEF TypeOK
  <2>3. rows' \in Fetched
    BY <1>11, <2>2, ConcatProperties DEF Page, TypeOK, Fetched
  <2>4. offset' \in Nat
    BY <1>11, LimitsAssumption DEF Page, TypeOK
  <2>5. todo' \in Seq(Slice) /\ step' \in {"count", "page"}
    BY <1>11, <2>1 DEF Page, TypeOK
  <2>6. step' = "page" => todo' # << >>
    BY <1>11 DEF Page, Ready
  <2> QED BY <1>11, <2>3, <2>4, <2>5, <2>6 DEF Page, TypeOK, Ready, workspace, disk
<1>12. CASE NextEntity
  <2>1. entity' \in Entities /\ todo' \in Seq(Slice) /\ step' = "count"
    BY <1>12, <1>a, BeginType DEF NextEntity, Entities, Ready
  <2> QED BY <1>12, <2>1 DEF NextEntity, TypeOK, Ready, workspace, disk
<1>13. CASE AllFetched
  <2>1. args.window \in Windows /\ args.mode = "fetch" /\ window = args.window
    BY <1>13, <1>a DEF AllFetched, Ready, Arguments
  <2> QED BY <1>13, <2>1 DEF AllFetched, TypeOK, Ready, workspace, search
<1>14. CASE OpenPrivate
  BY <1>14 DEF OpenPrivate, TypeOK, Ready, workspace, search
<1>15. CASE SetMode
  BY <1>15 DEF SetMode, TypeOK, Ready, workspace, search
<1>16. CASE WritePrivate
  <2>1. files' \in [{"dump", "help"} -> [filled : BOOLEAN, private : BOOLEAN]]
    BY <1>16 DEF WritePrivate, TypeOK
  <2>2. CASE into = "help"
    BY <1>16, <2>1, <2>2, EndsType DEF WritePrivate, TypeOK
  <2>3. CASE into # "help"
    <3>1. /\ args.window \in Windows /\ window = args.window /\ args.mode = "fetch"
      BY <1>16, <2>3, <1>a DEF WritePrivate, TypeOK, Ready, Arguments
    <3>2. dump' \in Dump
      BY <1>16, <2>3, <3>1 DEF WritePrivate, Dump, TypeOK
    <3> QED BY <1>16, <2>1, <2>3, <3>1, <3>2 DEF WritePrivate, TypeOK, Ready, workspace, search
  <2> QED BY <2>2, <2>3
<1>17. CASE WriteFails
  <2>1. files' \in [{"dump", "help"} -> [filled : BOOLEAN, private : BOOLEAN]]
    <3>1. CASE UNCHANGED files
      BY <3>1 DEF TypeOK
    <3>2. CASE files' = [files EXCEPT ![into].filled = TRUE]
      BY <3>2 DEF TypeOK
    <3> QED BY <1>17, <3>1, <3>2 DEF WriteFails
  <2> QED BY <1>17, <2>1, EndsType DEF WriteFails, TypeOK
<1>18. CASE Report \/ EmitFails
  <2>1. crossed' \in Crossed
    BY <1>18, ParameterFileType DEF Report, EmitFails, TypeOK
  <2> QED BY <1>18, <2>1, EndsType DEF Report, EmitFails, TypeOK
<1>19. CASE UNCHANGED vars
  BY <1>19 DEF vars, workspace, search, disk, TypeOK, Ready
<1> QED BY <1>1, <1>2, <1>3, <1>4, <1>5, <1>6, <1>7, <1>8, <1>9, <1>10, <1>11, <1>12,
           <1>13, <1>14, <1>15, <1>16, <1>17, <1>18, <1>19 DEF Next, Step

LEMMA TInvHolds == Spec => []TInv
  BY TypeInit, TypeStep, PTL DEF Spec

\* Whatever the archive answers and wherever the tool is stopped, every variable keeps its
\* type (main and what it calls).
THEOREM NoiseTypeOK == Spec => []TypeOK
  BY TInvHolds, PTL DEF TInv

-----------------------------------------------------------------------------
(* What crosses, and what stays *)

\* A private file is filled only after its mode was set.
FilesInv ==
  /\ RecordsStayPrivate
  /\ step = "write" => files[into].private

LEMMA FilesStep == TInv /\ FilesInv /\ [Next]_vars => FilesInv'
<1> SUFFICES ASSUME TInv, FilesInv, [Next]_vars PROVE FilesInv'
  OBVIOUS
<1> USE DEF FilesInv, RecordsStayPrivate
<1>1. /\ files \in [{"dump", "help"} -> [filled : BOOLEAN, private : BOOLEAN]]
      /\ into \in {"dump", "help"}
  BY DEF TInv, TypeOK
<1>2. CASE UNCHANGED files /\ step' # "write"
  BY <1>2
<1>3. CASE OpenPrivate \/ SetMode \/ WritePrivate
  BY <1>1, <1>3 DEF OpenPrivate, SetMode, WritePrivate, search, Ends
<1>4. CASE WriteFails
  BY <1>1, <1>4 DEF WriteFails, Ends
<1>5. CASE UNCHANGED vars
  BY <1>5 DEF vars, disk
<1>6. CASE Prepare \/ Invoke \/ LoadFetch \/ LoadDump \/ LoadFails
  <2>1. UNCHANGED files /\ ((step' = step /\ step = "idle") \/ step' \in {"load", "count", "report", "idle"})
    BY <1>6 DEF Prepare, Invoke, LoadFetch, LoadDump, LoadFails, Begin, Ends, Keeps, disk
  <2> QED BY <1>2, <2>1
<1>7. CASE \E clean \in BOOLEAN : Queryhelp(clean)
  BY <1>2, <1>7 DEF Queryhelp, Ends
<1>8. CASE CountsNothing \/ GiveUp \/ Bisect \/ StartPaging \/ Page
  <2>1. UNCHANGED files /\ step' \in {"count", "page"}
    BY <1>8 DEF CountsNothing, GiveUp, Bisect, StartPaging, Page, Called, disk
  <2> QED BY <1>2, <2>1
<1>9. CASE NextEntity \/ AllFetched \/ RequestFails \/ Report \/ EmitFails \/ Kill
  <2>1. UNCHANGED files /\ step' \in {"count", "open", "report", "idle"}
    BY <1>9
    DEF NextEntity, AllFetched, RequestFails, Report, EmitFails, Kill, Begin, Ends, Keeps, disk
  <2> QED BY <1>2, <2>1
<1> QED BY <1>3, <1>4, <1>5, <1>6, <1>7, <1>8, <1>9 DEF Next, Step

\* Records never lie in a file that others can read, whatever its mode was before, and
\* wherever the tool is stopped (_write_private).
THEOREM NoiseRecordsStayPrivate == Spec => []RecordsStayPrivate
<1>1. Init => FilesInv
  BY DEF Init, FilesInv, RecordsStayPrivate
<1> QED BY <1>1, FilesStep, TInvHolds, PTL DEF Spec, FilesInv

\* What _allowlisted_markings and assert_crossable let through.
LEMMA CrossableIs ==
  ASSUME Crossable(ParameterFile)
  PROVE  /\ ParameterFile.kind = "parameters"
         /\ ParameterFile.names.markings \subseteq Plain \ CatalogueShaped
         /\ ParameterFile.names.labels \cap CatalogueShaped = {}
<1>1. ParameterFile.names.markings \subseteq Plain
  BY DEF ParameterFile, NamesOf
<1> QED BY <1>1 DEF Crossable, ParameterFile

LEMMA CrossStep == OnlyDistributionsCross /\ [Next]_vars => OnlyDistributionsCross'
<1> SUFFICES ASSUME OnlyDistributionsCross, [Next]_vars PROVE OnlyDistributionsCross'
  OBVIOUS
<1>1. CASE UNCHANGED crossed
  BY <1>1 DEF OnlyDistributionsCross
<1>2. ASSUME NEW clean \in BOOLEAN, Queryhelp(clean)
      PROVE  OnlyDistributionsCross'
  BY <1>1, <1>2 DEF Queryhelp, OnlyDistributionsCross
<1>3. CASE Report \/ EmitFails
  <2>1. CASE crossed' = ParameterFile
    <3>1. Crossable(ParameterFile) \/ UNCHANGED crossed
      BY <1>3 DEF Report, EmitFails
    <3> QED BY <1>1, <2>1, <3>1, CrossableIs DEF OnlyDistributionsCross
  <2>2. CASE UNCHANGED crossed
    BY <1>1, <2>2
  <2> QED BY <1>3, <2>1, <2>2 DEF Report, EmitFails
<1>4. CASE Prepare \/ Invoke \/ LoadFetch \/ LoadDump \/ LoadFails \/ Kill
  BY <1>1, <1>4 DEF Prepare, Invoke, LoadFetch, LoadDump, LoadFails, Kill, Keeps
<1>5. CASE CountsNothing \/ GiveUp \/ Bisect \/ StartPaging \/ Page
  BY <1>1, <1>5 DEF CountsNothing, GiveUp, Bisect, StartPaging, Page
<1>6. CASE NextEntity \/ AllFetched \/ RequestFails
  BY <1>1, <1>6 DEF NextEntity, AllFetched, RequestFails, Keeps
<1>7. CASE OpenPrivate \/ SetMode \/ WritePrivate \/ WriteFails
  BY <1>1, <1>7 DEF OpenPrivate, SetMode, WritePrivate, WriteFails
<1>8. CASE UNCHANGED vars
  BY <1>1, <1>8 DEF vars
<1> QED BY <1>2, <1>3, <1>4, <1>5, <1>6, <1>7, <1>8 DEF Next, Step

\* Nothing that crosses names an owner or looks like a catalogue number, whichever of the
\* routes it takes (main, _cmd_queryhelp).
THEOREM NoiseOnlyDistributionsCross == Spec => []OnlyDistributionsCross
<1>1. Init => OnlyDistributionsCross
  BY DEF Init, OnlyDistributionsCross
<1> QED BY <1>1, CrossStep, PTL DEF Spec

-----------------------------------------------------------------------------
(* Nothing silently sampled *)

Shown(r) == r \in Elements(rows[Kind[r]]) \/ \E g \in Elements(gaps) : Within(r, g)
Pending(r) == \E i \in DOMAIN todo : Within(r, todo[i])

\* While it fetches: a record of the window is there, in a gap, under a call still to
\* come, or of the entity still to come.
Searched ==
  step \in {"count", "page"} =>
    \A r \in Records : Within(r, window) =>
      \/ Shown(r)
      \/ Kind[r] = entity /\ Pending(r)
      \/ Kind[r] = "elset" /\ entity = "observation"

\* While it pages: what the slice lists before the offset is there.
Paged ==
  step = "page" =>
    /\ total = CountOf(Head(todo))
    /\ \A i \in 1 .. total : i <= offset =>
         Listed(entity, Head(todo))[i] \in Elements(rows[entity])

\* Once everything is fetched.
Gathered ==
  step \in {"open", "mode", "write", "report"} /\ args.mode = "fetch" =>
    \A r \in Records : Within(r, window) => Shown(r)

CInv == Searched /\ Paged /\ Gathered /\ NothingSilentlySampled

\* A call taken off the stack leaves its own records and those of the others.
LEMMA PopLeaves ==
  ASSUME TypeOK, todo # << >>, NEW r, Pending(r)
  PROVE  Within(r, Head(todo)) \/ \E i \in DOMAIN Tail(todo) : Within(r, Tail(todo)[i])
<1>1. PICK i \in DOMAIN todo : Within(r, todo[i])
  BY DEF Pending
<1>2. /\ todo \in Seq(Slice) /\ Len(todo) \in Nat /\ DOMAIN todo = 1 .. Len(todo)
      /\ Tail(todo) \in Seq(Slice) /\ Len(Tail(todo)) = Len(todo) - 1
      /\ \A j \in 1 .. Len(Tail(todo)) : Tail(todo)[j] = todo[j + 1]
      /\ DOMAIN Tail(todo) = 1 .. Len(Tail(todo))
  BY HeadTailProperties, LenProperties DEF TypeOK
<1>3. CASE i = 1
  BY <1>1, <1>3
<1>4. CASE i # 1
  <2>1. i - 1 \in 1 .. Len(Tail(todo)) /\ (i - 1) + 1 = i
    BY <1>1, <1>2, <1>4
  <2> QED BY <1>1, <1>2, <2>1
<1> QED BY <1>3, <1>4

\* What is there stays there.
LEMMA ShownStays ==
  ASSUME TypeOK,
         \/ UNCHANGED rows
         \/ \E page \in Seq(Records) : rows' = [rows EXCEPT ![entity] = @ \o page],
         UNCHANGED gaps \/ (\E g \in Gap : gaps' = Append(gaps, g))
  PROVE  /\ \A r \in Records : Shown(r) => Shown(r)'
         /\ \A e \in Entities : Elements(rows[e]) \subseteq Elements(rows[e])'
<1>1. \A e \in Entities : Elements(rows[e]) \subseteq Elements(rows[e])'
  <2>1. CASE UNCHANGED rows
    BY <2>1
  <2>2. CASE \E page \in Seq(Records) : rows' = [rows EXCEPT ![entity] = @ \o page]
    <3>1. PICK page \in Seq(Records) : rows' = [rows EXCEPT ![entity] = @ \o page]
      BY <2>2
    <3>2. Elements(rows[entity] \o page) = Elements(rows[entity]) \cup Elements(page)
      BY ElementsConcat DEF TypeOK, Fetched
    <3> SUFFICES ASSUME NEW e \in Entities
                 PROVE  Elements(rows[e]) \subseteq Elements(rows'[e])
      BY DEF Elements
    <3>3. CASE e = entity
      BY <3>1, <3>2, <3>3 DEF TypeOK, Fetched
    <3>4. CASE e # entity
      BY <3>1, <3>4 DEF TypeOK, Fetched
    <3> QED BY <3>3, <3>4
  <2> QED BY <2>1, <2>2
<1>2. Elements(gaps) \subseteq Elements(gaps')
  <2>1. CASE UNCHANGED gaps
    BY <2>1
  <2>2. CASE \E g \in Gap : gaps' = Append(gaps, g)
    <3>1. PICK g \in Gap : gaps' = Append(gaps, g)
      BY <2>2
    <3>2. gaps' = gaps \o <<g>> /\ <<g>> \in Seq(Gap)
      BY <3>1, AppendIsConcat DEF TypeOK
    <3>3. gaps \in Seq(Gap)
      BY DEF TypeOK
    <3>4. Elements(gaps \o <<g>>) = Elements(gaps) \cup Elements(<<g>>)
      BY <3>2, <3>3, ElementsConcat
    <3> QED BY <3>2, <3>4
  <2> QED BY <2>1, <2>2
<1>3. ASSUME NEW r \in Records, Shown(r)
      PROVE  Shown(r)'
  <2>1. Kind[r] \in Entities
    BY RecordsAssumption
  <2>2. r \in Elements(rows[Kind[r]]) => r \in Elements(rows'[Kind[r]])
    BY <1>1, <2>1 DEF Elements
  <2> QED BY <1>2, <1>3, <2>2 DEF Shown
<1> QED BY <1>1, <1>3

\* A call begun for the whole window has all records of its entity before it.
LEMMA BeginCovers ==
  ASSUME NEW e, NEW w, Begin(e, w), NEW r, Within(r, w)
  PROVE  Pending(r)'
<1> DEFINE s == [from |-> w.from, to |-> w.to, depth |-> 0]
<1>1. todo' = <<s>> /\ Within(r, s)
  BY DEF Begin, Within
<1>2. 1 \in DOMAIN todo' /\ todo'[1] = s
  BY <1>1
<1> QED BY <1>1, <1>2 DEF Pending

\* Everything a slice lists lies before an offset at its end, hence is there.
LEMMA SliceIsThere ==
  ASSUME TypeOK, todo # << >>, NEW n \in Nat, CountOf(Head(todo)) <= n,
         NEW there,
         \A i \in 1 .. CountOf(Head(todo)) : i <= n => Listed(entity, Head(todo))[i] \in there
  PROVE  \A r \in Records : Kind[r] = entity /\ Within(r, Head(todo)) => r \in there
<1> DEFINE all == Listed(entity, Head(todo))
<1>1. /\ all \in Seq(Records) /\ Len(all) \in Nat
      /\ Elements(all) = {r \in Records : Kind[r] = entity /\ Within(r, Head(todo))}
  BY TopType, ListedIs DEF TypeOK
<1>2. DOMAIN all = 1 .. Len(all) /\ CountOf(Head(todo)) = Len(all)
  BY <1>1, LenProperties DEF CountOf
<1>3. \A i \in DOMAIN all : all[i] \in there
  BY <1>1, <1>2
<1> QED BY <1>1, <1>3 DEF Elements

\* The step a slice is left with: the stack without it, and its records are there or in
\* a gap.
LEMMA PopSearched ==
  ASSUME TypeOK, Searched, step \in {"count", "page"}, todo # << >>,
         todo' = Tail(todo), UNCHANGED <<entity, window>>,
         \A r \in Records : Shown(r) => Shown(r)',
         \A r \in Records : Kind[r] = entity /\ Within(r, Head(todo)) => Shown(r)'
  PROVE  Searched'
<1> SUFFICES ASSUME NEW r \in Records, Within(r, window)
             PROVE  \/ Shown(r)'
                    \/ Kind[r] = entity /\ Pending(r)'
                    \/ Kind[r] = "elset" /\ entity = "observation"
  BY DEF Searched, Within
<1>1. CASE Kind[r] = entity /\ Pending(r)
  BY <1>1, PopLeaves DEF Pending
<1> QED BY <1>1 DEF Searched

LEMMA CoverInit == Init => CInv
  BY DEF Init, CInv, Searched, Paged, Gathered, NothingSilentlySampled

\* A page leaves on the stack a slice whose first records are there, or takes off one
\* whose records all are.
LEMMA PageCovers ==
  ASSUME TInv, CInv, PageSize <= ServicePage, Page
  PROVE  Searched' /\ Paged'
<1> DEFINE s == Head(todo)
           all == Listed(entity, s)
           page == Returned(s, offset)
           next == offset + PageSize
           there == Elements(rows'[entity])
<1>1. /\ step = "page" /\ todo # << >> /\ s \in Slice /\ offset \in Nat
      /\ entity \in Entities /\ TypeOK /\ PageSize \in Nat \ {0}
  BY TopType, LimitsAssumption DEF Page, TInv, Ready, TypeOK
<1>2. /\ page \in Seq(Records)
      /\ page = << >> => Len(all) <= offset
      /\ \A i \in 1 .. Len(all) : offset < i /\ i <= next => all[i] \in Elements(page)
  BY <1>1, ReturnedType, ReturnedIs
<1>3. /\ rows' = [rows EXCEPT ![entity] = @ \o page]
      /\ offset' = next
      /\ UNCHANGED <<entity, window, gaps, total>>
  BY DEF Page
<1>4. /\ \A r \in Records : Shown(r) => Shown(r)'
      /\ Elements(rows[entity]) \subseteq there
  BY <1>1, <1>2, <1>3, ShownStays DEF Elements
<1>5. there = Elements(rows[entity]) \cup Elements(page)
  BY <1>1, <1>2, <1>3, ElementsConcat DEF TypeOK, Fetched
<1>6. total = Len(all) /\ Len(all) \in Nat /\ CountOf(s) = Len(all)
      /\ \A i \in 1 .. total : i <= offset => all[i] \in Elements(rows[entity])
  BY <1>1, TopType DEF CInv, Paged, CountOf
<1> HIDE DEF s, all, page, there, next
<1>7. \A i \in 1 .. Len(all) : i <= next => all[i] \in there
  <2> SUFFICES ASSUME NEW i \in 1 .. Len(all), i <= next
               PROVE  all[i] \in there
    OBVIOUS
  <2>1. CASE i <= offset
    BY <1>4, <1>6, <2>1
  <2>2. CASE ~ (i <= offset)
    BY <1>1, <1>2, <1>5, <2>2
  <2> QED BY <2>1, <2>2
<1>8. next \in Nat
  BY <1>1 DEF next
<1>9. CASE page = << >> \/ next >= total
  <2>1. step' = "count" /\ todo' = Tail(todo)
    BY <1>3, <1>9 DEF Page, page, s, next
  <2>2. Len(all) <= next
    BY <1>1, <1>2, <1>6, <1>9 DEF next
  <2>3. \A r \in Records : Kind[r] = entity /\ Within(r, s) => r \in there
    <3>1. CountOf(Head(todo)) <= next
      BY <1>6, <2>2 DEF s
    <3>2. \A i \in 1 .. CountOf(Head(todo)) :
            i <= next => Listed(entity, Head(todo))[i] \in there
      BY <1>6, <1>7 DEF s, all
    <3> QED BY <1>1, <1>8, <3>1, <3>2, SliceIsThere DEF s
  <2>4. \A r \in Records : Kind[r] = entity /\ Within(r, s) => Shown(r)'
    BY <2>3, <1>3 DEF Shown, there
  <2>5. Searched'
    BY <1>1, <1>3, <1>4, <2>1, <2>4, PopSearched DEF CInv, s
  <2> QED BY <2>1, <2>5 DEF Paged
<1>10. CASE ~ (page = << >> \/ next >= total)
  <2>1. UNCHANGED <<step, todo>>
    BY <1>3, <1>10 DEF Page, page, s, next
  <2>2. Searched'
    BY <1>1, <1>3, <1>4, <2>1 DEF CInv, Searched, Pending
  <2>3. Paged'
    <3>1. total' = CountOf(Head(todo))'
      BY <1>3, <1>6, <2>1 DEF CountOf, s, all
    <3>2. \A i \in 1 .. total' : i <= offset' =>
            Listed(entity', Head(todo'))[i] \in Elements(rows'[entity'])
      BY <1>3, <1>6, <1>7, <2>1 DEF there, s, all
    <3> QED BY <3>1, <3>2 DEF Paged, Elements, Listed
  <2> QED BY <2>2, <2>3
<1> QED BY <1>9, <1>10

LEMMA CoverStep ==
  ASSUME PageSize <= ServicePage
  PROVE  TInv /\ CInv /\ [Next]_vars => CInv'
<1> SUFFICES ASSUME TInv, CInv, [Next]_vars PROVE CInv'
  OBVIOUS
<1> USE DEF CInv
<1>a. TypeOK /\ Ready
  BY DEF TInv
<1>b. UNCHANGED crossed => NothingSilentlySampled'
  BY DEF NothingSilentlySampled, Within
<1>c. step' \in {"idle", "load"} => Searched' /\ Paged' /\ Gathered'
  BY DEF Searched, Paged, Gathered
<1>d. UNCHANGED <<rows, gaps>> => \A r \in Records : Shown(r) => Shown(r)'
  BY <1>a, ShownStays
<1>1. CASE Prepare \/ Invoke \/ LoadFails \/ RequestFails \/ Kill \/ WriteFails
  <2>1. step' \in {"idle", "load"} /\ UNCHANGED crossed
    BY <1>1 DEF Prepare, Invoke, LoadFails, RequestFails, Kill, WriteFails, Ends, Keeps
  <2> QED BY <2>1, <1>b, <1>c
<1>2. CASE LoadFetch
  <2>1. /\ Begin("observation", args.window) /\ window' = args.window
        /\ step' = "count" /\ entity' = "observation" /\ UNCHANGED crossed
    BY <1>2 DEF LoadFetch, Begin
  <2>2. \A r \in Records : Within(r, window') => Pending(r)'
    BY <2>1, BeginCovers
  <2>3. Searched'
    BY <2>1, <2>2, RecordsAssumption DEF Searched, Entities, Within
  <2> QED BY <2>1, <2>3, <1>b DEF Paged, Gathered
<1>3. CASE LoadDump
  <2>1. step' = "report" /\ args'.mode = "analyse" /\ UNCHANGED crossed
    BY <1>3 DEF LoadDump
  <2> QED BY <2>1, <1>b DEF Searched, Paged, Gathered
<1>4. ASSUME NEW clean \in BOOLEAN, Queryhelp(clean)
      PROVE  CInv'
  <2>1. CASE clean
    BY <1>4, <2>1, <1>c DEF Queryhelp, Ends, NothingSilentlySampled
  <2>2. CASE ~ clean
    <3>1. step' = "open" /\ args'.mode = "queryhelp" /\ UNCHANGED crossed
      BY <1>4, <2>2 DEF Queryhelp
    <3> QED BY <3>1, <1>b DEF Searched, Paged, Gathered
  <2> QED BY <2>1, <2>2
<1>5. CASE CountsNothing
  <2>1. /\ step = "count" /\ step' = "count" /\ todo # << >> /\ todo' = Tail(todo)
        /\ UNCHANGED <<entity, window, rows, gaps, crossed>>
    BY <1>5 DEF CountsNothing, Called
  <2> DEFINE none == {}
  <2>2. \A r \in Records : Kind[r] = entity /\ Within(r, Head(todo)) => r \in none
    <3>1. CountOf(Head(todo)) = 0
      BY <1>5 DEF CountsNothing
    <3>2. CountOf(Head(todo)) <= 0 /\ 0 \in Nat
      BY <3>1
    <3>3. \A i \in 1 .. CountOf(Head(todo)) :
            i <= 0 => Listed(entity, Head(todo))[i] \in none
      BY <3>1
    <3> HIDE DEF none
    <3> QED BY <2>1, <3>2, <3>3, <1>a, SliceIsThere
  <2>3. Searched'
    BY <2>1, <2>2, <1>a, <1>d, PopSearched
  <2> QED BY <2>1, <2>3, <1>b DEF Paged, Gathered
<1>6. CASE GiveUp
  <2> DEFINE s == Head(todo)
             g == [from |-> s.from, to |-> s.to, count |-> CountOf(s)]
  <2>1. /\ step = "count" /\ step' = "count" /\ todo # << >> /\ todo' = Tail(todo)
        /\ gaps' = Append(gaps, g)
        /\ UNCHANGED <<entity, window, rows, crossed>>
    BY <1>6 DEF GiveUp, Called
  <2>2. s \in Slice /\ g \in Gap
    BY <2>1, <1>a, TopType DEF Slice, Gap
  <2>3. \A r \in Records : Shown(r) => Shown(r)'
    BY <2>1, <2>2, <1>a, ShownStays
  <2>4. g \in Elements(gaps')
    <3>1. gaps \in Seq(Gap)
      BY <1>a DEF TypeOK
    <3> HIDE DEF g
    <3>2. /\ gaps' \in Seq(Gap) /\ Len(gaps') = Len(gaps) + 1
          /\ gaps'[Len(gaps) + 1] = g /\ Len(gaps) \in Nat
      BY <2>1, <2>2, <3>1, AppendProperties, LenProperties
    <3> QED BY <3>2, LenProperties DEF Elements
  <2>5. \A r \in Records : Within(r, s) => Shown(r)'
    BY <2>4 DEF Shown, Within
  <2>6. Searched'
    BY <2>1, <2>3, <2>5, <1>a, PopSearched
  <2> QED BY <2>1, <2>6, <1>b DEF Paged, Gathered
<1>7. CASE Bisect
  <2> DEFINE s == Head(todo)
             middle == s.from + Half(s.to - s.from)
             left == [from |-> s.from, to |-> middle, depth |-> s.depth + 1]
             right == [from |-> middle, to |-> s.to, depth |-> s.depth + 1]
             halves == <<left, right>>
  <2>1. /\ step = "count" /\ step' = "count" /\ todo # << >> /\ ~ CannotNarrow(s)
        /\ todo' = halves \o Tail(todo)
        /\ UNCHANGED <<entity, window, rows, gaps, crossed>>
    BY <1>7 DEF Bisect, Called
  <2>2. s \in Slice /\ Tail(todo) \in Seq(Slice)
    BY <2>1, <1>a, TopType
  <2>3. /\ left \in Slice /\ right \in Slice
        /\ \A r \in Records : Within(r, s) => Within(r, left) \/ Within(r, right)
    BY <2>1, <2>2, HalvesCover
  <2> HIDE DEF left, right, s
  <2>4. /\ halves \in Seq(Slice) /\ Len(halves) = 2
        /\ halves[1] = left /\ halves[2] = right
    BY <2>3
  <2> HIDE DEF halves
  <2>5. /\ Elements(todo') = Elements(halves) \cup Elements(Tail(todo))
    BY <2>1, <2>2, <2>4, ElementsConcat
  <2>6. left \in Elements(halves) /\ right \in Elements(halves)
    BY <2>4, LenProperties DEF Elements
  <2>7. ASSUME NEW r \in Records, Pending(r)
        PROVE  Pending(r)'
    <3>1. \E x \in Elements(todo') : Within(r, x)
      <4>1. CASE Within(r, s)
        BY <4>1, <2>3, <2>5, <2>6
      <4>2. CASE \E i \in DOMAIN Tail(todo) : Within(r, Tail(todo)[i])
        BY <4>2, <2>5 DEF Elements
      <4> QED BY <4>1, <4>2, <2>1, <2>7, <1>a, PopLeaves DEF s
    <3> QED BY <3>1 DEF Pending, Elements, Within
  <2>8. Searched'
    BY <2>1, <2>7, <1>d DEF Searched, Within
  <2> QED BY <2>1, <2>8, <1>b DEF Paged, Gathered
<1>8. CASE StartPaging
  <2>1. /\ step = "count" /\ step' = "page" /\ UNCHANGED <<entity, todo, window, rows, gaps, crossed>>
        /\ total' = CountOf(Head(todo)) /\ offset' = 0
    BY <1>8 DEF StartPaging, Called
  <2>2. Searched'
    BY <2>1, <1>d DEF Searched, Within, Pending
  <2>3. Paged'
    <3>1. \A i \in 1 .. total' : ~ (i <= offset')
      BY <2>1
    <3>2. total' = CountOf(Head(todo))'
      BY <2>1 DEF CountOf
    <3> QED BY <3>1, <3>2 DEF Paged
  <2> QED BY <2>1, <2>2, <2>3, <1>b DEF Gathered
<1>9. CASE Page
  <2>1. step' \in {"count", "page"} /\ UNCHANGED crossed
    BY <1>9 DEF Page
  <2>2. Searched' /\ Paged'
    BY <1>9, PageCovers
  <2> QED BY <2>1, <2>2, <1>b DEF Gathered
<1>10. CASE NextEntity
  <2>1. /\ step = "count" /\ todo = << >> /\ entity = "observation"
        /\ step' = "count" /\ entity' = "elset" /\ Begin("elset", args.window)
        /\ UNCHANGED <<window, rows, gaps, crossed>> /\ window = args.window
    BY <1>10, <1>a DEF NextEntity, Begin, Ready
  <2>2. \A r \in Records : Within(r, window') => Pending(r)'
    BY <2>1, BeginCovers
  <2>3. \A r \in Records : ~ Pending(r)
    BY <2>1 DEF Pending
  <2>4. Searched'
    BY <2>1, <2>2, <2>3, <1>d DEF Searched, Within
  <2> QED BY <2>1, <2>4, <1>b DEF Paged, Gathered
<1>11. CASE AllFetched
  <2>1. /\ step = "count" /\ todo = << >> /\ entity = "elset"
        /\ step' \in {"open", "report"} /\ UNCHANGED <<window, rows, gaps, crossed>>
    BY <1>11 DEF AllFetched, search
  <2>2. \A r \in Records : ~ Pending(r)
    BY <2>1 DEF Pending
  <2>3. Gathered'
    BY <2>1, <2>2, <1>d DEF Searched, Gathered, Within
  <2> QED BY <2>1, <2>3, <1>b DEF Searched, Paged
<1>12. CASE OpenPrivate \/ SetMode \/ WritePrivate
  <2>1. CASE step' \in {"mode", "write", "report"}
    <3>1. /\ step \in {"open", "mode", "write"}
          /\ UNCHANGED <<args, window, rows, gaps, crossed>>
      BY <1>12, <2>1 DEF OpenPrivate, SetMode, WritePrivate, search, Ends
    <3>2. Gathered'
      BY <3>1, <1>d DEF Gathered, Within
    <3> QED BY <2>1, <3>1, <3>2, <1>b DEF Searched, Paged
  <2>2. CASE step' \notin {"mode", "write", "report"}
    <3>1. step' = "idle" /\ UNCHANGED crossed
      BY <1>12, <2>2 DEF OpenPrivate, SetMode, WritePrivate, Ends
    <3> QED BY <3>1, <1>b, <1>c
  <2> QED BY <2>1, <2>2
<1>13. CASE Report \/ EmitFails
  <2>1. step = "report" /\ step' = "idle"
    BY <1>13 DEF Report, EmitFails, Ends
  <2>2. CASE crossed' = ParameterFile
    <3>1. args.mode = "fetch" => \A r \in Records : Within(r, window) => Shown(r)
      BY <2>1 DEF Gathered
    <3>2. /\ crossed'.live = (args.mode = "fetch") /\ crossed'.rows = rows
          /\ crossed'.window = window /\ crossed'.gaps = gaps
      BY <2>2 DEF ParameterFile
    <3>3. NothingSilentlySampled'
      <4> SUFFICES ASSUME crossed'.live, NEW r \in Records, Within(r, window)
                   PROVE  r \in Elements(rows[Kind[r]]) \/ \E g \in Elements(gaps) : Within(r, g)
        BY <3>2 DEF NothingSilentlySampled, Within, Elements
      <4> QED BY <3>1, <3>2 DEF Shown
    <3> QED BY <2>1, <3>3, <1>c
  <2>3. CASE UNCHANGED crossed
    BY <2>1, <2>3, <1>b, <1>c
  <2> QED BY <1>13, <2>2, <2>3 DEF Report, EmitFails
<1>14. CASE UNCHANGED vars
  <2>1. UNCHANGED <<step, args, entity, todo, total, offset, rows, gaps, window, crossed>>
    BY <1>14 DEF vars, search
  <2>2. Searched' /\ Gathered'
    BY <2>1, <1>d DEF Searched, Gathered, Pending, Within
  <2>3. Paged'
    BY <2>1 DEF Paged, CountOf, Listed, Elements
  <2> QED BY <2>1, <2>2, <2>3, <1>b
<1> QED BY <1>1, <1>2, <1>3, <1>4, <1>5, <1>6, <1>7, <1>8, <1>9, <1>10, <1>11, <1>12,
           <1>13, <1>14 DEF Next, Step

\* Where the archive returns the pages it is asked for, a noise model measured live stands
\* for every record of its window, or says which part it leaves out (Fetcher.fetch).
THEOREM NoiseNothingSilentlySampled ==
  ASSUME PageSize <= ServicePage
  PROVE  Spec => []NothingSilentlySampled
  BY CoverInit, CoverStep, TInvHolds, PTL DEF Spec, CInv

-----------------------------------------------------------------------------
(* The recursion *)

\* The calls pending under one are at most as many as it is deep.
DepthInv ==
  \A i \in DOMAIN todo :
    Len(todo) - i <= todo[i].depth /\ todo[i].depth <= MaxSliceDepth + 1

LEMMA PopDepth ==
  ASSUME TypeOK, DepthInv, todo # << >>, todo' = Tail(todo)
  PROVE  DepthInv'
<1>1. /\ todo \in Seq(Slice) /\ Len(todo) \in Nat /\ DOMAIN todo = 1 .. Len(todo)
      /\ todo' \in Seq(Slice) /\ Len(todo') = Len(todo) - 1
      /\ \A j \in 1 .. Len(todo') : todo'[j] = todo[j + 1]
      /\ DOMAIN todo' = 1 .. Len(todo')
  BY HeadTailProperties, LenProperties DEF TypeOK
<1> SUFFICES ASSUME NEW j \in 1 .. Len(todo')
             PROVE  Len(todo') - j <= todo'[j].depth /\ todo'[j].depth <= MaxSliceDepth + 1
  BY <1>1 DEF DepthInv
<1>2. j + 1 \in DOMAIN todo /\ Len(todo') - j = Len(todo) - (j + 1)
  BY <1>1
<1> QED BY <1>1, <1>2 DEF DepthInv

LEMMA BisectDepth ==
  ASSUME TypeOK, DepthInv, Bisect
  PROVE  DepthInv'
<1> DEFINE s == Head(todo)
           middle == s.from + Half(s.to - s.from)
           left == [from |-> s.from, to |-> middle, depth |-> s.depth + 1]
           right == [from |-> middle, to |-> s.to, depth |-> s.depth + 1]
           rest == Tail(todo)
           n == Len(todo)
<1>1. /\ todo # << >> /\ ~ CannotNarrow(s) /\ todo' = <<left, right>> \o rest
      /\ s \in Slice
  BY TopType DEF Bisect, Called
<1>2. left \in Slice /\ right \in Slice /\ s.depth <= MaxSliceDepth
  BY <1>1, HalvesCover
<1>3. left.depth = s.depth + 1 /\ right.depth = s.depth + 1
  OBVIOUS
<1>4. /\ rest \in Seq(Slice) /\ Len(rest) = n - 1 /\ n \in Nat \ {0} /\ DOMAIN todo = 1 .. n
      /\ \A j \in 1 .. n - 1 : rest[j] = todo[j + 1]
      /\ s = todo[1]
  BY <1>1, HeadTailProperties, LenProperties DEF TypeOK
<1> HIDE DEF left, right, s, rest, n
<1>5. /\ Len(<<left, right>>) = 2 /\ <<left, right>> \in Seq(Slice)
      /\ <<left, right>>[1] = left /\ <<left, right>>[2] = right
  BY <1>2
<1>6. /\ todo' \in Seq(Slice) /\ Len(todo') = n + 1
      /\ todo'[1] = left /\ todo'[2] = right
      /\ \A i \in 3 .. n + 1 : todo'[i] = rest[i - 2]
  <2>1. /\ todo' \in Seq(Slice) /\ Len(todo') = 2 + (n - 1)
        /\ \A i \in 1 .. 2 + (n - 1) :
             todo'[i] = IF i <= 2 THEN <<left, right>>[i] ELSE rest[i - 2]
    BY <1>1, <1>4, <1>5, ConcatProperties
  <2> QED BY <2>1, <1>4, <1>5
<1>7. /\ \A i \in 1 .. n : n - i <= todo[i].depth /\ todo[i].depth <= MaxSliceDepth + 1
      /\ s.depth \in Nat
  BY <1>1, <1>4 DEF DepthInv, Slice, n
<1> SUFFICES ASSUME NEW i \in 1 .. n + 1
             PROVE  (n + 1) - i <= todo'[i].depth /\ todo'[i].depth <= MaxSliceDepth + 1
  BY <1>6, LenProperties DEF DepthInv
<1>8. CASE i \in {1, 2}
  BY <1>2, <1>3, <1>4, <1>6, <1>7, <1>8, LimitsAssumption
<1>9. CASE i \notin {1, 2}
  <2>1. i - 2 \in 1 .. n - 1 /\ i \in 3 .. n + 1 /\ (i - 2) + 1 = i - 1 /\ i - 1 \in 1 .. n
    BY <1>4, <1>9
  <2>2. todo'[i] = todo[i - 1]
    BY <2>1, <1>4, <1>6
  <2>3. n - (i - 1) = (n + 1) - i
    BY <1>4
  <2> QED BY <2>1, <2>2, <2>3, <1>7
<1> QED BY <1>8, <1>9

LEMMA DepthStep == TInv /\ DepthInv /\ [Next]_vars => DepthInv'
<1> SUFFICES ASSUME TInv, DepthInv, [Next]_vars PROVE DepthInv'
  OBVIOUS
<1>a. TypeOK /\ Ready
  BY DEF TInv
<1>1. CASE UNCHANGED todo
  BY <1>1 DEF DepthInv
<1>2. CASE todo' = << >>
  BY <1>2 DEF DepthInv
<1>3. ASSUME NEW e, NEW w, Begin(e, w)
      PROVE  DepthInv'
  <2> DEFINE s == [from |-> w.from, to |-> w.to, depth |-> 0]
  <2>1. todo' = <<s>> /\ s.depth = 0
    BY <1>3 DEF Begin
  <2> HIDE DEF s
  <2>2. Len(todo') = 1 /\ DOMAIN todo' = {1} /\ todo'[1].depth = 0
    BY <2>1
  <2> QED BY <2>2, LimitsAssumption DEF DepthInv
<1>4. CASE CountsNothing \/ GiveUp
  BY <1>4, <1>a, PopDepth DEF CountsNothing, GiveUp, Called
<1>5. CASE Bisect
  BY <1>5, <1>a, BisectDepth
<1>6. CASE Page
  BY <1>1, <1>6, <1>a, PopDepth DEF Page, Ready
<1>7. CASE LoadFetch \/ NextEntity
  BY <1>3, <1>7 DEF LoadFetch, NextEntity
<1>8. CASE Prepare \/ Invoke \/ LoadDump \/ StartPaging
  BY <1>1, <1>8 DEF Prepare, Invoke, LoadDump, StartPaging, search
<1>9. CASE AllFetched \/ OpenPrivate \/ SetMode
  BY <1>1, <1>9 DEF AllFetched, OpenPrivate, SetMode, search
<1>10. CASE LoadFails \/ RequestFails \/ Kill \/ WriteFails \/ Report \/ EmitFails
  BY <1>2, <1>10 DEF LoadFails, RequestFails, Kill, WriteFails, Report, EmitFails, Ends
<1>11. CASE WritePrivate
  BY <1>1, <1>2, <1>11 DEF WritePrivate, Ends, search
<1>12. ASSUME NEW clean \in BOOLEAN, Queryhelp(clean)
       PROVE  DepthInv'
  BY <1>1, <1>2, <1>12 DEF Queryhelp, Ends, search
<1>13. CASE UNCHANGED vars
  BY <1>1, <1>13 DEF vars, search
<1> QED BY <1>4, <1>5, <1>6, <1>7, <1>8, <1>9, <1>10, <1>11, <1>12, <1>13 DEF Next, Step

\* However dense the archive, fetch() has no more calls pending than its depth allows.
THEOREM NoiseRecursionIsBounded == Spec => []RecursionIsBounded
<1>1. Init => DepthInv
  BY DEF Init, Idle, DepthInv
<1>2. TInv /\ DepthInv => RecursionIsBounded
  <2> SUFFICES ASSUME TInv, DepthInv PROVE RecursionIsBounded
    OBVIOUS
  <2>1. todo \in Seq(Slice) /\ Len(todo) \in Nat /\ DOMAIN todo = 1 .. Len(todo)
    BY LenProperties DEF TInv, TypeOK
  <2>2. CASE Len(todo) = 0
    BY <2>2, LimitsAssumption DEF RecursionIsBounded
  <2>3. CASE Len(todo) # 0
    <3>a. 1 \in 1 .. Len(todo)
      BY <2>1, <2>3
    <3>b. todo[1] \in Slice
      BY <2>1, <3>a, ElementOfSeq
    <3>1. 1 \in DOMAIN todo /\ todo[1].depth \in Nat
      BY <2>1, <3>a, <3>b DEF Slice
    <3>2. Len(todo) - 1 <= todo[1].depth /\ todo[1].depth <= MaxSliceDepth + 1
      BY <3>1 DEF DepthInv
    <3> QED BY <2>1, <3>1, <3>2, LimitsAssumption DEF RecursionIsBounded
  <2> QED BY <2>2, <2>3
<1> QED BY <1>1, <1>2, DepthStep, TInvHolds, PTL DEF Spec
=============================================================================
