--------------------------- MODULE TrainingDaysProofs ---------------------------
(***************************************************************************)
(* For any content trees, items, parameters, names and operators: what the   *)
(* days of training keep of their types, what they withhold and show, what   *)
(* the anonymous reads disclose, what the authors' check promises, and what   *)
(* an accepted answer has named.                                              *)
(***************************************************************************)
EXTENDS TrainingDays, WellFoundedInduction, FiniteSetTheorems, SequenceTheorems, TLAPS

(* Induction and recursion.  A set of numbers that holds 0 and each successor holds     *)
(* all; a recursive function over 0 .. m exists, because its beginnings do.             *)

LEMMA LeastOf ==
  ASSUME NEW S \in SUBSET Nat, S # {}
  PROVE  \E x \in S : \A y \in S : x <= y
<1> DEFINE R == OpToRel(<, Nat)
<1>1. IsWellFoundedOn(R, Nat)
  BY NatLessThanWellFounded
<1>2. PICK x \in S : \A y \in S : <<y, x>> \notin R
  <2> HIDE DEF R
  <2> QED BY <1>1, WFMin
<1>3. \A y \in S : ~ (y < x)
  BY <1>2 DEF OpToRel
<1> HIDE DEF R
<1> QED BY <1>3

LEMMA SetInduction ==
  ASSUME NEW S, 0 \in S, \A n \in Nat : n \in S => n + 1 \in S
  PROVE  Nat \subseteq S
<1> SUFFICES ASSUME Nat \ S # {} PROVE FALSE
  OBVIOUS
<1>1. PICK x \in Nat \ S : \A y \in Nat \ S : x <= y
  BY LeastOf
<1>2. x # 0 /\ x - 1 \in Nat /\ x - 1 \in S
  BY <1>1
<1> QED BY <1>1, <1>2

\* f is the recursion that starts at a and goes on by the steps.
Recurs(f, m, a, step) == f = [n \in 0 .. m |-> IF n = 0 THEN a ELSE step[n][f[n - 1]]]

\* A recursion whose every step stays in a set has a value at every place.
LEMMA RecursionExists ==
  ASSUME NEW m \in Nat, NEW S, NEW a \in S, NEW step \in [1 .. m -> [S -> S]]
  PROVE  \E f \in [0 .. m -> S] : Recurs(f, m, a, step)
<1> DEFINE Goes(f, k) == f \in [0 .. k -> S] /\ f[0] = a
                         /\ \A n \in 1 .. k : f[n] = step[n][f[n - 1]]
           Reach == {k \in Nat : k <= m => \E f : Goes(f, k)}
<1>1. 0 \in Reach
  <2> DEFINE f == [n \in 0 .. 0 |-> a]
  <2>1. f \in [0 .. 0 -> S] /\ f[0] = a
    OBVIOUS
  <2>2. 1 .. 0 = {}
    OBVIOUS
  <2> HIDE DEF f
  <2>3. Goes(f, 0)
    BY <2>1, <2>2
  <2> QED BY <2>3
<1>2. \A k \in Nat : k \in Reach => k + 1 \in Reach
  <2> SUFFICES ASSUME NEW k \in Nat, k \in Reach, k + 1 <= m
               PROVE  \E f : Goes(f, k + 1)
    <3> HIDE DEF Goes
    <3> QED OBVIOUS
  <2>1. k \in Nat /\ k <= m
    BY m \in Nat
  <2>2. PICK f : Goes(f, k)
    BY <2>1
  <2> DEFINE g == [n \in 0 .. k + 1 |-> IF n <= k THEN f[n] ELSE step[k + 1][f[k]]]
  <2>3. f[k] \in S /\ step[k + 1] \in [S -> S]
    BY <2>1, <2>2
  <2>4. g \in [0 .. k + 1 -> S]
    BY <2>1, <2>2, <2>3
  <2>5. g[0] = a /\ \A n \in 1 .. k + 1 : g[n] = step[n][g[n - 1]]
    <3>1. g[0] = a
      BY <2>1, <2>2
    <3>2. ASSUME NEW n \in 1 .. k + 1 PROVE g[n] = step[n][g[n - 1]]
      <4>1. CASE n <= k
        BY <4>1, <2>1, <2>2
      <4>2. CASE n = k + 1
        BY <4>2, <2>1
      <4> QED BY <4>1, <4>2, <2>1
    <3> QED BY <3>1, <3>2
  <2> HIDE DEF g
  <2> QED BY <2>4, <2>5
<1>3. m \in Reach
  <2> HIDE DEF Reach
  <2> QED BY <1>1, <1>2, SetInduction
<1>4. PICK f : Goes(f, m)
  BY <1>3
<1>5. Recurs(f, m, a, step)
  <2>1. \A n \in 0 .. m : f[n] = IF n = 0 THEN a ELSE step[n][f[n - 1]]
    BY <1>4
  <2> QED BY <1>4, <2>1 DEF Recurs
<1> QED BY <1>4, <1>5

-----------------------------------------------------------------------------
(* Lists *)

\* What is kept of a list, place by place.
Keeps(kept, list, good) ==
  /\ kept[0] = << >>
  /\ \A n \in 1 .. Len(list) :
       kept[n] = IF list[n] \in good THEN Append(kept[n - 1], list[n]) ELSE kept[n - 1]
  /\ Kept(list, good) = kept[Len(list)]

LEMMA KeptIs ==
  ASSUME NEW S, NEW list \in Seq(S), NEW good
  PROVE  \E kept \in [0 .. Len(list) -> Seq(S)] : Keeps(kept, list, good)
<1> DEFINE m == Len(list)
           Next1(n, x) == IF list[n] \in good THEN Append(x, list[n]) ELSE x
           step == [n \in 1 .. m |-> [x \in Seq(S) |-> Next1(n, x)]]
           Eq(f) == f = [n \in 0 .. m |-> IF n = 0 THEN << >> ELSE Next1(n, f[n - 1])]
<1>1. m \in Nat /\ \A n \in 1 .. m : list[n] \in S
  BY LenProperties, ElementOfSeq
<1>2. \A n \in 1 .. m : \A x \in Seq(S) : Next1(n, x) \in Seq(S)
  BY <1>1, AppendProperties
<1>3. step \in [1 .. m -> [Seq(S) -> Seq(S)]]
  BY <1>2
<1>4. << >> \in Seq(S)
  BY EmptySeq
<1>5. PICK f \in [0 .. m -> Seq(S)] : Recurs(f, m, << >>, step)
  <2> HIDE DEF step, m
  <2> QED BY <1>1, <1>3, <1>4, RecursionExists
<1>6. \A n \in 1 .. m : step[n][f[n - 1]] = Next1(n, f[n - 1])
  BY <1>1
<1>7. Eq(f)
  <2> HIDE DEF step, Next1
  <2> QED BY <1>5, <1>6, <1>1 DEF Recurs
<1> DEFINE kept == CHOOSE g : Eq(g)
<1>8. Eq(kept)
  <2> HIDE DEF Eq
  <2> QED BY <1>7
<1>9. Kept(list, good) = kept[m]
  BY DEF Kept
<1> HIDE DEF kept
<1>10. kept[0] = << >> /\ \A n \in 1 .. m : kept[n] = Next1(n, kept[n - 1])
  <2> HIDE DEF Next1
  <2> QED BY <1>8, <1>1
<1>11. \A n \in 0 .. m : kept[n] \in Seq(S)
  <2> DEFINE Fine == {n \in Nat : n <= m => kept[n] \in Seq(S)}
  <2> HIDE DEF Next1
  <2>1. 0 \in Fine
    BY <1>10, <1>4
  <2>2. \A n \in Nat : n \in Fine => n + 1 \in Fine
    <3> SUFFICES ASSUME NEW n \in Nat, n \in Fine, n + 1 <= m
                 PROVE  kept[n + 1] \in Seq(S)
      BY <1>1
    <3>1. n + 1 \in 1 .. m /\ kept[n] \in Seq(S) /\ (n + 1) - 1 = n
      BY <1>1
    <3> QED BY <3>1, <1>10, <1>2
  <2> HIDE DEF Fine
  <2>3. Nat \subseteq Fine
    BY <2>1, <2>2, SetInduction
  <2> QED BY <2>3, <1>1 DEF Fine
<1>12. kept \in [0 .. m -> Seq(S)]
  BY <1>8, <1>11
<1> QED BY <1>9, <1>10, <1>12 DEF Keeps

\* What is kept of a list: those of its elements that are good, as often as they are in it.
LEMMA KeptElements ==
  ASSUME NEW S, NEW list \in Seq(S), NEW good
  PROVE  /\ Kept(list, good) \in Seq(S)
         /\ ToSet(Kept(list, good)) = ToSet(list) \cap good
         /\ IsInjective(list) => IsInjective(Kept(list, good))
<1> DEFINE m == Len(list)
           Seen1(n) == {list[i] : i \in 1 .. n}
<1>0. PICK kept \in [0 .. m -> Seq(S)] : Keeps(kept, list, good)
  BY KeptIs
<1>1. /\ kept \in [0 .. m -> Seq(S)] /\ kept[0] = << >>
      /\ \A n \in 1 .. m :
           kept[n] = IF list[n] \in good THEN Append(kept[n - 1], list[n]) ELSE kept[n - 1]
      /\ Kept(list, good) = kept[m]
  BY <1>0 DEF Keeps
<1>2. m \in Nat /\ DOMAIN list = 1 .. m /\ \A n \in 1 .. m : list[n] \in S
  BY LenProperties, ElementOfSeq
<1> DEFINE Fine == {n \in Nat : n <= m =>
             /\ ToSet(kept[n]) = Seen1(n) \cap good
             /\ IsInjective(list) => IsInjective(kept[n])}
<1>3. 0 \in Fine
  BY <1>1, <1>2 DEF ToSet, IsInjective
<1>4. ASSUME NEW n \in Nat, n \in Fine, n + 1 <= m
      PROVE  /\ ToSet(kept[n + 1]) = Seen1(n + 1) \cap good
             /\ IsInjective(list) => IsInjective(kept[n + 1])
  <2>1. /\ n + 1 \in 1 .. m /\ n \in 0 .. m /\ kept[n] \in Seq(S) /\ list[n + 1] \in S
        /\ (n + 1) - 1 = n
    BY <1>1, <1>2, <1>4
  <2>2. ToSet(kept[n]) = Seen1(n) \cap good /\ (IsInjective(list) => IsInjective(kept[n]))
    BY <1>4, <2>1
  <2>3. Seen1(n + 1) = Seen1(n) \cup {list[n + 1]}
    BY <2>1
  <2>4. CASE list[n + 1] \notin good
    <3>1. kept[n + 1] = kept[n]
      BY <1>1, <2>1, <2>4
    <3> QED BY <3>1, <2>2, <2>3, <2>4
  <2>5. CASE list[n + 1] \in good
    <3>1. kept[n + 1] = Append(kept[n], list[n + 1])
      BY <1>1, <2>1, <2>5
    <3> DEFINE k == Len(kept[n])
    <3>2. /\ k \in Nat /\ DOMAIN kept[n] = 1 .. k /\ DOMAIN kept[n + 1] = 1 .. k + 1
          /\ \A i \in 1 .. k : kept[n + 1][i] = kept[n][i]
          /\ kept[n + 1][k + 1] = list[n + 1]
      <4>1. /\ Append(kept[n], list[n + 1]) \in Seq(S)
            /\ Len(Append(kept[n], list[n + 1])) = k + 1
            /\ \A i \in 1 .. k : Append(kept[n], list[n + 1])[i] = kept[n][i]
            /\ Append(kept[n], list[n + 1])[k + 1] = list[n + 1]
        BY <2>1, AppendProperties
      <4> QED BY <4>1, <3>1, <2>1, LenProperties
    <3>3. ToSet(kept[n + 1]) = ToSet(kept[n]) \cup {list[n + 1]}
      <4>1. \A x \in ToSet(kept[n + 1]) : x \in ToSet(kept[n]) \/ x = list[n + 1]
        <5> SUFFICES ASSUME NEW i \in 1 .. k + 1
                     PROVE  kept[n + 1][i] \in ToSet(kept[n]) \/ kept[n + 1][i] = list[n + 1]
          BY <3>2 DEF ToSet
        <5>1. CASE i = k + 1
          BY <5>1, <3>2
        <5>2. CASE i \in 1 .. k
          BY <5>2, <3>2 DEF ToSet
        <5> QED BY <5>1, <5>2, <3>2
      <4>2. \A x \in ToSet(kept[n]) : x \in ToSet(kept[n + 1])
        <5> SUFFICES ASSUME NEW i \in 1 .. k PROVE kept[n][i] \in ToSet(kept[n + 1])
          BY <3>2 DEF ToSet
        <5>1. i \in 1 .. k + 1 /\ kept[n][i] = kept[n + 1][i]
          BY <3>2
        <5> QED BY <5>1, <3>2 DEF ToSet
      <4>3. list[n + 1] \in ToSet(kept[n + 1])
        <5>1. k + 1 \in 1 .. k + 1
          BY <3>2
        <5> QED BY <5>1, <3>2 DEF ToSet
      <4> QED BY <4>1, <4>2, <4>3
    <3>4. IsInjective(list) => IsInjective(kept[n + 1])
      <4> SUFFICES ASSUME IsInjective(list), NEW i \in 1 .. k + 1, NEW j \in 1 .. k + 1,
                          kept[n + 1][i] = kept[n + 1][j]
                   PROVE  i = j
        BY <3>2 DEF IsInjective
      <4>1. \A h \in 1 .. k : kept[n][h] # list[n + 1]
        <5>1. \A h \in 1 .. k : kept[n][h] \in Seen1(n)
          BY <2>2, <3>2 DEF ToSet
        <5>2. \A h \in 1 .. n : list[h] # list[n + 1]
          <6>1. \A h \in 1 .. n : h \in 1 .. m /\ h # n + 1
            BY <1>2, <2>1
          <6>2. \A g, h \in 1 .. m : list[g] = list[h] => g = h
            BY <1>2 DEF IsInjective
          <6> QED BY <6>1, <6>2, <2>1
        <5> QED BY <5>1, <5>2
      <4>2. CASE i \in 1 .. k /\ j \in 1 .. k
        BY <4>2, <2>2, <3>2 DEF IsInjective
      <4>3. CASE i = k + 1 /\ j \in 1 .. k
        BY <4>3, <4>1, <3>2
      <4>4. CASE i \in 1 .. k /\ j = k + 1
        BY <4>4, <4>1, <3>2
      <4> QED BY <4>2, <4>3, <4>4, <3>2
    <3> QED BY <3>3, <3>4, <2>2, <2>3, <2>5
  <2> QED BY <2>4, <2>5
<1>5. m \in Fine
  <2>1. ASSUME NEW n \in Nat, n \in Fine PROVE n + 1 \in Fine
    <3>1. n + 1 <= m =>
            /\ ToSet(kept[n + 1]) = Seen1(n + 1) \cap good
            /\ IsInjective(list) => IsInjective(kept[n + 1])
      <4> HIDE DEF Fine
      <4> QED BY <1>4, <2>1
    <3> HIDE DEF Seen1
    <3> QED BY <3>1, <2>1
  <2> HIDE DEF Fine
  <2> QED BY <2>1, <1>2, <1>3, SetInduction
<1>6. ToSet(list) = Seen1(m)
  BY <1>2 DEF ToSet
<1> QED BY <1>1, <1>2, <1>5, <1>6

-----------------------------------------------------------------------------
(* The inductive invariant *)

Ids == {d.id : d \in ToSet(content.drills)}

\* What was found at boot stays out of selection, whatever was withheld since is an item
\* of the package that its board refuses, and what is on screen renders.
ForCause ==
  /\ AtBoot[deployed] \subseteq withheld /\ withheld \subseteq Ids
  /\ \A id \in withheld \ AtBoot[deployed] : ~ Renders(ItemOf(id))
Shown == screen # None => Renders(ItemOf(screen.item))

DInv == TypeOK /\ ForCause /\ Shown

-----------------------------------------------------------------------------
(* The loaded package *)

LEMMA MinOf ==
  ASSUME NEW S \in SUBSET Nat, S # {}
  PROVE  Min(S) \in S /\ \A y \in S : Min(S) <= y
BY LeastOf DEF Min

LEMMA PositionsOfSet ==
  ASSUME NEW S, NEW list \in Seq(S)
  PROVE  /\ Len(list) \in Nat /\ DOMAIN list = 1 .. Len(list)
         /\ ToSet(list) = {list[i] : i \in 1 .. Len(list)}
         /\ ToSet(list) \subseteq S
BY LenProperties, ElementOfSeq DEF ToSet

\* The drills of a package are drills of its tree that parse, each once and each with
\* an identifier of its own.
LEMMA PackageFacts ==
  ASSUME NEW name \in DOMAIN Trees
  PROVE  /\ Packages[name] = Load(Trees[name])
         /\ Packages[name].drills \in Seq(Items)
         /\ ToSet(Packages[name].drills) \subseteq DrillsOf(Trees[name])
         /\ ToSet(Packages[name].drills) \subseteq Items
         /\ \A d \in ToSet(Packages[name].drills) : Valid(d) /\ d.id \in Nat /\ d.id \in ItemIds
         /\ \A d, e \in ToSet(Packages[name].drills) : d.id = e.id => d = e
         /\ IsInjective(Packages[name].drills)
<1> DEFINE t == Trees[name]
           got == Missing(t) = {} /\ "drills" \in Reached(t)
           drills == IF got THEN t.drills ELSE << >>
           good == {d \in ToSet(drills) : Valid(d)}
<1>1. Packages[name] = Load(t)
  BY DEF Packages
<1>2. Load(t).drills = Kept(drills, good)
  BY DEF Load
<1>3. IsTree(t)
  BY TreesAssumption
<1>4. t.drills \in Seq(DrillsOf(t)) /\ DOMAIN t.drills = 1 .. Len(t.drills) /\ Len(t.drills) \in Nat
  BY <1>3, LenProperties DEF IsTree, IsList, DrillsOf
<1>5. DrillsOf(t) \subseteq Items
  BY DEF Items
<1>6. drills \in Seq(DrillsOf(t))
  BY <1>4, EmptySeq
<1>7. ToSet(drills) \subseteq DrillsOf(t)
  BY <1>6, PositionsOfSet
<1>8. \A i, j \in DOMAIN t.drills : t.drills[i].id = t.drills[j].id => i = j
  BY <1>3 DEF IsTree
<1>9. IsInjective(drills)
  BY <1>8, EmptySeq DEF IsInjective
<1>10. \A d, e \in DrillsOf(t) : d.id = e.id => d = e
  BY <1>4, <1>8 DEF DrillsOf, ToSet
<1>11. \A d \in DrillsOf(t) : d.id \in Nat
  BY <1>3 DEF IsTree
<1> HIDE DEF t, drills
<1>12. /\ Kept(drills, good) \in Seq(DrillsOf(t))
       /\ ToSet(Kept(drills, good)) = ToSet(drills) \cap good
       /\ IsInjective(Kept(drills, good))
  <2> HIDE DEF good
  <2> QED BY <1>6, <1>9, KeptElements
<1>13. Seq(DrillsOf(t)) \subseteq Seq(Items)
  BY <1>5, SeqDef
<1>14. Packages[name].drills = Kept(drills, good)
  BY <1>1, <1>2
<1>15. ToSet(Packages[name].drills) \subseteq DrillsOf(t) /\ ToSet(Packages[name].drills) \subseteq good
  <2> HIDE DEF good
  <2> QED BY <1>12, <1>14, <1>7
<1>16. \A d \in DrillsOf(t) : d.id \in ItemIds
  BY <1>5 DEF ItemIds
<1> HIDE DEF t
<1>17. Packages[name].drills \in Seq(Items) /\ IsInjective(Packages[name].drills)
  <2> HIDE DEF good
  <2> QED BY <1>12, <1>13, <1>14
<1> QED BY <1>1, <1>5, <1>15, <1>17, <1>16, <1>10, <1>11 DEF t

LEMMA ContentFacts ==
  ASSUME deployed \in DOMAIN Trees
  PROVE  /\ content = Load(tree) /\ IsTree(tree) /\ tree = Trees[deployed]
         /\ content.drills \in Seq(Items)
         /\ ToSet(content.drills) \subseteq DrillsOf(tree)
         /\ ToSet(content.drills) \subseteq Items
         /\ \A d \in ToSet(content.drills) : Valid(d) /\ d.id \in Nat /\ d.id \in ItemIds
         /\ \A d, e \in ToSet(content.drills) : d.id = e.id => d = e
         /\ IsInjective(content.drills)
BY PackageFacts, TreesAssumption DEF content, tree

\* The item of an identifier of the package.
LEMMA ItemOfId ==
  ASSUME deployed \in DOMAIN Trees, NEW d \in ToSet(content.drills)
  PROVE  ItemOf(d.id) = d
<1>1. \A e \in ToSet(content.drills) : e.id = d.id => e = d
  BY ContentFacts
<1> QED BY <1>1 DEF ItemOf

LEMMA ItemOfIds ==
  ASSUME deployed \in DOMAIN Trees, NEW id \in Ids
  PROVE  ItemOf(id) \in ToSet(content.drills) /\ ItemOf(id).id = id
<1>1. PICK d \in ToSet(content.drills) : d.id = id
  BY DEF Ids
<1> QED BY <1>1, ItemOfId

-----------------------------------------------------------------------------
(* Selection *)

\* Of some items one is nearest, and of the nearest one has the least identifier.
LEMMA NearestExists ==
  ASSUME NEW pool, pool # {}, NEW at \in Int, \A d \in pool : d.id \in Nat /\ d.elo \in Int
  PROVE  \E d \in pool : \A e \in pool :
           LET off(x) == Magnitude(x.elo - at)
           IN  off(d) < off(e) \/ (off(d) = off(e) /\ d.id <= e.id)
<1> DEFINE off(x) == Magnitude(x.elo - at)
           offs == {off(d) : d \in pool}
<1>1. \A d \in pool : off(d) \in Nat
  BY DEF Magnitude
<1> HIDE DEF off
<1>2. PICK nearest \in offs : \A o \in offs : nearest <= o
  <2>1. offs \in SUBSET Nat /\ offs # {}
    BY <1>1
  <2> HIDE DEF offs
  <2> QED BY <2>1, LeastOf
<1> DEFINE close == {d \in pool : off(d) = nearest}
           ids == {d.id : d \in close}
<1>3. PICK id \in ids : \A other \in ids : id <= other
  <2>1. ids \in SUBSET Nat /\ ids # {}
    BY <1>2
  <2> HIDE DEF ids
  <2> QED BY <2>1, LeastOf
<1>4. PICK d \in close : d.id = id
  BY <1>3
<1>5. \A e \in pool : off(d) < off(e) \/ (off(d) = off(e) /\ d.id <= e.id)
  <2> SUFFICES ASSUME NEW e \in pool
               PROVE  off(d) < off(e) \/ (off(d) = off(e) /\ d.id <= e.id)
    OBVIOUS
  <2>1. off(d) = nearest /\ nearest <= off(e)
    BY <1>2, <1>4
  <2>2. CASE off(e) = nearest
    BY <2>1, <2>2, <1>3, <1>4
  <2>3. CASE off(e) # nearest
    BY <2>1, <2>3, <1>1, <1>4
  <2> QED BY <2>2, <2>3
<1> QED BY <1>4, <1>5 DEF off

LEMMA SelectedIsScorable ==
  ASSUME TypeOK, NEW out, Scorable(out) # {}
  PROVE  Selected(out) \in Scorable(out) /\ Selected(out).id \in Ids \ out
<1> DEFINE pool == IF Due(out) # {} THEN Due(out) ELSE Scorable(out)
           at == rating + Edge
           First(d) == \A e \in pool :
             LET off(x) == Magnitude(x.elo - at)
             IN  off(d) < off(e) \/ (off(d) = off(e) /\ d.id <= e.id)
<1>1. pool # {} /\ pool \subseteq Scorable(out)
  BY DEF Due
<1>2. at \in Int
  BY BandAssumption, ScheduleAssumption DEF TypeOK
<1>3. \A d \in Scorable(out) : d.id \in Nat /\ d.elo \in Int
  BY ContentFacts, BandAssumption DEF Scorable, Valid, TypeOK
<1>4. \E d \in pool : First(d)
  <2> HIDE DEF pool, at
  <2> QED BY <1>1, <1>2, <1>3, NearestExists
<1>5. Selected(out) = CHOOSE d \in pool : First(d)
  BY DEF Selected
<1>6. Selected(out) \in pool
  <2> HIDE DEF pool, First
  <2> QED BY <1>4, <1>5
<1>7. Selected(out) \in Scorable(out)
  BY <1>1, <1>6
<1> QED BY <1>7 DEF Scorable, Ids

\* Nothing more is withheld: nothing is left to ask, or what is asked renders.
Settled(out) == Scorable(out) = {} \/ Renders(Selected(out))

LEMMA AttemptedIs ==
  ASSUME TypeOK, NEW out \in SUBSET ItemIds
  PROVE  /\ Attempted[out] \in SUBSET ItemIds
         /\ Settled(out) => Attempted[out] = out
         /\ ~ Settled(out) => /\ Attempted[out] = out \cup {Selected(out).id}
                              /\ Selected(out).id \in Ids \ out
                              /\ ~ Renders(ItemOf(Selected(out).id))
<1>1. Attempted[out] = IF Settled(out) THEN out ELSE out \cup {Selected(out).id}
  BY DEF Attempted, Settled
<1>2. CASE Settled(out)
  BY <1>1, <1>2
<1>3. CASE ~ Settled(out)
  <2>1. Selected(out) \in Scorable(out) /\ Selected(out).id \in Ids \ out
    BY <1>3, SelectedIsScorable DEF Settled
  <2>2. Selected(out) \in ToSet(content.drills)
    BY <2>1 DEF Scorable
  <2>3. ItemOf(Selected(out).id) = Selected(out) /\ Selected(out).id \in ItemIds
    BY <2>2, ItemOfId, ContentFacts DEF TypeOK
  <2>4. ~ Renders(Selected(out))
    BY <1>3 DEF Settled
  <2> QED BY <1>1, <1>3, <2>1, <2>3, <2>4
<1> QED BY <1>2, <1>3

\* What the attempts of one request come to: every item withheld on the way is one of
\* the package that does not render, and unless the attempts ran out it is settled.
LEMMA WithheldAfterIs ==
  ASSUME TypeOK
  PROVE  /\ withheld \subseteq WithheldAfter /\ WithheldAfter \subseteq ItemIds
         /\ \A id \in WithheldAfter \ withheld : id \in Ids /\ ~ Renders(ItemOf(id))
         /\ \/ Settled(WithheldAfter)
            \/ Cardinality(WithheldAfter \ withheld) = MaxTries
<1> DEFINE S == SUBSET ItemIds
           step == [n \in 1 .. MaxTries |-> Attempted]
           Eq(f) == f = [n \in 0 .. MaxTries |->
                           IF n = 0 THEN withheld ELSE Attempted[f[n - 1]]]
<1>1. MaxTries \in Nat /\ withheld \in S
  BY ScheduleAssumption DEF TypeOK
<1>2. Attempted \in [S -> S]
  <2>1. \A out \in S : Attempted[out] \in S
    BY AttemptedIs
  <2>2. Attempted = [out \in S |-> Attempted[out]]
    BY DEF Attempted
  <2> HIDE DEF S
  <2> QED BY <2>1, <2>2
<1>3. step \in [1 .. MaxTries -> [S -> S]]
  BY <1>2
<1>4. PICK f \in [0 .. MaxTries -> S] : Recurs(f, MaxTries, withheld, step)
  <2> HIDE DEF step, S
  <2> QED BY <1>1, <1>3, RecursionExists
<1>5. Eq(f)
  <2>1. \A n \in 1 .. MaxTries : step[n][f[n - 1]] = Attempted[f[n - 1]]
    OBVIOUS
  <2> HIDE DEF step
  <2> QED BY <2>1, <1>1, <1>4 DEF Recurs
<1> DEFINE out == CHOOSE g : Eq(g)
<1>6. Eq(out)
  <2> HIDE DEF Eq
  <2> QED BY <1>5
<1>7. WithheldAfter = out[MaxTries]
  BY DEF WithheldAfter
<1> HIDE DEF out
<1>8. out[0] = withheld /\ \A n \in 1 .. MaxTries : out[n] = Attempted[out[n - 1]]
  BY <1>6, <1>1
<1> DEFINE Fine(n) == /\ out[n] \in S /\ withheld \subseteq out[n]
                      /\ \A id \in out[n] \ withheld : id \in Ids /\ ~ Renders(ItemOf(id))
                      /\ \/ Settled(out[n])
                         \/ IsFiniteSet(out[n] \ withheld) /\ Cardinality(out[n] \ withheld) = n
           Reach == {n \in Nat : n <= MaxTries => Fine(n)}
<1>9. 0 \in Reach
  BY <1>8, <1>1, FS_EmptySet
<1>10. ASSUME NEW n \in Nat, n \in Reach, n + 1 <= MaxTries PROVE Fine(n + 1)
  <2>1. n <= MaxTries /\ n + 1 \in 1 .. MaxTries /\ (n + 1) - 1 = n
    BY <1>1, <1>10
  <2>2. Fine(n)
    BY <1>10, <2>1
  <2>3. out[n + 1] = Attempted[out[n]]
    BY <1>8, <2>1
  <2>4. CASE Settled(out[n])
    <3>1. out[n + 1] = out[n]
      BY <2>2, <2>3, <2>4, AttemptedIs
    <3> QED BY <3>1, <2>2, <2>4
  <2>5. CASE ~ Settled(out[n])
    <3> DEFINE id == Selected(out[n]).id
    <3>1. /\ out[n + 1] \in S /\ out[n + 1] = out[n] \cup {id}
          /\ id \in Ids \ out[n] /\ ~ Renders(ItemOf(id))
      <4> HIDE DEF S
      <4> QED BY <2>2, <2>3, <2>5, AttemptedIs DEF S
    <3> HIDE DEF id
    <3>2. out[n + 1] \ withheld = (out[n] \ withheld) \cup {id} /\ id \notin out[n] \ withheld
      BY <2>2, <3>1
    <3>3. /\ IsFiniteSet(out[n + 1] \ withheld)
          /\ Cardinality(out[n + 1] \ withheld) = n + 1
      BY <2>2, <2>5, <3>2, FS_AddElement
    <3> QED BY <3>1, <3>3, <2>2
  <2> QED BY <2>4, <2>5
<1>11. MaxTries \in Reach
  <2>1. ASSUME NEW n \in Nat, n \in Reach PROVE n + 1 \in Reach
    <3> HIDE DEF Fine
    <3>1. n + 1 <= MaxTries => Fine(n + 1)
      BY <1>10, <2>1
    <3> QED BY <3>1
  <2> HIDE DEF Reach
  <2> QED BY <2>1, <1>1, <1>9, SetInduction
<1>12. Fine(MaxTries)
  <2> HIDE DEF Fine
  <2> QED BY <1>11, <1>1
<1> HIDE DEF out
<1> QED BY <1>7, <1>12

-----------------------------------------------------------------------------
(* The invariant is kept *)

LEMMA AtBootIs ==
  ASSUME NEW name \in DOMAIN Trees
  PROVE  /\ AtBoot[name] \subseteq {d.id : d \in ToSet(Packages[name].drills)}
         /\ AtBoot[name] \subseteq ItemIds
<1>1. AtBoot[name] \subseteq {d.id : d \in ToSet(Packages[name].drills)}
  BY DEF AtBoot
<1>2. \A d \in ToSet(Packages[name].drills) : d.id \in ItemIds
  BY PackageFacts
<1> QED BY <1>1, <1>2

LEMMA SpacingIs ==
  /\ Len(Spacing) \in Nat \ {0} /\ Spacing[Len(Spacing)] \in Nat \ {0}
  /\ \A i \in 1 .. Len(Spacing) : Spacing[i] \in 0 .. Spacing[Len(Spacing)]
<1>1. /\ Spacing \in Seq(Nat \ {0}) /\ Spacing # << >>
      /\ \A i, j \in DOMAIN Spacing : i <= j => Spacing[i] <= Spacing[j]
  BY ScheduleAssumption
<1>2. Len(Spacing) \in Nat \ {0} /\ DOMAIN Spacing = 1 .. Len(Spacing)
  BY <1>1, LenProperties, EmptySeq
<1>3. \A i \in 1 .. Len(Spacing) : Spacing[i] \in Nat \ {0}
  BY <1>1, ElementOfSeq
<1> QED BY <1>1, <1>2, <1>3

LEMMA RescheduledType ==
  ASSUME NEW cue \in [streak : 0 .. Len(Spacing), due : 0 .. Spacing[Len(Spacing)]],
         NEW correct \in BOOLEAN
  PROVE  Rescheduled(cue, correct)
           \in [streak : 0 .. Len(Spacing), due : 0 .. Spacing[Len(Spacing)]]
<1> DEFINE streak == IF correct THEN Least(cue.streak + 1, Len(Spacing)) ELSE 0
           index == Least(IF streak > 0 THEN streak ELSE 0, Len(Spacing) - 1)
<1>1. Len(Spacing) \in Nat \ {0} /\ 1 \in 1 .. Len(Spacing)
  BY SpacingIs
<1>2. streak \in 0 .. Len(Spacing)
  BY <1>1 DEF Least
<1>3. index + 1 \in 1 .. Len(Spacing)
  BY <1>1, <1>2 DEF Least
<1>4. next_interval_days(streak, correct) = IF ~ correct THEN Spacing[1] ELSE Spacing[index + 1]
  BY DEF next_interval_days
<1>5. next_interval_days(streak, correct) \in 0 .. Spacing[Len(Spacing)]
  <2> HIDE DEF index, streak
  <2> QED BY <1>1, <1>3, <1>4, SpacingIs
<1>6. Rescheduled(cue, correct) = [streak |-> streak, due |-> next_interval_days(streak, correct)]
  BY DEF Rescheduled
<1> HIDE DEF streak
<1> QED BY <1>2, <1>5, <1>6

LEMMA InitDInv == Init => DInv
<1> SUFFICES ASSUME Init PROVE DInv
  OBVIOUS
<1>1. deployed \in DOMAIN Trees /\ withheld = AtBoot[deployed] /\ screen = None /\ reveal = None
  BY DEF Init
<1>2. withheld \subseteq ItemIds /\ withheld \subseteq Ids
  BY <1>1, AtBootIs DEF Ids, content
<1>3. schedule \in [ItemIds -> [streak : 0 .. Len(Spacing), due : 0 .. Spacing[Len(Spacing)]]]
  BY SpacingIs DEF Init
<1>4. TypeOK
  BY <1>1, <1>2, <1>3, ScheduleAssumption DEF Init, TypeOK
<1> QED BY <1>1, <1>2, <1>4 DEF DInv, ForCause, Shown

\* As long as the service runs its package stays what it is.
LEMMA SameContent ==
  ASSUME deployed' = deployed
  PROVE  content' = content /\ tree' = tree /\ Ids' = Ids /\ \A id : ItemOf(id)' = ItemOf(id)
BY DEF content, tree, Ids, ItemOf

LEMMA ServeDInv == DInv /\ Serve => DInv'
<1> SUFFICES ASSUME DInv, Serve PROVE DInv'
  OBVIOUS
<1>1. TypeOK /\ ForCause
  BY DEF DInv
<1>2. /\ withheld' = WithheldAfter /\ reveal' = None /\ Ready(content)
      /\ UNCHANGED <<deployed, rating, schedule, attempts, restarts>>
  BY DEF Serve
<1>3. content' = content /\ Ids' = Ids /\ \A id : ItemOf(id)' = ItemOf(id)
  BY <1>2, SameContent
<1>4. /\ withheld \subseteq withheld' /\ withheld' \subseteq ItemIds
      /\ \A id \in withheld' \ withheld : id \in Ids /\ ~ Renders(ItemOf(id))
      /\ Settled(withheld') \/ Cardinality(withheld' \ withheld) = MaxTries
  BY <1>1, <1>2, WithheldAfterIs
<1>5. ForCause'
  <2>1. AtBoot[deployed] \subseteq withheld' /\ withheld' \subseteq Ids
    BY <1>1, <1>4 DEF ForCause
  <2>2. \A id \in withheld' \ AtBoot[deployed] : ~ Renders(ItemOf(id))
    BY <1>1, <1>4 DEF ForCause
  <2>3. (\A id \in withheld \ AtBoot[deployed] : ~ Renders(ItemOf(id)))'
    <3>1. \A id : Renders(ItemOf(id))' = Renders(ItemOf(id))
      BY <1>3 DEF Renders
    <3> QED BY <2>2, <3>1, <1>2
  <2> QED BY <2>1, <2>3, <1>2, <1>3 DEF ForCause
<1> DEFINE d == Selected(withheld')
<1>6. CASE screen' = None
  <2>1. TypeOK'
    BY <1>1, <1>2, <1>4, <1>6 DEF TypeOK
  <2> QED BY <1>5, <1>6, <2>1 DEF DInv, Shown
<1>7. CASE screen' # None
  <2>1. /\ Scorable(withheld') # {} /\ Cardinality(withheld' \ withheld) # MaxTries
        /\ \E drawn \in Drawn(d) : screen' = [item |-> d.id, drawn |-> drawn]
    BY <1>7 DEF Serve
  <2>2. Settled(withheld') /\ Renders(d)
    BY <2>1, <1>4 DEF Settled
  <2>3. d \in Scorable(withheld') /\ d.id \in Ids \ withheld'
    BY <2>1, <1>1, SelectedIsScorable
  <2>4. d \in ToSet(content.drills)
    BY <2>3 DEF Scorable
  <2>5. ItemOf(d.id) = d
    BY <2>4, <1>1, ItemOfId DEF TypeOK
  <2> HIDE DEF d
  <2>6. screen'.item = d.id /\ screen'.drawn \in Drawn(d)
    BY <2>1
  <2>7. ItemOf(screen.item)' = d
    BY <1>3, <2>5, <2>6 DEF ItemOf
  <2>8. Shown'
    BY <2>7, <2>2 DEF Shown, Renders
  <2>9. TypeOK'
    <3>1. /\ Ready(content') /\ screen'.item \in {e.id : e \in ToSet(content'.drills)} \ withheld'
      BY <1>2, <1>3, <2>3, <2>6 DEF Ids
    <3>2. screen'.drawn \in Drawn(ItemOf(screen.item)')
      BY <2>6, <2>7
    <3> QED BY <1>1, <1>2, <1>4, <3>1, <3>2 DEF TypeOK
  <2> QED BY <1>5, <2>8, <2>9 DEF DInv
<1> QED BY <1>6, <1>7

LEMMA AnswerDInv ==
  ASSUME DInv, NEW reading \in Readings, Answer(reading) \/ AnswerUnscored(reading)
  PROVE  DInv'
<1>1. TypeOK /\ ForCause
  BY DEF DInv
<1>2. /\ screen # None /\ screen' = None
      /\ UNCHANGED <<deployed, withheld, restarts>>
  BY DEF Answer, AnswerUnscored
<1>3. content' = content /\ Ids' = Ids /\ \A id : ItemOf(id)' = ItemOf(id)
  BY <1>2, SameContent
<1>4. ForCause'
  <2>1. \A id : Renders(ItemOf(id))' = Renders(ItemOf(id))
    BY <1>3 DEF Renders
  <2> QED BY <1>1, <1>2, <1>3, <2>1 DEF ForCause
<1>5. Shown'
  BY <1>2 DEF Shown
<1>6. screen.item \in ItemIds
  BY <1>1, <1>2, ContentFacts DEF TypeOK
<1>7. reveal'.item \in ItemIds /\ reveal'.scored \in BOOLEAN
  <2>1. \/ reveal' = [item |-> screen.item, scored |-> TRUE]
        \/ reveal' = [item |-> screen.item, scored |-> FALSE]
    BY DEF Answer, AnswerUnscored
  <2>2. CASE reveal' = [item |-> screen.item, scored |-> TRUE]
    BY <2>2, <1>6
  <2>3. CASE reveal' = [item |-> screen.item, scored |-> FALSE]
    BY <2>3, <1>6
  <2> QED BY <2>1, <2>2, <2>3
<1>8. CASE Answer(reading)
  <2> DEFINE correct == OutcomeOf(reading.text).matched = "accept"
             axis == CompetencyFor(content, ItemOf(screen.item))
  <2>1. /\ rating' \in RatingsAfter(correct)
        /\ schedule' = [schedule EXCEPT ![screen.item] = Rescheduled(@, correct)]
        /\ attempts' = [attempts EXCEPT ![axis] = Least(@ + 1, AttemptCap)]
    BY <1>8 DEF Answer
  <2>2. correct \in BOOLEAN
    OBVIOUS
  <2> HIDE DEF correct, axis
  <2>3. rating' \in MinElo .. MaxElo
    BY <2>1, <1>1 DEF RatingsAfter, TypeOK
  <2>4. schedule' \in [ItemIds -> [streak : 0 .. Len(Spacing), due : 0 .. Spacing[Len(Spacing)]]]
    <3>1. schedule[screen.item] \in [streak : 0 .. Len(Spacing), due : 0 .. Spacing[Len(Spacing)]]
      BY <1>1, <1>6 DEF TypeOK
    <3>2. Rescheduled(schedule[screen.item], correct)
            \in [streak : 0 .. Len(Spacing), due : 0 .. Spacing[Len(Spacing)]]
      BY <2>2, <3>1, RescheduledType
    <3> QED BY <1>1, <2>1, <3>2 DEF TypeOK
  <2>5. attempts' \in [Axes -> 0 .. AttemptCap]
    <3>1. \A n \in 0 .. AttemptCap : Least(n + 1, AttemptCap) \in 0 .. AttemptCap
      BY ScheduleAssumption DEF Least
    <3> QED BY <1>1, <2>1, <3>1 DEF TypeOK
  <2>6. TypeOK'
    BY <1>1, <1>2, <1>7, <2>3, <2>4, <2>5 DEF TypeOK
  <2> QED BY <2>6, <1>4, <1>5 DEF DInv
<1>9. CASE AnswerUnscored(reading)
  <2>1. UNCHANGED <<rating, schedule, attempts>>
    BY <1>9 DEF AnswerUnscored
  <2>2. TypeOK'
    BY <1>1, <1>2, <1>7, <2>1 DEF TypeOK
  <2> QED BY <2>2, <1>4, <1>5 DEF DInv
<1> QED BY <1>8, <1>9

LEMMA TickDInv == DInv /\ Tick => DInv'
<1> SUFFICES ASSUME DInv, Tick PROVE DInv'
  OBVIOUS
<1>1. TypeOK /\ ForCause /\ Shown
  BY DEF DInv
<1>2. UNCHANGED <<deployed, withheld, rating, attempts, screen, reveal, restarts>>
  BY DEF Tick
<1>3. content' = content /\ Ids' = Ids /\ \A id : ItemOf(id)' = ItemOf(id)
  BY <1>2, SameContent
<1>4. ForCause'
  <2>1. \A id : Renders(ItemOf(id))' = Renders(ItemOf(id))
    BY <1>3 DEF Renders
  <2> QED BY <1>1, <1>2, <1>3, <2>1 DEF ForCause
<1>5. ItemOf(screen.item)' = ItemOf(screen.item)
  BY <1>2, <1>3 DEF ItemOf
<1>6. Shown'
  BY <1>1, <1>2, <1>5 DEF Shown, Renders
<1>7. schedule' \in [ItemIds -> [streak : 0 .. Len(Spacing), due : 0 .. Spacing[Len(Spacing)]]]
  <2>1. schedule' = [id \in ItemIds |->
                       [schedule[id] EXCEPT !.due = IF @ = 0 THEN 0 ELSE @ - 1]]
    BY DEF Tick
  <2>2. \A id \in ItemIds : schedule[id] \in [streak : 0 .. Len(Spacing),
                                              due : 0 .. Spacing[Len(Spacing)]]
    BY <1>1 DEF TypeOK
  <2>3. Spacing[Len(Spacing)] \in Nat
    BY SpacingIs
  <2> QED BY <2>1, <2>2, <2>3
<1>8. TypeOK'
  BY <1>1, <1>2, <1>3, <1>5, <1>7 DEF TypeOK
<1> QED BY <1>4, <1>6, <1>8 DEF DInv

LEMMA RestartDInv ==
  ASSUME DInv, NEW name \in DOMAIN Trees, Restart(name)
  PROVE  DInv'
<1>1. /\ deployed' = name /\ withheld' = AtBoot[name] /\ screen' = None /\ reveal' = None
      /\ UNCHANGED <<rating, schedule, attempts>>
  BY DEF Restart
<1>2. restarts' \in 0 .. MaxRestarts
  BY ScheduleAssumption DEF Restart, DInv, TypeOK
<1>3. withheld' \subseteq ItemIds /\ withheld' \subseteq Ids'
  BY <1>1, AtBootIs DEF Ids, content
<1>4. TypeOK'
  BY <1>1, <1>2, <1>3 DEF DInv, TypeOK
<1> QED BY <1>1, <1>3, <1>4 DEF DInv, ForCause, Shown

LEMMA StutterDInv == DInv /\ UNCHANGED vars => DInv'
<1> SUFFICES ASSUME DInv, UNCHANGED vars PROVE DInv'
  OBVIOUS
<1>1. UNCHANGED <<deployed, withheld, rating, schedule, attempts, screen, reveal, restarts>>
  BY DEF vars
<1>2. content' = content /\ Ids' = Ids /\ \A id : ItemOf(id)' = ItemOf(id)
  BY <1>1, SameContent
<1>3. \A id : Renders(ItemOf(id))' = Renders(ItemOf(id))
  BY <1>2 DEF Renders
<1>4. ItemOf(screen.item)' = ItemOf(screen.item)
  BY <1>1, <1>2 DEF ItemOf
<1>5. TypeOK'
  BY <1>1, <1>2, <1>4 DEF DInv, TypeOK
<1>6. ForCause' /\ Shown'
  BY <1>1, <1>2, <1>3, <1>4 DEF DInv, ForCause, Shown, Renders
<1> QED BY <1>5, <1>6 DEF DInv

LEMMA DInvKept == Spec => []DInv
<1>1. DInv /\ [Next]_vars => DInv'
  BY ServeDInv, AnswerDInv, TickDInv, RestartDInv, StutterDInv DEF Next
<1> QED BY InitDInv, <1>1, PTL DEF Spec

\* Over any days of training the rating stays in the band the items are authored in, the
\* schedule inside the spacing table, and what is on screen is an item of the package
\* that is not withheld, with facts its board can draw.
THEOREM DaysTypeOK == Spec => []TypeOK
<1>1. DInv => TypeOK
  BY DEF DInv
<1> QED BY DInvKept, <1>1, PTL

\* What the operator is shown: an item whose board renders, and nothing is kept from
\* them but what boot found without an answer and what a board refused.
ShownAndWithheld ==
  /\ screen # None => Boarded[ItemOf(screen.item)].refused = None
  /\ \A id \in withheld :
       id \in AtBoot[deployed] \/ Boarded[ItemOf(id)].refused # None

\* However many items refuse, whatever request withholds them and whenever the service
\* restarts, a drill on screen is one whose board renders, and an item is withheld only
\* for a cause (_serve_one(), _withhold()).
THEOREM DaysShownAndWithheld == Spec => []ShownAndWithheld
<1>1. DInv => ShownAndWithheld
  BY DEF DInv, ForCause, Shown, Renders, ShownAndWithheld
<1> QED BY DInvKept, <1>1, PTL

-----------------------------------------------------------------------------
(* The authors' check *)

\* The cue that is used is the first of its identifier.
LEMMA CueOfIs ==
  ASSUME NEW S, content.cues \in Seq(S), NEW d,
         NEW c \in ToSet(content.cues), c.id = d.cue_id
  PROVE  CueOf(content, d) \in ToSet(content.cues) /\ CueOf(content, d).id = d.cue_id
<1> DEFINE cues == content.cues
           I == {i \in 1 .. Len(cues) : cues[i].id = d.cue_id}
<1>1. Len(cues) \in Nat /\ DOMAIN cues = 1 .. Len(cues)
      /\ ToSet(cues) = {cues[i] : i \in 1 .. Len(cues)}
  BY PositionsOfSet
<1>2. I \in SUBSET Nat /\ I # {}
  BY <1>1
<1>3. Min(I) \in I
  <2> HIDE DEF I
  <2> QED BY <1>2, MinOf
<1>4. SelectInSeq(cues, LAMBDA e : e.id = d.cue_id) = Min(I)
  BY <1>2 DEF SelectInSeq
<1>5. Min(I) \in 1 .. Len(cues) /\ Min(I) # 0 /\ cues[Min(I)].id = d.cue_id
  <2> HIDE DEF cues
  <2> QED BY <1>3, <1>1
<1>6. CueOf(content, d) = cues[Min(I)]
  <2> HIDE DEF I
  <2> QED BY <1>4, <1>5 DEF CueOf
<1> HIDE DEF I, cues
<1> QED BY <1>1, <1>5, <1>6 DEF cues

LEMMA OpenedIs ==
  ASSUME NEW t
  PROVE  /\ Len(Opened(t)) \in Nat /\ DOMAIN Opened(t) = 1 .. Len(Opened(t))
         /\ ToSet(Opened(t)) = {Opened(t)[i] : i \in 1 .. Len(Opened(t))}
         /\ Required \subseteq ToSet(Opened(t))
         /\ ToSet(Opened(t)) \subseteq Required \cup {ThresholdsRead(t)}
<1> DEFINE last == IF ThresholdsRead(t) = None THEN << >> ELSE <<ThresholdsRead(t)>>
           S == Required \cup {ThresholdsRead(t)}
<1>1. ReadOrder \in Seq(Required) /\ ToSet(ReadOrder) = Required
  BY FilesAssumption DEF Required
<1>2. ReadOrder \in Seq(S) /\ last \in Seq(S)
  <2>1. Seq(Required) \subseteq Seq(S)
    BY SeqDef
  <2>2. <<ThresholdsRead(t)>> \in Seq(S) /\ << >> \in Seq(S)
    OBVIOUS
  <2> QED BY <1>1, <2>1, <2>2
<1>3. Opened(t) = ReadOrder \o last
  BY DEF Opened
<1> HIDE DEF last
<1>4. /\ Opened(t) \in Seq(S)
      /\ Len(Opened(t)) = Len(ReadOrder) + Len(last)
      /\ \A i \in 1 .. Len(ReadOrder) : Opened(t)[i] = ReadOrder[i]
  <2> HIDE DEF S
  <2> QED BY <1>2, <1>3, ConcatProperties
<1>5. Len(ReadOrder) \in Nat /\ Len(last) \in Nat
      /\ Required = {ReadOrder[i] : i \in 1 .. Len(ReadOrder)}
  <2> HIDE DEF S
  <2> QED BY <1>1, <1>2, PositionsOfSet, LenProperties
<1>6. /\ Len(Opened(t)) \in Nat /\ DOMAIN Opened(t) = 1 .. Len(Opened(t))
      /\ ToSet(Opened(t)) = {Opened(t)[i] : i \in 1 .. Len(Opened(t))}
      /\ ToSet(Opened(t)) \subseteq S
  <2> HIDE DEF S
  <2> QED BY <1>4, PositionsOfSet
<1>7. Required \subseteq ToSet(Opened(t))
  <2> SUFFICES ASSUME NEW i \in 1 .. Len(ReadOrder) PROVE ReadOrder[i] \in ToSet(Opened(t))
    BY <1>5
  <2>1. i \in 1 .. Len(Opened(t)) /\ Opened(t)[i] = ReadOrder[i]
    BY <1>4, <1>5
  <2> HIDE DEF S
  <2> QED BY <2>1, <1>6
<1> QED BY <1>6, <1>7

\* A file is reached when every file that is opened is whole, and only when it is whole.
LEMMA ReachedIs ==
  ASSUME NEW t
  PROVE  /\ \A f \in Reached(t) : t.file[f] = "whole"
         /\ (\A f \in ToSet(Opened(t)) : t.file[f] = "whole") => Reached(t) = ToSet(Opened(t))
<1>1. /\ Len(Opened(t)) \in Nat /\ DOMAIN Opened(t) = 1 .. Len(Opened(t))
      /\ ToSet(Opened(t)) = {Opened(t)[i] : i \in 1 .. Len(Opened(t))}
  BY OpenedIs
<1>2. \A f \in Reached(t) : t.file[f] = "whole"
  <2> SUFFICES ASSUME NEW i \in DOMAIN Opened(t),
                      \A k \in 1 .. i : t.file[Opened(t)[k]] = "whole"
               PROVE  t.file[Opened(t)[i]] = "whole"
    BY DEF Reached
  <2> QED BY <1>1
<1>3. ASSUME \A f \in ToSet(Opened(t)) : t.file[f] = "whole"
      PROVE  Reached(t) = ToSet(Opened(t))
  <2>1. \A i \in DOMAIN Opened(t) : \A k \in 1 .. i : t.file[Opened(t)[k]] = "whole"
    BY <1>1, <1>3
  <2>2. Reached(t) = {Opened(t)[i] : i \in DOMAIN Opened(t)}
    BY <2>1 DEF Reached
  <2> QED BY <2>2, <1>1
<1> QED BY <1>2, <1>3

\* A package that is ok is the whole of its tree.
LEMMA OkIsWhole ==
  ASSUME deployed \in DOMAIN Trees, content.ok
  PROVE  /\ \A f \in Required : tree.file[f] = "whole"
         /\ content.cues = tree.cues /\ content.procedures = tree.procedures
<1>1. content = Load(tree)
  BY ContentFacts
<1>2. Missing(tree) = {} /\ ToSet(Opened(tree)) = Reached(tree)
  BY <1>1 DEF Load
<1>3. Required \subseteq Reached(tree)
  BY <1>2, OpenedIs
<1>4. "cues" \in Required /\ "procedures" \in Required
  BY FilesAssumption DEF Required
<1>5. content.cues = tree.cues /\ content.procedures = tree.procedures
  BY <1>1, <1>2, <1>3, <1>4 DEF Load
<1> QED BY <1>3, <1>5, ReachedIs

\* A stimulus that names one product and a generator of the contract has its renderer.
LEMMA OneProduct ==
  ASSUME NEW s, s.generator \in Canonical, s.generator # "composite",
         s.product_id # None, s.product_id \in DOMAIN RendererOf
  PROVE  Chosen(s) # None
<1>1. \A p \in DOMAIN RendererOf : <<p>> \in Seq(DOMAIN RendererOf) /\ <<p>> # None
  <2> DEFINE S == DOMAIN RendererOf
  <2>1. \A p \in S : <<p>> \in Seq(S)
    OBVIOUS
  <2>2. None \notin Seq(S)
    BY NothingAssumption
  <2> HIDE DEF S
  <2>3. \A p \in S : <<p>> # None
    BY <2>1, <2>2
  <2> QED BY <2>1, <2>3 DEF S
<1>2. CASE s.generator \in RendererNames
  <2>1. PICK p \in DOMAIN RendererOf : RendererOf[p] = s.generator
    BY <1>2 DEF RendererNames
  <2>2. ProductOf(s.generator) \in DOMAIN RendererOf
    BY <2>1 DEF ProductOf
  <2>3. Chosen(s) = <<ProductOf(s.generator)>>
    BY <1>2, NothingAssumption DEF Chosen
  <2> QED BY <2>2, <2>3, <1>1
<1>3. CASE s.generator \notin RendererNames
  <2>1. s.generator = "probe"
    BY <1>3, RegistryAssumption DEF Canonical
  <2>2. Target(s) = s.product_id
    BY DEF Target
  <2>3. Chosen(s) = <<Target(s)>>
    BY <1>3, <2>1, <2>2 DEF Chosen
  <2> QED BY <2>2, <2>3, <1>1
<1> QED BY <1>2, <1>3

LEMMA ApprovedIsServedHolds == TypeOK => ApprovedIsServed
<1> SUFFICES ASSUME TypeOK, validate(tree) = 0,
                    tree.file["local"] \in {"absent", "whole"},
                    \A f \in Required \cup {"example"} : tree.file[f] # "unservable",
                    \A d \in DrillsOf(tree) : d.elo \in MinElo .. MaxElo,
                    tree.contract \subseteq Canonical, tree.products \subseteq DOMAIN RendererOf
             PROVE  /\ content.ok /\ ToSet(content.drills) = DrillsOf(tree)
                    /\ \A d \in ToSet(content.drills) :
                         /\ \E c \in ToSet(content.cues) : c.id = d.cue_id
                         /\ ProcedureFor(content, d) \in ProcedureIds(tree) \cup {None}
                         /\ d.stimulus.generator # "composite" /\ d.stimulus.product_id # None
                              => Chosen(d.stimulus) # None
  BY DEF ApprovedIsServed
<1>1. deployed \in DOMAIN Trees /\ content = Load(tree) /\ IsTree(tree)
  BY ContentFacts DEF TypeOK
<1>2. /\ \A f \in Required \cup {"example"} : tree.file[f] \in {"whole", "unservable"}
      /\ Unresolved(tree) = {} /\ OffContract(tree) = {}
  <2>1. ~ (\/ \E f \in Required \cup {"example"} : tree.file[f] \notin {"whole", "unservable"}
           \/ tree.file["local"] = "undecodable")
    BY DEF validate
  <2>2. Unresolved(tree) \cup OffContract(tree) \cup Unanswerable(tree) = {}
    BY <2>1 DEF validate
  <2> QED BY <2>1, <2>2
<1>3. \A f \in Required \cup {"example"} : tree.file[f] = "whole"
  BY <1>2
<1>4. ThresholdsRead(tree) \in {"local", "example"} /\ tree.file[ThresholdsRead(tree)] = "whole"
  BY <1>3 DEF ThresholdsRead
<1>5. \A f \in ToSet(Opened(tree)) : tree.file[f] = "whole"
  BY <1>3, <1>4, OpenedIs
<1>6. Missing(tree) = {} /\ ToSet(Opened(tree)) = Reached(tree) /\ Required \subseteq Reached(tree)
  <2>1. Missing(tree) = {}
    BY <1>3 DEF Missing
  <2>2. Reached(tree) = ToSet(Opened(tree))
    BY <1>5, ReachedIs
  <2> QED BY <2>1, <2>2, OpenedIs
<1>7. "drills" \in Required
  BY FilesAssumption DEF Required
<1>8. \A d \in DrillsOf(tree) : d.stimulus.generator \in tree.contract /\ Valid(d)
  BY <1>2 DEF OffContract, Valid
<1>9. content.ok
  BY <1>1, <1>6, <1>7, <1>8 DEF Load, DrillsOf
<1>10. ToSet(content.drills) = DrillsOf(tree)
  <2>1. content.drills = Kept(tree.drills, {d \in ToSet(tree.drills) : Valid(d)})
    BY <1>1, <1>6, <1>7 DEF Load
  <2>2. {d \in ToSet(tree.drills) : Valid(d)} = ToSet(tree.drills)
    BY <1>8 DEF DrillsOf
  <2>3. tree.drills \in Seq(ToSet(tree.drills))
    BY <1>1 DEF IsTree, IsList
  <2>4. ToSet(Kept(tree.drills, ToSet(tree.drills))) = ToSet(tree.drills)
    <3> DEFINE list == tree.drills
               all == ToSet(list)
    <3>1. list \in Seq(all)
      BY <2>3
    <3> HIDE DEF all, list
    <3>2. ToSet(Kept(list, all)) = ToSet(list) \cap all
      BY <3>1, KeptElements
    <3> QED BY <3>2 DEF all, list
  <2> QED BY <2>1, <2>2, <2>4 DEF DrillsOf
<1>11. content.cues = tree.cues
  BY <1>1, <1>9, OkIsWhole
<1> SUFFICES ASSUME NEW d \in DrillsOf(tree)
             PROVE  /\ \E c \in ToSet(content.cues) : c.id = d.cue_id
                    /\ ProcedureFor(content, d) \in ProcedureIds(tree) \cup {None}
                    /\ d.stimulus.generator # "composite" /\ d.stimulus.product_id # None
                         => Chosen(d.stimulus) # None
  BY <1>9, <1>10
<1>12. d.cue_id \in CueIds(tree) /\ d.stimulus.product_id \in tree.products \cup {None}
  BY <1>2 DEF Unresolved
<1>13. \A c \in ToSet(tree.cues) : c.procedure_id \in ProcedureIds(tree) \cup {None}
  BY <1>2 DEF Unresolved
<1>14. PICK c \in ToSet(content.cues) : c.id = d.cue_id
  BY <1>11, <1>12 DEF CueIds
<1>15. content.cues \in Seq(ToSet(content.cues))
  BY <1>1, <1>11 DEF IsTree, IsList
<1>16. CueOf(content, d) \in ToSet(content.cues)
  BY <1>14, <1>15, CueOfIs
<1>17. ProcedureFor(content, d) \in ProcedureIds(tree) \cup {None}
  BY <1>11, <1>13, <1>16 DEF ProcedureFor
<1>18. d.stimulus.generator # "composite" /\ d.stimulus.product_id # None
          => Chosen(d.stimulus) # None
  BY <1>8, <1>12, OneProduct
<1> QED BY <1>14, <1>17, <1>18

\* What the authors' check passes the service serves, whatever the tree it is started on
\* (tools/validate_content.py main(), content/loader.py load()).
THEOREM DaysApprovedIsServed == Spec => []ApprovedIsServed
BY DaysTypeOK, ApprovedIsServedHolds, PTL

-----------------------------------------------------------------------------
(* Served names *)

\* The empty text has no bytes: it is a text of its own on the wire.
LEMMA NoBytes == Bytes(<< >>) = 0
<1> DEFINE t == utf8(<< >>)
           Eq(iter) == iter = [s \in SUBSET DOMAIN t |->
                                 IF s = {} THEN 0
                                 ELSE iter[s \ {Max(s)}] + Width[t[Max(s)]]]
           fold == CHOOSE iter : Eq(iter)
           zero == [s \in SUBSET {} |-> 0]
<1>1. DOMAIN t = {}
  BY DEF utf8
<1>2. Bytes(<< >>) = fold[DOMAIN t]
  <2> HIDE DEF t
  <2> QED BY DEF Bytes, FoldLeft, MapThenFoldSet, t
<1>3. Eq(zero)
  <2> HIDE DEF t
  <2> QED BY <1>1
<1>4. Eq(fold)
  <2> HIDE DEF Eq
  <2> QED BY <1>3
<1>5. fold[{}] = 0
  <2> HIDE DEF fold, t
  <2> QED BY <1>1, <1>4
<1> QED BY <1>1, <1>2, <1>5

\* A shortened name tells the whole: two texts served under one name are one text.
LEMMA ServedIsInjective ==
  ASSUME NEW a, NEW b, served_identifier(a) = served_identifier(b)
  PROVE  a = b
<1> DEFINE Short(x) == Encodable(x) /\ Bytes(x) <= MaxIdentifier
<1>1. \A x : Short(x) => served_identifier(x) = [shown |-> x, digest |-> << >>]
  BY DEF served_identifier
<1>2. \A x : ~ Short(x) => served_identifier(x).digest = x
  BY DEF served_identifier
<1>3. Short(<< >>)
  BY NoBytes, SizesAssumption DEF Encodable
<1> HIDE DEF Short
<1>4. \A x : Short(x) => served_identifier(x).digest = << >> /\ served_identifier(x).shown = x
  BY <1>1
<1> QED BY <1>2, <1>3, <1>4

\* A name that is not shortened is the text itself.
LEMMA ServedWhole ==
  ASSUME NEW text, served_identifier(text).digest = << >>
  PROVE  served_identifier(text) = [shown |-> text, digest |-> << >>]
<1>1. CASE Encodable(text) /\ Bytes(text) <= MaxIdentifier
  BY <1>1 DEF served_identifier
<1>2. CASE ~ (Encodable(text) /\ Bytes(text) <= MaxIdentifier)
  <2>1. served_identifier(text).digest = text
    BY <1>2 DEF served_identifier
  <2> QED BY <2>1, <1>2, NoBytes, SizesAssumption DEF Encodable
<1> QED BY <1>1, <1>2

-----------------------------------------------------------------------------
(* The library *)

\* A shortened name opens nothing; a whole one opens the first procedure that has it, or
\* says that it is too large.
LEMMA DetailIs ==
  ASSUME NEW S, content.procedures \in Seq(S), content.ok, NEW name
  PROVE  /\ name.digest # << >> => procedure_detail(content, name).status = 404
         /\ \A p \in ToSet(content.procedures) :
              name.digest = << >> /\ p.id = name.shown =>
                \E q \in ToSet(content.procedures) :
                  /\ q.id = name.shown
                  /\ q.bytes > MaxDocument => procedure_detail(content, name).status = 503
                  /\ ~ q.bytes > MaxDocument =>
                       procedure_detail(content, name) = [status |-> 200, procedure |-> q]
<1> DEFINE procs == content.procedures
           I == {i \in 1 .. Len(procs) : name.digest = << >> /\ procs[i].id = name.shown}
           at == SelectInSeq(procs, LAMBDA p : name.digest = << >> /\ p.id = name.shown)
<1>1. at = IF I # {} THEN Min(I) ELSE 0
  BY DEF SelectInSeq
<1>2. procedure_detail(content, name) =
        IF at = 0 THEN [status |-> 404, error |-> "not_found"]
        ELSE WithinBudget(procs[at].bytes, [status |-> 200, procedure |-> procs[at]])
  <2> HIDE DEF I
  <2> QED BY DEF procedure_detail
<1>3. Len(procs) \in Nat /\ DOMAIN procs = 1 .. Len(procs)
      /\ ToSet(procs) = {procs[i] : i \in 1 .. Len(procs)}
  BY PositionsOfSet
<1> HIDE DEF at, procs
<1>4. ASSUME name.digest # << >> PROVE procedure_detail(content, name).status = 404
  BY <1>1, <1>2, <1>4
<1>5. ASSUME NEW p \in ToSet(procs), name.digest = << >>, p.id = name.shown
      PROVE  \E q \in ToSet(procs) :
               /\ q.id = name.shown
               /\ q.bytes > MaxDocument => procedure_detail(content, name).status = 503
               /\ ~ q.bytes > MaxDocument =>
                    procedure_detail(content, name) = [status |-> 200, procedure |-> q]
  <2>1. I \in SUBSET Nat /\ I # {}
    BY <1>3, <1>5
  <2>2. Min(I) \in I
    <3> HIDE DEF I
    <3> QED BY <2>1, MinOf
  <2>3. at \in I
    <3> HIDE DEF I
    <3> QED BY <1>1, <2>1, <2>2
  <2>4. at \in 1 .. Len(procs) /\ at # 0 /\ procs[at].id = name.shown /\ procs[at] \in ToSet(procs)
    BY <2>3, <1>3
  <2>5. procedure_detail(content, name) =
          WithinBudget(procs[at].bytes, [status |-> 200, procedure |-> procs[at]])
    BY <1>2, <2>4
  <2> QED BY <2>4, <2>5 DEF WithinBudget
<1> QED BY <1>4, <1>5 DEF procs

LEMMA CardsOpenHolds == TypeOK => CardsOpen
<1> DEFINE procs == content.procedures
           opened(name) == procedure_detail(content, name)
           Fit(id) == \A p \in ToSet(procs) : p.id = id => p.bytes <= MaxDocument
           Leads(card, p) ==
             /\ card.name.marked \/ card.name.shown = p.name
             /\ IF card.id.digest # << >> THEN opened(card.id).status = 404
                ELSE \/ opened(card.id).status = 200 /\ opened(card.id).procedure.id = p.id
                     \/ opened(card.id).status = 503 /\ ~ Fit(p.id)
<1> SUFFICES ASSUME TypeOK, content.ok
             PROVE  /\ procedure_index(content).status = 200 =>
                         \A i \in DOMAIN procedure_index(content).cards :
                           Leads(procedure_index(content).cards[i], procs[i])
                    /\ \A p \in ToSet(procs) : Fit(p.id) =>
                         opened([shown |-> p.id, digest |-> << >>]).status = 200
  BY DEF CardsOpen
<1>1. deployed \in DOMAIN Trees /\ IsTree(tree)
  BY ContentFacts DEF TypeOK
<1>2. procs = tree.procedures /\ tree.file["procedures"] = "whole"
  BY <1>1, OkIsWhole, FilesAssumption DEF Required
<1>3. procs \in Seq(ToSet(procs))
  BY <1>1, <1>2 DEF IsTree, IsList
<1>4. \A p \in ToSet(procs) : IsList(p.name) /\ Encodable(p.name) /\ p.bytes \in Nat
  BY <1>1, <1>2 DEF IsTree
<1> HIDE DEF procs
<1>5. \A name : /\ name.digest # << >> => opened(name).status = 404
                /\ \A p \in ToSet(procs) : name.digest = << >> /\ p.id = name.shown =>
                     \/ opened(name).status = 200 /\ opened(name).procedure.id = p.id
                     \/ opened(name).status = 503 /\ ~ Fit(p.id)
  <2> SUFFICES ASSUME NEW name
               PROVE  /\ name.digest # << >> => opened(name).status = 404
                      /\ \A p \in ToSet(procs) : name.digest = << >> /\ p.id = name.shown =>
                           \/ opened(name).status = 200 /\ opened(name).procedure.id = p.id
                           \/ opened(name).status = 503 /\ ~ Fit(p.id)
    OBVIOUS
  <2>1. name.digest # << >> => opened(name).status = 404
    BY <1>3, DetailIs DEF procs
  <2>2. ASSUME NEW p \in ToSet(procs), name.digest = << >>, p.id = name.shown
        PROVE  \/ opened(name).status = 200 /\ opened(name).procedure.id = p.id
               \/ opened(name).status = 503 /\ ~ Fit(p.id)
    <3>1. PICK q \in ToSet(procs) :
            /\ q.id = name.shown
            /\ q.bytes > MaxDocument => opened(name).status = 503
            /\ ~ q.bytes > MaxDocument => opened(name) = [status |-> 200, procedure |-> q]
      BY <1>3, <2>2, DetailIs DEF procs
    <3>2. CASE q.bytes > MaxDocument
      <4>1. ~ q.bytes <= MaxDocument
        BY <3>2, <1>4, CapsAssumption
      <4> QED BY <4>1, <3>1, <3>2, <2>2
    <3>3. CASE ~ q.bytes > MaxDocument
      BY <3>1, <3>3, <2>2
    <3> QED BY <3>2, <3>3
  <2> QED BY <2>1, <2>2
<1>6. ASSUME NEW p \in ToSet(procs) PROVE Leads(Card(p), p)
  <2>1. Card(p).name.marked \/ Card(p).name.shown = p.name
    <3>1. Card(p).name = capped(p.name, MaxIdentifier)
      BY DEF Card
    <3>2. utf8(p.name) = p.name
      <4>1. p.name = [i \in DOMAIN p.name |-> p.name[i]]
        BY <1>4 DEF IsList
      <4> QED BY <4>1, <1>4 DEF utf8, Encodable
    <3> QED BY <3>1, <3>2 DEF capped
  <2>2. Card(p).id = served_identifier(p.id)
    BY DEF Card
  <2>3. CASE Card(p).id.digest # << >>
    <3> HIDE DEF opened
    <3> QED BY <2>1, <2>3, <1>5
  <2>4. CASE Card(p).id.digest = << >>
    <3>1. Card(p).id.shown = p.id
      BY <2>2, <2>4, ServedWhole
    <3> HIDE DEF opened, Fit
    <3> QED BY <2>1, <2>4, <3>1, <1>5
  <2> QED BY <2>3, <2>4
<1>7. ASSUME procedure_index(content).status = 200,
             NEW i \in DOMAIN procedure_index(content).cards
      PROVE  Leads(procedure_index(content).cards[i], procs[i])
  <2> DEFINE cards == [j \in DOMAIN procs |-> Card(procs[j])]
             size == FoldLeft(LAMBDA sum, c : sum + SizeOf(c), 0, cards)
             bad == \E p \in ToSet(procs) : Malformed(p)
  <2>1. procedure_index(content) =
          IF bad THEN Unavailable ELSE WithinBudget(size, [status |-> 200, cards |-> cards])
    <3> HIDE DEF bad
    <3> QED BY DEF procedure_index, procs, bad
  <2> HIDE DEF size, bad, cards
  <2>2. procedure_index(content) = [status |-> 200, cards |-> cards]
    <3>1. Unavailable.status = 503
      BY DEF Unavailable
    <3>2. \A answer : WithinBudget(size, answer) = answer \/ WithinBudget(size, answer).status = 503
      BY DEF WithinBudget
    <3> QED BY <1>7, <2>1, <3>1, <3>2
  <2>3. i \in DOMAIN procs /\ procedure_index(content).cards[i] = Card(procs[i])
    BY <1>7, <2>2 DEF cards
  <2>4. procs[i] \in ToSet(procs)
    BY <2>3 DEF ToSet
  <2> HIDE DEF Leads
  <2> QED BY <1>6, <2>3, <2>4
<1>8. ASSUME NEW p \in ToSet(procs), Fit(p.id)
      PROVE  opened([shown |-> p.id, digest |-> << >>]).status = 200
  <2> DEFINE name == [shown |-> p.id, digest |-> << >>]
  <2>1. name.digest = << >> /\ name.shown = p.id
    OBVIOUS
  <2> HIDE DEF name, opened, Fit
  <2>2. opened(name).status = 200
    BY <2>1, <1>5, <1>8
  <2> QED BY <2>2 DEF name
<1> QED BY <1>7, <1>8

\* A library that is listed is a library that opens, whatever the procedures, their names
\* and their sizes (drill.py _procedure_index(), procedure_detail()).
THEOREM DaysCardsOpen == Spec => []CardsOpen
BY DaysTypeOK, CardsOpenHolds, PTL

-----------------------------------------------------------------------------
(* The census of unread parameters *)

\* What composes was chosen: the renderer's product, the product a probe names, or what
\* a composite asks for; and that is the board the census reads.
LEMMA BoardIsDrawn ==
  ASSUME NEW s, compose(s).refused = None
  PROVE  /\ compose(s).drawn = board_for(s)
         /\ \/ s.generator \in RendererNames
               /\ board_for(s) = <<ProductOf(s.generator)>>
               /\ ProductOf(s.generator) \in DOMAIN RendererOf
            \/ s.generator \in DOMAIN CompositionReads /\ s.generator \notin RendererNames
               /\ ToSet(board_for(s)) \subseteq DOMAIN RendererOf
<1>1. compose(s).drawn = Chosen(s) /\ Chosen(s) # None
  <2>1. Chosen(s) # None
    BY NothingAssumption DEF compose
  <2>2. ~ \E p \in ToSet(Chosen(s)) : Fails(p, s.params)
    BY <2>1, NothingAssumption DEF compose
  <2> QED BY <2>1, <2>2 DEF compose
<1>2. CASE s.generator \in RendererNames
  <2>1. ProductOf(s.generator) \in DOMAIN RendererOf
    BY <1>2 DEF RendererNames, ProductOf
  <2>2. s.generator \notin {"probe", "composite"}
    BY <1>2, NothingAssumption
  <2>3. Chosen(s) = <<ProductOf(s.generator)>> /\ board_for(s) = <<ProductOf(s.generator)>>
    BY <1>2, <2>2 DEF Chosen, board_for
  <2> QED BY <1>1, <1>2, <2>1, <2>3
<1>3. CASE s.generator = "probe"
  <2>1. s.generator \notin RendererNames
    BY <1>3, NothingAssumption
  <2>2. Target(s) \in DOMAIN RendererOf /\ Chosen(s) = <<Target(s)>>
    BY <1>1, <1>3, <2>1 DEF Chosen
  <2>3. board_for(s) = <<Target(s)>>
    BY <1>3, <2>1, <2>2, NothingAssumption DEF board_for
  <2>4. ToSet(<<Target(s)>>) = {Target(s)}
    BY DEF ToSet
  <2> QED BY <1>1, <1>3, <2>1, <2>2, <2>3, <2>4, RegistryAssumption
<1>4. CASE s.generator = "composite"
  <2>1. s.generator \notin RendererNames
    BY <1>4, NothingAssumption
  <2>2. ToSet(Requested(s)) \subseteq DOMAIN RendererOf /\ Chosen(s) = Requested(s)
    BY <1>1, <1>4, <2>1 DEF Chosen
  <2>3. board_for(s) = Requested(s)
    BY <1>4, <2>1 DEF board_for
  <2> QED BY <1>1, <1>4, <2>1, <2>2, <2>3, RegistryAssumption
<1>5. s.generator \in RendererNames \/ s.generator = "probe" \/ s.generator = "composite"
  BY <1>1 DEF Chosen
<1> QED BY <1>2, <1>3, <1>4, <1>5

LEMMA CensusHolds == CensusIsOfTheBoard
<1> SUFFICES ASSUME NEW d \in ToSet(content.drills), compose(d.stimulus).refused = None
             PROVE  /\ compose(d.stimulus).drawn = board_for(d.stimulus)
                    /\ \A key \in DOMAIN d.stimulus.params :
                         key \in unread(d.stimulus, board_for(d.stimulus)) <=>
                           /\ key \notin Markers
                           /\ ~ \E p \in ToSet(compose(d.stimulus).drawn) : key \in Reads[p]
                           /\ d.stimulus.generator \in DOMAIN CompositionReads
                                => key \notin CompositionReads[d.stimulus.generator]
  BY DEF CensusIsOfTheBoard
<1> DEFINE s == d.stimulus
<1> HIDE DEF s
<1>1. compose(s).drawn = board_for(s)
  BY BoardIsDrawn DEF s
<1>2. ASSUME NEW key \in DOMAIN s.params
      PROVE  key \in unread(s, board_for(s)) <=>
               /\ key \notin Markers
               /\ ~ \E p \in ToSet(board_for(s)) : key \in Reads[p]
               /\ s.generator \in DOMAIN CompositionReads
                    => key \notin CompositionReads[s.generator]
  <2>1. CASE s.generator \in RendererNames
    <3>1. s.generator \notin DOMAIN CompositionReads
      BY <2>1, NothingAssumption, RegistryAssumption
    <3>2. board_for(s) = <<ProductOf(s.generator)>>
      BY <2>1, BoardIsDrawn DEF s
    <3>3. ToSet(board_for(s)) = {ProductOf(s.generator)}
      BY <3>2 DEF ToSet
    <3>4. unread(s, board_for(s)) = (DOMAIN s.params \ Markers) \ Reads[ProductOf(s.generator)]
      BY <2>1, <3>1 DEF unread
    <3> QED BY <3>1, <3>3, <3>4, <1>2
  <2>2. CASE s.generator \notin RendererNames
    <3>1. /\ s.generator \in DOMAIN CompositionReads
          /\ ToSet(board_for(s)) \subseteq DOMAIN RendererOf
      BY <2>2, BoardIsDrawn DEF s
    <3>2. unread(s, board_for(s)) =
            ((DOMAIN s.params \ Markers) \ CompositionReads[s.generator])
              \ UNION {Reads[p] : p \in ToSet(board_for(s)) \cap DOMAIN RendererOf}
      BY <2>2, <3>1 DEF unread
    <3>3. ToSet(board_for(s)) \cap DOMAIN RendererOf = ToSet(board_for(s))
      BY <3>1
    <3>4. key \in UNION {Reads[p] : p \in ToSet(board_for(s))}
            <=> \E p \in ToSet(board_for(s)) : key \in Reads[p]
      OBVIOUS
    <3> QED BY <3>1, <3>2, <3>3, <3>4, <1>2
  <2> QED BY <2>1, <2>2
<1> QED BY <1>1, <1>2 DEF s

-----------------------------------------------------------------------------
(* Sorted, leading and counted *)

\* A finite set of numbers has a greatest.
LEMMA GreatestOf ==
  ASSUME NEW S \in SUBSET Nat, S # {}, IsFiniteSet(S)
  PROVE  \E x \in S : \A y \in S : y <= x
<1> DEFINE Bounded(T) == \E b \in Nat : \A y \in T : y <= b
           Fine == {n \in Nat : \A T \in SUBSET Nat :
                      IsFiniteSet(T) /\ Cardinality(T) = n => Bounded(T)}
<1>1. 0 \in Fine
  <2>1. ASSUME NEW T \in SUBSET Nat, IsFiniteSet(T), Cardinality(T) = 0 PROVE Bounded(T)
    <3>1. T = {}
      BY <2>1, FS_EmptySet
    <3> QED BY <3>1
  <2> HIDE DEF Bounded
  <2> QED BY <2>1
<1>2. ASSUME NEW n \in Nat, n \in Fine PROVE n + 1 \in Fine
  <2>1. ASSUME NEW T \in SUBSET Nat, IsFiniteSet(T), Cardinality(T) = n + 1 PROVE Bounded(T)
    <3>1. PICK x \in T : TRUE
      <4>1. n + 1 # 0
        OBVIOUS
      <4>2. T # {}
        BY <2>1, <4>1, FS_EmptySet
      <4> QED BY <4>2
    <3> DEFINE U == T \ {x}
    <3>2. U \in SUBSET Nat /\ IsFiniteSet(U) /\ Cardinality(U) = n
      BY <2>1, <3>1, FS_RemoveElement
    <3>3. Bounded(U)
      <4> HIDE DEF Bounded, U
      <4> QED BY <1>2, <3>2
    <3>4. PICK b \in Nat : \A y \in U : y <= b
      BY <3>3
    <3> DEFINE c == IF x <= b THEN b ELSE x
    <3>5. c \in Nat /\ \A y \in T : y <= c
      BY <3>1, <3>4
    <3> QED BY <3>5
  <2> HIDE DEF Bounded
  <2> QED BY <2>1
<1>3. Nat \subseteq Fine
  <2> HIDE DEF Fine
  <2> QED BY <1>1, <1>2, SetInduction
<1>4. Bounded(S)
  <2> HIDE DEF Bounded
  <2> QED BY <1>3, FS_CardinalityType
<1>5. PICK b \in Nat : \A y \in S : y <= b
  BY <1>4
<1> DEFINE gaps == {b - y : y \in S}
<1>6. PICK g \in gaps : \A h \in gaps : g <= h
  <2>1. gaps \in SUBSET Nat /\ gaps # {}
    <3>1. \A y \in S : b - y \in Nat
      BY <1>5
    <3> QED BY <3>1
  <2> HIDE DEF gaps
  <2> QED BY <2>1, LeastOf
<1>7. PICK x \in S : g = b - x
  BY <1>6
<1>8. \A y \in S : y <= x
  BY <1>5, <1>6, <1>7
<1> QED BY <1>8

\* Adding the greatest of a set last: a finite set of numbers can be listed in order.
LEMMA SortedExists ==
  ASSUME NEW n \in Nat, NEW ids \in SUBSET Nat, IsFiniteSet(ids), Cardinality(ids) = n
  PROVE  \E list \in [1 .. n -> ids] :
           \A i, j \in 1 .. n : i < j => list[i] < list[j]
<1> DEFINE Listed(S, k) == \E list \in [1 .. k -> S] :
             \A i, j \in 1 .. k : i < j => list[i] < list[j]
           Fine == {k \in Nat : \A S \in SUBSET Nat :
                      IsFiniteSet(S) /\ Cardinality(S) = k => Listed(S, k)}
<1>1. 0 \in Fine
  <2>1. ASSUME NEW S \in SUBSET Nat PROVE Listed(S, 0)
    <3> DEFINE empty == [i \in 1 .. 0 |-> 0]
    <3>1. 1 .. 0 = {}
      OBVIOUS
    <3>2. empty \in [1 .. 0 -> S]
      BY <3>1
    <3> QED BY <3>1, <3>2
  <2> HIDE DEF Listed
  <2> QED BY <2>1
<1>2. ASSUME NEW k \in Nat, k \in Fine PROVE k + 1 \in Fine
  <2> SUFFICES ASSUME NEW S \in SUBSET Nat, IsFiniteSet(S), Cardinality(S) = k + 1
               PROVE  Listed(S, k + 1)
    <3> HIDE DEF Listed
    <3> QED OBVIOUS
  <2>1. PICK top \in S : \A x \in S : x <= top
    <3>1. S # {}
      BY FS_EmptySet
    <3> QED BY <3>1, GreatestOf
  <2> DEFINE rest == S \ {top}
  <2>2. IsFiniteSet(rest) /\ Cardinality(rest) = k /\ rest \in SUBSET Nat
    <3>1. IsFiniteSet(rest) /\ Cardinality(rest) = Cardinality(S) - 1
      BY <2>1, FS_RemoveElement
    <3> QED BY <3>1
  <2>3. Listed(rest, k)
    <3> HIDE DEF Listed, rest
    <3> QED BY <1>2, <2>2
  <2>4. PICK list \in [1 .. k -> rest] : \A i, j \in 1 .. k : i < j => list[i] < list[j]
    BY <2>3
  <2> DEFINE more == [i \in 1 .. k + 1 |-> IF i = k + 1 THEN top ELSE list[i]]
  <2>5. more \in [1 .. k + 1 -> S]
    BY <2>1, <2>4
  <2>6. ASSUME NEW i \in 1 .. k + 1, NEW j \in 1 .. k + 1, i < j PROVE more[i] < more[j]
    <3>1. i \in 1 .. k /\ more[i] = list[i] /\ list[i] \in rest
      BY <2>4, <2>6
    <3>2. CASE j = k + 1
      <4>1. more[j] = top /\ list[i] \in Nat /\ top \in Nat /\ list[i] <= top /\ list[i] # top
        BY <3>1, <3>2, <2>1
      <4> QED BY <3>1, <4>1
    <3>3. CASE j # k + 1
      BY <3>1, <3>3, <2>4, <2>6
    <3> QED BY <3>2, <3>3
  <2> HIDE DEF more
  <2> QED BY <2>5, <2>6
<1>3. Nat \subseteq Fine
  <2> HIDE DEF Fine
  <2> QED BY <1>1, <1>2, SetInduction
<1> HIDE DEF Listed
<1>4. Listed(ids, n)
  BY <1>3
<1> QED BY <1>4 DEF Listed

\* As many as there are places for.
LEMMA CountImage ==
  ASSUME NEW S, IsFiniteSet(S), NEW f, DOMAIN f = S,
         \A x, y \in S : f[x] = f[y] => x = y
  PROVE  /\ IsFiniteSet({f[x] : x \in S})
         /\ Cardinality({f[x] : x \in S}) = Cardinality(S)
<1> DEFINE T == {f[x] : x \in S}
           g == [x \in S |-> f[x]]
<1>1. g \in Bijection(S, T)
  BY DEF Bijection, Injection, Surjection, IsInjective
<1>2. ExistsBijection(S, T)
  BY <1>1 DEF ExistsBijection
<1> HIDE DEF T
<1> QED BY <1>2, FS_Bijection DEF T

LEMMA CountUpTo ==
  ASSUME NEW n \in Nat
  PROVE  IsFiniteSet(1 .. n) /\ Cardinality(1 .. n) = n
BY FS_Interval

LEMMA CountInjective ==
  ASSUME NEW S, NEW list \in Seq(S), IsInjective(list)
  PROVE  IsFiniteSet(ToSet(list)) /\ Cardinality(ToSet(list)) = Len(list)
<1>1. Len(list) \in Nat /\ DOMAIN list = 1 .. Len(list)
      /\ ToSet(list) = {list[i] : i \in 1 .. Len(list)}
  BY PositionsOfSet
<1>2. IsFiniteSet(1 .. Len(list)) /\ Cardinality(1 .. Len(list)) = Len(list)
  BY <1>1, CountUpTo
<1>3. \A i, j \in 1 .. Len(list) : list[i] = list[j] => i = j
  BY <1>1 DEF IsInjective
<1> QED BY <1>1, <1>2, <1>3, CountImage

LEMMA SortedIs ==
  ASSUME NEW ids \in SUBSET Nat, IsFiniteSet(ids)
  PROVE  /\ Sorted(ids) \in Seq(ids) /\ Len(Sorted(ids)) = Cardinality(ids)
         /\ IsInjective(Sorted(ids))
<1> DEFINE n == Cardinality(ids)
           Up(list) == \A i, j \in 1 .. n : i < j => list[i] < list[j]
<1>1. n \in Nat
  BY FS_CardinalityType
<1> HIDE DEF n
<1>2. \E list \in [1 .. n -> ids] : Up(list)
  BY <1>1, SortedExists DEF n
<1>3. Sorted(ids) = CHOOSE list \in [1 .. n -> ids] : Up(list)
  BY DEF Sorted, n
<1>4. Sorted(ids) \in [1 .. n -> ids] /\ Up(Sorted(ids))
  <2> HIDE DEF Up
  <2> QED BY <1>2, <1>3
<1>5. Sorted(ids) \in Seq(ids) /\ Len(Sorted(ids)) = n
  BY <1>1, <1>4
<1>6. IsInjective(Sorted(ids))
  <2> SUFFICES ASSUME NEW i \in 1 .. n, NEW j \in 1 .. n, Sorted(ids)[i] = Sorted(ids)[j]
               PROVE  i = j
    BY <1>4 DEF IsInjective
  <2>1. Sorted(ids)[i] \in Nat
    BY <1>4
  <2> QED BY <1>4, <2>1
<1> QED BY <1>5, <1>6 DEF n

LEMMA LeadingIs ==
  ASSUME NEW S, NEW list \in Seq(S), NEW kind \in {"withheld", "params", "competencies", "due"}
  PROVE  /\ Leading(list, kind) \in Seq(S)
         /\ Len(Leading(list, kind)) = Least(Len(list), MaxServed[kind])
         /\ \A i \in 1 .. Len(Leading(list, kind)) :
              i \in 1 .. Len(list) /\ Leading(list, kind)[i] = list[i]
         /\ IsInjective(list) => IsInjective(Leading(list, kind))
         /\ ToSet(Leading(list, kind)) \subseteq ToSet(list)
<1> DEFINE n == IF Len(list) < MaxServed[kind] THEN Len(list) ELSE MaxServed[kind]
           lead == Leading(list, kind)
<1>1. MaxServed[kind] \in Nat \ {0} /\ Len(list) \in Nat /\ DOMAIN list = 1 .. Len(list)
      /\ \A i \in 1 .. Len(list) : list[i] \in S
  BY CapsAssumption, LenProperties, ElementOfSeq
<1>2. n \in 0 .. Len(list) /\ n = Least(Len(list), MaxServed[kind])
  BY <1>1 DEF Least
<1>3. lead = SubSeq(list, 1, n)
  BY DEF Leading
<1> HIDE DEF n, lead
<1>4. lead \in Seq(S) /\ Len(lead) = n /\ \A i \in 1 .. n : lead[i] = list[i]
  <2>1. \A i \in 1 .. n : list[i] \in S
    BY <1>1, <1>2
  <2>2. /\ SubSeq(list, 1, n) \in Seq(S)
        /\ Len(SubSeq(list, 1, n)) = IF 1 <= n THEN n - 1 + 1 ELSE 0
        /\ \A i \in 1 .. n - 1 + 1 : SubSeq(list, 1, n)[i] = list[1 + i - 1]
    BY <1>2, <2>1, SubSeqProperties
  <2> QED BY <1>2, <1>3, <2>2
<1>5. DOMAIN lead = 1 .. n /\ 1 .. n \subseteq 1 .. Len(list)
  BY <1>2, <1>4, LenProperties
<1>6. IsInjective(list) => IsInjective(lead)
  BY <1>1, <1>4, <1>5 DEF IsInjective
<1>7. ToSet(lead) \subseteq ToSet(list)
  BY <1>1, <1>4, <1>5 DEF ToSet
<1> QED BY <1>2, <1>4, <1>5, <1>6, <1>7 DEF lead

-----------------------------------------------------------------------------
(* The gaps *)

\* What is left out of the package and what may be asked add up to it.
LEMMA LeftAndAsked ==
  ASSUME deployed \in DOMAIN Trees, NEW out \in SUBSET Ids
  PROVE  /\ IsFiniteSet(out)
         /\ Cardinality(out) + Cardinality(Scorable(out)) = Len(content.drills)
<1> DEFINE D == ToSet(content.drills)
           W == {d \in D : d.id \in out}
           f == [d \in W |-> d.id]
<1>1. IsFiniteSet(D) /\ Cardinality(D) = Len(content.drills)
  BY ContentFacts, CountInjective
<1>2. W \subseteq D /\ IsFiniteSet(W) /\ Cardinality(W) \in Nat /\ Cardinality(D) \in Nat
  <2>1. W \in SUBSET D
    OBVIOUS
  <2> HIDE DEF W, D
  <2> QED BY <1>1, <2>1, FS_Subset, FS_CardinalityType
<1>3. \A d, e \in W : f[d] = f[e] => d = e
  BY ContentFacts
<1>4. {f[d] : d \in W} = out
  <2>1. \A id \in out : \E d \in W : d.id = id
    BY DEF Ids
  <2> QED BY <2>1
<1>5. DOMAIN f = W
  OBVIOUS
<1>6. IsFiniteSet(out) /\ Cardinality(out) = Cardinality(W)
  <2> HIDE DEF f, W
  <2> QED BY <1>2, <1>3, <1>4, <1>5, CountImage
<1>7. Scorable(out) = D \ W
  BY DEF Scorable
<1>8. Cardinality(D \ W) = Cardinality(D) - Cardinality(W)
  <2>1. D \cap W = W
    BY <1>2
  <2> HIDE DEF D, W
  <2>2. Cardinality(D \ W) = Cardinality(D) - Cardinality(D \cap W)
    BY <1>1, FS_Difference
  <2> QED BY <2>1, <2>2
<1> HIDE DEF D, W, f
<1> QED BY <1>1, <1>2, <1>6, <1>7, <1>8

\* Each of some items has a name of its own on the wire.
Name(id) == served_identifier(NameOf[id])

LEMMA NamesAreOwn ==
  ASSUME NEW a \in ItemIds, NEW b \in ItemIds, Name(a) = Name(b)
  PROVE  a = b
<1>1. NameOf[a] = NameOf[b]
  BY ServedIsInjective DEF Name
<1> QED BY <1>1, TreesAssumption

\* The lines of the manifest: one for each item withheld, as far as the list goes, under
\* a name of its own and with its own reason; the total counts them all.
LEMMA LinesOfManifest ==
  ASSUME NEW reason, DOMAIN reason \in SUBSET ItemIds, DOMAIN reason \in SUBSET Nat,
         IsFiniteSet(DOMAIN reason)
  PROVE  LET listed == ToSet(Leading(Sorted(DOMAIN reason), "withheld"))
             served == manifest(content, reason)
         IN  /\ served.total = Cardinality(DOMAIN reason)
             /\ Cardinality(DOMAIN served.reasons) = Least(served.total, MaxServed["withheld"])
             /\ \A id \in listed : served.reasons[Name(id)] = reason[id]
<1> DEFINE out == DOMAIN reason
           ids == Leading(Sorted(out), "withheld")
           listed == ToSet(ids)
           served == manifest(content, reason)
           under(n) == {id \in listed : Name(id) = n}
<1>1. served.total = Cardinality(out)
  BY DEF manifest
<1>2. served.reasons = [n \in {Name(id) : id \in listed} |-> reason[Max(under(n))]]
  BY DEF manifest, Name
<1> HIDE DEF served, out
<1>3. /\ ids \in Seq(out) /\ IsInjective(ids)
      /\ Len(ids) = Least(Cardinality(out), MaxServed["withheld"])
  <2>1. Sorted(out) \in Seq(out) /\ Len(Sorted(out)) = Cardinality(out) /\ IsInjective(Sorted(out))
    BY SortedIs DEF out
  <2> QED BY <2>1, LeadingIs
<1> HIDE DEF ids
<1>4. listed \subseteq out /\ IsFiniteSet(listed) /\ Cardinality(listed) = Len(ids)
  BY <1>3, CountInjective, PositionsOfSet
<1> HIDE DEF listed
<1>5. listed \subseteq ItemIds /\ listed \subseteq Nat
  BY <1>4 DEF out
<1>6. \A a, b \in listed : Name(a) = Name(b) => a = b
  BY <1>5, NamesAreOwn
<1>7. Cardinality({Name(id) : id \in listed}) = Cardinality(listed)
  <2> DEFINE f == [id \in listed |-> Name(id)]
  <2>1. DOMAIN f = listed /\ \A a, b \in listed : f[a] = f[b] => a = b
    BY <1>6
  <2>2. {Name(id) : id \in listed} = {f[id] : id \in listed}
    OBVIOUS
  <2> HIDE DEF f
  <2> QED BY <1>4, <2>1, <2>2, CountImage
<1>8. Cardinality(DOMAIN served.reasons) = Least(served.total, MaxServed["withheld"])
  BY <1>1, <1>2, <1>3, <1>4, <1>7
<1>9. ASSUME NEW id \in listed PROVE served.reasons[Name(id)] = reason[id]
  <2>1. under(Name(id)) = {id}
    BY <1>6
  <2>2. Max({id}) = id
    <3>1. id \in Nat
      BY <1>5
    <3> QED BY <3>1 DEF Max
  <2> HIDE DEF under
  <2> QED BY <1>2, <2>1, <2>2
<1> QED BY <1>1, <1>8, <1>9 DEF served, listed, ids, out

\* The due items of the dashboard: one for each, as far as the list goes.
LEMMA LinesOfDashboard ==
  ASSUME deployed \in DOMAIN Trees, NEW due
  PROVE  LET board == dashboard(content, attempts, due)
         IN  Cardinality(ToSet(board.due_items)) = Least(board.due_now, MaxServed["due"])
<1> DEFINE drills == content.drills
           all == [i \in DOMAIN drills |-> drills[i].id]
           ids == Kept(all, due)
           lead == Leading(ids, "due")
           board == dashboard(content, attempts, due)
           items == [i \in DOMAIN lead |-> Name(ids[i])]
<1>1. board.due_now = Len(ids) /\ board.due_items = items
  BY DEF dashboard, Name
<1>2. /\ drills \in Seq(Items) /\ IsInjective(drills)
      /\ \A d \in ToSet(drills) : d.id \in ItemIds
      /\ \A d, e \in ToSet(drills) : d.id = e.id => d = e
  BY ContentFacts
<1> HIDE DEF drills, board
<1>3. Len(drills) \in Nat /\ DOMAIN drills = 1 .. Len(drills)
      /\ \A i \in 1 .. Len(drills) : drills[i] \in ToSet(drills)
  BY <1>2, PositionsOfSet
<1>4. all \in Seq(ItemIds) /\ DOMAIN all = 1 .. Len(drills)
  <2>1. all \in [1 .. Len(drills) -> ItemIds]
    BY <1>2, <1>3
  <2> HIDE DEF all
  <2> QED BY <1>3, <2>1
<1>5. IsInjective(all)
  BY <1>2, <1>3 DEF IsInjective
<1> HIDE DEF all
<1>6. ids \in Seq(ItemIds) /\ IsInjective(ids)
  BY <1>4, <1>5, KeptElements
<1> HIDE DEF ids
<1>7. /\ lead \in Seq(ItemIds) /\ Len(lead) = Least(Len(ids), MaxServed["due"])
      /\ IsInjective(lead)
      /\ \A i \in 1 .. Len(lead) : i \in 1 .. Len(ids) /\ lead[i] = ids[i]
  BY <1>6, LeadingIs
<1>8. Len(lead) \in Nat /\ DOMAIN lead = 1 .. Len(lead) /\ \A i \in 1 .. Len(lead) : lead[i] \in ItemIds
  BY <1>7, LenProperties, ElementOfSeq
<1> HIDE DEF lead
<1>9. \A i, j \in 1 .. Len(lead) : items[i] = items[j] => i = j
  <2> SUFFICES ASSUME NEW i \in 1 .. Len(lead), NEW j \in 1 .. Len(lead), items[i] = items[j]
               PROVE  i = j
    OBVIOUS
  <2>1. Name(lead[i]) = Name(lead[j])
    BY <1>7, <1>8
  <2>2. lead[i] = lead[j]
    BY <2>1, <1>8, NamesAreOwn
  <2> QED BY <2>2, <1>7, <1>8 DEF IsInjective
<1>10. Cardinality(ToSet(items)) = Len(lead)
  <2>1. DOMAIN items = 1 .. Len(lead)
    BY <1>8
  <2>2. IsFiniteSet(1 .. Len(lead)) /\ Cardinality(1 .. Len(lead)) = Len(lead)
    BY <1>8, CountUpTo
  <2>3. ToSet(items) = {items[i] : i \in 1 .. Len(lead)}
    BY <2>1 DEF ToSet
  <2> HIDE DEF items
  <2> QED BY <1>9, <2>1, <2>2, <2>3, CountImage
<1> HIDE DEF items
<1> QED BY <1>1, <1>7, <1>10 DEF board

LEMMA GapsAreNamedHolds == TypeOK /\ ForCause => GapsAreNamed
<1> SUFFICES ASSUME TypeOK, ForCause PROVE GapsAreNamed
  OBVIOUS
<1> DEFINE made == manifest(content, Reasons)
           served == served_manifest(content, Reasons)
           listed == ToSet(Leading(Sorted(withheld), "withheld"))
           due == {id \in ItemIds : schedule[id].due = 0}
           answer == me(content, attempts, due)
<1>1. deployed \in DOMAIN Trees /\ withheld \in SUBSET Ids /\ withheld \in SUBSET ItemIds
  BY DEF TypeOK, ForCause
<1>2. withheld \in SUBSET Nat
  BY <1>1, ContentFacts DEF Ids
<1>3. /\ IsFiniteSet(withheld)
      /\ Cardinality(withheld) + Cardinality(Scorable(withheld)) = Len(content.drills)
  BY <1>1, LeftAndAsked
<1>4. DOMAIN Reasons = withheld
  BY DEF Reasons
<1>5. /\ made.total = Cardinality(withheld)
      /\ Cardinality(DOMAIN made.reasons) = Least(made.total, MaxServed["withheld"])
      /\ \A id \in listed : made.reasons[Name(id)] = Reasons[id]
  <2> HIDE DEF Reasons
  <2> QED BY <1>1, <1>2, <1>3, <1>4, LinesOfManifest
<1>6. served.total = made.total /\ served.reasons = made.reasons
  BY DEF served_manifest
<1>7. ASSUME NEW id \in withheld PROVE Reasons[id] # None
  <2>1. CASE id \in AtBoot[deployed]
    BY <2>1, NothingAssumption DEF Reasons
  <2>2. CASE id \notin AtBoot[deployed]
    BY <2>2 DEF ForCause, Renders, Reasons
  <2> QED BY <2>1, <2>2
<1>8. ASSUME answer.status = 200
      PROVE  Cardinality(ToSet(answer.board.due_items))
               = Least(answer.board.due_now, MaxServed["due"])
  <2>1. answer = [status |-> 200, board |-> dashboard(content, attempts, due)]
    <3> HIDE DEF due
    <3> QED BY <1>8 DEF me, Unavailable
  <2> HIDE DEF due
  <2>2. answer.board = dashboard(content, attempts, due)
    BY <2>1
  <2> HIDE DEF answer
  <2> QED BY <2>2, <1>1, LinesOfDashboard
<1> HIDE DEF made, served, answer, due
<1>9. served.total + Cardinality(Scorable(withheld)) = Len(content.drills)
  BY <1>3, <1>5, <1>6
<1>10. Cardinality(DOMAIN served.reasons) = Least(served.total, MaxServed["withheld"])
  BY <1>5, <1>6
<1>11. \A id \in listed : served.reasons[served_identifier(NameOf[id])] = Reasons[id]
  BY <1>5, <1>6 DEF Name
<1> QED BY <1>7, <1>8, <1>9, <1>10, <1>11 DEF GapsAreNamed, served, answer, due

\* What the manifest discloses is true and complete, whatever the items, their parameters
\* and their names: its census is of the board that is drawn, and what it leaves out it
\* names (generators/base.py unread(), drill.py manifest(), dashboard()).
THEOREM DaysManifestIsHonest == Spec => []ManifestIsHonest
<1>1. DInv => ManifestIsHonest
  BY CensusHolds, GapsAreNamedHolds DEF DInv, ManifestIsHonest
<1> QED BY DInvKept, <1>1, PTL

-----------------------------------------------------------------------------
(* Points *)

\* The points are the sum of what the rules add, in their order.
LEMMA TotalIs ==
  ASSUME IsList(Rules), NEW facts, \A i \in 1 .. Len(Rules) : Adds(Rules[i], facts) \in Int
  PROVE  \E total \in [0 .. Len(Rules) -> Int] :
           /\ total[0] = 0 /\ evaluate(facts).total = total[Len(Rules)]
           /\ \A n \in 1 .. Len(Rules) : total[n] = total[n - 1] + Adds(Rules[n], facts)
<1> DEFINE m == Len(Rules)
           add(n) == Adds(Rules[n], facts)
           Sum1(n, x) == x + add(n)
           step == [n \in 1 .. m |-> [x \in Int |-> Sum1(n, x)]]
           Eq(f) == f = [n \in 0 .. m |-> IF n = 0 THEN 0 ELSE Sum1(n, f[n - 1])]
<1>1. m \in Nat /\ \A n \in 1 .. m : add(n) \in Int
  BY LenProperties DEF IsList
<1>2. evaluate(facts).total = (CHOOSE f : Eq(f))[m]
  BY DEF evaluate
<1> HIDE DEF add, m
<1>3. step \in [1 .. m -> [Int -> Int]]
  BY <1>1
<1>4. PICK f \in [0 .. m -> Int] : Recurs(f, m, 0, step)
  <2> HIDE DEF step
  <2>1. 0 \in Int
    OBVIOUS
  <2> QED BY <1>1, <1>3, <2>1, RecursionExists
<1>5. \A n \in 1 .. m : step[n][f[n - 1]] = Sum1(n, f[n - 1])
  BY <1>1
<1>6. Eq(f)
  <2> HIDE DEF step, Sum1
  <2>1. f = [n \in 0 .. m |-> IF n = 0 THEN 0 ELSE step[n][f[n - 1]]]
    BY <1>4 DEF Recurs
  <2>2. \A n \in 0 .. m : n # 0 => n \in 1 .. m
    BY <1>1
  <2>3. \A n \in 0 .. m : f[n] = IF n = 0 THEN 0 ELSE Sum1(n, f[n - 1])
    BY <2>1, <2>2, <1>5
  <2> QED BY <2>1, <2>3
<1> DEFINE total == CHOOSE g : Eq(g)
<1>7. Eq(total)
  <2> HIDE DEF Eq
  <2> QED BY <1>6
<1> HIDE DEF total
<1>8. total[0] = 0 /\ \A n \in 1 .. m : total[n] = total[n - 1] + add(n)
  BY <1>1, <1>7
<1>9. ASSUME NEW n \in 0 .. m PROVE total[n] \in Int
  <2> DEFINE Fine == {k \in Nat : k <= m => total[k] \in Int}
  <2>1. 0 \in Fine
    BY <1>8
  <2>2. ASSUME NEW k \in Nat, k \in Fine PROVE k + 1 \in Fine
    <3> SUFFICES ASSUME k + 1 <= m PROVE total[k + 1] \in Int
      OBVIOUS
    <3>1. k + 1 \in 1 .. m /\ (k + 1) - 1 = k /\ total[k] \in Int
      BY <2>2, <1>1
    <3> QED BY <3>1, <1>8, <1>1
  <2> HIDE DEF Fine
  <2>3. Nat \subseteq Fine
    BY <2>1, <2>2, SetInduction
  <2> QED BY <2>3, <1>1 DEF Fine
<1>10. total \in [0 .. m -> Int]
  BY <1>7, <1>9
<1> QED BY <1>2, <1>8, <1>10 DEF total, add, m

\* What a rule awards: no more than its authored award, scaled by the item's credit where
\* the answer was partial; all of it where it is uncapped.
LEMMA AwardIs ==
  ASSUME NEW rule, rule.award \in Nat, rule.cap \in Nat \cup {None}, MaxBonus \in Nat \cup {None},
         NEW facts, facts.credit \in 0 .. 4
  PROVE  /\ Award(rule, facts) \in 0 .. 4 * rule.award
         /\ rule.cap = None /\ rule.id = "D-CORRECT" => Award(rule, facts) = 4 * rule.award
         /\ rule.id # "D-PARTIAL" => \A other : Award(rule, other) = Award(rule, facts)
<1> DEFINE share == IF rule.id = "D-PARTIAL" THEN rule.award * facts.credit ELSE 4 * rule.award
           bonus == IF rule.id = "D-FAST-AND-CORRECT" /\ MaxBonus # None
                      THEN Least(share, 4 * MaxBonus) ELSE share
<1>1. share \in 0 .. 4 * rule.award
  <2>1. facts.credit \in {0, 1, 2, 3, 4}
    BY Z3
  <2>2. rule.award * facts.credit \in 0 .. 4 * rule.award
    BY <2>1
  <2> QED BY <2>2
<1>2. bonus \in 0 .. share
  <2> HIDE DEF share
  <2> QED BY <1>1 DEF Least
<1>3. Award(rule, facts) = CASE rule.cap = None -> bonus
                             [] rule.cap # None /\ bonus >= 0 -> Least(bonus, 4 * rule.cap)
                             [] OTHER -> IF bonus > -4 * rule.cap THEN bonus ELSE -4 * rule.cap
  BY DEF Award
<1>4. Award(rule, facts) \in 0 .. 4 * rule.award
  <2> HIDE DEF share, bonus
  <2>1. CASE rule.cap = None
    BY <1>1, <1>2, <1>3, <2>1
  <2>2. CASE rule.cap # None
    <3>1. Award(rule, facts) = Least(bonus, 4 * rule.cap) /\ rule.cap \in Nat
      BY <1>1, <1>2, <1>3, <2>2
    <3> QED BY <3>1, <1>1, <1>2 DEF Least
  <2> QED BY <2>1, <2>2
<1>5. rule.cap = None /\ rule.id = "D-CORRECT" => Award(rule, facts) = 4 * rule.award
  BY <1>3
<1>6. rule.id # "D-PARTIAL" => \A other : Award(rule, other) = Award(rule, facts)
  BY DEF Award
<1> QED BY <1>4, <1>5, <1>6

\* An outcome of a match, and two of one item: a number near enough for a wrong answer is
\* near enough for a right one too.
IsOutcome(o) ==
  /\ o.matched \in {"accept", "partial", "reject", "none", "unscorable"}
  /\ o.credit \in 0 .. 4

\* Rule by rule: a right answer, slow, earns at least what a wrong one does, fast, but for
\* the rule of its partial match or its miss; and D-CORRECT, which is worth more than that.
LEMMA AddsCompared ==
  ASSUME FairRubric, NEW c \in ToSet(Rules), c.id = "D-CORRECT", c.cap = None,
         \A r \in ToSet(Rules) : r.id \in {"D-PARTIAL", "D-MISS"} => r.award < c.award,
         NEW G, NEW H, G.matched = "accept", H.matched # "accept", IsOutcome(G), IsOutcome(H),
         H.within = "inside" => G.within = "inside",
         G.confidence = H.confidence, ~ G.in_time,
         NEW rule \in ToSet(Rules),
         NEW bad, bad = IF H.matched = "partial" THEN "D-PARTIAL" ELSE "D-MISS"
  PROVE  /\ Adds(rule, G) \in Int /\ Adds(rule, H) \in Int
         /\ rule = c => Adds(rule, G) = 4 * c.award /\ Adds(rule, H) = 0
         /\ rule.id = bad => Adds(rule, G) = 0 /\ Adds(rule, H) <= 4 * c.award - 4
         /\ rule # c /\ rule.id # bad => Adds(rule, H) <= Adds(rule, G)
<1>1. /\ rule.award \in Nat /\ rule.cap \in Nat \cup {None} /\ MaxBonus \in Nat \cup {None}
      /\ c.award \in Nat /\ c.cap \in Nat \cup {None}
      /\ \A r \in ToSet(Rules) : r.id = c.id => r = c
  BY DEF FairRubric, ToSet
<1>2. /\ Award(rule, G) \in 0 .. 4 * rule.award /\ Award(rule, H) \in 0 .. 4 * rule.award
      /\ rule.id # "D-PARTIAL" => Award(rule, H) = Award(rule, G)
      /\ rule = c => Award(rule, G) = 4 * c.award
  <2>1. G.credit \in 0 .. 4 /\ H.credit \in 0 .. 4
    BY DEF IsOutcome
  <2> QED BY <1>1, <2>1, AwardIs
<1>3. Award(rule, G) \in Nat /\ Award(rule, H) \in Nat
  BY <1>1, <1>2
<1>4. CASE rule.id = "D-CORRECT"
  <2>1. rule = c /\ rule.id \in Implemented /\ bad # rule.id
    BY <1>1, <1>4 DEF Implemented
  <2>2. Fires(rule.id, G) /\ ~ Fires(rule.id, H)
    BY <1>4 DEF Fires
  <2> QED BY <1>2, <1>3, <2>1, <2>2 DEF Adds
<1>5. CASE rule.id = "D-PARTIAL"
  <2>1. rule # c /\ rule.id \in Implemented /\ rule.award < c.award
    BY <1>5 DEF Implemented
  <2>2. ~ Fires(rule.id, G) /\ (Fires(rule.id, H) => bad = rule.id)
    BY <1>5 DEF Fires
  <2>3. Adds(rule, G) = 0 /\ Adds(rule, H) \in {0, Award(rule, H)}
        /\ (bad # rule.id => Adds(rule, H) = 0)
    BY <2>1, <2>2 DEF Adds
  <2>4. Adds(rule, H) \in 0 .. 4 * rule.award
    BY <1>1, <1>2, <2>3
  <2> QED BY <1>1, <2>1, <2>3, <2>4
<1>6. CASE rule.id = "D-MISS"
  <2>1. rule # c /\ rule.id \in Implemented /\ rule.award < c.award
    BY <1>6 DEF Implemented
  <2>2. ~ Fires(rule.id, G) /\ (Fires(rule.id, H) => bad = rule.id)
    BY <1>6 DEF Fires
  <2>3. Adds(rule, G) = 0 /\ Adds(rule, H) \in {0, Award(rule, H)}
        /\ (bad # rule.id => Adds(rule, H) = 0)
    BY <2>1, <2>2 DEF Adds
  <2>4. Adds(rule, H) \in 0 .. 4 * rule.award
    BY <1>1, <1>2, <2>3
  <2> QED BY <1>1, <2>1, <2>3, <2>4
<1>7. CASE rule.id \notin {"D-CORRECT", "D-PARTIAL", "D-MISS"}
  <2>1. rule # c /\ rule.id # bad /\ Award(rule, H) = Award(rule, G)
    BY <1>2, <1>7
  <2>2. rule.id \in Implemented /\ Fires(rule.id, H) => Fires(rule.id, G)
    <3>1. CASE rule.id = "D-WITHIN-TOLERANCE"
      BY <3>1 DEF Fires
    <3>2. CASE rule.id = "D-CALIBRATION"
      BY <3>2 DEF Fires
    <3>3. CASE rule.id = "D-FAST-AND-CORRECT"
      BY <3>3 DEF Fires
    <3> QED BY <1>7, <3>1, <3>2, <3>3 DEF Implemented
  <2> QED BY <1>3, <2>1, <2>2 DEF Adds
<1> QED BY <1>4, <1>5, <1>6, <1>7

LEMMA TotalsCompared ==
  ASSUME FairRubric, NEW G, NEW H, G.matched = "accept", H.matched # "accept",
         IsOutcome(G), IsOutcome(H), H.within = "inside" => G.within = "inside",
         G.confidence = H.confidence, ~ G.in_time
  PROVE  evaluate(G).total > evaluate(H).total
<1> DEFINE bad == IF H.matched = "partial" THEN "D-PARTIAL" ELSE "D-MISS"
           m == Len(Rules)
<1>1. PICK c \in ToSet(Rules) :
        /\ c.id = "D-CORRECT" /\ c.cap = None /\ c.award > 0
        /\ \A r \in ToSet(Rules) : r.id \in {"D-PARTIAL", "D-MISS"} => r.award < c.award
  BY DEF FairRubric
<1>2. c.award \in Nat \ {0} /\ c.id # bad
  BY <1>1 DEF FairRubric
<1>3. Rules \in Seq(ToSet(Rules)) /\ \A i, j \in DOMAIN Rules : Rules[i].id = Rules[j].id => i = j
  BY DEF FairRubric, IsList
<1>4. m \in Nat /\ DOMAIN Rules = 1 .. m /\ ToSet(Rules) = {Rules[i] : i \in 1 .. m}
  BY <1>3, PositionsOfSet
<1> HIDE DEF bad, m
<1> DEFINE Add(i, facts) == Adds(Rules[i], facts)
<1>5. ASSUME NEW i \in 1 .. m
      PROVE  /\ Add(i, G) \in Int /\ Add(i, H) \in Int
             /\ Rules[i] = c => Add(i, G) = 4 * c.award /\ Add(i, H) = 0
             /\ Rules[i].id = bad => Add(i, G) = 0 /\ Add(i, H) <= 4 * c.award - 4
             /\ Rules[i] # c /\ Rules[i].id # bad => Add(i, H) <= Add(i, G)
  <2>1. Rules[i] \in ToSet(Rules)
    BY <1>4
  <2> QED BY <1>1, <2>1, AddsCompared DEF bad
<1>6. PICK g \in [0 .. m -> Int] :
        /\ g[0] = 0 /\ evaluate(G).total = g[m]
        /\ \A n \in 1 .. m : g[n] = g[n - 1] + Add(n, G)
  BY <1>3, <1>5, TotalIs DEF IsList, m
<1>7. PICK h \in [0 .. m -> Int] :
        /\ h[0] = 0 /\ evaluate(H).total = h[m]
        /\ \A n \in 1 .. m : h[n] = h[n - 1] + Add(n, H)
  BY <1>3, <1>5, TotalIs DEF IsList, m
<1> HIDE DEF Add
<1> DEFINE WithC(n) == \E i \in 1 .. n : Rules[i] = c
           WithBad(n) == \E i \in 1 .. n : Rules[i].id = bad
           C(n) == IF WithC(n) THEN 4 * c.award ELSE 0
           B(n) == IF WithBad(n) THEN 4 * c.award - 4 ELSE 0
           Ahead == {n \in Nat : n <= m => g[n] - h[n] >= C(n) - B(n)}
<1>8. 0 \in Ahead
  <2>1. ~ WithC(0) /\ ~ WithBad(0)
    OBVIOUS
  <2> HIDE DEF WithC, WithBad
  <2> QED BY <1>6, <1>7, <2>1
<1>9. ASSUME NEW n \in Nat, n \in Ahead PROVE n + 1 \in Ahead
  <2> SUFFICES ASSUME n + 1 <= m PROVE g[n + 1] - h[n + 1] >= C(n + 1) - B(n + 1)
    <3> HIDE DEF C, B
    <3> QED OBVIOUS
  <2> DEFINE k == n + 1
  <2>1. k \in 1 .. m /\ k - 1 = n /\ n \in 0 .. m /\ k \in 0 .. m
    BY <1>4
  <2>2. g[n] - h[n] >= C(n) - B(n) /\ g[n] \in Int /\ h[n] \in Int
    <3> HIDE DEF C, B
    <3> QED BY <1>6, <1>7, <1>9, <2>1
  <2>3. g[k] = g[n] + Add(k, G) /\ h[k] = h[n] + Add(k, H)
    BY <1>6, <1>7, <2>1
  <2>4. \A i \in 1 .. n : i \in 1 .. m /\ i # k
    BY <1>4, <2>1
  <2>5. 1 .. k = 1 .. n \cup {k}
    BY <2>1
  <2>6. WithC(k) <=> WithC(n) \/ Rules[k] = c
    BY <2>5
  <2>7. WithBad(k) <=> WithBad(n) \/ Rules[k].id = bad
    BY <2>5
  <2>8. Rules[k] = c => ~ WithC(n)
    BY <1>3, <1>4, <2>1, <2>4
  <2>9. Rules[k].id = bad => ~ WithBad(n)
    BY <1>3, <1>4, <2>1, <2>4
  <2> HIDE DEF WithC, WithBad, k
  <2>10. Add(k, G) \in Int /\ Add(k, H) \in Int
    BY <1>5, <2>1
  <2>11. CASE Rules[k] = c
    <3>1. Add(k, G) = 4 * c.award /\ Add(k, H) = 0 /\ Rules[k].id # bad
      BY <1>2, <1>5, <2>1, <2>11
    <3>2. C(n) = 0 /\ C(k) = 4 * c.award /\ B(k) = B(n)
      BY <2>6, <2>7, <2>8, <2>11, <3>1
    <3>3. B(n) \in Int
      BY <1>2
    <3> HIDE DEF B, C
    <3> QED BY <1>2, <2>2, <2>3, <3>1, <3>2, <3>3 DEF k
  <2>12. CASE Rules[k].id = bad
    <3>1. Add(k, G) = 0 /\ Add(k, H) <= 4 * c.award - 4 /\ Rules[k] # c
      BY <1>2, <1>5, <2>1, <2>12
    <3>2. B(n) = 0 /\ B(k) = 4 * c.award - 4 /\ C(k) = C(n)
      BY <2>6, <2>7, <2>9, <2>12, <3>1
    <3>3. C(n) \in Int
      BY <1>2
    <3> HIDE DEF B, C
    <3> QED BY <1>2, <2>2, <2>3, <2>10, <3>1, <3>2, <3>3 DEF k
  <2>13. CASE Rules[k] # c /\ Rules[k].id # bad
    <3>1. Add(k, H) <= Add(k, G)
      BY <1>5, <2>1, <2>13
    <3>2. B(k) = B(n) /\ C(k) = C(n)
      BY <2>6, <2>7, <2>13
    <3>3. C(n) \in Int /\ B(n) \in Int
      BY <1>2
    <3> HIDE DEF B, C
    <3> QED BY <2>2, <2>3, <2>10, <3>1, <3>2, <3>3 DEF k
  <2> QED BY <2>11, <2>12, <2>13
<1>10. g[m] - h[m] >= C(m) - B(m)
  <2>1. Nat \subseteq Ahead
    <3> HIDE DEF Ahead
    <3> QED BY <1>8, <1>9, SetInduction
  <2> HIDE DEF C, B
  <2> QED BY <2>1, <1>4
<1>11. C(m) = 4 * c.award /\ B(m) \in 0 .. 4 * c.award - 4
  <2>1. WithC(m)
    BY <1>4
  <2> HIDE DEF WithC, WithBad
  <2> QED BY <1>2, <2>1
<1> HIDE DEF C, B
<1>12. g[m] \in Int /\ h[m] \in Int
  BY <1>4, <1>6, <1>7
<1>13. g[m] > h[m]
  BY <1>2, <1>10, <1>11, <1>12
<1> QED BY <1>6, <1>7, <1>13

-----------------------------------------------------------------------------
(* Marks *)

\* Of some outcomes the last of which is one, the first.
LEMMA FirstOfIs ==
  ASSUME NEW list, Len(list) \in Nat \ {0}, list[Len(list)] # None
  PROVE  \E i \in 1 .. Len(list) : FirstOf(list) = list[i] /\ list[i] # None
<1> DEFINE I == {i \in 1 .. Len(list) : list[i] # None}
<1>1. I \in SUBSET Nat /\ I # {}
  OBVIOUS
<1>2. Min(I) \in I
  <2> HIDE DEF I
  <2> QED BY <1>1, MinOf
<1>3. FirstOf(list) = list[Min(I)]
  BY <1>1 DEF FirstOf, SelectInSeq
<1> HIDE DEF I
<1> QED BY <1>2, <1>3 DEF I

\* A key whose partial answers have credits within a full one.
FairKey(key) == IsList(key.partial) /\ \A p \in ToSet(key.partial) : p.credit \in 0 .. FullCredit

LEMMA PartialIs ==
  ASSUME NEW text, NEW key, FairKey(key)
  PROVE  Partial(text, key) = None
         \/ \E credit \in 0 .. 4 : Partial(text, key) = Outcome("partial", credit, "unasked", None)
<1> DEFINE I == {i \in 1 .. Len(key.partial) : Normalised(key.partial[i].text) = Normalised(text)}
           at == SelectInSeq(key.partial, LAMBDA p : Normalised(p.text) = Normalised(text))
<1>1. at = IF I # {} THEN Min(I) ELSE 0
  BY DEF SelectInSeq
<1>2. Partial(text, key) = IF at = 0 THEN None
                           ELSE Outcome("partial", key.partial[at].credit, "unasked", None)
  BY DEF Partial
<1>3. I \in SUBSET Nat /\ I \subseteq 1 .. Len(key.partial)
  OBVIOUS
<1> HIDE DEF at, I
<1>4. CASE at = 0
  BY <1>2, <1>4
<1>5. CASE at # 0
  <2>1. at \in 1 .. Len(key.partial)
    BY <1>1, <1>3, <1>5, MinOf
  <2>2. key.partial[at] \in ToSet(key.partial)
    BY <2>1, PositionsOfSet DEF FairKey, IsList
  <2>3. key.partial[at].credit \in 0 .. 4
    BY <2>2 DEF FairKey, FullCredit
  <2> QED BY <1>2, <1>5, <2>3
<1> QED BY <1>4, <1>5

LEMMA RejectIs ==
  ASSUME NEW text, NEW key, NEW within
  PROVE  Reject(text, key, within) = None
         \/ \E why : Reject(text, key, within) = Outcome("reject", 0, within, why)
BY DEF Reject

\* An outcome that is no accept, of a question that asks for a number or not.
Lesser(o, number) ==
  /\ o.matched \in {"partial", "reject", "none", "unscorable"} /\ o.credit \in 0 .. 4
  /\ ~ number => o.within = "unasked"

\* What is left when nothing was accepted: a partial answer, a miss, or nothing.
LEMMA WhatIsLeft ==
  ASSUME NEW text, NEW key, FairKey(key)
  PROVE  /\ Lesser(FirstOf(<<Partial(text, key), Reject(text, key, "unasked"), Unmatched>>), FALSE)
         /\ Lesser(FirstOf(<<Reject(text, key, "outside"), Outcome("none", 0, "outside", None)>>), TRUE)
<1>1. \A o : Lesser(o, FALSE) => Lesser(o, TRUE)
  BY DEF Lesser
<1>2. Lesser(Unmatched, FALSE) /\ Unmatched # None
  BY OutcomesAssumption DEF Lesser, Unmatched, Outcome
<1>3. /\ Lesser(Outcome("none", 0, "outside", None), TRUE)
      /\ Outcome("none", 0, "outside", None) # None
  BY OutcomesAssumption DEF Lesser, Outcome
<1>4. Partial(text, key) # None => Lesser(Partial(text, key), FALSE)
  <2>1. \A credit \in 0 .. 4 : Lesser(Outcome("partial", credit, "unasked", None), FALSE)
    BY DEF Lesser, Outcome
  <2> QED BY <2>1, PartialIs
<1>5. /\ Reject(text, key, "unasked") # None => Lesser(Reject(text, key, "unasked"), FALSE)
      /\ Reject(text, key, "outside") # None => Lesser(Reject(text, key, "outside"), TRUE)
  <2>1. \A why : /\ Lesser(Outcome("reject", 0, "unasked", why), FALSE)
                 /\ Lesser(Outcome("reject", 0, "outside", why), TRUE)
    BY DEF Lesser, Outcome
  <2> QED BY <2>1, RejectIs
<1> DEFINE x == Partial(text, key)
           y == Reject(text, key, "unasked")
           z == Reject(text, key, "outside")
           none == Outcome("none", 0, "outside", None)
<1> HIDE DEF x, y, z, none
<1>6. Lesser(FirstOf(<<x, y, Unmatched>>), FALSE)
  <2>1. PICK i \in 1 .. Len(<<x, y, Unmatched>>) :
          /\ FirstOf(<<x, y, Unmatched>>) = <<x, y, Unmatched>>[i]
          /\ <<x, y, Unmatched>>[i] # None
    <3> DEFINE list == <<x, y, Unmatched>>
    <3>1. Len(list) = 3 /\ list[3] = Unmatched
      OBVIOUS
    <3> HIDE DEF list
    <3>2. Len(list) \in Nat \ {0} /\ list[Len(list)] # None
      BY <3>1, <1>2
    <3>3. \E i \in 1 .. Len(list) : FirstOf(list) = list[i] /\ list[i] # None
      BY ONLY <3>2, FirstOfIs
    <3> QED BY <3>3 DEF list
  <2>2. \/ FirstOf(<<x, y, Unmatched>>) = x /\ x # None
        \/ FirstOf(<<x, y, Unmatched>>) = y /\ y # None
        \/ FirstOf(<<x, y, Unmatched>>) = Unmatched
    BY <2>1
  <2> QED BY <2>2, <1>2, <1>4, <1>5 DEF x, y
<1>7. Lesser(FirstOf(<<z, none>>), TRUE)
  <2>1. PICK i \in 1 .. Len(<<z, none>>) :
          FirstOf(<<z, none>>) = <<z, none>>[i] /\ <<z, none>>[i] # None
    <3> DEFINE list == <<z, none>>
    <3>1. Len(list) = 2 /\ list[2] = none
      OBVIOUS
    <3> HIDE DEF list
    <3>2. none # None
      BY <1>3 DEF none
    <3>3. Len(list) \in Nat \ {0} /\ list[Len(list)] # None
      BY <3>1, <3>2
    <3>4. \E i \in 1 .. Len(list) : FirstOf(list) = list[i] /\ list[i] # None
      BY ONLY <3>3, FirstOfIs
    <3> QED BY <3>4 DEF list
  <2>2. \/ FirstOf(<<z, none>>) = z /\ z # None
        \/ FirstOf(<<z, none>>) = none
    BY <2>1
  <2> QED BY <2>2, <1>3, <1>5 DEF z, none
<1> QED BY <1>6, <1>7 DEF x, y, z, none

\* What match() makes of a text: an accept, whose number was near enough where one was
\* asked for, or less.
Shaped(o, number) ==
  \/ o.matched = "accept" /\ o.credit = 4 /\ o.within = IF number THEN "inside" ELSE "unasked"
  \/ Lesser(o, number)

LEMMA DerivedIs ==
  ASSUME NEW text, NEW key, FairKey(key), NEW derived
  PROVE  /\ Shaped(MatchDerivedText(text, key, derived), FALSE)
         /\ MatchDerivedText(text, key, derived).matched = "accept" =>
              /\ ~ Contradicted(Normalised(text), derived.directions)
              /\ \E w \in ToSet(Closed(Normalised(text))) \cap DOMAIN StemOf :
                   StemOf[w] \in derived.directions
<1> DEFINE typed == Normalised(text)
           read == \E w \in ToSet(Closed(typed)) \cap DOMAIN StemOf : StemOf[w] \in derived.directions
           left == FirstOf(<<Partial(text, key), Reject(text, key, "unasked"), Unmatched>>)
           o == MatchDerivedText(text, key, derived)
           denied == Contradicted(typed, derived.directions)
<1>1. o = CASE derived.directions = {} -> Unscorable
            [] derived.directions # {} /\ denied -> Unmatched
            [] OTHER -> IF read THEN Accepted ELSE left
  BY DEF MatchDerivedText
<1>2. Lesser(left, FALSE)
  BY WhatIsLeft
<1>3. Lesser(Unscorable, FALSE) /\ Lesser(Unmatched, FALSE)
  BY DEF Lesser, Unscorable, Unmatched, Outcome
<1>4. Shaped(Accepted, FALSE) /\ Accepted.matched = "accept"
  BY DEF Shaped, Accepted, Outcome, FullCredit
<1>5. \A x : Lesser(x, FALSE) => Shaped(x, FALSE) /\ x.matched # "accept"
  BY DEF Lesser, Shaped
<1> HIDE DEF left, o, read, denied
<1>6. CASE derived.directions = {}
  BY <1>1, <1>3, <1>5, <1>6 DEF o
<1>7. CASE derived.directions # {} /\ denied
  BY <1>1, <1>3, <1>5, <1>7 DEF o
<1>8. CASE derived.directions # {} /\ ~ denied
  <2>1. o = IF read THEN Accepted ELSE left
    BY <1>1, <1>8
  <2>2. CASE read
    BY <2>1, <2>2, <1>4, <1>8 DEF o, read, denied
  <2>3. CASE ~ read
    BY <2>1, <2>3, <1>2, <1>5 DEF o
  <2> QED BY <2>2, <2>3
<1> QED BY <1>6, <1>7, <1>8

LEMMA NumericIs ==
  ASSUME NEW text, NEW key, FairKey(key), NEW derived
  PROVE  /\ Shaped(MatchNumeric(text, key, derived), TRUE)
         /\ MatchNumeric(text, key, derived).matched = "accept" /\ derived.directions # {} =>
              /\ Numeric(text) # None /\ Expected(key, derived) # None
              /\ Within(Magnitude(Numeric(text)), Magnitude(Expected(key, derived)), key.tolerance)
              /\ MatchDerivedText(text, key, derived).matched = "accept"
<1> DEFINE given == Numeric(text)
           expected == Expected(key, derived)
           off == Outcome("none", 0, "outside", None)
           near == Outcome("accept", FullCredit, "inside", None)
           half == Outcome("partial", PartialDirectionCredit, "inside", None)
           left == FirstOf(<<Reject(text, key, "outside"), off>>)
           both == MatchMagnitudeAndDirection(text, key, derived, given, expected)
           close == Within(Magnitude(given), Magnitude(expected), key.tolerance)
           read == MatchDerivedText(text, key, derived).matched = "accept"
           o == MatchNumeric(text, key, derived)
<1>1. o = IF expected = None THEN Unscorable
          ELSE IF given = None THEN Unmatched
          ELSE IF derived.directions # {} THEN both
          ELSE IF Within(given, expected, key.tolerance) THEN near ELSE left
  BY DEF MatchNumeric
<1>2. both = CASE ~ close -> off [] ~ read -> half [] OTHER -> near
  BY DEF MatchMagnitudeAndDirection
<1>3. Lesser(left, TRUE)
  BY WhatIsLeft
<1>4. Lesser(Unscorable, TRUE) /\ Lesser(Unmatched, TRUE) /\ Lesser(off, TRUE) /\ Lesser(half, TRUE)
  BY DEF Lesser, Unscorable, Unmatched, Outcome, PartialDirectionCredit
<1>5. Shaped(near, TRUE)
  BY DEF Shaped, Outcome, FullCredit
<1>6. \A x : Lesser(x, TRUE) => Shaped(x, TRUE) /\ x.matched # "accept"
  BY DEF Lesser, Shaped
<1> HIDE DEF left, o, both, near, off, half, close, read, given, expected
<1>7. CASE expected = None \/ given = None
  BY <1>1, <1>4, <1>6, <1>7 DEF o
<1>8. CASE expected # None /\ given # None /\ derived.directions # {}
  <2>1. o = both
    BY <1>1, <1>8
  <2>2. CASE close /\ read
    <3>1. Shaped(o, TRUE)
      BY <1>2, <1>5, <2>1, <2>2
    <3> QED BY <3>1, <1>8, <2>2 DEF o, close, read, given, expected
  <2>3. CASE ~ (close /\ read)
    <3>1. o = off \/ o = half
      BY <1>2, <2>1, <2>3
    <3> QED BY <3>1, <1>4, <1>6 DEF o
  <2> QED BY <2>2, <2>3
<1>9. CASE expected # None /\ given # None /\ derived.directions = {}
  <2>1. o = near \/ o = left
    BY <1>1, <1>9
  <2> QED BY <2>1, <1>3, <1>5, <1>6, <1>9 DEF o
<1> QED BY <1>7, <1>8, <1>9

LEMMA MatchIs ==
  ASSUME NEW text, NEW key, FairKey(key), NEW derived
  PROVE  /\ Shaped(Match(text, key, derived), key.format = "numeric_estimate")
         /\ Match(text, key, derived).matched = "accept" /\ key.format = "numeric_estimate" =>
              Match(text, key, derived) = MatchNumeric(text, key, derived)
         /\ Match(text, key, derived).matched = "accept" /\ key.format # "numeric_estimate"
              /\ Sentinel \in ToSet(key.accept) =>
              Match(text, key, derived) = MatchDerivedText(text, key, derived)
<1> DEFINE o == Match(text, key, derived)
           number == key.format = "numeric_estimate"
           n == MatchNumeric(text, key, derived)
           t == MatchDerivedText(text, key, derived)
           a == MatchText(text, key)
<1>1. o = IF Len(text) > MaxLength THEN Unmatched
          ELSE IF number THEN n
          ELSE IF Sentinel \in ToSet(key.accept) THEN t ELSE a
  BY DEF Match
<1>2. Lesser(Unmatched, number) /\ Unmatched.matched # "accept"
  BY DEF Lesser, Unmatched, Outcome
<1>3. Shaped(n, TRUE) /\ Shaped(t, FALSE)
  BY NumericIs, DerivedIs
<1>4. Shaped(a, FALSE)
  <2> DEFINE same == \E x \in ToSet(key.accept) : Normalised(x) = Normalised(text)
             left == FirstOf(<<Partial(text, key), Reject(text, key, "unasked"), Unmatched>>)
  <2>1. a = IF same THEN Accepted ELSE left
    BY DEF MatchText
  <2>2. Shaped(Accepted, FALSE)
    BY DEF Shaped, Accepted, Outcome, FullCredit
  <2>3. Shaped(left, FALSE)
    BY WhatIsLeft DEF Shaped
  <2> HIDE DEF same, left
  <2> QED BY <2>1, <2>2, <2>3
<1> HIDE DEF o, n, t, a
<1>5. CASE Len(text) > MaxLength
  BY <1>1, <1>2, <1>5 DEF o, Shaped
<1>6. CASE ~ Len(text) > MaxLength /\ number
  <2>1. o = n /\ number = TRUE
    BY <1>1, <1>6
  <2> HIDE DEF number
  <2> QED BY <1>3, <2>1 DEF o, n, number
<1>7. CASE ~ Len(text) > MaxLength /\ ~ number
  <2>1. number = FALSE /\ (o = t \/ o = a) /\ (Sentinel \in ToSet(key.accept) => o = t)
    BY <1>1, <1>7
  <2> HIDE DEF number
  <2>2. Shaped(o, number)
    BY <1>3, <1>4, <2>1
  <2> QED BY <2>1, <2>2 DEF o, t, number
<1> QED BY <1>5, <1>6, <1>7

\* What an answer to the drill on screen is marked.
LEMMA OutcomeIs ==
  ASSUME TypeOK, screen # None, NEW r \in Readings
  PROVE  /\ ItemOf(screen.item) \in Items /\ screen.drawn \in Drawn(ItemOf(screen.item))
         /\ OutcomeOf(r.text) = Match(r.text, ItemOf(screen.item).key, screen.drawn)
<1> DEFINE d == ItemOf(screen.item)
<1>1. d \in Items
  <2>1. screen.item \in Ids /\ deployed \in DOMAIN Trees
    BY DEF TypeOK, Ids
  <2> QED BY <2>1, ItemOfIds, ContentFacts
<1>2. screen.drawn \in Drawn(d)
  BY DEF TypeOK
<1> HIDE DEF d
<1>3. Marks[d] = [drawn \in Drawn(d) |->
                    [text \in {q.text : q \in Readings} |-> Match(text, d.key, drawn)]]
  BY <1>1 DEF Marks
<1>4. Marks[d][screen.drawn][r.text] = Match(r.text, d.key, screen.drawn)
  BY <1>2, <1>3
<1> QED BY <1>1, <1>2, <1>4 DEF OutcomeOf, d

LEMMA RightEarnsMoreHolds ==
  ASSUME FairRubric, FairCredits, TypeOK
  PROVE  RightEarnsMore
<1> SUFFICES ASSUME screen # None, NEW a \in Readings, NEW b \in Readings,
                    OutcomeOf(a.text).matched = "accept", OutcomeOf(b.text).matched # "accept"
             PROVE  Points(OutcomeOf(a.text), FALSE) > Points(OutcomeOf(b.text), TRUE)
  BY DEF RightEarnsMore
<1> DEFINE key == ItemOf(screen.item).key
           number == key.format = "numeric_estimate"
           o == OutcomeOf(a.text)
           p == OutcomeOf(b.text)
           G == [matched |-> o.matched, within |-> o.within, credit |-> o.credit,
                 confidence |-> 3, in_time |-> FALSE]
           H == [matched |-> p.matched, within |-> p.within, credit |-> p.credit,
                 confidence |-> 3, in_time |-> TRUE]
<1>1. FairKey(key)
  BY OutcomeIs DEF FairCredits, FairKey
<1>2. Shaped(o, number) /\ Shaped(p, number)
  <2>1. \A r \in Readings : Shaped(OutcomeOf(r.text), number)
    BY <1>1, OutcomeIs, MatchIs
  <2> QED BY <2>1
<1> HIDE DEF o, p, number
<1>3. IsOutcome(G) /\ G.matched = "accept" /\ IsOutcome(H) /\ H.matched # "accept"
  BY <1>2 DEF Shaped, Lesser, IsOutcome, o, p
<1>4. H.within = "inside" => G.within = "inside"
  BY <1>2, <1>3 DEF Shaped, Lesser
<1>5. G.confidence = H.confidence /\ ~ G.in_time
  OBVIOUS
<1>6. Points(o, FALSE) = evaluate(G).total /\ Points(p, TRUE) = evaluate(H).total
  BY DEF Points
<1> HIDE DEF G, H
<1>7. evaluate(G).total > evaluate(H).total
  BY <1>3, <1>4, <1>5, TotalsCompared
<1> QED BY <1>6, <1>7 DEF o, p

\* Where the rubric and the credits are fair, as the shipped ones are, every answer marked
\* right earns more than every other, however slow the one and fast the other, whatever
\* rules the rubric has beside (evaluator.py evaluate(), _award(); matching.py match()).
THEOREM DaysRightEarnsMore ==
  ASSUME FairRubric, FairCredits
  PROVE  Spec => []RightEarnsMore
<1>1. TypeOK => RightEarnsMore
  BY RightEarnsMoreHolds
<1> QED BY DaysTypeOK, <1>1, PTL

\* An answer marked right says a direction that was drawn and no other, and denies none of
\* them in the words the matcher looks for; and its number, where one is asked for, is near
\* the expected.  Other denials pass: the gaps _contradicted() names.
AcceptedIsRead ==
  screen # None /\ screen.drawn.directions # {} =>
    LET key == ItemOf(screen.item).key
        drawn == screen.drawn
        Said(text) == {StemOf[w] : w \in ToSet(Closed(text)) \cap DOMAIN StemOf}
    IN  \A r \in Readings : OutcomeOf(r.text).matched = "accept" =>
          /\ Said(Normalised(r.text)) \cap drawn.directions # {}
          /\ DirectionsNamed(Normalised(r.text)) \subseteq drawn.directions
          /\ \A d \in drawn.directions : ~ Denies(Normalised(r.text), d)
          /\ key.format = "numeric_estimate" =>
               Within(Magnitude(Numeric(r.text)), Magnitude(Expected(key, drawn)), key.tolerance)

LEMMA AcceptedIsReadHolds ==
  ASSUME FairCredits, TypeOK
  PROVE  AcceptedIsRead
<1> DEFINE key == ItemOf(screen.item).key
           drawn == screen.drawn
           Said(text) == {StemOf[w] : w \in ToSet(Closed(text)) \cap DOMAIN StemOf}
<1> SUFFICES ASSUME screen # None, drawn.directions # {},
                    NEW r \in Readings, OutcomeOf(r.text).matched = "accept"
             PROVE  /\ Said(Normalised(r.text)) \cap drawn.directions # {}
                    /\ DirectionsNamed(Normalised(r.text)) \subseteq drawn.directions
                    /\ \A d \in drawn.directions : ~ Denies(Normalised(r.text), d)
                    /\ key.format = "numeric_estimate" =>
                         Within(Magnitude(Numeric(r.text)), Magnitude(Expected(key, drawn)),
                                key.tolerance)
  BY DEF AcceptedIsRead
<1>1. FairKey(key) /\ drawn \in Drawn(ItemOf(screen.item))
      /\ OutcomeOf(r.text) = Match(r.text, key, drawn)
  BY OutcomeIs DEF FairCredits, FairKey
<1>2. Sentinel \in ToSet(key.accept)
  <2>1. Computed(ItemOf(screen.item))
    BY <1>1 DEF Drawn
  <2> QED BY <2>1 DEF Computed
<1> HIDE DEF key, drawn
<1>3. Match(r.text, key, drawn).matched = "accept"
  <2>1. OutcomeOf(r.text).matched = "accept"
    OBVIOUS
  <2> QED BY <1>1, <2>1
<1>4. ASSUME key.format = "numeric_estimate"
      PROVE  /\ MatchDerivedText(r.text, key, drawn).matched = "accept"
             /\ Within(Magnitude(Numeric(r.text)), Magnitude(Expected(key, drawn)), key.tolerance)
  <2>1. Match(r.text, key, drawn) = MatchNumeric(r.text, key, drawn)
    BY <1>1, <1>3, <1>4, MatchIs
  <2>2. MatchNumeric(r.text, key, drawn).matched = "accept"
    BY <1>3, <2>1
  <2>3. FairKey(key) /\ drawn.directions # {}
    BY <1>1
  <2> QED BY <2>2, <2>3, NumericIs
<1>5. MatchDerivedText(r.text, key, drawn).matched = "accept"
  <2>1. CASE key.format = "numeric_estimate"
    BY <1>4, <2>1
  <2>2. CASE key.format # "numeric_estimate"
    <3>1. Match(r.text, key, drawn) = MatchDerivedText(r.text, key, drawn)
      BY <1>1, <1>2, <1>3, <2>2, MatchIs
    <3> QED BY <1>3, <3>1
  <2> QED BY <2>1, <2>2
<1>6. ~ Contradicted(Normalised(r.text), drawn.directions)
      /\ \E w \in ToSet(Closed(Normalised(r.text))) \cap DOMAIN StemOf :
           StemOf[w] \in drawn.directions
  BY <1>1, <1>5, DerivedIs
<1> QED BY <1>4, <1>6 DEF Contradicted

\* Whatever the words, their stems, compounds, negations and motion words are: no answer is
\* marked right that names a direction that was not drawn, names none, or denies a drawn one
\* in those words (matching.py match_derived_text(), _contradicted()).
THEOREM DaysAcceptedIsRead ==
  ASSUME FairCredits
  PROVE  Spec => []AcceptedIsRead
<1>1. TypeOK => AcceptedIsRead
  BY AcceptedIsReadHolds
<1> QED BY DaysTypeOK, <1>1, PTL

=============================================================================
