------------------------ MODULE OperatorInterfaceProofs ------------------------
(***************************************************************************)
(* Whatever the number of drills and of requests in flight: the screen's    *)
(* type, what an answer is sent for, and the way on.                        *)
(***************************************************************************)
EXTENDS OperatorInterface, TLAPS

\* What is typed and chosen belongs to the drill in state.drill, unless that one came
\* garbled; and a form that is shown has its drill's plots beside it, and in its view the
\* drill's prompt too, unless a load failed and the banner says so.
Belongs ==
  /\ drill # Garbled => text \in {None, drill}
  /\ sure \in {None, drill}
  /\ form => drill \in plots \cup {Garbled}
  /\ view = "drill" /\ form /\ drill # Garbled => prompt = drill \/ said

IInv == TypeOK /\ Belongs /\ AnswersWhatWasRead /\ AlwaysAWayOn

\* None, a garbled drill and the drills are told apart.
LEMMA Apart == None # Garbled /\ None \notin Drills /\ Garbled \notin Drills
  BY NoDrillAssumption DEF Drills

\* At boot nothing is on the screen, and nothing is promised of the session view.
LEMMA IInvInit == Init => IInv
<1> SUFFICES ASSUME Init PROVE IInv
  OBVIOUS
<1>1. 0 \in 0 .. MaxLoads /\ 2 \in 0 .. MaxOthers /\ 0 \in 0 .. MaxDrills
  BY RequestsAssumption, DrillsAssumption
<1>2. TypeOK
  BY <1>1 DEF Init, TypeOK, Views
<1>3. Belongs
  BY Apart DEF Init, Belongs
<1>4. AnswersWhatWasRead /\ AlwaysAWayOn
  BY DEF Init, AnswersWhatWasRead, AlwaysAWayOn
<1> QED BY <1>2, <1>3, <1>4 DEF IInv

\* Starting a load hides the form and the debrief together.
LEMMA LoadKeeps ==
  ASSUME IInv, LoadDrill, view' \in Views
  PROVE  IInv'
<1>1. loads' \in 0 .. MaxLoads /\ loads' # 0
  BY RequestsAssumption DEF LoadDrill, IInv, TypeOK
<1>2. TypeOK'
  BY <1>1 DEF LoadDrill, IInv, TypeOK
<1>3. Belongs' /\ AnswersWhatWasRead'
  BY DEF LoadDrill, IInv, Belongs, AnswersWhatWasRead
<1>4. AlwaysAWayOn'
  BY <1>1 DEF AlwaysAWayOn
<1> QED BY <1>2, <1>3, <1>4 DEF IInv

\* The other views touch the banner alone, and clear it only on leaving the drill.
LEMMA OtherKeeps ==
  ASSUME IInv, NEW name \in Views \ {"drill"}, LoadOther(name), view' = name
  PROVE  IInv'
<1>1. others' \in 0 .. MaxOthers
  BY RequestsAssumption DEF LoadOther, IInv, TypeOK
<1>2. TypeOK'
  BY <1>1 DEF LoadOther, IInv, TypeOK
<1>3. Belongs' /\ AnswersWhatWasRead'
  BY DEF LoadOther, IInv, Belongs, AnswersWhatWasRead
<1>4. AlwaysAWayOn'
  BY DEF AlwaysAWayOn
<1> QED BY <1>2, <1>3, <1>4 DEF IInv

\* A drill's reply, in each of its three forms.
LEMMA ReplyKeeps ==
  ASSUME IInv, DrillArrives \/ DrillCut \/ DrillFails
  PROVE  IInv'
<1>1. CASE DrillArrives
  <2>1. served' \in Drills /\ served' \in 0 .. MaxDrills
    BY <1>1, DrillsAssumption DEF DrillArrives, IInv, TypeOK, Drills
  <2>2. loads' \in 0 .. MaxLoads
    BY <1>1, RequestsAssumption DEF DrillArrives, IInv, TypeOK
  <2> QED
    BY <1>1, <2>1, <2>2, Apart
    DEF DrillArrives, IInv, TypeOK, Belongs, AnswersWhatWasRead, AlwaysAWayOn, Answer
<1>2. CASE DrillCut
  <2>1. loads' \in 0 .. MaxLoads
    BY <1>2, RequestsAssumption DEF DrillCut, IInv, TypeOK
  <2> QED
    BY <1>2, <2>1, Apart
    DEF DrillCut, IInv, TypeOK, Belongs, AnswersWhatWasRead, AlwaysAWayOn, Answer
<1>3. CASE DrillFails
  <2>1. loads' \in 0 .. MaxLoads
    BY <1>3, RequestsAssumption DEF DrillFails, IInv, TypeOK
  <2> QED
    BY <1>3, <2>1, Apart
    DEF DrillFails, IInv, TypeOK, Belongs, AnswersWhatWasRead, AlwaysAWayOn, Answer
<1> QED BY <1>1, <1>2, <1>3

\* Only a form that is shown can be used, and it shows the drill it is sent for.
LEMMA FormKeeps ==
  ASSUME IInv, Type \/ ChooseConfidence \/ SubmitAnswer
  PROVE  IInv'
<1>1. CASE Type
  <2>1. TypeOK'
    BY <1>1 DEF Type, IInv, TypeOK
  <2>2. Belongs' /\ AnswersWhatWasRead'
    BY <1>1, Zenon DEF Type, IInv, Belongs, AnswersWhatWasRead
  <2>3. AlwaysAWayOn'
    BY <1>1, Zenon DEF Type, IInv, AlwaysAWayOn
  <2> QED BY <2>1, <2>2, <2>3 DEF IInv
<1>2. CASE ChooseConfidence
  BY <1>2, Apart
  DEF ChooseConfidence, Answerable, IInv, TypeOK, Belongs, AnswersWhatWasRead, AlwaysAWayOn, Answer
<1>3. CASE SubmitAnswer
  <2>1. CASE text = None \/ (drill \in Calibrated /\ sure = None)
    <3>1. post' = post /\ said' = TRUE
      BY <1>3, <2>1 DEF SubmitAnswer
    <3>2. TypeOK'
      BY <1>3, <3>1 DEF SubmitAnswer, IInv, TypeOK
    <3>3. Belongs' /\ AnswersWhatWasRead'
      BY <1>3, <3>1 DEF SubmitAnswer, IInv, Belongs, AnswersWhatWasRead
    <3>4. AlwaysAWayOn'
      BY <3>1, Zenon DEF AlwaysAWayOn
    <3> QED BY <3>2, <3>3, <3>4 DEF IInv
  <2>2. CASE ~ (text = None \/ (drill \in Calibrated /\ sure = None))
    <3>1. post' = [run |-> drill, text |-> text, sure |-> sure, seen |-> drill \in plots]
      BY <1>3, <2>2 DEF SubmitAnswer
    <3>2. post' \in Answer
      BY <1>3, <2>2, <3>1 DEF SubmitAnswer, IInv, TypeOK, Answer
    <3>3. AnswersWhatWasRead'
      BY <1>3, <2>2, <3>1, Apart
      DEF SubmitAnswer, Answerable, IInv, TypeOK, Belongs, AnswersWhatWasRead
    <3>4. post' # None /\ form /\ ops
      BY <1>3, <2>2, <3>2, NoAnswerAssumption DEF SubmitAnswer, Answerable
    <3> QED
      BY <1>3, <2>2, <3>2, <3>3, <3>4, Apart
      DEF SubmitAnswer, Answerable, IInv, TypeOK, Belongs, AlwaysAWayOn
  <2> QED BY <2>1, <2>2
<1> QED BY <1>1, <1>2, <1>3

\* The end of an answer shows the debrief or says why there is none.
LEMMA AnswerKeeps ==
  ASSUME IInv, AnswerScored \/ AnswerFails \/ AnswerCut
  PROVE  IInv'
<1>1. CASE AnswerScored
  BY <1>1, Apart
  DEF AnswerScored, IInv, TypeOK, Belongs, AnswersWhatWasRead, AlwaysAWayOn, Answer
<1>2. CASE AnswerFails
  BY <1>2, Apart
  DEF AnswerFails, IInv, TypeOK, Belongs, AnswersWhatWasRead, AlwaysAWayOn, Answer
<1>3. CASE AnswerCut
  BY <1>3, Apart
  DEF AnswerCut, IInv, TypeOK, Belongs, AnswersWhatWasRead, AlwaysAWayOn, Answer
<1> QED BY <1>1, <1>2, <1>3

LEMMA IInvNext == IInv /\ [Next]_vars => IInv'
<1> SUFFICES ASSUME IInv, [Next]_vars PROVE IInv'
  OBVIOUS
<1>1. CASE \E name \in Views : Show(name)
  <2>1. PICK name \in Views : Show(name)
    BY <1>1
  <2>2. CASE name = "drill"
    BY <2>1, <2>2, LoadKeeps DEF Show
  <2>3. CASE name # "drill"
    BY <2>1, <2>3, OtherKeeps DEF Show
  <2> QED BY <2>2, <2>3
<1>2. CASE NextCue
  BY <1>2, LoadKeeps DEF NextCue, Views
<1>3. CASE OpenProcedure
  BY <1>3, OtherKeeps DEF OpenProcedure, Views
<1>4. CASE DrillArrives \/ DrillCut \/ DrillFails
  BY <1>4, ReplyKeeps
<1>5. CASE Type \/ ChooseConfidence \/ SubmitAnswer
  BY <1>5, FormKeeps
<1>6. CASE AnswerScored \/ AnswerFails \/ AnswerCut
  BY <1>6, AnswerKeeps
<1>7. CASE OtherEnds
  <2>1. others' \in 0 .. MaxOthers
    BY <1>7, RequestsAssumption DEF OtherEnds, IInv, TypeOK
  <2>2. said => said'
    BY <1>7 DEF OtherEnds
  <2>3. TypeOK'
    BY <1>7, <2>1, <2>2 DEF OtherEnds, IInv, TypeOK
  <2>4. Belongs' /\ AnswersWhatWasRead'
    BY <1>7, <2>2, Zenon DEF OtherEnds, IInv, Belongs, AnswersWhatWasRead
  <2>5. AlwaysAWayOn'
    BY <1>7, <2>2, Zenon DEF OtherEnds, IInv, AlwaysAWayOn
  <2> QED BY <2>3, <2>4, <2>5 DEF IInv
<1>8. CASE UNCHANGED vars
  BY <1>8 DEF vars, IInv, TypeOK, Belongs, AnswersWhatWasRead, AlwaysAWayOn, Answer
<1> QED
  BY <1>1, <1>2, <1>3, <1>4, <1>5, <1>6, <1>7, <1>8 DEF Next

LEMMA IInvHolds == Spec => []IInv
  BY IInvInit, IInvNext, PTL DEF Spec

\* The screen keeps its type, whatever is in flight (app.js, state and the panes).
THEOREM ScreenTypeCorrect == Spec => []TypeOK
<1>1. IInv => TypeOK BY DEF IInv
<1> QED BY <1>1, IInvHolds, PTL

\* An answer is sent for what the operator read (loadDrill() and submitAnswer()).
THEOREM ScreenAnswersWhatWasRead == Spec => []AnswersWhatWasRead
<1>1. IInv => AnswersWhatWasRead BY DEF IInv
<1> QED BY <1>1, IInvHolds, PTL

\* The drill view is never left mute (loadDrill() and renderReveal()).
THEOREM ScreenAlwaysAWayOn == Spec => []AlwaysAWayOn
<1>1. IInv => AlwaysAWayOn BY DEF IInv
<1> QED BY <1>1, IInvHolds, PTL
=============================================================================
