--------------------------- MODULE OperatorInterface ---------------------------
(***************************************************************************)
(* ui/app.js: the operator's screen.  One page, one thread, and requests    *)
(* that overlap: each handler runs to its await and again from it, answers  *)
(* come in any order, late, or never.  A drill is known by its run id.      *)
(***************************************************************************)
EXTENDS Naturals, NoValue

CONSTANTS
  Garbled,    \* the empty object api() makes of a reply whose body was cut off
  MaxDrills,  \* bound: drills the service hands out
  Calibrated, \* those whose confidence_required is set
  MaxLoads,   \* bound: requests for a drill in flight together
  MaxOthers   \* bound: requests of the other views in flight together

Drills == 1 .. MaxDrills
Views == {"session", "drill", "progress", "library"}

\* The body of a POST, and whether its drill's plots were on the screen.
Answer == [run : Drills \cup {Garbled}, text : Drills \cup {Garbled},
           sure : Drills \cup {None, Garbled}, seen : BOOLEAN]

ASSUME DrillsAssumption == MaxDrills \in Nat /\ Calibrated \subseteq Drills
ASSUME NoDrillAssumption == {None, Garbled} \cap Nat = {} /\ None # Garbled
ASSUME NoAnswerAssumption == None \notin Answer
ASSUME RequestsAssumption == MaxLoads \in Nat \ {0} /\ MaxOthers \in Nat /\ MaxOthers > 1

VARIABLES
  view,    \* the view that is not hidden
  drill,   \* state.drill
  prompt,  \* the drill whose prompt is on the screen, or None: it says there is none yet
  text,    \* the drill on screen when the response was typed, or None: no response
  sure,    \* the drill on screen when the confidence was chosen, or None: none chosen
  form,    \* is the answer form shown?
  ops,     \* is the drill's pane shown?
  reveal,  \* the drill whose debrief is shown, or None: the debrief is hidden
  plots,   \* the drills whose plots are drawn
  said,    \* does the banner say something?
  loads,   \* requests for a drill in flight
  others,  \* requests of the other views in flight
  post,    \* the answer in flight, or None; state.busy is post # None
  served   \* drills handed out so far

vars == <<view, drill, prompt, text, sure, form, ops, reveal, plots, said, loads, others,
          post, served>>

\* What the operator can reach and use.
Answerable == view = "drill" /\ ops /\ form

-----------------------------------------------------------------------------
(* The drill view *)

\* Mutant: the drill's pane stays as the debrief left it.
LoadDrill_PaneStaysHidden ==
  /\ loads < MaxLoads
  /\ said' = FALSE /\ reveal' = None /\ form' = FALSE /\ plots' = {}
  /\ prompt' = None
  /\ loads' = loads + 1
  /\ UNCHANGED <<drill, text, sure, ops, others, post, served>>

\* loadDrill() up to its await.
LoadDrill ==
  /\ loads < MaxLoads
  /\ said' = FALSE /\ reveal' = None /\ form' = FALSE /\ plots' = {}
  /\ prompt' = None
  /\ ops' = TRUE
  /\ loads' = loads + 1
  /\ UNCHANGED <<drill, text, sure, others, post, served>>

\* Mutant: what was typed stays in the box.
DrillArrives_TextKept ==
  /\ loads > 0 /\ served < MaxDrills
  /\ served' = served + 1 /\ loads' = loads - 1
  /\ drill' = served' /\ prompt' = served'
  /\ sure' = None /\ form' = TRUE
  /\ plots' = plots \cup {served'}
  /\ UNCHANGED <<view, text, ops, reveal, said, others, post>>

\* loadDrill() from its await: the drill replaces the last one, its plots join those
\* that are there.
DrillArrives ==
  /\ loads > 0 /\ served < MaxDrills
  /\ served' = served + 1 /\ loads' = loads - 1
  /\ drill' = served' /\ prompt' = served'
  /\ text' = None /\ sure' = None /\ form' = TRUE
  /\ plots' = plots \cup {served'}
  /\ UNCHANGED <<view, ops, reveal, said, others, post>>

\* The reply is cut off: the empty drill is kept before its missing fields raise.
DrillCut ==
  /\ loads > 0
  /\ loads' = loads - 1
  /\ drill' = Garbled /\ prompt' = None /\ sure' = None /\ said' = TRUE
  /\ UNCHANGED <<view, text, form, ops, reveal, plots, others, post, served>>

\* No drill: refused, or no connection.  The prompt gives way to 'No drill available.',
\* also that of an earlier drill whose form is still there.
DrillFails ==
  /\ loads > 0
  /\ loads' = loads - 1 /\ prompt' = None /\ said' = TRUE
  /\ UNCHANGED <<view, drill, text, sure, form, ops, reveal, plots, others, post, served>>

Type ==
  /\ Answerable
  /\ text' = drill
  /\ UNCHANGED <<view, drill, prompt, sure, form, ops, reveal, plots, said, loads, others, post, served>>

ChooseConfidence ==
  /\ Answerable
  /\ sure' = drill
  /\ UNCHANGED <<view, drill, prompt, text, form, ops, reveal, plots, said, loads, others, post, served>>

\* submitAnswer() up to its await: busy, an empty response and a missing confidence
\* stop it; the two last say so.
SubmitAnswer ==
  /\ Answerable /\ post = None /\ drill # None
  /\ IF text = None \/ (drill \in Calibrated /\ sure = None)
       THEN said' = TRUE /\ post' = post
       ELSE /\ post' = [run |-> drill, text |-> text, sure |-> sure, seen |-> drill \in plots]
            /\ said' = said
  /\ UNCHANGED <<view, drill, prompt, text, sure, form, ops, reveal, plots, loads, others, served>>

\* submitAnswer() from its await, and renderReveal().
AnswerScored ==
  /\ post # None /\ post.run # Garbled
  /\ form' = FALSE /\ ops' = FALSE /\ reveal' = post.run /\ said' = FALSE
  /\ post' = None
  /\ UNCHANGED <<view, drill, prompt, text, sure, plots, loads, others, served>>

\* Mutant: only an answer that arrives ends the wait.
AnswerFails_StaysBusy ==
  /\ post # None
  /\ said' = TRUE
  /\ UNCHANGED <<view, drill, prompt, text, sure, form, ops, reveal, plots, loads, others, post, served>>

\* The answer is refused, or its reply is lost: it may have been scored.
AnswerFails ==
  /\ post # None
  /\ said' = TRUE /\ post' = None
  /\ UNCHANGED <<view, drill, prompt, text, sure, form, ops, reveal, plots, loads, others, served>>

\* The reply is cut off: the form is gone before renderReveal() raises on it.
AnswerCut ==
  /\ post # None /\ post.run # Garbled
  /\ form' = FALSE /\ said' = TRUE /\ post' = None
  /\ UNCHANGED <<view, drill, prompt, text, sure, ops, reveal, plots, loads, others, served>>

\* "Next cue", on the debrief.
NextCue == view = "drill" /\ reveal # None /\ LoadDrill /\ view' = view

-----------------------------------------------------------------------------
(* The other views *)

\* loadSession(), loadProgress(), loadLibrary() up to their await; the first one
\* clears the banner.
LoadOther(name) ==
  /\ others < MaxOthers
  /\ others' = others + 1
  /\ said' = (IF name = "session" THEN FALSE ELSE said)
  /\ UNCHANGED <<drill, prompt, text, sure, form, ops, reveal, plots, loads, post, served>>

\* show(): from the navigation, from "Start the run", from "Show the procedure".
Show(name) ==
  /\ view' = name
  /\ IF name = "drill" THEN LoadDrill ELSE LoadOther(name)

\* openProcedure(), from a card of the library, up to its await.
OpenProcedure == view = "library" /\ LoadOther("library") /\ view' = view

\* A view of the others, a procedure or the manifest is there, or could not be had.
OtherEnds ==
  /\ others > 0
  /\ others' = others - 1
  /\ said' \in {said, TRUE}
  /\ UNCHANGED <<view, drill, prompt, text, sure, form, ops, reveal, plots, loads, post, served>>

-----------------------------------------------------------------------------
\* boot(): the manifest and the session are asked for.
Init ==
  /\ view = "session" /\ drill = None /\ prompt = None /\ text = None /\ sure = None
  /\ form = FALSE /\ ops = TRUE /\ reveal = None /\ plots = {} /\ said = FALSE
  /\ loads = 0 /\ others = 2 /\ post = None /\ served = 0

AnswerEnds == AnswerScored \/ AnswerFails \/ AnswerCut

Next ==
  \/ \E name \in Views : Show(name)
  \/ NextCue \/ OpenProcedure
  \/ DrillArrives \/ DrillCut \/ DrillFails
  \/ Type \/ ChooseConfidence \/ SubmitAnswer
  \/ AnswerScored \/ AnswerFails \/ AnswerCut
  \/ OtherEnds

Spec == Init /\ [][Next]_vars

\* The page sets no timeout; the browser ends every request, one way or another.
FairSpec == Spec /\ WF_vars(AnswerEnds)

-----------------------------------------------------------------------------
(* Properties *)

\* Every variable keeps its type, and the drill's pane and the debrief change places.
TypeOK ==
  /\ view \in Views
  /\ drill \in Drills \cup {None, Garbled} /\ prompt \in Drills \cup {None}
  /\ text \in Drills \cup {None, Garbled} /\ sure \in Drills \cup {None, Garbled}
  /\ form \in BOOLEAN /\ said \in BOOLEAN /\ ops \in BOOLEAN
  /\ reveal \in Drills \cup {None} /\ ops = (reveal = None)
  /\ plots \subseteq Drills
  /\ loads \in 0 .. MaxLoads /\ others \in 0 .. MaxOthers /\ served \in 0 .. MaxDrills
  /\ post \in Answer \cup {None}

\* However loads overlap and answers come late, an answer is sent for the drill the
\* response was typed for, with the confidence chosen for it where one is required, and
\* with that drill's plots on the screen.
AnswersWhatWasRead ==
  post # None /\ post.run # Garbled =>
    /\ post.text = post.run /\ post.seen
    /\ post.sure = post.run \/ (post.sure = None /\ post.run \notin Calibrated)

\* The drill view is never left mute: once nothing is in flight it shows a drill that
\* can be answered with its prompt, or a debrief with its way on, or the banner says what
\* went wrong.
AlwaysAWayOn ==
  view = "drill" /\ loads = 0 /\ post = None =>
    \/ ops /\ form /\ drill \in Drills /\ prompt = drill
    \/ reveal # None
    \/ said

\* Submission comes back: whatever becomes of an answer, the form is not dead for good.
SubmitComesBack == []<>(post = None)
=============================================================================
