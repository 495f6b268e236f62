----------------------------- MODULE Characterise -----------------------------
(***************************************************************************)
(* The workstation tool that turns an archive of observations into a noise  *)
(* model (tools/udl_characterise.py): count a window, halve it until every   *)
(* slice is under the offset cap, page through the slices, save the records  *)
(* for later, measure, check, publish.                                       *)
(*                                                                          *)
(* The recursion of Fetcher.fetch is the stack todo, its next call at the    *)
(* head.  The archive does not change while it is queried.  Of what is       *)
(* measured, only the names that would go with it matter here.               *)
(***************************************************************************)
EXTENDS Integers, Sequences, NoValue

CONSTANTS
  Records, Kind, At,       \* what the archive holds: its entity, its time
  Listing,                 \* the archive's answer to <<entity, from, to>>, in its own order
  MaxMoment, Windows,      \* the times, and the windows the operator asks for
  Marking, Plain,          \* markings of the records; those with the plain shape
  Sensor, CatalogueShaped, \* sensor names; the texts that look like catalogue numbers
  FirstResultCap, MinSlice, MaxSliceDepth,
  PageSize,                \* [query] page_size of the profile
  ServicePage,             \* how many records the archive returns at most
  CatalogueNumbers         \* the counts that look like one when written out

Entities == {"observation", "elset"}
Moments == 0..MaxMoment
Within(r, w) == w.from <= At[r] /\ At[r] <= w.to
Listed(e, w) == Listing[<<e, w.from, w.to>>]
Elements(s) == {s[i] : i \in DOMAIN s}

ASSUME RecordsAssumption ==
  /\ MaxMoment \in Nat
  /\ Kind \in [Records -> Entities] /\ At \in [Records -> Moments]
  /\ Windows \subseteq [from : Moments, to : Moments]
\* A range holds both its ends, and the archive lists all of it.
ASSUME ListingAssumption ==
  /\ Listing \in [Entities \X Moments \X Moments -> Seq(Records)]
  /\ \A e \in Entities, w \in [from : Moments, to : Moments] :
       Elements(Listed(e, w)) = {r \in Records : Kind[r] = e /\ Within(r, w)}
ASSUME LimitsAssumption ==
  /\ FirstResultCap \in Nat /\ MinSlice \in Nat \ {0} /\ MaxSliceDepth \in Nat
  /\ PageSize \in Nat \ {0} /\ ServicePage \in Nat \ {0}

VARIABLES
  profile,  \* the endpoint profile: does it give the address, and all the rest?
  secret,   \* is there a credentials file that only its owner can read?
  step,     \* what the tool does next; "idle" between two invocations
  args,     \* the arguments of the invocation
  entity,   \* what is being fetched
  todo,     \* the calls of fetch() not yet ended, the next one first
  total, offset,
  rows,     \* the records so far
  gaps,     \* the windows that could not be narrowed
  window,   \* what the records are said to cover
  into,     \* the file _write_private is writing
  files,    \* the raw dump and the saved reference: anything in it? who can read it?
  dump,     \* what the raw dump says, if it is whole
  crossed,  \* the last thing put out for the other side
  outcome   \* how the last invocation ended

workspace == <<profile, secret>>
search == <<entity, todo, total, offset, rows, gaps, window>>
disk == <<into, files, dump>>
vars == <<workspace, step, args, search, disk, crossed, outcome>>

Arguments ==
  [mode : {"fetch"}, window : Windows, rawOut : BOOLEAN, verbatim : BOOLEAN]
    \cup [mode : {"analyse"}, verbatim : BOOLEAN] \cup [mode : {"queryhelp"}]
Slice == [from : Moments, to : Moments, depth : Nat]
Gap == [from : Moments, to : Moments, count : Nat]
Fetched == [Entities -> Seq(Records)]
Dump == [rows : Fetched, window : Windows]
Names == [labels : SUBSET {Sensor[r] : r \in Records},
          markings : SUBSET {Marking[r] : r \in Records}]
Crossed == [kind : {"nothing"}] \cup [kind : {"reference"}, clean : BOOLEAN]
             \cup [kind : {"parameters"}, live : BOOLEAN, rows : Fetched,
                   window : Windows, gaps : Seq(Gap), names : Names]

ASSUME NoneAssumption == None \notin Arguments \cup Dump \cup Windows

TypeOK ==
  /\ profile \in {"unusable", "partial", "complete"} /\ secret \in BOOLEAN
  /\ step \in {"idle", "load", "count", "page", "open", "mode", "write", "report"}
  /\ args \in Arguments \cup {None}
  /\ (args = None) = (step = "idle")
  /\ entity \in Entities /\ todo \in Seq(Slice)
  /\ total \in Nat /\ offset \in Nat
  /\ rows \in Fetched /\ gaps \in Seq(Gap) /\ window \in Windows \cup {None}
  /\ into \in {"dump", "help"}
  /\ files \in [{"dump", "help"} -> [filled : BOOLEAN, private : BOOLEAN]]
  /\ dump \in Dump \cup {None}
  /\ crossed \in Crossed
  /\ outcome \in {"none", "ok", "failed", "refused", "killed"}

NoRows == [e \in Entities |-> << >>]
Idle ==
  /\ entity = "observation" /\ todo = << >> /\ total = 0 /\ offset = 0
  /\ rows = NoRows /\ gaps = << >> /\ window = None /\ into = "dump"

\* A file of one of the two names may be left over, empty or not the tool's own, in any
\* mode; a file that is not there is made with mode 0600, as if it were private and empty.
Init ==
  /\ profile \in {"unusable", "partial", "complete"} /\ secret \in BOOLEAN
  /\ step = "idle" /\ args = None /\ Idle
  /\ files \in [{"dump", "help"} -> [filled : {FALSE}, private : BOOLEAN]]
  /\ dump = None
  /\ crossed = [kind |-> "nothing"] /\ outcome = "none"

Ends(how) ==
  /\ step' = "idle" /\ args' = None /\ outcome' = how
  /\ entity' = "observation" /\ todo' = << >> /\ total' = 0 /\ offset' = 0
  /\ rows' = NoRows /\ gaps' = << >> /\ window' = None /\ into' = "dump"

Keeps == UNCHANGED <<workspace, files, dump, crossed>>

\* Between two invocations the operator fills in the profile or fixes the mode of the
\* credentials.
Prepare ==
  /\ step = "idle"
  /\ profile' \in {"unusable", "partial", "complete"} /\ secret' \in BOOLEAN
  /\ UNCHANGED <<step, args, search, disk, crossed, outcome>>

Invoke ==
  /\ step = "idle"
  /\ args' \in Arguments
  /\ step' = "load"
  /\ UNCHANGED <<workspace, search, disk, crossed, outcome>>

------------------------------------------------------------------------------
\* Where the fetch of an entity starts: one call, for the whole window.
Begin(e, w) ==
  /\ entity' = e
  /\ todo' = <<[from |-> w.from, to |-> w.to, depth |-> 0]>>
  /\ step' = "count"

LoadFetch ==
  /\ step = "load" /\ args.mode = "fetch"
  /\ profile = "complete" /\ secret
  /\ Begin("observation", args.window)
  /\ window' = args.window
  /\ UNCHANGED <<workspace, args, total, offset, rows, gaps, disk, crossed, outcome>>

LoadDump ==
  /\ step = "load" /\ args.mode = "analyse"
  /\ dump # None
  /\ rows' = dump.rows /\ window' = dump.window /\ gaps' = << >>
  /\ step' = "report"
  /\ UNCHANGED <<workspace, args, entity, todo, total, offset, disk, crossed, outcome>>

\* A profile or a credentials file that does not do, a dump that is not there or was
\* cut short.
LoadFails ==
  /\ step = "load"
  /\ \/ args.mode = "fetch" /\ ~ (profile = "complete" /\ secret)
     \/ args.mode = "queryhelp" /\ ~ (profile \in {"partial", "complete"} /\ secret)
     \/ args.mode = "analyse" /\ dump = None
  /\ Ends("failed") /\ Keeps

\* The reference of an entity is shown if the guard finds nothing in it, and otherwise
\* kept on this side.
Queryhelp(clean) ==
  /\ step = "load" /\ args.mode = "queryhelp"
  /\ profile \in {"partial", "complete"} /\ secret
  /\ IF clean
     THEN /\ crossed' = [kind |-> "reference", clean |-> clean]
          /\ Ends("ok") /\ UNCHANGED <<workspace, files, dump>>
     ELSE /\ into' = "help" /\ step' = "open"
          /\ UNCHANGED <<workspace, args, search, files, dump, crossed, outcome>>

------------------------------------------------------------------------------
\* What the archive says to a count.
CountOf(s) == Len(Listed(entity, s))

\* timedelta / 2: half, the odd one rounded to the even side.
Half(span) == LET q == span \div 2 IN IF span % 2 = 0 THEN q ELSE q + (q % 2)

Called == step = "count" /\ todo # << >>

CountsNothing ==
  /\ Called
  /\ CountOf(Head(todo)) = 0
  /\ todo' = Tail(todo)
  /\ UNCHANGED <<workspace, step, args, entity, total, offset, rows, gaps, window,
                 disk, crossed, outcome>>

CannotNarrow(s) == s.to - s.from <= MinSlice \/ s.depth > MaxSliceDepth

\* Mutant: a slice that cannot be narrowed is passed over.
GiveUp_Silent ==
  /\ Called
  /\ CountOf(Head(todo)) > FirstResultCap
  /\ CannotNarrow(Head(todo))
  /\ todo' = Tail(todo)
  /\ UNCHANGED <<workspace, step, args, entity, total, offset, rows, gaps, window,
                 disk, crossed, outcome>>

GiveUp ==
  LET s == Head(todo) IN
  /\ Called
  /\ CountOf(s) > FirstResultCap
  /\ CannotNarrow(s)
  /\ gaps' = Append(gaps, [from |-> s.from, to |-> s.to, count |-> CountOf(s)])
  /\ todo' = Tail(todo)
  /\ UNCHANGED <<workspace, step, args, entity, total, offset, rows, window,
                 disk, crossed, outcome>>

\* Mutant: half of the span rounds to nothing, and the depth is not counted.
Bisect_NoProgress ==
  LET s == Head(todo) IN
  /\ Called
  /\ CountOf(s) > FirstResultCap
  /\ ~ CannotNarrow(s)
  /\ todo' = <<[from |-> s.from, to |-> s.from, depth |-> s.depth], s>> \o Tail(todo)
  /\ UNCHANGED <<workspace, step, args, entity, total, offset, rows, gaps, window,
                 disk, crossed, outcome>>

\* Both halves hold the middle, so a record of that very moment is fetched twice.
Bisect ==
  LET s == Head(todo)
      middle == s.from + Half(s.to - s.from)
  IN
  /\ Called
  /\ CountOf(s) > FirstResultCap
  /\ ~ CannotNarrow(s)
  /\ todo' = <<[from |-> s.from, to |-> middle, depth |-> s.depth + 1],
               [from |-> middle, to |-> s.to, depth |-> s.depth + 1]>> \o Tail(todo)
  /\ UNCHANGED <<workspace, step, args, entity, total, offset, rows, gaps, window,
                 disk, crossed, outcome>>

StartPaging ==
  /\ Called
  /\ CountOf(Head(todo)) \in 1..FirstResultCap
  /\ total' = CountOf(Head(todo)) /\ offset' = 0
  /\ step' = "page"
  /\ UNCHANGED <<workspace, args, entity, todo, rows, gaps, window, disk, crossed, outcome>>

\* What the archive returns from an offset on.
Returned(s, from) ==
  LET all == Listed(entity, s)
      most == IF PageSize <= ServicePage THEN PageSize ELSE ServicePage
      last == IF from + most <= Len(all) THEN from + most ELSE Len(all)
  IN SubSeq(all, from + 1, last)

\* The next offset is a whole page further, whatever the page held.
Page ==
  LET page == Returned(Head(todo), offset) IN
  /\ step = "page"
  /\ rows' = [rows EXCEPT ![entity] = @ \o page]
  /\ offset' = offset + PageSize
  /\ IF page = << >> \/ offset' >= total
     THEN step' = "count" /\ todo' = Tail(todo)
     ELSE UNCHANGED <<step, todo>>
  /\ UNCHANGED <<workspace, args, entity, total, gaps, window, disk, crossed, outcome>>

NextEntity ==
  /\ step = "count" /\ todo = << >>
  /\ entity = "observation"
  /\ Begin("elset", args.window)
  /\ UNCHANGED <<workspace, args, total, offset, rows, gaps, window, disk, crossed, outcome>>

AllFetched ==
  /\ step = "count" /\ todo = << >>
  /\ entity = "elset"
  /\ step' = IF args.rawOut THEN "open" ELSE "report"
  /\ into' = "dump"
  /\ UNCHANGED <<workspace, args, search, files, dump, crossed, outcome>>

\* Any request may end in an HTTP error, a redirect, a timeout or an answer that is not
\* what it should be: the invocation ends, and what was fetched is gone.
RequestFails ==
  /\ \/ step \in {"count", "page"} /\ todo # << >>
     \/ step = "load" /\ args.mode = "queryhelp"
  /\ Ends("failed") /\ Keeps

------------------------------------------------------------------------------
\* Mutant: the mode given to open() is taken to be enough.
OpenPrivate_ModeOnOpen ==
  /\ step = "open"
  /\ files' = [files EXCEPT ![into].filled = FALSE]
  /\ dump' = IF into = "dump" THEN None ELSE dump
  /\ step' = "write"
  /\ UNCHANGED <<workspace, args, search, into, crossed, outcome>>

\* _write_private: the mode given to open() holds for a new file only, so that of an old
\* one is set before anything is written.
OpenPrivate ==
  /\ step = "open"
  /\ files' = [files EXCEPT ![into].filled = FALSE]
  /\ dump' = IF into = "dump" THEN None ELSE dump
  /\ step' = "mode"
  /\ UNCHANGED <<workspace, args, search, into, crossed, outcome>>

SetMode ==
  /\ step = "mode"
  /\ files' = [files EXCEPT ![into].private = TRUE]
  /\ step' = "write"
  /\ UNCHANGED <<workspace, args, search, into, dump, crossed, outcome>>

WritePrivate ==
  /\ step = "write"
  /\ files' = [files EXCEPT ![into].filled = TRUE]
  /\ UNCHANGED <<workspace, crossed>>
  /\ IF into = "help"
     THEN Ends("refused") /\ UNCHANGED dump
     ELSE /\ dump' = [rows |-> rows, window |-> window]
          /\ step' = "report"
          /\ UNCHANGED <<args, search, into, outcome>>

\* The volume is full or the path is wrong; what was begun stays.
WriteFails ==
  /\ step \in {"open", "write"}
  /\ \/ UNCHANGED files
     \/ step = "write" /\ files' = [files EXCEPT ![into].filled = TRUE]
  /\ Ends("failed") /\ UNCHANGED <<workspace, dump, crossed>>

------------------------------------------------------------------------------
\* Mutant: markings are published as they are.
NamesOf_Verbatim(observations) ==
  [labels |-> IF args.verbatim THEN {Sensor[r] : r \in observations} ELSE {},
   markings |-> {Marking[r] : r \in observations}]

\* _allowlisted_markings, and the labels of the sensors.
NamesOf(observations) ==
  [labels |-> IF args.verbatim THEN {Sensor[r] : r \in observations} ELSE {},
   markings |-> {Marking[r] : r \in observations} \cap Plain]

ParameterFile ==
  [kind |-> "parameters", live |-> args.mode = "fetch", rows |-> rows, window |-> window,
   gaps |-> gaps, names |-> NamesOf(Elements(rows["observation"]))]

\* No text of the file, the written-out counts of its gaps among them, has the shape of
\* a catalogue number.
Crossable(p) ==
  /\ p.names.labels \cap CatalogueShaped = {}
  /\ p.names.markings \cap CatalogueShaped = {}
  /\ \A g \in Elements(p.gaps) : g.count \notin CatalogueNumbers

Report ==
  /\ step = "report"
  /\ UNCHANGED <<workspace, files, dump>>
  /\ IF Crossable(ParameterFile)
     THEN crossed' = ParameterFile /\ Ends("ok")
     ELSE UNCHANGED crossed /\ Ends("refused")

\* Writing --emit raises OSError, which main does not catch: before the file is whole,
\* when nothing that can be read has crossed, or after, at the change of its mode.
EmitFails ==
  /\ step = "report"
  /\ Crossable(ParameterFile)
  /\ crossed' \in {crossed, ParameterFile}
  /\ Ends("failed")
  /\ UNCHANGED <<workspace, files, dump>>

Kill == step # "idle" /\ Ends("killed") /\ Keeps

------------------------------------------------------------------------------
Step ==
  \/ LoadFetch \/ LoadDump \/ LoadFails \/ \E clean \in BOOLEAN : Queryhelp(clean)
  \/ CountsNothing \/ GiveUp \/ Bisect \/ StartPaging \/ Page
  \/ NextEntity \/ AllFetched \/ RequestFails
  \/ OpenPrivate \/ SetMode \/ WritePrivate \/ WriteFails
  \/ Report \/ EmitFails

Next == Prepare \/ Invoke \/ Step \/ Kill

Spec == Init /\ [][Next]_vars
\* The tool runs, and a request ends: with an answer, an error or its timeout.
FairSpec == Spec /\ WF_vars(Step)

------------------------------------------------------------------------------
\* Nothing silently sampled: what was measured live stands for every record of its
\* window, or names a window that is not represented and holds the record (fetch()).
\* A dump keeps no gaps, so of what is measured from one nothing is claimed.
NothingSilentlySampled ==
  crossed.kind = "parameters" /\ crossed.live =>
    \A r \in Records : Within(r, crossed.window) =>
      \/ r \in Elements(crossed.rows[Kind[r]])
      \/ \E g \in Elements(crossed.gaps) : Within(r, g)

\* A gap is reported in the file: records with no name that looks like a catalogue
\* number are published, gaps and all (unrepresented_windows, and main's WARNING).
GapsReachTheFile ==
  [][/\ step = "report"
     /\ Crossable([ParameterFile EXCEPT !.gaps = << >>])
     => outcome' # "refused"]_vars

\* Whichever way it went out, nothing that crossed names the owner of a record or looks
\* like a catalogue number: not the reference of an entity, not the markings, not the
\* labels an operator asked for verbatim (assert_crossable, _allowlisted_markings).
OnlyDistributionsCross ==
  /\ crossed.kind = "reference" => crossed.clean
  /\ crossed.kind = "parameters" =>
       /\ crossed.names.markings \subseteq Plain \ CatalogueShaped
       /\ crossed.names.labels \cap CatalogueShaped = {}

\* At no moment, and wherever the tool is stopped, can anybody else read a file with
\* records in it, although an old file of that name may be open to all (_write_private).
RecordsStayPrivate ==
  \A f \in {"dump", "help"} : files[f].filled => files[f].private

\* fetch() never has more calls pending than its depth bound allows (MAX_SLICE_DEPTH).
RecursionIsBounded == Len(todo) <= MaxSliceDepth + 2

\* Every invocation ends, whatever the archive answers.
InvocationEnds == (step # "idle") ~> (step = "idle")
==============================================================================
