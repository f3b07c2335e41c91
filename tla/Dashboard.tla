----------------------------- MODULE Dashboard -----------------------------
(***************************************************************************)
(* The page of web/static/app.js and its fetches: refresh (by timer, by     *)
(* button, after a rescan), the detail of the selected miner, the history   *)
(* behind the chart, and the filter options that the history fills.  Every  *)
(* handler writes the page's one state when its answer comes; nothing ties  *)
(* an answer to the newest request.                                         *)
(*                                                                          *)
(* A task is one run of refresh, loadDetail, loadHistory or the rescan      *)
(* handler, with the fetch it waits for; Slots bounds how many run at once. *)
(* An answer shows the fleet as it was at some moment since the fetch was   *)
(* sent.  Of the filters only the make is modelled, the other selects work  *)
(* the same way; drawing, metadata and error texts are left out, and the    *)
(* names of lines are in module Series.                                     *)
(***************************************************************************)
EXTENDS FiniteSets

CONSTANTS
    Miners,
    MakeOf,     \* miner -> its make
    Views,      \* combinations of metric and range
    ByType,     \* views of which the lines are makes
    Sampled,    \* view -> miners with samples in it
    Fleets,     \* the sets of miners the server may list
    Follows,    \* fleet -> the fleets it may become
    Slots,      \* bound on the tasks under way
    None

ASSUME DashboardAssumption ==
    /\ None \notin Miners \cup Views
    /\ DOMAIN MakeOf = Miners
    /\ ByType \subseteq Views
    /\ Sampled \in [Views -> SUBSET Miners]
    /\ Fleets \subseteq SUBSET Miners
    /\ Follows \in [Fleets -> SUBSET Fleets]

VARIABLES
    fleet,          \* the miners the server lists
    miners,         \* state.miners
    selected,       \* state.selectedId
    detail,         \* the miner whose detail is shown
    view,           \* chartMetric and chartRange
    history,        \* state.history: the view it was asked for and its lines
    hidden,         \* state.hiddenSeries
    options,        \* options of the make filter
    picked,         \* the selected ones
    tableFilter,    \* those the table was last rendered with
    button,         \* the Rescan button is enabled
    task            \* slot -> its task

page == <<miners, selected, detail, view, history, hidden, options, picked, tableFilter>>
vars == <<fleet, miners, selected, detail, view, history, hidden, options, picked,
          tableFilter, button, task>>

Makes == {MakeOf[m] : m \in Miners}
Lines == Miners \cup Makes

Free == [kind |-> "none", at |-> "none", arg |-> None, seen |-> {}]

Task == [kind : {"none", "refresh", "click", "load", "rescan"},
         at   : {"none", "post", "wait", "fleet", "detail", "history"},
         arg  : Miners \cup Views \cup {None},
         seen : SUBSET Fleets]

IsFree(s) == task[s] = Free

-----------------------------------------------------------------------------
(* Fetches *)

\* A request whose answer does not depend on the fleet, and one whose answer does.
Asks(kind, at, arg) == [kind |-> kind, at |-> at, arg |-> arg, seen |-> {}]
AsksFleet(kind, at, arg) == [kind |-> kind, at |-> at, arg |-> arg, seen |-> {fleet}]

\* refresh sends /api/meta and /api/miners.
GetFleet(kind) == AsksFleet(kind, "fleet", None)

\* loadHistory reads the metric and the range before it waits.
GetHistory(kind, v) == AsksFleet(kind, "history", v)

GetDetail(kind, m) == Asks(kind, "detail", m)

Becomes(s, t) == task' = [task EXCEPT ![s] = t] /\ UNCHANGED button

\* Mutant: a rescan that fails leaves its button disabled.
EndsSilently(s) == Becomes(s, Free)

\* A task ends; that of a rescan enables the button whatever has happened.
Ends(s) ==
    /\ task' = [task EXCEPT ![s] = Free]
    /\ button' = (button \/ task[s].kind = "rescan")

Passes(m, makes) == makes = {} \/ MakeOf[m] \in makes

-----------------------------------------------------------------------------
(* Timer and user *)

\* The interval timer or the Refresh button.
RefreshStarts(s) ==
    /\ IsFree(s)
    /\ Becomes(s, GetFleet("refresh"))
    /\ UNCHANGED <<fleet, page>>

\* A click on one of the rows on screen.
ClickRow(s, m) ==
    /\ IsFree(s)
    /\ m \in miners /\ Passes(m, tableFilter)
    /\ selected' = m
    /\ tableFilter' = picked
    /\ Becomes(s, GetDetail("click", m))
    /\ UNCHANGED <<fleet, miners, detail, view, history, hidden, options, picked>>

\* Another metric or range.
ChangeView(s, v) ==
    /\ IsFree(s)
    /\ view' = v
    /\ Becomes(s, GetHistory("load", v))
    /\ UNCHANGED <<fleet, miners, selected, detail, history, hidden, options, picked, tableFilter>>

\* Any event of the filter.
PickFilter(s, makes) ==
    /\ IsFree(s)
    /\ makes \subseteq options
    /\ picked' = makes /\ tableFilter' = makes
    /\ Becomes(s, GetHistory("load", view))
    /\ UNCHANGED <<fleet, miners, selected, detail, view, history, hidden, options>>

ClearFilters(s) == PickFilter(s, {})

\* A click in the legend.
ToggleLine(l) ==
    /\ l \in history.lines
    /\ hidden' = IF l \in hidden THEN hidden \ {l} ELSE hidden \cup {l}
    /\ UNCHANGED <<fleet, miners, selected, detail, view, history, options, picked,
                   tableFilter, button, task>>

\* Mutant: a second click starts a second rescan.
RescanTwice(s) ==
    /\ IsFree(s)
    /\ button' = FALSE
    /\ task' = [task EXCEPT ![s] = Asks("rescan", "post", None)]
    /\ UNCHANGED <<fleet, page>>

\* The Rescan button, which is disabled until its task ends.
Rescan(s) ==
    /\ IsFree(s) /\ button
    /\ button' = FALSE
    /\ task' = [task EXCEPT ![s] = Asks("rescan", "post", None)]
    /\ UNCHANGED <<fleet, page>>

-----------------------------------------------------------------------------
(* The server *)

\* Miners join or leave while answers are under way.
FleetChanges(f) ==
    /\ f \in Follows[fleet]
    /\ fleet' = f
    /\ task' = [s \in Slots |-> IF task[s].seen = {} THEN task[s]
                                ELSE [task[s] EXCEPT !.seen = @ \cup {f}]]
    /\ UNCHANGED <<page, button>>

-----------------------------------------------------------------------------
(* Answers *)

\* Mutant: refresh leaves the detail alone.
SkipsDetail(kind) == GetHistory(kind, view)

\* refresh goes on with the detail of the miner that is selected now, if any.
AfterFleet(kind) ==
    IF selected # None THEN GetDetail(kind, selected) ELSE GetHistory(kind, view)

GotFleet(s) ==
    /\ task[s].at = "fleet"
    /\ miners' \in task[s].seen
    /\ tableFilter' = picked
    /\ Becomes(s, AfterFleet(task[s].kind))
    /\ UNCHANGED <<fleet, selected, detail, view, history, hidden, options, picked>>

\* One of the two requests fails: refresh ends with an error.
FleetFails(s) ==
    /\ task[s].at = "fleet"
    /\ Ends(s)
    /\ UNCHANGED <<fleet, page>>

\* The detail, or one that shows the error.
GotDetail(s) ==
    /\ task[s].at = "detail"
    /\ detail' = task[s].arg
    /\ IF task[s].kind = "click" THEN Ends(s)
       ELSE Becomes(s, GetHistory(task[s].kind, view))
    /\ UNCHANGED <<fleet, miners, selected, view, history, hidden, options, picked, tableFilter>>

\* fillFiltersFromHistory: makes of the series, which the server knows for its own
\* miners only; failing that, of the page's miners.
Facets(series, f) ==
    LET makes(S) == {MakeOf[m] : m \in S}
    IN  IF series \cap f # {} THEN makes(series \cap f) ELSE makes(miners)

\* A series is judged by the live row, else by what the server said of it; one that
\* neither knows has no make.
Charted(series, f, makes) ==
    {m \in series : IF m \in miners \cup f THEN Passes(m, makes) ELSE makes = {}}

\* The ids of the lines: miners, or the makes that are known of them.
LinesOf(v, series, f) ==
    IF v \in ByType THEN {MakeOf[m] : m \in series \cap (miners \cup f)} ELSE series

\* fillSelect: a new list of options keeps the selection it can.
KeepPicks(offered) == picked \cap offered

\* Mutant: the hide flags of lines that are gone stay.
KeepAllFlags(lines) == hidden

KeepFlags(lines) == hidden \cap lines

\* refresh renders the table again after loadHistory, the other callers do not.
Rendered(kind, makes) == IF kind = "load" THEN tableFilter ELSE makes

\* The samples of the view that was asked for, or none if the request failed.  Options
\* and selection of the filter follow them, then the lines, then the legend's flags.
GotHistory(s) ==
    /\ task[s].at = "history"
    /\ \E f \in task[s].seen, series \in {Sampled[task[s].arg], {}} :
         /\ options' = Facets(series, f)
         /\ picked' = KeepPicks(options')
         /\ history' = [view  |-> task[s].arg,
                        lines |-> LinesOf(task[s].arg, Charted(series, f, picked'), f)]
    /\ hidden' = KeepFlags(history'.lines)
    /\ tableFilter' = Rendered(task[s].kind, picked')
    /\ Ends(s)
    /\ UNCHANGED <<fleet, miners, selected, detail, view>>

\* The rescan was accepted, or not.
PostAnswered(s) ==
    /\ task[s].at = "post"
    /\ \/ Becomes(s, Asks("rescan", "wait", None))
       \/ Ends(s)
    /\ UNCHANGED <<fleet, page>>

\* waitUntilIdle returns: the server is idle, or the time is up.
WaitOver(s) ==
    /\ task[s].at = "wait"
    /\ Becomes(s, GetFleet("rescan"))
    /\ UNCHANGED <<fleet, page>>

Answer(s) == GotFleet(s) \/ FleetFails(s) \/ GotDetail(s) \/ GotHistory(s)
               \/ PostAnswered(s) \/ WaitOver(s)

-----------------------------------------------------------------------------
\* The page has just called refresh.
Init ==
    /\ fleet \in Fleets
    /\ miners = {} /\ selected = None /\ detail = None
    /\ view \in Views
    /\ history = [view |-> None, lines |-> {}]
    /\ hidden = {} /\ options = {} /\ picked = {} /\ tableFilter = {}
    /\ button = TRUE
    /\ \E s \in Slots : task = [u \in Slots |-> IF u = s THEN GetFleet("refresh") ELSE Free]

Next ==
    \/ \E s \in Slots :
         \/ RefreshStarts(s) \/ Rescan(s)
         \/ \E m \in Miners : ClickRow(s, m)
         \/ \E v \in Views : ChangeView(s, v)
         \/ \E makes \in SUBSET Makes : PickFilter(s, makes)
         \/ ClearFilters(s)
         \/ GotFleet(s) \/ FleetFails(s) \/ GotDetail(s) \/ GotHistory(s)
         \/ PostAnswered(s) \/ WaitOver(s)
    \/ \E l \in Lines : ToggleLine(l)
    \/ \E f \in Fleets : FleetChanges(f)

Spec == Init /\ [][Next]_vars

\* Every fetch is answered or fails in the end, the timer fires again and again, and of
\* the refreshes not all fail.
Fairness ==
    /\ \A s \in Slots : WF_vars(Answer(s))
    /\ SF_vars(\E s \in Slots : RefreshStarts(s))
    /\ SF_vars(\E s \in Slots : GotFleet(s) /\ task[s].kind = "refresh")

FairSpec == Spec /\ Fairness

-----------------------------------------------------------------------------
\* The page's state is of the kinds its renderers expect: a filter selects only what it
\* offers and, "Drop stale legend hide flags for series that are gone", no flag is left
\* that would hide a line which comes back, whatever order answers come in.
TypeOK ==
    /\ fleet \in Fleets
    /\ miners \subseteq Miners
    /\ selected \in Miners \cup {None} /\ detail \in Miners \cup {None}
    /\ view \in Views
    /\ history \in [view : Views \cup {None}, lines : SUBSET Lines]
    /\ hidden \subseteq history.lines
    /\ options \subseteq Makes /\ picked \subseteq options
    /\ task \in [Slots -> Task]

Rescanning == {s \in Slots : task[s].kind = "rescan"}

\* The button is disabled exactly while a rescan is under way, and there is one at most:
\* no failure on the way leaves it dead, no second click starts another.
RescanButton ==
    /\ button <=> Rescanning = {}
    /\ \A s, u \in Rescanning : s = u

\* Nobody uses the page any more and no miner joins or leaves.
Undisturbed == UNCHANGED <<fleet, selected, view>> /\ picked' \subseteq picked

\* The page is what its user asked for.
Settled ==
    /\ miners = fleet
    /\ detail = selected
    /\ history.view = view
    /\ tableFilter = picked

\* However late answers overwrite the page's state, once it is left alone it settles on
\* the selected miner, the chosen view, the current fleet and filter.
PageSettles == <>[][Undisturbed]_vars => <>[]Settled

\* After every click on Rescan the button can be used again.
RescanReturns == ~button ~> button

=============================================================================
