-------------------------- MODULE DashboardProofs --------------------------
(***************************************************************************)
(* Proofs about module Dashboard, for any miners, views, fleets and number  *)
(* of tasks at once.  The invariant says of a task what its next answer     *)
(* needs: a detail is asked of a miner, a history of a view, and only a     *)
(* rescan posts or waits.  That the button and the rescan under way go      *)
(* together follows from two lemmas, on a task that goes on as the kind it  *)
(* is and on one that ends.                                                 *)
(***************************************************************************)
EXTENDS Dashboard, TLAPS

PageOK ==
    /\ fleet \in Fleets
    /\ miners \subseteq Miners
    /\ selected \in Miners \cup {None} /\ detail \in Miners \cup {None}
    /\ view \in Views
    /\ history \in [view : Views \cup {None}, lines : SUBSET Lines]
    /\ hidden \subseteq history.lines
    /\ options \subseteq Makes /\ picked \subseteq options

Sound(t) ==
    /\ t \in Task
    /\ t.at = "fleet" => t.kind \in {"refresh", "rescan"}
    /\ t.at = "detail" => t.arg \in Miners /\ t.kind \in {"refresh", "click", "rescan"}
    /\ t.at = "history" => t.arg \in Views
    /\ t.at \in {"post", "wait"} => t.kind = "rescan"

TasksOK == task \in [Slots -> Task] /\ \A s \in Slots : Sound(task[s])

Inv == PageOK /\ TasksOK /\ RescanButton

-----------------------------------------------------------------------------
(* Tasks *)

LEMMA FreeSound == Sound(Free) /\ Free.kind = "none"
  BY DEF Sound, Free, Task

LEMMA FleetSound ==
    ASSUME PageOK, NEW kind \in {"refresh", "rescan"}
    PROVE  Sound(GetFleet(kind)) /\ GetFleet(kind).kind = kind
  BY DEF PageOK, GetFleet, AsksFleet, Sound, Task

LEMMA HistorySound ==
    ASSUME PageOK, NEW kind \in {"refresh", "load", "rescan"}, NEW v \in Views
    PROVE  Sound(GetHistory(kind, v)) /\ GetHistory(kind, v).kind = kind
  BY DEF PageOK, GetHistory, AsksFleet, Sound, Task

LEMMA DetailSound ==
    ASSUME NEW kind \in {"refresh", "click", "rescan"}, NEW m \in Miners
    PROVE  Sound(GetDetail(kind, m)) /\ GetDetail(kind, m).kind = kind
  BY DEF GetDetail, Asks, Sound, Task

LEMMA PostSound ==
    ASSUME NEW at \in {"post", "wait"}
    PROVE  Sound(Asks("rescan", at, None)) /\ Asks("rescan", at, None).kind = "rescan"
  BY DEF Asks, Sound, Task

\* A sound task in one slot leaves the others as they are.
LEMMA TaskSet ==
    ASSUME TasksOK, NEW s \in Slots, NEW t, Sound(t), task' = [task EXCEPT ![s] = t]
    PROVE  TasksOK'
  BY DEF TasksOK, Sound

\* A task that is a rescan if and only if it was one leaves button and rescan together.
LEMMA ButtonKept ==
    ASSUME TasksOK, RescanButton, NEW s \in Slots, NEW t, Becomes(s, t),
           t.kind = "rescan" <=> task[s].kind = "rescan"
    PROVE  RescanButton'
  <1>1. button' = button /\ task' = [task EXCEPT ![s] = t]  BY DEF Becomes
  <1>2. \A u \in Slots : task'[u].kind = "rescan" <=> task[u].kind = "rescan"
      BY <1>1 DEF TasksOK
  <1>3. Rescanning' = Rescanning  BY <1>2 DEF Rescanning
  <1> QED BY <1>1, <1>3 DEF RescanButton

\* The end of a task, whatever it was (the finally of the rescan handler).
LEMMA ButtonEnds ==
    ASSUME TasksOK, RescanButton, NEW s \in Slots, Ends(s)
    PROVE  TasksOK' /\ RescanButton'
  <1>1. task' = [task EXCEPT ![s] = Free] /\ button' = (button \/ task[s].kind = "rescan")
      BY DEF Ends
  <1>2. TasksOK'  BY <1>1, FreeSound, TaskSet
  <1>3. Rescanning' = Rescanning \ {s}
      BY <1>1, FreeSound DEF TasksOK, Rescanning
  <1>4. CASE task[s].kind = "rescan"
    <2>1. Rescanning = {s}  BY <1>4 DEF RescanButton, Rescanning
    <2>2. button'  BY <1>1, <1>4
    <2> QED BY <1>2, <1>3, <2>1, <2>2 DEF RescanButton
  <1>5. CASE task[s].kind # "rescan"
    <2>1. Rescanning' = Rescanning  BY <1>3, <1>5 DEF Rescanning
    <2>2. button' <=> button  BY <1>1, <1>5
    <2> QED BY <1>2, <2>1, <2>2 DEF RescanButton
  <1> QED BY <1>4, <1>5

\* Both at once for a task that goes on.
LEMMA TaskGoesOn ==
    ASSUME TasksOK, RescanButton, NEW s \in Slots, NEW t, Sound(t), Becomes(s, t),
           t.kind = "rescan" <=> task[s].kind = "rescan"
    PROVE  TasksOK' /\ RescanButton'
  <1>1. task' = [task EXCEPT ![s] = t]  BY DEF Becomes
  <1> QED BY <1>1, TaskSet, ButtonKept

-----------------------------------------------------------------------------
(* The page *)

LEMMA PageSame == ASSUME PageOK, UNCHANGED <<fleet, page>> PROVE PageOK'
  BY DEF PageOK, page

\* What an answer of the history makes of filter and chart (fillFiltersFromHistory).
LEMMA FacetsMakes ==
    ASSUME PageOK, NEW series \in SUBSET Miners, NEW f
    PROVE  Facets(series, f) \subseteq Makes
  BY DEF PageOK, Facets, Makes

LEMMA LinesOfLines ==
    ASSUME NEW v, NEW series \in SUBSET Miners, NEW f, NEW makes
    PROVE  LinesOf(v, Charted(series, f, makes), f) \subseteq Lines
  BY DEF LinesOf, Charted, Lines, Makes

LEMMA HistoryStep ==
    ASSUME Inv, NEW s \in Slots, GotHistory(s)
    PROVE  Inv'
  <1> USE DEF Inv
  <1>1. task[s].arg \in Views  BY DEF GotHistory, TasksOK, Sound
  <1>2. PICK f \in task[s].seen, series \in {Sampled[task[s].arg], {}} :
          /\ options' = Facets(series, f)
          /\ picked' = KeepPicks(options')
          /\ history' = [view  |-> task[s].arg,
                         lines |-> LinesOf(task[s].arg, Charted(series, f, picked'), f)]
      BY DEF GotHistory
  <1>3. series \in SUBSET Miners  BY <1>1, DashboardAssumption
  <1>4. options' \subseteq Makes  BY <1>2, <1>3, FacetsMakes
  <1>5. picked' \subseteq options'  BY <1>2 DEF KeepPicks
  <1>6. history' \in [view : Views \cup {None}, lines : SUBSET Lines]
      BY <1>1, <1>2, <1>3, LinesOfLines
  <1>7. hidden' \subseteq history'.lines  BY DEF GotHistory, KeepFlags
  <1>8. PageOK'  BY <1>4, <1>5, <1>6, <1>7 DEF GotHistory, PageOK
  <1>9. Ends(s)  BY DEF GotHistory
  <1> QED BY <1>8, <1>9, ButtonEnds

-----------------------------------------------------------------------------
LEMMA InitInv == Init => Inv
  <1> SUFFICES ASSUME Init PROVE Inv  OBVIOUS
  <1>1. PageOK  BY DashboardAssumption DEF Init, PageOK
  <1>2. PICK s \in Slots : task = [u \in Slots |-> IF u = s THEN GetFleet("refresh") ELSE Free]
      BY DEF Init
  <1>3. Sound(GetFleet("refresh")) /\ GetFleet("refresh").kind = "refresh"
      BY <1>1, FleetSound
  <1>4. TasksOK  BY <1>2, <1>3, FreeSound DEF TasksOK, Sound
  <1>5. Rescanning = {}  BY <1>2, <1>3, FreeSound DEF Rescanning
  <1>6. RescanButton  BY <1>5 DEF Init, RescanButton
  <1> QED BY <1>1, <1>4, <1>6 DEF Inv

LEMMA NextInv == Inv /\ [Next]_vars => Inv'
  <1> SUFFICES ASSUME Inv, [Next]_vars PROVE Inv'  OBVIOUS
  <1> USE DEF Inv
  <1>1. \A s \in Slots : IsFree(s) => task[s].kind = "none"  BY FreeSound DEF IsFree
  <1>2. ASSUME NEW s \in Slots, RefreshStarts(s) PROVE Inv'
    <2>1. IsFree(s) /\ Becomes(s, GetFleet("refresh")) /\ UNCHANGED <<fleet, page>>
        BY <1>2 DEF RefreshStarts
    <2> QED BY <1>1, <2>1, FleetSound, TaskGoesOn, PageSame
  <1>3. ASSUME NEW s \in Slots, Rescan(s) PROVE Inv'
    <2>1. PageOK'  BY <1>3, PageSame DEF Rescan
    <2> DEFINE post == Asks("rescan", "post", None)
    <2>2. Sound(post) /\ post.kind = "rescan"  BY PostSound
    <2>3. task' = [task EXCEPT ![s] = post] /\ button /\ ~button'  BY <1>3 DEF Rescan
    <2> HIDE DEF post
    <2>4. TasksOK'  BY <2>2, <2>3, TaskSet
    <2>5. Rescanning = {}  BY <2>3 DEF RescanButton
    <2>6. Rescanning' = {s}  BY <2>2, <2>3, <2>5 DEF Rescanning, TasksOK
    <2>7. RescanButton'  BY <2>3, <2>6 DEF RescanButton
    <2> QED BY <2>1, <2>4, <2>7
  <1>4. ASSUME NEW s \in Slots, NEW m \in Miners, ClickRow(s, m) PROVE Inv'
    <2>1. IsFree(s) /\ Becomes(s, GetDetail("click", m))  BY <1>4 DEF ClickRow
    <2>2. PageOK'  BY <1>4 DEF ClickRow, PageOK
    <2> QED BY <1>1, <2>1, <2>2, DetailSound, TaskGoesOn
  <1>5. ASSUME NEW s \in Slots, NEW v \in Views, ChangeView(s, v) PROVE Inv'
    <2>1. IsFree(s) /\ Becomes(s, GetHistory("load", v))  BY <1>5 DEF ChangeView
    <2>2. PageOK'  BY <1>5 DEF ChangeView, PageOK
    <2> QED BY <1>1, <2>1, <2>2, HistorySound, TaskGoesOn
  <1>6. ASSUME NEW s \in Slots, NEW makes, PickFilter(s, makes) PROVE Inv'
    <2>1. IsFree(s) /\ Becomes(s, GetHistory("load", view)) /\ view \in Views
        BY <1>6 DEF PickFilter, PageOK
    <2>2. PageOK'  BY <1>6 DEF PickFilter, PageOK
    <2> QED BY <1>1, <2>1, <2>2, HistorySound, TaskGoesOn
  <1>7. ASSUME NEW l \in Lines, ToggleLine(l) PROVE Inv'
    <2>1. PageOK'  BY <1>7 DEF ToggleLine, PageOK
    <2>2. TasksOK' /\ RescanButton'
        BY <1>7 DEF ToggleLine, TasksOK, Sound, RescanButton, Rescanning
    <2> QED BY <2>1, <2>2
  <1>8. ASSUME NEW f \in Fleets, FleetChanges(f) PROVE Inv'
    <2>1. PageOK'  BY <1>8 DEF FleetChanges, PageOK, page
    <2>2. task' = [s \in Slots |-> IF task[s].seen = {} THEN task[s]
                                   ELSE [task[s] EXCEPT !.seen = @ \cup {f}]]
        BY <1>8 DEF FleetChanges
    <2>3. \A s \in Slots : Sound(task'[s]) /\ task'[s].kind = task[s].kind
        BY <2>2 DEF TasksOK, Sound, Task
    <2>4. TasksOK'  BY <2>2, <2>3 DEF TasksOK, Sound
    <2>5. Rescanning' = Rescanning  BY <2>3 DEF Rescanning
    <2>6. RescanButton'  BY <1>8, <2>5 DEF FleetChanges, RescanButton
    <2> QED BY <2>1, <2>4, <2>6
  <1>9. ASSUME NEW s \in Slots, GotFleet(s) PROVE Inv'
    <2> DEFINE t == AfterFleet(task[s].kind)
    <2>1. task[s].kind \in {"refresh", "rescan"}
        BY <1>9 DEF GotFleet, TasksOK, Sound
    <2>2. Sound(t) /\ t.kind = task[s].kind
      <3>1. CASE selected # None
        <4>1. selected \in Miners  BY <3>1 DEF PageOK
        <4>2. t = GetDetail(task[s].kind, selected)  BY <3>1 DEF AfterFleet
        <4> QED BY <2>1, <4>1, <4>2, DetailSound
      <3>2. CASE selected = None
        <4>1. view \in Views  BY DEF PageOK
        <4>2. t = GetHistory(task[s].kind, view)  BY <3>2 DEF AfterFleet
        <4> QED BY <2>1, <4>1, <4>2, HistorySound
      <3> QED BY <3>1, <3>2
    <2>3. Becomes(s, t)  BY <1>9 DEF GotFleet
    <2> HIDE DEF t
    <2>4. task[s].seen \subseteq Fleets  BY DEF TasksOK, Task
    <2>5. miners' \subseteq Miners  BY <1>9, <2>4, DashboardAssumption DEF GotFleet
    <2>6. PageOK'  BY <1>9, <2>5 DEF GotFleet, PageOK
    <2> QED BY <2>2, <2>3, <2>6, TaskGoesOn
  <1>10. ASSUME NEW s \in Slots, FleetFails(s) PROVE Inv'
    BY <1>10, ButtonEnds, PageSame DEF FleetFails
  <1>11. ASSUME NEW s \in Slots, GotDetail(s) PROVE Inv'
    <2>1. task[s].arg \in Miners /\ task[s].kind \in {"refresh", "click", "rescan"}
        BY <1>11 DEF GotDetail, TasksOK, Sound
    <2>2. PageOK'  BY <1>11, <2>1 DEF GotDetail, PageOK
    <2>3. CASE task[s].kind = "click"
      <3>1. Ends(s)  BY <1>11, <2>3 DEF GotDetail
      <3> QED BY <2>2, <3>1, ButtonEnds
    <2>4. CASE task[s].kind # "click"
      <3>1. Becomes(s, GetHistory(task[s].kind, view))  BY <1>11, <2>4 DEF GotDetail
      <3>2. view \in Views  BY DEF PageOK
      <3> QED BY <2>1, <2>2, <2>4, <3>1, <3>2, HistorySound, TaskGoesOn
    <2> QED BY <2>3, <2>4
  <1>12. ASSUME NEW s \in Slots, GotHistory(s) PROVE Inv'
    BY <1>12, HistoryStep
  <1>13. ASSUME NEW s \in Slots, PostAnswered(s) PROVE Inv'
    <2>1. task[s].kind = "rescan"  BY <1>13 DEF PostAnswered, TasksOK, Sound
    <2>2. PageOK'  BY <1>13, PageSame DEF PostAnswered
    <2>3. CASE Becomes(s, Asks("rescan", "wait", None))
        BY <2>1, <2>2, <2>3, PostSound, TaskGoesOn
    <2>4. CASE Ends(s)  BY <2>2, <2>4, ButtonEnds
    <2> QED BY <1>13, <2>3, <2>4 DEF PostAnswered
  <1>14. ASSUME NEW s \in Slots, WaitOver(s) PROVE Inv'
    <2>1. task[s].kind = "rescan"  BY <1>14 DEF WaitOver, TasksOK, Sound
    <2>2. PageOK'  BY <1>14, PageSame DEF WaitOver
    <2>3. Becomes(s, GetFleet("rescan"))  BY <1>14 DEF WaitOver
    <2> QED BY <2>1, <2>2, <2>3, FleetSound, TaskGoesOn
  <1>15. CASE UNCHANGED vars
    BY <1>15 DEF vars, PageOK, TasksOK, Sound, RescanButton, Rescanning
  <1> QED BY <1>2, <1>3, <1>4, <1>5, <1>6, <1>7, <1>8, <1>9, <1>10, <1>11, <1>12, <1>13, <1>14,
             <1>15 DEF Next, ClearFilters

LEMMA SpecInv == Spec => []Inv
  BY InitInv, NextInv, PTL DEF Spec

-----------------------------------------------------------------------------
\* In whatever order answers and failures come, what the page's parts know of each other
\* fits: the filter's selection its options, the hide flags the lines (loadHistory).
THEOREM PageType == Spec => []TypeOK
  <1>1. Inv => TypeOK  BY DEF Inv, PageOK, TasksOK, TypeOK
  <1> QED BY <1>1, SpecInv, PTL

\* The button is disabled exactly while the one rescan is under way, for any number of
\* requests at once and wherever one of them fails (the rescan handler).
THEOREM PageButton == Spec => []RescanButton
  <1>1. Inv => RescanButton  BY DEF Inv
  <1> QED BY <1>1, SpecInv, PTL

=============================================================================
