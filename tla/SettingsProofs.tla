--------------------------- MODULE SettingsProofs ---------------------------
(***************************************************************************)
(* Proofs about module Settings, for any columns, ranges, sections, widths  *)
(* and window sizes.  The invariant has one part for each group of          *)
(* variables: its types, and that the saved copies load as the page's state *)
(* (which a reload needs, because it replaces the state by what they load   *)
(* as).  An action touches one group, so that each step below is about one  *)
(* part and the others stay by UNCHANGED.                                   *)
(***************************************************************************)
EXTENDS Settings, TLAPS

TableInv ==
    /\ columns \in {S \in SUBSET Columns : Locked \subseteq S}
    /\ sort \in Sort
    /\ LoadColumns(savedColumns) = columns
    /\ LoadSort(savedSort) = sort

ChartInv ==
    /\ range \in Ranges /\ custom \in Custom /\ mobile \in BOOLEAN
    /\ LoadRange(savedRange) = range
    /\ LoadCustom(savedCustom) = custom

PanelInv ==
    /\ grid \in Grids /\ dragging \in BOOLEAN
    /\ width \in WidthMin .. MaxWidth(grid)
    /\ savedWidth \in {{}} \cup {{n} : n \in Int}

SectionsInv ==
    /\ collapsed \subseteq Sections /\ keyless \in BOOLEAN
    /\ keyless \/ LoadSections(savedSections) = collapsed

Inv == TableInv /\ ChartInv /\ PanelInv /\ SectionsInv

-----------------------------------------------------------------------------
(* What loads from a copy. *)

\* A copy that was written loads as what was written (Saved stands for the reads of
\* localStorage).
LEMMA SavedOne == ASSUME NEW v, NEW d PROVE Saved({v}, d) = v
  <1>1. {v} # {}  OBVIOUS
  <1>2. (CHOOSE x \in {v} : TRUE) = v  OBVIOUS
  <1> QED BY <1>1, <1>2 DEF Saved

\* An absent copy loads as the default.
LEMMA SavedNone == ASSUME NEW d PROVE Saved({}, d) = d
  BY DEF Saved

\* The order of the first visit is one of the table.
LEMMA DefaultSort == [key |-> IP, dir |-> 1] \in Sort
  BY SettingsAssumption DEF Sort, SortKeys

\* A saved order of the table loads unchanged.
LEMMA LoadSortOne == ASSUME NEW o \in Sort PROVE LoadSort({o}) = o
  <1>1. Saved({o}, [key |-> IP, dir |-> 1]) = o  BY SavedOne
  <1>2. o.key \in SortKeys /\ o = [o EXCEPT !.key = o.key]  BY DEF Sort
  <1> QED BY <1>1, <1>2 DEF LoadSort

\* A saved list of columns with the locked ones loads unchanged.
LEMMA LoadColumnsOne ==
    ASSUME NEW S \in SUBSET Columns, Locked \subseteq S PROVE LoadColumns({S}) = S
  <1>1. (UNION {S}) \cap Columns = S  OBVIOUS
  <1>2. S # {}  BY SettingsAssumption
  <1> QED BY <1>1, <1>2 DEF LoadColumns

\* Clamping to a window gives a width that fits it (clampFiltersWidth).
LEMMA ClampFits ==
    ASSUME NEW g \in Grids, NEW n \in Int
    PROVE  ClampWidth(g, n) \in WidthMin .. MaxWidth(g)
  <1>1. g \in Int /\ WidthMin \in Int /\ WidthMax \in Int /\ WidthMin <= WidthMax /\ Reserved \in Int
      BY SettingsAssumption
  <1>2. MaxWidth(g) \in Int /\ WidthMin <= MaxWidth(g)  BY <1>1 DEF MaxWidth, Within
  <1> QED BY <1>1, <1>2 DEF ClampWidth, Within

\* Whatever width was saved loads as a number (loadFiltersWidth).
LEMMA LoadWidthInt ==
    ASSUME NEW s \in {{}} \cup {{n} : n \in Int} PROVE LoadWidth(s) \in Int
  <1>1. WidthMin \in Int /\ WidthMax \in Int /\ WidthDefault \in Int  BY SettingsAssumption
  <1>2. Saved(s, WidthDefault) \in Int
    <2>1. CASE s = {}  BY <1>1, <2>1, SavedNone
    <2>2. CASE \E n \in Int : s = {n}
      <3>1. PICK n \in Int : s = {n}  BY <2>2
      <3> QED BY <3>1, SavedOne
    <2> QED BY <2>1, <2>2
  <1> QED BY <1>1, <1>2 DEF LoadWidth, Within

-----------------------------------------------------------------------------
(* Steps. *)

LEMMA TableSame == ASSUME TableInv, UNCHANGED table PROVE TableInv'
  BY DEF TableInv, table, LoadColumns, LoadSort, Saved

LEMMA ChartSame == ASSUME ChartInv, UNCHANGED chart PROVE ChartInv'
  BY DEF ChartInv, chart, LoadRange, LoadCustom, Saved

LEMMA PanelSame == ASSUME PanelInv, UNCHANGED panel PROVE PanelInv'
  BY DEF PanelInv, panel, MaxWidth, Within

LEMMA SectionsSame == ASSUME SectionsInv, UNCHANGED sections PROVE SectionsInv'
  BY DEF SectionsInv, sections, LoadSections

\* setVisibleColumns: the locked columns stay, an order that lost its column starts over
\* by address and is saved, and the new columns show the column of the order.
LEMMA ColumnsStep ==
    ASSUME TableInv, NEW ids \in SUBSET Columns, SetVisibleColumns(ids)
    PROVE  TableInv' /\ SortVisible'
  <1> DEFINE visible == Locked \cup ids
             kept == \E c \in visible : SortOf[c] = sort.key
  <1>1. visible \in SUBSET Columns /\ Locked \subseteq visible  BY SettingsAssumption
  <1>2. columns' = visible /\ savedColumns' = {visible}  BY DEF SetVisibleColumns
  <1>3. LoadColumns(savedColumns') = columns'  BY <1>1, <1>2, LoadColumnsOne
  <1>4. CASE kept
    <2>1. sort' = sort /\ savedSort' = savedSort  BY <1>4 DEF SetVisibleColumns
    <2> QED BY <1>1, <1>2, <1>3, <1>4, <2>1 DEF TableInv, SortVisible, LoadColumns, LoadSort, Saved
  <1>5. CASE ~kept
    <2>1. sort' = [key |-> IP, dir |-> 1] /\ savedSort' = {sort'}  BY <1>5 DEF SetVisibleColumns
    <2>2. LoadSort(savedSort') = sort'  BY <2>1, DefaultSort, LoadSortOne
    <2>3. SortVisible'
      <3>1. IP \in columns' /\ SortOf[IP] = sort'.key  BY <1>2, <2>1, SettingsAssumption
      <3> QED BY <3>1 DEF SortVisible
    <2> QED BY <1>1, <1>2, <1>3, <2>1, <2>2, <2>3, DefaultSort DEF TableInv, LoadColumns, LoadSort, Saved
  <1> QED BY <1>4, <1>5

\* A header orders the table by its own column.
LEMMA HeaderStep ==
    ASSUME TableInv, NEW c \in Columns, ClickHeader(c)
    PROVE  TableInv' /\ SortVisible'
  <1>1. SortOf[c] \in SortKeys  BY DEF SortKeys
  <1>2. sort' \in Sort /\ sort'.key = SortOf[c]
    <2>1. CASE sort.key = SortOf[c]
      <3>1. sort' = [sort EXCEPT !.dir = -@]  BY <2>1 DEF ClickHeader
      <3>2. -sort.dir \in {1, -1}  BY DEF TableInv, Sort
      <3> QED BY <2>1, <3>1, <3>2 DEF TableInv, Sort
    <2>2. CASE sort.key # SortOf[c]
      <3>1. sort' = [key |-> SortOf[c], dir |-> IF SortOf[c] \in Texty THEN 1 ELSE -1]
          BY <2>2 DEF ClickHeader
      <3> QED BY <1>1, <3>1 DEF Sort
    <2> QED BY <2>1, <2>2
  <1>3. columns' = columns /\ savedColumns' = savedColumns /\ savedSort' = {sort'} /\ c \in columns
      BY DEF ClickHeader
  <1>4. LoadSort(savedSort') = sort'  BY <1>2, <1>3, LoadSortOne
  <1>5. TableInv'  BY <1>2, <1>3, <1>4 DEF TableInv, LoadColumns, LoadSort, Saved
  <1>6. SortVisible'  BY <1>2, <1>3 DEF SortVisible
  <1> QED BY <1>5, <1>6

\* A date input and its seed are instants (ensureCustomDefaults).
LEMMA SeededCustom ==
    ASSUME NEW c \in Custom, NEW now \in Clock PROVE Seeded(c, now) \in Custom
  <1>1. now \in Int /\ Span["1d"] \in Int  BY SettingsAssumption
  <1> QED BY <1>1 DEF Seeded, Custom, Instants

LEMMA RangeStep ==
    ASSUME ChartInv, NEW r \in Ranges, NEW now \in Clock, ChooseRange(r, now)
    PROVE  ChartInv'
  <1>1. range' = r /\ savedRange' = {r} /\ mobile' = mobile  BY DEF ChooseRange
  <1>2. LoadRange(savedRange') = range'  BY <1>1, SavedOne DEF LoadRange
  <1>3. custom' \in Custom  BY SeededCustom DEF ChooseRange, ChartInv
  <1>4. LoadCustom(savedCustom') = custom'
    <2>1. CASE custom' = custom
      <3>1. savedCustom' = savedCustom  BY <2>1 DEF ChooseRange
      <3> QED BY <2>1, <3>1 DEF ChartInv, LoadCustom, Saved
    <2>2. CASE custom' # custom
      <3>1. savedCustom' = {custom'}  BY <2>2 DEF ChooseRange
      <3> QED BY <3>1, SavedOne DEF LoadCustom
    <2> QED BY <2>1, <2>2
  <1> QED BY <1>1, <1>2, <1>3, <1>4 DEF ChartInv, LoadRange, LoadCustom, Saved

LEMMA CustomStep ==
    ASSUME ChartInv, NEW c \in [from : Inputs \cup {NoTime}, to : Inputs \cup {NoTime}],
           EnterCustom(c)
    PROVE  ChartInv'
  <1>1. c \in Custom  BY SettingsAssumption DEF Custom, Instants
  <1>2. custom' = c /\ savedCustom' = {c} /\ UNCHANGED <<range, savedRange, mobile>>
      BY DEF EnterCustom
  <1>3. LoadCustom(savedCustom') = custom'  BY <1>2, SavedOne DEF LoadCustom
  <1> QED BY <1>1, <1>2, <1>3 DEF ChartInv, LoadRange, LoadCustom, Saved

\* Whatever is applied, the panel fits, and what is saved is a number.
LEMMA WidthStep ==
    ASSUME PanelInv, NEW g \in Grids, NEW n \in Int, NEW save \in BOOLEAN,
           ApplyWidth(g, n, save), grid' = g, dragging' \in BOOLEAN
    PROVE  PanelInv'
  <1>1. width' \in WidthMin .. MaxWidth(g)  BY ClampFits DEF ApplyWidth
  <1>2. WidthMin \in Int /\ MaxWidth(g) \in Int
      BY SettingsAssumption DEF MaxWidth, Within
  <1>3. width' \in Int  BY <1>1, <1>2
  <1>4. savedWidth' \in {{}} \cup {{k} : k \in Int}  BY <1>3 DEF ApplyWidth, PanelInv
  <1> QED BY <1>1, <1>4 DEF PanelInv, MaxWidth, Within

LEMMA WidthInt == ASSUME PanelInv PROVE width \in Int /\ MaxWidth(grid) \in Int
  <1>1. grid \in Grids /\ width \in WidthMin .. MaxWidth(grid)  BY DEF PanelInv
  <1>2. WidthMin \in Int /\ MaxWidth(grid) \in Int
      BY <1>1, SettingsAssumption DEF MaxWidth, Within
  <1> QED BY <1>1, <1>2

LEMMA SectionStep ==
    ASSUME SectionsInv, NEW s \in Sections, ToggleSection(s) PROVE SectionsInv'
  BY DEF SectionsInv, ToggleSection, LoadSections

\* A reload replaces every variable by what its copy loads as, which is its value; only
\* the width is fitted anew, and sections that are not saved open.
LEMMA ReloadStep ==
    ASSUME Inv, Reload
    PROVE  /\ Inv'
           /\ UNCHANGED <<table, range, custom>>
  <1> USE DEF Inv
  <1>1. UNCHANGED table  BY DEF Reload, TableInv, table
  <1>2. SectionsInv'  BY DEF Reload, SectionsInv, LoadSections
  <1>3. UNCHANGED <<range, savedRange, custom, savedCustom>> /\ mobile' \in BOOLEAN
      BY DEF Reload, ChartInv
  <1>4. ChartInv'  BY <1>3 DEF ChartInv, LoadRange, LoadCustom, Saved
  <1>5. PanelInv'
    <2>1. LoadWidth(savedWidth) \in Int  BY LoadWidthInt DEF PanelInv
    <2>2. ApplyWidth(grid', LoadWidth(savedWidth), FALSE) /\ grid' \in Grids /\ dragging' \in BOOLEAN
        BY DEF Reload, ApplyWidth
    <2>3. FALSE \in BOOLEAN  OBVIOUS
    <2> QED BY <2>1, <2>2, <2>3, WidthStep
  <1> QED BY <1>1, <1>2, <1>3, <1>4, <1>5, TableSame

-----------------------------------------------------------------------------
LEMMA InitInv == Init => Inv
  <1> SUFFICES ASSUME Init PROVE Inv  OBVIOUS
  <1>1. TableInv
    <2>1. LoadColumns(savedColumns) \in SUBSET Columns /\ Locked \subseteq LoadColumns(savedColumns)
        BY SettingsAssumption DEF LoadColumns, DefaultColumns
    <2>2. LoadSort(savedSort) \in Sort
      <3>1. CASE savedSort = {}
        <4>1. Saved(savedSort, [key |-> IP, dir |-> 1]) = [key |-> IP, dir |-> 1]
            BY <3>1, SavedNone
        <4> QED BY <4>1, DefaultSort DEF LoadSort, Sort
      <3>2. CASE \E k \in SortKeys \cup {Unknown} : savedSort = {[key |-> k, dir |-> -1]}
        <4>1. PICK k \in SortKeys \cup {Unknown} : savedSort = {[key |-> k, dir |-> -1]}
            BY <3>2
        <4>2. Saved(savedSort, [key |-> IP, dir |-> 1]) = [key |-> k, dir |-> -1]
            BY <4>1, SavedOne
        <4>3. IP \in SortKeys  BY DefaultSort DEF Sort
        <4> QED BY <4>2, <4>3 DEF LoadSort, Sort
      <3> QED BY <3>1, <3>2 DEF Init
    <2> QED BY <2>1, <2>2 DEF Init, TableInv
  <1>2. ChartInv
    <2>1. LoadRange(savedRange) \in Ranges
        BY SettingsAssumption DEF LoadRange, Ranges
    <2>2. LoadCustom(savedCustom) \in Custom
        BY SavedNone DEF Init, LoadCustom, Custom, Instants
    <2> QED BY <2>1, <2>2 DEF Init, ChartInv
  <1>3. PanelInv
    <2>1. savedWidth \in {{}} \cup {{n} : n \in Int}  BY SettingsAssumption DEF Init
    <2>2. LoadWidth(savedWidth) \in Int  BY <2>1, LoadWidthInt
    <2>3. width \in WidthMin .. MaxWidth(grid)  BY <2>2, ClampFits DEF Init
    <2> QED BY <2>1, <2>3 DEF Init, PanelInv
  <1>4. SectionsInv  BY DEF Init, SectionsInv, LoadSections
  <1> QED BY <1>1, <1>2, <1>3, <1>4 DEF Inv

\* Every step keeps the invariant, and an order by a visible column.
LEMMA NextInv == Inv /\ [Next]_vars => Inv' /\ (SortVisible => SortVisible')
  <1> SUFFICES ASSUME Inv, [Next]_vars PROVE Inv' /\ (SortVisible => SortVisible')
      OBVIOUS
  <1> USE DEF Inv
  <1>1. ASSUME NEW ids \in SUBSET Columns, SetVisibleColumns(ids)
        PROVE  Inv' /\ SortVisible'
    <2>1. UNCHANGED <<chart, panel, sections>>  BY <1>1 DEF SetVisibleColumns
    <2> QED BY <1>1, <2>1, ColumnsStep, ChartSame, PanelSame, SectionsSame
  <1>2. ASSUME NEW c \in Columns, ToggleColumn(c) PROVE Inv' /\ SortVisible'
    <2>1. columns \in SUBSET Columns  BY DEF TableInv
    <2>2. PICK ids \in SUBSET Columns : SetVisibleColumns(ids)  BY <1>2, <2>1 DEF ToggleColumn
    <2> QED BY <2>2, <1>1
  <1>3. CASE AllColumns
    <2>1. SetVisibleColumns(Columns)  BY <1>3 DEF AllColumns
    <2>2. Columns \in SUBSET Columns  OBVIOUS
    <2> QED BY <2>1, <2>2, <1>1
  <1>4. CASE DefaultsOnly
    <2>1. SetVisibleColumns(DefaultColumns)  BY <1>4 DEF DefaultsOnly
    <2>2. DefaultColumns \in SUBSET Columns  BY SettingsAssumption DEF DefaultColumns
    <2> QED BY <2>1, <2>2, <1>1
  <1>5. ASSUME NEW c \in Columns, ClickHeader(c) PROVE Inv' /\ SortVisible'
    <2>1. UNCHANGED <<chart, panel, sections>>  BY <1>5 DEF ClickHeader
    <2> QED BY <1>5, <2>1, HeaderStep, ChartSame, PanelSame, SectionsSame
  <1>6. ASSUME ChartInv', UNCHANGED <<table, panel, sections>>
        PROVE  Inv' /\ (SortVisible => SortVisible')
    <2>1. SortVisible => SortVisible'  BY <1>6 DEF SortVisible, table
    <2> QED BY <1>6, <2>1, TableSame, PanelSame, SectionsSame
  <1>7. ASSUME NEW r \in Ranges, NEW now \in Clock, ChooseRange(r, now)
        PROVE  Inv' /\ (SortVisible => SortVisible')
    <2>1. UNCHANGED <<table, panel, sections>>  BY <1>7 DEF ChooseRange
    <2> QED BY <1>6, <1>7, <2>1, RangeStep
  <1>8. ASSUME NEW c \in [from : Inputs \cup {NoTime}, to : Inputs \cup {NoTime}], EnterCustom(c)
        PROVE  Inv' /\ (SortVisible => SortVisible')
    <2>1. UNCHANGED <<table, panel, sections>>  BY <1>8 DEF EnterCustom
    <2> QED BY <1>6, <1>8, <2>1, CustomStep
  <1>9. CASE CrossBreakpoint
    <2>1. UNCHANGED <<table, panel, sections>>  BY <1>9 DEF CrossBreakpoint
    <2>2. ChartInv'  BY <1>9 DEF CrossBreakpoint, ChartInv, LoadRange, LoadCustom, Saved
    <2> QED BY <1>6, <2>1, <2>2
  <1>10. ASSUME PanelInv', UNCHANGED <<table, chart, sections>>
         PROVE  Inv' /\ (SortVisible => SortVisible')
    <2>1. SortVisible => SortVisible'  BY <1>10 DEF SortVisible, table
    <2> QED BY <1>10, <2>1, TableSame, ChartSame, SectionsSame
  <1>11. grid \in Grids /\ dragging \in BOOLEAN  BY DEF PanelInv
  <1>12. ASSUME NEW x \in Pointers, DragTo(x) PROVE Inv' /\ (SortVisible => SortVisible')
    <2>1. x \in Int  BY SettingsAssumption
    <2>2. ApplyWidth(grid, x, FALSE) /\ grid' = grid /\ dragging' \in BOOLEAN
        BY <1>12 DEF DragTo
    <2>3. PanelInv'  BY <1>11, <2>1, <2>2, WidthStep
    <2> QED BY <1>10, <1>12, <2>3 DEF DragTo
  <1>13. CASE DragEnds
    <2>1. ApplyWidth(grid, width, TRUE) /\ grid' = grid /\ dragging' \in BOOLEAN
        BY <1>13 DEF DragEnds
    <2>2. PanelInv'  BY <1>11, <2>1, WidthInt, WidthStep
    <2> QED BY <1>10, <1>13, <2>2 DEF DragEnds
  <1>14. CASE Nudge
    <2>1. PICK n \in {width - 2, width - 1, width + 1, width + 2, WidthMin, MaxWidth(grid), WidthDefault} :
            ApplyWidth(grid, n, TRUE)
        BY <1>14 DEF Nudge
    <2>2. n \in Int  BY <2>1, WidthInt, SettingsAssumption
    <2>3. grid' = grid /\ dragging' = dragging  BY <1>14 DEF Nudge
    <2>4. PanelInv'  BY <1>11, <2>1, <2>2, <2>3, WidthStep
    <2> QED BY <1>10, <1>14, <2>4 DEF Nudge
  <1>15. ASSUME NEW g \in Grids, ResizeWindow(g) PROVE Inv' /\ (SortVisible => SortVisible')
    <2>1. ApplyWidth(g, width, FALSE) /\ grid' = g /\ dragging' = dragging
        BY <1>15 DEF ResizeWindow
    <2>2. PanelInv'  BY <1>11, <2>1, WidthInt, WidthStep
    <2> QED BY <1>10, <1>15, <2>2 DEF ResizeWindow
  <1>16. ASSUME NEW s \in Sections, ToggleSection(s)
         PROVE  Inv' /\ (SortVisible => SortVisible')
    <2>1. UNCHANGED <<table, chart, panel>>  BY <1>16 DEF ToggleSection
    <2>2. SortVisible => SortVisible'  BY <2>1 DEF SortVisible, table
    <2> QED BY <1>16, <2>1, <2>2, SectionStep, TableSame, ChartSame, PanelSame
  <1>17. CASE Reload
    <2>1. SortVisible => SortVisible'  BY <1>17, ReloadStep DEF SortVisible, table
    <2> QED BY <1>17, <2>1, ReloadStep
  <1>18. CASE UNCHANGED vars
    <2>1. UNCHANGED <<table, chart, panel, sections>>
        BY <1>18 DEF vars, table, chart, panel, sections
    <2>2. SortVisible => SortVisible'  BY <2>1 DEF SortVisible, table
    <2> QED BY <2>1, <2>2, TableSame, ChartSame, PanelSame, SectionsSame
  <1> QED BY <1>2, <1>3, <1>4, <1>5, <1>7, <1>8, <1>9, <1>12, <1>13, <1>14, <1>15, <1>16, <1>17,
             <1>18 DEF Next

LEMMA SpecInv == Spec => []Inv
  <1>1. Inv /\ [Next]_vars => Inv'  BY NextInv
  <1> QED BY InitInv, <1>1, PTL DEF Spec

-----------------------------------------------------------------------------
\* The request covers the time axis, by cases on the range and on the bounds that are set.
LEMMA QueryCovers == ASSUME ChartInv PROVE QueryCoversChart
  <1> SUFFICES ASSUME NEW now \in Clock, NEW t \in 0 .. now, Inside(ChartWindow(now), t)
               PROVE  Inside(QueryWindow(now), t)
      BY DEF QueryCoversChart
  <1>1. now \in Int /\ t \in Int /\ NoTime \notin Int /\ t <= now
    <2>1. now \in Nat /\ NoTime \notin Int  BY SettingsAssumption
    <2> QED BY <2>1
  <1>2. Span \in [Presets -> Nat] /\ "1d" \in Presets  BY SettingsAssumption
  <1>3. custom.from \in Instants /\ custom.to \in Instants
        /\ custom = [from |-> custom.from, to |-> custom.to]
      BY DEF ChartInv, Custom
  <1>4. CASE EffectiveRange # "custom"
    <2>1. EffectiveRange \in Presets
        BY <1>2, <1>4 DEF EffectiveRange, ChartInv, Ranges
    <2>2. Span[EffectiveRange] \in Nat  BY <1>2, <2>1
    <2> DEFINE since == now - Span[EffectiveRange]
    <2>3. since \in Int /\ since # NoTime  BY <1>1, <2>2
    <2>4. ChartWindow(now) = [since |-> since, until |-> now]  BY <1>4 DEF ChartWindow
    <2>5. since <= t  BY <2>3, <2>4 DEF Inside
    <2>6. QueryWindow(now) = [since |-> since, until |-> NoTime]  BY <1>4 DEF QueryWindow
    <2> QED BY <2>5, <2>6 DEF Inside
  <1>5. CASE EffectiveRange = "custom" /\ custom.from = NoTime /\ custom.to = NoTime
    <2> DEFINE since == now - Span["1d"]
    <2>1. since \in Int /\ since # NoTime  BY <1>1, <1>2
    <2>2. ChartWindow(now) = [since |-> since, until |-> now]  BY <1>5 DEF ChartWindow
    <2>3. since <= t  BY <2>1, <2>2 DEF Inside
    <2>4. QueryWindow(now) = [since |-> since, until |-> NoTime]
        BY <1>3, <1>5 DEF QueryWindow
    <2> QED BY <2>3, <2>4 DEF Inside
  <1>6. CASE EffectiveRange = "custom" /\ ~(custom.from = NoTime /\ custom.to = NoTime)
    <2>1. custom # [from |-> NoTime, to |-> NoTime]  BY <1>3, <1>6
    <2>2. QueryWindow(now) = [since |-> custom.from, until |-> custom.to]
        BY <1>6, <2>1 DEF QueryWindow
    <2>3. custom.from # NoTime => ChartWindow(now).since = custom.from  BY <1>6 DEF ChartWindow
    <2>4. custom.to # NoTime => ChartWindow(now).until = custom.to  BY <1>6 DEF ChartWindow
    <2>5. custom.from # NoTime => custom.from <= t  BY <2>3 DEF Inside
    <2>6. custom.to # NoTime => t <= custom.to  BY <2>4 DEF Inside
    <2> QED BY <2>2, <2>5, <2>6 DEF Inside
  <1> QED BY <1>4, <1>5, <1>6

-----------------------------------------------------------------------------
\* Whatever was found in storage, the page's settings are ones its other parts can use
\* (the load functions of app.js).
THEOREM SettingsType == Spec => []TypeOK
  <1>1. Inv => TypeOK
    <2>1. ASSUME Inv PROVE width \in Int  BY <2>1, WidthInt DEF Inv
    <2> QED BY <2>1 DEF Inv, TableInv, ChartInv, PanelInv, SectionsInv, TypeOK
  <1> QED BY <1>1, SpecInv, PTL

\* After any sequence of changes a reload shows the same columns, order, range, bounds and
\* sections (every handler of app.js that saves one of them).
THEOREM SettingsReload == Spec => []ReloadRestores
  <1>1. Inv => ReloadRestores
      BY DEF Inv, TableInv, ChartInv, SectionsInv, ReloadRestores
  <1> QED BY <1>1, SpecInv, PTL

\* The panel fits beside the chart in windows of every size (clampFiltersWidth and its
\* callers).
THEOREM SettingsWidth == Spec => []WidthFits
  <1>1. Inv => WidthFits  BY DEF Inv, PanelInv, WidthFits
  <1> QED BY <1>1, SpecInv, PTL

\* The request for history covers the time axis of the chart, for every span and every
\* pair of bounds (historyTimeParams against chartWindowBounds).
THEOREM SettingsQuery == Spec => []QueryCoversChart
  <1>1. Inv => QueryCoversChart  BY QueryCovers DEF Inv
  <1> QED BY <1>1, SpecInv, PTL

\* No step leaves a table without the column it is sorted by (setVisibleColumns, the
\* header's handler, the load functions).
THEOREM SettingsSort == Spec => SortStaysVisible
  <1>1. Inv /\ [Next]_vars => [SortVisible => SortVisible']_vars  BY NextInv
  <1> QED BY <1>1, SpecInv, PTL DEF Spec, SortStaysVisible

=============================================================================
