------------------------------ MODULE Settings ------------------------------
(***************************************************************************)
(* What the page of web/static/app.js keeps in localStorage: the columns    *)
(* and the order of the fleet table, the time range of the chart, the width *)
(* and the collapsed sections of the filter panel.  Each is a variable of   *)
(* the page and a saved copy, which may be absent or unreadable when the    *)
(* page first loads; a reload starts over from the copies.  A copy is {v},  *)
(* or {} when nothing that can be read is saved.                            *)
(*                                                                          *)
(* Every writer of the column list filters COLUMNS, so the saved order is   *)
(* that of the table and a list is its set.  Instants are small integers,   *)
(* in the minutes of the date inputs; widths count keyboard steps.          *)
(***************************************************************************)
EXTENDS Integers

CONSTANTS
    Columns,        \* ids of COLUMNS
    Locked,         \* columns that stay visible; the address is one
    DefaultOn,      \* columns visible at first
    SortOf,         \* column -> its sort key
    Texty,          \* sort keys that start ascending
    IP,             \* the column, and the sort key, of the address
    Unknown,        \* a column, sort key, range or section of another version of the page
    Sections,       \* sections of the filter panel
    Presets,        \* chart ranges other than "custom"
    Span,           \* preset -> its length
    Clock,          \* instants a handler may run at
    Inputs,         \* instants a user may enter
    NoTime,         \* an empty date input, or a bound that is not sent
    WidthMin, WidthMax, WidthDefault,
    Reserved,       \* FILTERS_RESIZER_PX + FILTERS_RIGHT_MIN
    Grids,          \* widths of the dashboard grid
    Pointers        \* where the panel's edge may be dragged to

ASSUME SettingsAssumption ==
    /\ Locked \cup DefaultOn \subseteq Columns /\ IP \in Locked /\ Unknown \notin Columns
    /\ DOMAIN SortOf = Columns /\ SortOf[IP] = IP /\ \A c \in Columns : SortOf[c] # Unknown
    /\ {"custom", Unknown} \cap Presets = {} /\ Unknown # "custom" /\ Unknown \notin Sections
    /\ "1d" \in Presets /\ Span \in [Presets -> Nat]
    /\ Clock \cup Inputs \subseteq Nat /\ NoTime \notin Int
    /\ WidthMin \in Nat /\ WidthMax \in Nat /\ WidthDefault \in Nat /\ Reserved \in Nat
    /\ WidthMin <= WidthDefault /\ WidthDefault <= WidthMax
    /\ Grids \subseteq Nat /\ Pointers \subseteq Int

VARIABLES
    columns, savedColumns,              \* state.visibleColumns and "tableColumns"
    sort, savedSort,                    \* state.sortKey, sortDir and "tableSort"
    range, savedRange,                  \* state.chartRange and "chartRange"
    custom, savedCustom,                \* state.chartFrom, chartTo and "chartCustomRange"
    mobile,                             \* CHART_MOBILE_MQ.matches
    width, savedWidth,                  \* state.filtersWidth and "filtersWidth"
    grid,                               \* width of the dashboard grid
    dragging,                           \* a drag of the panel's edge is under way
    collapsed, savedSections,           \* class of the sections and "filterSectionsCollapsed"
    keyless                             \* that copy is an array, of which JSON saves no keys

table == <<columns, savedColumns, sort, savedSort>>
chart == <<range, savedRange, custom, savedCustom, mobile>>
panel == <<width, savedWidth, grid, dragging>>
sections == <<collapsed, savedSections, keyless>>
vars == <<columns, savedColumns, sort, savedSort, range, savedRange, custom, savedCustom, mobile,
          width, savedWidth, grid, dragging, collapsed, savedSections, keyless>>

SortKeys == {SortOf[c] : c \in Columns}
Ranges == Presets \cup {"custom"}
Instants == Int \cup {NoTime}

Sort == [key : SortKeys, dir : {1, -1}]
Custom == [from : Instants, to : Instants]

-----------------------------------------------------------------------------
(* Loading *)

DefaultColumns == DefaultOn \cup Locked

LoadColumns(saved) ==
    LET valid == (UNION saved) \cap Columns
    IN  Locked \cup (IF valid = {} THEN DefaultColumns ELSE valid)

\* What is saved, if anything is, else the given value.
Saved(saved, default) == IF saved = {} THEN default ELSE CHOOSE v \in saved : TRUE

LoadSort(saved) ==
    LET order == Saved(saved, [key |-> IP, dir |-> 1])
    IN  [order EXCEPT !.key = IF @ \in SortKeys THEN @ ELSE IP]

\* Mutant: the saved range is taken as it is.
LoadRangeUnchecked(saved) == Saved(saved, "1d")

LoadRange(saved) ==
    LET r == Saved(saved, "1d") IN IF r \in Ranges THEN r ELSE "1d"

LoadCustom(saved) == Saved(saved, [from |-> NoTime, to |-> NoTime])

Within(low, high, n) == IF n < low THEN low ELSE IF n > high THEN high ELSE n

LoadWidth(saved) == Within(WidthMin, WidthMax, Saved(saved, WidthDefault))

LoadSections(saved) == saved \cap Sections

\* maxFiltersWidthForViewport: room for the handle and the right column, if there is any.
MaxWidth(g) == Within(WidthMin, WidthMax, g - Reserved)

\* clampFiltersWidth.
ClampWidth(g, n) == Within(WidthMin, MaxWidth(g), n)

-----------------------------------------------------------------------------
(* The fleet table *)

\* Mutant: the order falls back without being saved.
SetVisibleColumnsUnsaved(ids) ==
    /\ columns' = Locked \cup ids /\ savedColumns' = {columns'}
    /\ sort' = IF \E c \in columns' : SortOf[c] = sort.key THEN sort ELSE [key |-> IP, dir |-> 1]
    /\ UNCHANGED <<savedSort, chart, panel, sections>>

\* Mutant: hiding the column of the order leaves the order.
SetVisibleColumnsKeepsSort(ids) ==
    /\ columns' = Locked \cup ids /\ savedColumns' = {columns'}
    /\ UNCHANGED <<sort, savedSort, chart, panel, sections>>

\* Locked columns stay; an order by a column that is now hidden becomes one by address.
SetVisibleColumns(ids) ==
    LET visible == Locked \cup ids
        kept    == \E c \in visible : SortOf[c] = sort.key
    IN  /\ columns' = visible /\ savedColumns' = {visible}
        /\ sort' = IF kept THEN sort ELSE [key |-> IP, dir |-> 1]
        /\ savedSort' = IF kept THEN savedSort ELSE {sort'}
        /\ UNCHANGED <<chart, panel, sections>>

\* A checkbox of the columns panel; those of locked columns are disabled.
ToggleColumn(c) ==
    /\ c \notin Locked
    /\ SetVisibleColumns(IF c \in columns THEN columns \ {c} ELSE columns \cup {c})

AllColumns == SetVisibleColumns(Columns)

DefaultsOnly == SetVisibleColumns(DefaultColumns)

\* A header turns the order around, or starts one in the direction that suits its column.
ClickHeader(c) ==
    /\ c \in columns
    /\ sort' = IF sort.key = SortOf[c] THEN [sort EXCEPT !.dir = -@]
               ELSE [key |-> SortOf[c], dir |-> IF SortOf[c] \in Texty THEN 1 ELSE -1]
    /\ savedSort' = {sort'}
    /\ UNCHANGED <<columns, savedColumns, chart, panel, sections>>

-----------------------------------------------------------------------------
(* The chart's range *)

EffectiveRange == IF mobile /\ range = "custom" THEN "1d" ELSE range

\* syncChartRangeUI: what the menu offers, and when there are date inputs.
RangesOffered == IF mobile THEN Presets ELSE Ranges
CustomShown == range = "custom" /\ ~mobile

\* ensureCustomDefaults: empty bounds become the last day.
Seeded(c, now) ==
    [from |-> IF c.from = NoTime THEN now - Span["1d"] ELSE c.from,
     to   |-> IF c.to = NoTime THEN now ELSE c.to]

\* The range menu, which shows the effective range.
ChooseRange(r, now) ==
    /\ r \in RangesOffered \ {EffectiveRange}
    /\ range' = r /\ savedRange' = {r}
    /\ custom' = IF r = "custom" THEN Seeded(custom, now) ELSE custom
    /\ savedCustom' = IF custom' # custom THEN {custom'} ELSE savedCustom
    /\ UNCHANGED <<mobile, table, panel, sections>>

\* One of the date inputs.
EnterCustom(c) ==
    /\ CustomShown
    /\ \/ c.from = custom.from
       \/ c.to = custom.to
    /\ custom' = c /\ savedCustom' = {c}
    /\ UNCHANGED <<range, savedRange, mobile, table, panel, sections>>

\* The window crosses the breakpoint between narrow and wide.
CrossBreakpoint ==
    /\ mobile' = ~mobile
    /\ UNCHANGED <<range, savedRange, custom, savedCustom, table, panel, sections>>

\* chartWindowBounds: the time axis of a chart drawn now.
ChartWindow(now) ==
    LET day == Span["1d"]
    IN  IF EffectiveRange # "custom"
        THEN [since |-> now - Span[EffectiveRange], until |-> now]
        ELSE [since |-> IF custom.from # NoTime THEN custom.from
                        ELSE (IF custom.to # NoTime THEN custom.to ELSE now) - day,
              until |-> IF custom.to # NoTime THEN custom.to ELSE now]

\* Mutant: the hidden custom bounds are sent from a narrow screen too.
QueryWindowAnyRange(now) ==
    IF range # "custom" THEN [since |-> now - Span[range], until |-> NoTime]
    ELSE IF custom = [from |-> NoTime, to |-> NoTime]
    THEN [since |-> now - Span["1d"], until |-> NoTime]
    ELSE [since |-> custom.from, until |-> custom.to]

\* historyTimeParams, as the server reads them at the same instant.
QueryWindow(now) ==
    IF EffectiveRange # "custom"
    THEN [since |-> now - Span[EffectiveRange], until |-> NoTime]
    ELSE IF custom = [from |-> NoTime, to |-> NoTime]
    THEN [since |-> now - Span["1d"], until |-> NoTime]
    ELSE [since |-> custom.from, until |-> custom.to]

-----------------------------------------------------------------------------
(* The filter panel *)

\* applyFiltersWidth.
ApplyWidth(g, n, save) ==
    /\ width' = ClampWidth(g, n)
    /\ savedWidth' = IF save THEN {width'} ELSE savedWidth

\* A drag shows the width, its end saves it.
DragTo(x) ==
    /\ dragging' = TRUE
    /\ ApplyWidth(grid, x, FALSE)
    /\ UNCHANGED <<grid, table, chart, sections>>

DragEnds ==
    /\ dragging
    /\ dragging' = FALSE
    /\ ApplyWidth(grid, width, TRUE)
    /\ UNCHANGED <<grid, table, chart, sections>>

\* Arrows with and without Shift, Home, End, and a double click on the handle.
Nudge ==
    /\ \E n \in {width - 2, width - 1, width + 1, width + 2, WidthMin, MaxWidth(grid), WidthDefault} :
         ApplyWidth(grid, n, TRUE)
    /\ UNCHANGED <<grid, dragging, table, chart, sections>>

\* Mutant: the panel keeps its width when the window shrinks.
ResizeWindowOnly(g) ==
    /\ grid' = g
    /\ UNCHANGED <<width, savedWidth, dragging, table, chart, sections>>

\* The resize handler fits the panel into the window and saves nothing.
ResizeWindow(g) ==
    /\ grid' = g
    /\ ApplyWidth(g, width, FALSE)
    /\ UNCHANGED <<dragging, table, chart, sections>>

\* A section's button reads the saved map, changes one entry and writes it back.
ToggleSection(s) ==
    /\ collapsed' = IF s \in collapsed THEN collapsed \ {s} ELSE collapsed \cup {s}
    /\ savedSections' = IF keyless THEN savedSections
                        ELSE IF s \in collapsed THEN savedSections \ {s} ELSE savedSections \cup {s}
    /\ UNCHANGED <<keyless, table, chart, panel>>

-----------------------------------------------------------------------------
\* A page that loads from what is saved, in a window of any size.
Reload ==
    /\ columns' = LoadColumns(savedColumns)
    /\ sort' = LoadSort(savedSort)
    /\ range' = LoadRange(savedRange)
    /\ custom' = LoadCustom(savedCustom)
    /\ mobile' \in BOOLEAN
    /\ grid' \in Grids
    /\ width' = ClampWidth(grid', LoadWidth(savedWidth))
    /\ dragging' = FALSE
    /\ collapsed' = LoadSections(savedSections)
    /\ UNCHANGED <<savedColumns, savedSort, savedRange, savedCustom, savedWidth, savedSections, keyless>>

\* The first page, on storage that may be empty, damaged or of another version.
Init ==
    /\ savedColumns \in {{}, {{Unknown}}, {{Unknown} \cup Locked}}
    /\ savedSort \in {{}} \cup {{[key |-> k, dir |-> -1]} : k \in SortKeys \cup {Unknown}}
    /\ savedRange \in {{}, {Unknown}, {"custom"}}
    /\ savedCustom = {}
    /\ savedWidth \in {{}, {WidthMax + 1}}
    /\ savedSections \in {{}, {Unknown}} /\ keyless \in BOOLEAN
    /\ keyless => savedSections = {}
    /\ columns = LoadColumns(savedColumns)
    /\ sort = LoadSort(savedSort)
    /\ range = LoadRange(savedRange)
    /\ custom = LoadCustom(savedCustom)
    /\ mobile \in BOOLEAN
    /\ grid \in Grids
    /\ width = ClampWidth(grid, LoadWidth(savedWidth))
    /\ dragging = FALSE
    /\ collapsed = LoadSections(savedSections)

Next ==
    \/ \E c \in Columns : ToggleColumn(c) \/ ClickHeader(c)
    \/ AllColumns \/ DefaultsOnly
    \/ \E r \in Ranges, now \in Clock : ChooseRange(r, now)
    \/ \E c \in [from : Inputs \cup {NoTime}, to : Inputs \cup {NoTime}] : EnterCustom(c)
    \/ CrossBreakpoint
    \/ \E x \in Pointers : DragTo(x)
    \/ DragEnds \/ Nudge
    \/ \E g \in Grids : ResizeWindow(g)
    \/ \E s \in Sections : ToggleSection(s)
    \/ Reload

Spec == Init /\ [][Next]_vars

-----------------------------------------------------------------------------
\* What the rest of the page may rely on: locked columns are visible, the order is by a
\* key of the table, the range is one of the menu, whatever was found in storage.
TypeOK ==
    /\ columns \in {S \in SUBSET Columns : Locked \subseteq S}
    /\ sort \in Sort
    /\ range \in Ranges
    /\ custom \in Custom
    /\ mobile \in BOOLEAN
    /\ width \in Int /\ grid \in Grids /\ dragging \in BOOLEAN
    /\ collapsed \subseteq Sections /\ keyless \in BOOLEAN

\* A reload shows what was shown: whatever the user has changed, by whichever control,
\* and whatever fell back on the way, the saved copies load as the page's own state.
\* (The width is the exception: one that was cut to the window stays saved in full.
\* The sections are another if an array was found in their place: it is taken for the map,
\* and nothing that is put into it is ever saved.)
ReloadRestores ==
    /\ LoadColumns(savedColumns) = columns
    /\ LoadSort(savedSort) = sort
    /\ LoadRange(savedRange) = range
    /\ LoadCustom(savedCustom) = custom
    /\ keyless \/ LoadSections(savedSections) = collapsed

\* The table is ordered by a column that it shows.
SortVisible == \E c \in columns : SortOf[c] = sort.key

\* "If current sort column was hidden, fall back to IP": no sequence of column and
\* header clicks and reloads leaves a table ordered by a column nobody sees.  (A page
\* that starts from the storage of another version may begin that way.)
SortStaysVisible == [][SortVisible => SortVisible']_vars

\* "Leave resizer + a usable right column so we never overflow horizontally": in every
\* window and after every drag, key, resize and reload the panel fits beside the chart.
WidthFits == width \in WidthMin .. MaxWidth(grid)

Inside(w, t) ==
    /\ w.since = NoTime \/ w.since <= t
    /\ w.until = NoTime \/ t <= w.until

\* The page asks for every sample its chart has room for: at no instant does the time
\* axis reach beyond the window of the request, on wide and narrow screens, with both,
\* one or none of the custom bounds given.
QueryCoversChart ==
    \A now \in Clock : \A t \in 0 .. now :
        Inside(ChartWindow(now), t) => Inside(QueryWindow(now), t)

=============================================================================
