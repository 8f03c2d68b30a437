---------------------------- MODULE CoverageJoin ----------------------------
(***************************************************************************)
(* analysis-crap: a coverage report is assembled from its records and      *)
(* joined with the functions that the adapters found in one source file.   *)
(* The columns of the file are numbered through, PerLine of them on each   *)
(* line.  A report knows lines only, or functions with the spans of their  *)
(* code regions; an adapter knows the columns of its functions, or (clang) *)
(* their lines only.                                                       *)
(***************************************************************************)
EXTENDS Naturals, Sequences, FiniteSets, FiniteSetsExt, Functions

CONSTANTS
    PerLine,   \* columns of a line
    Layouts,   \* functions a file may have: [from, to, parent, recorded], numbered
    Reports,   \* reports there may be: [records, regions]
    MaxLines   \* MAX_COVERAGE_LINES_PER_FILE

VARIABLES
    functions,  \* the layout
    precise,    \* whether the adapter records columns
    report,     \* the report as it is in its file
    zero,       \* crap.unreported_as_zero
    records,    \* the records that are still to be read: [line, hits]
    lines,      \* LineCoverage: executable lines, with their hits
    ahead,      \* the lines that the sweep has still to visit
    opening, closing,  \* segments it has still to start, and to end
    active, unmarked,  \* functions with a segment at the line, and those not marked
    ambiguous,  \* peer_ambiguous
    scores,     \* of the functions, once applied
    phase       \* "read", "sweep", "apply", "done" or "error"

reading == <<records, lines>>
sweep == <<ahead, opening, closing, active, unmarked, ambiguous>>
given == <<functions, precise, report, zero>>
vars == <<given, reading, sweep, scores, phase>>

Line(p) == (p - 1) \div PerLine + 1
First(f) == Line(functions[f].from)
Last(f) == Line(functions[f].to)
Nested(f) == {g \in DOMAIN functions : functions[g].parent = f}

\* A closure may be excluded from its function without a record of its own.
Recorded == {f \in DOMAIN functions : functions[f].recorded}

\* A region with the spans of its code: its lines have the hits of the region.
LinesOf(region) == UNION {Line(s[1])..Line(s[2]) : s \in region.spans}

\* Every region also records its lines (append_llvm_function_region).
AllRecords == report.records \cup
    UNION {[line : LinesOf(r), hits : {r.hits}] : r \in report.regions}

-----------------------------------------------------------------------------
\* ParseBudget::insert_line: the highest number of hits is retained.
InsertLine ==
    /\ phase = "read"
    /\ \E r \in records :
           /\ records' = records \ {r}
           /\ IF r.line \in DOMAIN lines
              THEN lines' = [lines EXCEPT ![r.line] = Max({@, r.hits})] /\ phase' = phase
              ELSE IF Cardinality(DOMAIN lines) < MaxLines
              THEN lines' = [l \in DOMAIN lines \cup {r.line} |->
                                IF l = r.line THEN r.hits ELSE lines[l]] /\ phase' = phase
              ELSE lines' = lines /\ phase' = "error"
    /\ UNCHANGED <<given, sweep, scores>>

\* coverage_owned_segments: the runs of lines that are not inside a nested function.
Interior(f) == UNION {First(g) + 1..Last(g) - 1 : g \in Nested(f)}
Segments(f) ==
    LET own == (First(f)..Last(f)) \ Interior(f)
    IN  {s \in own \X own : s[1] <= s[2] /\ s[1]..s[2] \subseteq own /\ s[1] - 1 \notin own /\ s[2] + 1 \notin own}

AllSegments == UNION {{[function |-> f, start |-> s[1], end |-> s[2]] : s \in Segments(f)} : f \in Recorded}

\* non_empty_report, and the start of peer_ambiguous_functions
Join ==
    /\ phase = "read" /\ records = {}
    /\ phase' = IF lines = <<>> THEN "error" ELSE "sweep"
    /\ ahead' = DOMAIN lines
    /\ opening' = AllSegments /\ closing' = AllSegments
    /\ active' = {} /\ unmarked' = {} /\ ambiguous' = {}
    /\ UNCHANGED <<given, reading, scores>>

\* mark_ambiguous_segments, one line: expire, activate and mark.
SweepLine ==
    /\ phase = "sweep" /\ ahead # {}
    /\ LET line == Min(ahead)
           ended == {s \in closing : s.end < line}
           started == {s \in opening : s.start <= line}
           gone == {s.function : s \in ended}
           come == {s.function : s \in {t \in started : t.end >= line}}
           now == (active \ gone) \cup come
           left == (unmarked \ gone) \cup (come \ ambiguous)
       IN  /\ ahead' = ahead \ {line}
           /\ closing' = closing \ ended /\ opening' = opening \ started
           /\ active' = now
           /\ IF Cardinality(now) > 1
              THEN ambiguous' = ambiguous \cup left /\ unmarked' = {}
              ELSE ambiguous' = ambiguous /\ unmarked' = left
    /\ UNCHANGED <<given, reading, scores, phase>>

FinishSweep ==
    /\ phase = "sweep" /\ ahead = {}
    /\ phase' = "apply"
    /\ UNCHANGED <<given, reading, sweep, scores>>

-----------------------------------------------------------------------------
\* function_contains_region: by columns, or else by lines.
Fits(f, r) ==
    IF precise
    THEN \A s \in r.spans :
            /\ functions[f].from <= s[1] /\ s[2] <= functions[f].to
            /\ \A g \in Nested(f) : s[2] < functions[g].from \/ functions[g].to < s[1]
    ELSE \A s \in r.spans :
            /\ First(f) <= Line(s[1]) /\ Line(s[2]) <= Last(f)
            /\ \A g \in Nested(f) : Line(s[2]) < First(g) \/ Last(g) < Line(s[1])

\* function_span_key: lines, then columns of a single line, then the symbol.
Columns(f) == IF First(f) < Last(f) \/ ~precise THEN 0 ELSE functions[f].to - functions[f].from
Shorter(f, g) ==
    LET height(h) == Last(h) - First(h)
    IN  \/ height(f) < height(g)
        \/ height(f) = height(g) /\ Columns(f) < Columns(g)
        \/ height(f) = height(g) /\ Columns(f) = Columns(g) /\ f < g

\* assign_function_coverage
Assigned(f) ==
    {r \in report.regions :
        Fits(f, r) /\ \A g \in Recorded \ {f} : Fits(g, r) => Shorter(f, g)}

\* apply_regional_function: the lines that the regions give it.
RegionalLines(f) == UNION {LinesOf(r) : r \in Assigned(f)} \ UNION {First(g)..Last(g) : g \in Nested(f)}
RegionalHits(f) == {l \in RegionalLines(f) : \E r \in Assigned(f) : l \in LinesOf(r) /\ r.hits > 0}

\* Wrong: only the first line of what is nested counts as a boundary.
FirstBoundary(f) == \E g \in Nested(f) : First(g) \in First(f)..Last(f) \cap DOMAIN lines

\* boundary_is_executable
SharedBoundary(f) ==
    \E g \in Nested(f) : {First(g), Last(g)} \cap First(f)..Last(f) \cap DOMAIN lines # {}

\* owned_line_counts, as sets
Owned(f) == {l \in DOMAIN lines \cap First(f)..Last(f) : l \notin Interior(f)}

Missing(why) == [kind |-> why, covered |-> {}, executable |-> {}]
Zero == Missing("zero")

\* apply_resolved_function
Score(f) ==
    CASE Assigned(f) # {} ->
            [kind |-> "regional", covered |-> RegionalHits(f), executable |-> RegionalLines(f)]
      [] Assigned(f) = {} /\ report.regions # {} -> IF zero THEN Zero ELSE Missing("empty")
      [] report.regions = {} /\ (SharedBoundary(f) \/ f \in ambiguous) -> Missing("ambiguous")
      [] report.regions = {} /\ ~SharedBoundary(f) /\ f \notin ambiguous ->
            IF Owned(f) = {} THEN Missing("empty")
            ELSE [kind |-> "lines", covered |-> {l \in Owned(f) : lines[l] > 0}, executable |-> Owned(f)]

Apply ==
    /\ phase = "apply"
    /\ scores' = [f \in Recorded |-> Score(f)]
    /\ phase' = "done"
    /\ UNCHANGED <<given, reading, sweep>>

Init ==
    /\ functions \in Layouts /\ precise \in BOOLEAN
    /\ report \in Reports /\ zero \in BOOLEAN
    /\ records = AllRecords /\ lines = <<>>
    /\ ahead = {} /\ opening = {} /\ closing = {} /\ active = {} /\ unmarked = {} /\ ambiguous = {}
    /\ scores = <<>> /\ phase = "read"

Next == InsertLine \/ Join \/ SweepLine \/ FinishSweep \/ Apply

Spec == Init /\ [][Next]_vars

-----------------------------------------------------------------------------
\* Functions end after they begin and come before what is nested in them, which
\* lies in them; those that are nested in the same one are disjoint; and only a
\* closure of a recorded function is without a record.
WellNested(l) ==
    /\ l \in Seq([from : Nat \ {0}, to : Nat, parent : Nat, recorded : BOOLEAN])
    /\ \A i \in DOMAIN l :
           /\ l[i].from <= l[i].to /\ l[i].parent < i
           /\ l[i].parent = 0 => l[i].recorded
           /\ l[i].parent # 0 =>
                  LET p == l[l[i].parent] IN p.recorded /\ p.from <= l[i].from /\ l[i].to <= p.to
           /\ \A j \in DOMAIN l : j < i /\ l[i].parent = l[j].parent => l[j].to < l[i].from

\* Lines and columns are counted from 1, and a region has some code.
Consistent(r) ==
    /\ \A x \in r.records : x.line \in Nat \ {0}
    /\ \A x \in r.regions :
           x.spans # {} /\ \A s \in x.spans : s[1] \in Nat \ {0} /\ s[2] \in Nat /\ s[1] <= s[2]

\* The innermost function at a column, if any.
Covers(f, p) == functions[f].from <= p /\ p <= functions[f].to
OwnersOf(p) == {f \in DOMAIN functions : Covers(f, p) /\ ~\E g \in Nested(f) : Covers(g, p)}

OwnersOnLine(l) == UNION {OwnersOf(p) : p \in (l - 1) * PerLine + 1..l * PerLine}
OwnersIn(r) == UNION {OwnersOf(p) : p \in UNION {s[1]..s[2] : s \in r.spans}}

\* No function is scored by another's execution: a line that counts for it has
\* code of no other function on it, whatever is nested in it or stands beside
\* it; and where columns are known, a region that counts for it lies in it
\* alone.  Without that, ambiguity is reported, and only where two functions
\* meet on an executable line (CoverageMapper, peer_ambiguous_functions).
CoverageIsOwn ==
    phase = "done" =>
        \A f \in Recorded :
            /\ scores[f].kind = "lines" => \A l \in scores[f].executable : OwnersOnLine(l) = {f}
            /\ scores[f].kind = "regional" /\ precise => \A r \in Assigned(f) : OwnersIn(r) = {f}
            /\ scores[f].kind = "ambiguous" =>
                   \E l \in DOMAIN lines, g \in DOMAIN functions \ {f} :
                       l \in First(f)..Last(f) /\ l \in First(g)..Last(g)
=============================================================================
