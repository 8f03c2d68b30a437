-------------------------- MODULE CoverageReports --------------------------
(***************************************************************************)
(* Coverage reports are found, recognized, parsed under limits and merged  *)
(* (analysis-crap, coverage.rs): LCOV records and Cobertura elements one   *)
(* at a time, the files of coverage.py and Istanbul, and LLVM exports,     *)
(* whose size is checked before any line is kept.                          *)
(*                                                                         *)
(* A path is [root, parts]: root is "" for a relative one.  A line that    *)
(* is not a number is 0.  Hits are written in halves, and negative ones    *)
(* stand for what is not a count.                                          *)
(***************************************************************************)
EXTENDS Integers, Sequences, FiniteSets, SequencesExt, FiniteSetsExt

CONSTANTS
    Supplies,        \* what may be supplied: sequences of trees, each with its reports
    Lower(_),        \* of a name
    Before(_, _),    \* the order of paths of one depth
    MaxLine,         \* u32::MAX
    Limits           \* the MAX_ constants, by name

VARIABLES
    supplied,    \* the trees, in the order they are loaded
    shard,       \* the tree that is loaded next
    document,    \* the report in hand
    format,      \* its format
    at,          \* the entry that is read next
    current,     \* the file of LCOV, or the class of Cobertura
    source,      \* the text of the <source> in hand
    sources, classes,
    budget,      \* ParseBudget and the counters of Cobertura
    files,       \* CoverageReport.files: hits by line by file
    functions,   \* CoverageReport.functions: sets by file
    total,       \* the merge of the reports loaded so far
    phase        \* "find", "parse", "resolve", "loaded", "done" or "refused"

vars == <<supplied, shard, document, format, at, current, source, sources, classes, budget, files, functions,
          total, phase>>

Nothing == [none |-> TRUE]
Empty == [x \in {} |-> 0]
With(f, key, value) == [x \in DOMAIN f \cup {key} |-> IF x = key THEN value ELSE f[x]]

----------------------------------------------------------------------------
(* Paths, lines and hits *)

\* collapse_path_components
Collapsed(parts, relative) ==
    FoldLeft(LAMBDA kept, p :
                 CASE p = "." -> kept
                   [] p = ".." /\ kept # <<>> /\ Last(kept) # ".." -> Front(kept)
                   [] p = ".." /\ ~relative -> kept
                   [] OTHER -> Append(kept, p),
             <<>>, parts)

\* normalize_path: drives and shares ignore case.
Normalized(path) ==
    LET parts == Collapsed(path.parts, path.root = "")
    IN  [root |-> IF path.root \in {"", "/", "//"} THEN path.root ELSE Lower(path.root),
         parts |-> IF path.root \in {"", "/"} THEN parts ELSE [i \in DOMAIN parts |-> Lower(parts[i])]]

Here == [root |-> "", parts |-> <<>>]
AbsoluteLike(path) == path.root # ""
TopLevel == [root |-> "/", parts |-> <<>>]
\* The text of a path, a separator and a path: "/" and another separator begin a share.
Joined(from, path) == [root |-> IF from = TopLevel THEN "//" ELSE from.root, parts |-> from.parts \o path.parts]

\* positive_u32, parse_hit_count and truncated_nonnegative_u64
LineNumber(n) == IF n \in 1..MaxLine THEN n ELSE 0
HitCount(h) == IF h < 0 THEN -1 ELSE h \div 2
HitsOrZero(h) == IF h < 0 THEN 0 ELSE h \div 2

\* retain_max_hits
RetainMaxHits(hits, h) == IF hits > h THEN hits ELSE h

----------------------------------------------------------------------------
(* Bounded insertion *)

\* ParseBudget::insert_line into kept = [files, unique, ok].
InsertLine(kept, record) ==
    LET file == Normalized(record.file)
        known == file \in DOMAIN kept.files
        lines == IF known THEN kept.files[file] ELSE Empty
        fresh == record.line \notin DOMAIN lines
        hits == IF fresh THEN record.hits ELSE RetainMaxHits(lines[record.line], record.hits)
    IN  IF ~kept.ok \/ record.line = 0 THEN kept
        ELSE IF Len(record.file.parts) > Limits.path THEN [kept EXCEPT !.ok = FALSE]
        ELSE IF file = Here THEN kept
        ELSE IF \/ ~known /\ Cardinality(DOMAIN kept.files) = Limits.files
                \/ fresh /\ (Cardinality(DOMAIN lines) = Limits.perFile \/ kept.unique = Limits.lines)
            THEN [kept EXCEPT !.ok = FALSE]
        ELSE [kept EXCEPT !.files = With(@, file, With(lines, record.line, hits)),
                          !.unique = IF fresh THEN @ + 1 ELSE @]

InsertLines(records) ==
    FoldLeft(InsertLine, [files |-> files, unique |-> budget.unique, ok |-> TRUE], records)

Refuse ==
    /\ phase' = "refused"
    /\ UNCHANGED <<supplied, shard, document, format, at, current, source, sources, classes, budget, files, functions, total>>

\* Keep what a step of the parser inserted, having read a number of records, or
\* refuse the report.
Keep(kept, read, file, covered) ==
    IF kept.ok /\ budget.records + read <= Limits.records
        THEN /\ files' = kept.files
             /\ budget' = [budget EXCEPT !.unique = kept.unique, !.records = @ + read]
             /\ at' = at + 1
             /\ current' = file
             /\ functions' = covered
             /\ UNCHANGED <<supplied, shard, document, format, source, sources, classes, total, phase>>
        ELSE Refuse

----------------------------------------------------------------------------
(* Finding a report *)

ReportNames ==
    {"lcov.info", "coverage-final.json", "coverage.json", "cobertura.xml", "coverage.xml", "llvm-cov.json", "codecov.json"}

\* CoverageDiscovery: the candidates below a directory; links are not followed.
Candidates(tree) == {e \in tree.entries : e.kind = "file" /\ Last(e.path) \in ReportNames}

\* Too many entries, or one candidate too large, and nothing is found.
Searchable(tree) ==
    /\ Cardinality(tree.entries) <= Limits.entries
    /\ Cardinality({e \in tree.entries : e.kind = "directory"}) < Limits.directories
    /\ Cardinality(Candidates(tree)) <= Limits.candidates
    /\ \A e \in Candidates(tree) : e.bytes <= Limits.bytes
    /\ MapThenSumSet(LAMBDA e : e.bytes, Candidates(tree)) <= Limits.found

\* candidate_order: the shallowest, then the first.
IsFirst(e, found) ==
    \A x \in found \ {e} :
        \/ Len(e.path) < Len(x.path)
        \/ Len(e.path) = Len(x.path) /\ Before(e.path, x.path)

\* discover_coverage_report: what load_coverage reads of a supplied path.
Found(tree) ==
    CASE tree.kind = "file" -> {e \in tree.entries : e.bytes <= Limits.bytes}
      [] tree.kind = "directory" /\ Searchable(tree) -> {e \in Candidates(tree) : IsFirst(e, Candidates(tree))}
      [] OTHER -> {}

\* coverage_json_format
JsonFormat(d) ==
    CASE d.data # <<>> -> "llvm"
      [] \E i \in DOMAIN d.python : d.python[i].shaped /\ (d.python[i].executed # <<>> \/ d.python[i].missing # <<>>) -> "coverage.py"
      [] \E i \in DOMAIN d.istanbul : d.istanbul[i].shaped -> "istanbul"
      [] OTHER -> "unknown"

\* detect_format: by extension, then by the first characters, then by shape.
Detected(d) ==
    CASE d.extension \in {"info", "lcov"} -> "lcov"
      [] d.extension = "xml" -> "cobertura"
      [] d.text = "lcov" -> "lcov"
      [] d.text = "xml" -> "cobertura"
      [] d.text = "json" -> JsonFormat(d)
      [] OTHER -> "unknown"

NewBudget == [records |-> 0, unique |-> 0, classes |-> 0, classLines |-> 0]

\* What the parser counts before the first entry; XML documents are scanned
\* first, LLVM exports too.
Upfront(d, f) ==
    CASE f = "coverage.py" -> Len(d.python)
      [] f = "istanbul" -> Len(d.istanbul)
      [] f = "cobertura" -> 1
      [] OTHER -> 0

----------------------------------------------------------------------------
(* LCOV and the JSON reports of coverage.py and Istanbul *)

\* consume_lcov_record and append_lcov_data
ConsumeLcov(e) ==
    LET counted(x) == LineNumber(x.line) # 0 /\ HitCount(x.hits) # -1
        record == [file |-> current, line |-> LineNumber(e.line), hits |-> HitCount(e.hits)]
    IN  Keep(InsertLines(IF e.kind = "DA" /\ current # Nothing /\ counted(e) THEN <<record>> ELSE <<>>), 1,
             CASE e.kind = "SF" -> (IF Normalized(e.file) = Here THEN Nothing ELSE Normalized(e.file))
               [] e.kind = "end_of_record" -> Nothing
               [] OTHER -> current,
             functions)

\* append_coverage_py_file
AppendPython(e) ==
    LET lines(numbers, hits) == [i \in DOMAIN numbers |-> [file |-> e.file, line |-> LineNumber(numbers[i]), hits |-> hits]]
        kept == InsertLines(lines(e.executed, 1) \o lines(e.missing, 0))
    IN  Keep(IF Len(e.file.parts) > Limits.path THEN [kept EXCEPT !.ok = FALSE]
             ELSE IF e.shaped THEN kept ELSE InsertLines(<<>>),
             IF e.shaped THEN Len(e.executed) + Len(e.missing) ELSE 0, current, functions)

\* append_istanbul_file: statements by id; an id without a count was not hit.
AppendIstanbul(e) ==
    LET file == IF e.path = Nothing THEN e.key ELSE e.path
        record(id) == [file |-> file, line |-> LineNumber(e.statements[id]),
                       hits |-> IF id \in DOMAIN e.counts THEN HitsOrZero(e.counts[id]) ELSE 0]
        ids == SetToSeq(DOMAIN e.statements)
    IN  Keep(InsertLines(IF e.shaped THEN [i \in DOMAIN ids |-> record(ids[i])] ELSE <<>>),
             IF e.shaped THEN Cardinality(DOMAIN e.statements) + Cardinality(DOMAIN e.counts) ELSE 0,
             current, functions)

----------------------------------------------------------------------------
(* LLVM exports *)

\* llvm_code_region: its lines, and the file of its index.
IsCodeRegion(f, r) ==
    /\ r.code /\ r.index \in DOMAIN f.filenames
    /\ LineNumber(r.from.line) # 0 /\ LineNumber(r.from.column) # 0 /\ LineNumber(r.to.column) # 0
CodeRegion(f, i) ==
    LET r == f.regions[i]
        end == LineNumber(r.to.line)
    IN  [number |-> i, file |-> f.filenames[r.index], hits |-> HitsOrZero(r.hits), from |-> r.from,
         to |-> [line |-> IF end < r.from.line THEN r.from.line ELSE end, column |-> r.to.column]]
CodeRegions(f) == {CodeRegion(f, i) : i \in {j \in DOMAIN f.regions : IsCodeRegion(f, f.regions[j])}}

Span(r) == r.to.line - r.from.line + 1

\* preflight_llvm: every record there may be, before one of them is kept.
RecordsOf(item) ==
    LET ofFunction(f) == Len(f.filenames) + Len(f.regions) + MapThenSumSet(Span, CodeRegions(f))
    IN  Len(item.functions) + FoldLeft(LAMBDA n, f : n + ofFunction(f), 0, item.functions)
        + Len(item.files) + FoldLeft(LAMBDA n, f : n + Len(f.segments), 0, item.files)

Preflight(d) ==
    LET all == UNION {UNION {{<<i, j, r>> : r \in CodeRegions(d.data[i].functions[j])} : j \in DOMAIN d.data[i].functions} :
                          i \in DOMAIN d.data}
    IN  /\ \A i \in DOMAIN d.data : \A j \in DOMAIN d.data[i].files : Len(d.data[i].files[j].file.parts) <= Limits.path
        /\ \A x \in all : Span(x[3]) <= Limits.region /\ Len(x[3].file.parts) <= Limits.path
        /\ MapThenSumSet(LAMBDA x : Span(x[3]), all) <= Limits.expanded
        /\ \A i \in DOMAIN d.data : \A j \in DOMAIN d.data[i].functions :
               Len(d.data[i].functions[j].filenames) <= Limits.files
        /\ Len(d.data) + FoldLeft(LAMBDA n, item : n + RecordsOf(item), 0, d.data) <= Limits.records

Sooner(x, y) == x.line < y.line \/ (x.line = y.line /\ x.column <= y.column)

\* grouped_function_coverage: the regions of a function in one file.
FunctionCoverage(regions) ==
    LET covered == UNION {r.from.line..r.to.line : r \in regions}
    IN  [anchor |-> (CHOOSE r \in regions : \A x \in regions : Sooner(r.from, x.from)).from,
         end |-> (CHOOSE r \in regions : \A x \in regions : Sooner(x.to, r.to)).to,
         lines |-> [l \in covered |-> Max({r.hits : r \in {x \in regions : l \in x.from.line..x.to.line}})],
         spans |-> {<<r.from, r.to>> : r \in regions}]

\* append_llvm_item: the regions of its functions, then the segments of its files.
AppendLlvm(item) ==
    LET regions == UNION {{<<j, r>> : r \in CodeRegions(item.functions[j])} : j \in DOMAIN item.functions}
        ofRegion(r) == [l \in 1..Span(r) |-> [file |-> r.file, line |-> r.from.line + l - 1, hits |-> r.hits]]
        ofFile(f) == LET entries == SelectSeq(f.segments, LAMBDA x : x.entry)
                     IN  [i \in DOMAIN entries |-> [file |-> f.file, line |-> LineNumber(entries[i].line), hits |-> HitsOrZero(entries[i].hits)]]
        inOrder == SetToSeq(regions)
        grouped == {<<x[1], x[2].file>> : x \in regions}
        covers(file) == {FunctionCoverage({x[2] : x \in {y \in regions : <<y[1], y[2].file>> = g}}) :
                            g \in {h \in grouped : Normalized(h[2]) = file}}
        named == {Normalized(g[2]) : g \in grouped} \ {Here}
    IN  Keep(InsertLines(FlattenSeq([i \in DOMAIN inOrder |-> ofRegion(inOrder[i][2])])
                         \o FlattenSeq([i \in DOMAIN item.files |-> ofFile(item.files[i])])), 0, current,
             [file \in DOMAIN functions \cup named |->
                 (IF file \in DOMAIN functions THEN functions[file] ELSE {})
                 \cup (IF file \in named THEN covers(file) ELSE {})])

----------------------------------------------------------------------------
(* Cobertura *)

\* XmlPreflight: no declarations, and no element beyond what is accepted.
XmlAccepted(d) ==
    LET nested(form, i) == Cardinality({j \in 1..i : d.entries[j].markup = "tag" /\ d.entries[j].form = form})
    IN  /\ \A i \in DOMAIN d.entries :
               /\ d.entries[i].markup # "declaration"
               /\ d.entries[i].attributes <= Limits.attributes
               /\ d.entries[i].bytes <= (IF d.entries[i].markup \in {"comment", "cdata"} THEN Limits.value ELSE Limits.markup)
               /\ nested("open", i) - nested("close", i) <= Limits.depth
        /\ MapThenSumSet(LAMBDA i : d.entries[i].namespaces, DOMAIN d.entries) <= Limits.namespaces

\* The part of CoberturaState that an element changes.
Reading ==
    [current |-> current, source |-> source, sources |-> sources, classes |-> classes, budget |-> budget, ok |-> TRUE]
Failed(x) == [x EXCEPT !.ok = FALSE]

\* finish_class
ClassDone(x) ==
    IF x.current = Nothing THEN x
    ELSE [x EXCEPT !.classes = Append(@, x.current), !.current = Nothing]

\* start_class: a class ends the one before it.
StartClass(x, e) ==
    IF x.budget.classes = Limits.classes \/ e.repeated \/ (e.file # Nothing /\ Len(e.file.parts) > Limits.path)
        THEN Failed(x)
        ELSE [ClassDone(x) EXCEPT
                 !.budget.classes = @ + 1,
                 !.current = IF e.file = Nothing THEN Nothing ELSE [file |-> Normalized(e.file), lines |-> Empty]]

\* append_xml_line and insert_class_line: every line counts, those of a class
\* are kept.
AppendXmlLine(x, e) ==
    LET line == LineNumber(e.line)
        lines == x.current.lines
        hits == IF line \in DOMAIN lines THEN RetainMaxHits(lines[line], HitsOrZero(e.hits)) ELSE HitsOrZero(e.hits)
        counted == [x EXCEPT !.budget.classLines = @ + 1]
    IN  IF x.budget.classLines = Limits.classLines \/ (x.current # Nothing /\ e.repeated) THEN Failed(x)
        ELSE IF x.current = Nothing \/ line = 0 THEN counted
        ELSE IF line \notin DOMAIN lines /\ Cardinality(DOMAIN lines) = Limits.perFile THEN Failed(x)
        ELSE [counted EXCEPT !.current.lines = With(@, line, hits)]

\* handle_start
Started(x, e) ==
    CASE e.name = "source" -> [x EXCEPT !.source = Here]
      [] e.name = "class" -> StartClass(x, e)
      [] e.name = "line" -> AppendXmlLine(x, e)
      [] OTHER -> x

\* append_cobertura_source: the text of a source may come in pieces, of which
\* all but the first begin with a separator.
Texted(x, e) ==
    IF x.source = Nothing THEN x
    ELSE IF Len(x.source.parts) + Len(e.text.parts) > Limits.path THEN Failed(x)
    ELSE [x EXCEPT !.source = IF x.source = Here THEN e.text ELSE Joined(x.source, e.text)]

\* handle_end and finish_source
Ended(x, e) ==
    LET path == IF x.source = Nothing THEN Here ELSE Normalized(x.source)
    IN  CASE e.name = "class" -> ClassDone(x)
          [] e.name = "source" /\ path = Here -> [x EXCEPT !.source = Nothing]
          [] e.name = "source" /\ path # Here /\ Len(x.sources) < Limits.sources ->
                 [x EXCEPT !.source = Nothing, !.sources = Append(@, path)]
          [] e.name = "source" /\ path # Here -> Failed(x)
          [] OTHER -> x

\* handle_event, for what the reader makes of an element: two events of one that
\* is empty, none of a comment.
HandleEvent(e) ==
    LET after == CASE e.markup \in {"comment", "instruction"} -> Reading
                   [] e.markup = "cdata" \/ e.name = "text" -> Texted(Reading, e)
                   [] e.form = "open" -> Started(Reading, e)
                   [] e.form = "close" -> Ended(Reading, e)
                   [] OTHER -> IF Started(Reading, e).ok THEN Ended(Started(Reading, e), e) ELSE Failed(Reading)
        events == IF e.markup = "comment" THEN 0 ELSE IF e.form = "empty" THEN 2 ELSE 1
    IN  IF after.ok /\ budget.records + events <= Limits.records
            THEN /\ current' = after.current
                 /\ source' = after.source
                 /\ sources' = after.sources
                 /\ classes' = after.classes
                 /\ budget' = [after.budget EXCEPT !.records = @ + events]
                 /\ at' = at + 1
                 /\ UNCHANGED <<supplied, shard, document, format, files, functions, total, phase>>
            ELSE Refuse

\* insert_cobertura_line: under the class's own path, and below every source,
\* whose text and the path's, joined by a separator, are normalized once more.
Aliases(file) == IF AbsoluteLike(file) THEN <<file>> ELSE <<file>> \o [i \in DOMAIN sources |-> Normalized(Joined(sources[i], file))]

\* build_cobertura_report: what has to be resolved is counted first.
ResolveClasses ==
    LET all == IF current = Nothing THEN classes ELSE Append(classes, current)
        resolved == [i \in DOMAIN all |-> Cardinality(DOMAIN all[i].lines) * Len(Aliases(all[i].file))]
        ofLine(c, l) == [k \in DOMAIN Aliases(c.file) |-> [file |-> Aliases(c.file)[k], line |-> l, hits |-> c.lines[l]]]
        ofClass(c) == LET ls == SetToSortSeq(DOMAIN c.lines, <) IN FlattenSeq([i \in DOMAIN ls |-> ofLine(c, ls[i])])
        kept == InsertLines(FlattenSeq([i \in DOMAIN all |-> ofClass(all[i])]))
        tooLong(c) == \E k \in DOMAIN Aliases(c.file) : Len(Aliases(c.file)[k].parts) > Limits.path
    IN  IF /\ FoldLeft(LAMBDA n, x : n + x, 0, resolved) <= Limits.resolution
           /\ kept.ok /\ \A i \in DOMAIN all : DOMAIN all[i].lines # {} => ~tooLong(all[i])
            THEN /\ files' = kept.files
                 /\ budget' = [budget EXCEPT !.unique = kept.unique]
                 /\ current' = Nothing
                 /\ classes' = all
                 /\ phase' = "loaded"
                 /\ UNCHANGED <<supplied, shard, document, format, at, source, sources, functions, total>>
            ELSE Refuse

----------------------------------------------------------------------------
(* Loading and merging *)

\* load_coverage: find the report, read it and recognize its format.  Reading
\* checks its size again.
Load ==
    /\ phase = "find"
    /\ LET found == Found(supplied[shard])
       IN  IF found = {} THEN Refuse
           ELSE LET d == (CHOOSE e \in found : TRUE).document
                    f == Detected(d)
                    refused == \/ f = "unknown"
                               \/ f = "cobertura" /\ (d.text # "xml" \/ ~XmlAccepted(d))
                               \/ f \in {"llvm", "coverage.py", "istanbul"} /\ Upfront(d, f) > Limits.files
                               \/ f = "llvm" /\ ~Preflight(d)
                IN  IF refused \/ Upfront(d, f) > Limits.records THEN Refuse
                    ELSE /\ document' = d
                         /\ format' = f
                         /\ budget' = [NewBudget EXCEPT !.records = Upfront(d, f)]
                         /\ at' = 1
                         /\ phase' = "parse"
                         /\ UNCHANGED <<supplied, shard, current, source, sources, classes, files, functions, total>>

Entries ==
    CASE format = "coverage.py" -> document.python
      [] format = "istanbul" -> document.istanbul
      [] format = "llvm" -> document.data
      [] format = "lcov" /\ document.text # "lcov" -> <<>>    \* nothing but malformed records
      [] OTHER -> document.entries

Reads(f) == phase = "parse" /\ format = f /\ at \in DOMAIN Entries
ReadLcov == Reads("lcov") /\ ConsumeLcov(Entries[at])
ReadPython == Reads("coverage.py") /\ AppendPython(Entries[at])
ReadIstanbul == Reads("istanbul") /\ AppendIstanbul(Entries[at])
ReadLlvm == Reads("llvm") /\ AppendLlvm(Entries[at])
ReadElement == Reads("cobertura") /\ HandleEvent(Entries[at])

ReadEnd ==
    /\ phase = "parse" /\ at \notin DOMAIN Entries
    /\ IF format = "cobertura"
           THEN IF budget.records = Limits.records THEN Refuse ELSE ResolveClasses    \* the end is an event, too
           ELSE /\ phase' = "loaded"
                /\ UNCHANGED <<supplied, shard, document, format, at, current, source, sources, classes, budget, files, functions, total>>

\* non_empty_report, then CoverageReport::merge with what is there.
Merge ==
    /\ phase = "loaded"
    /\ IF files = Empty THEN Refuse
       ELSE LET both(f) == IF f \notin DOMAIN total.files THEN files[f]
                           ELSE IF f \notin DOMAIN files THEN total.files[f]
                           ELSE [l \in DOMAIN files[f] \cup DOMAIN total.files[f] |->
                                    IF l \notin DOMAIN files[f] THEN total.files[f][l]
                                    ELSE IF l \notin DOMAIN total.files[f] THEN files[f][l]
                                    ELSE RetainMaxHits(total.files[f][l], files[f][l])]
                of(f, from) == IF f \in DOMAIN from THEN from[f] ELSE {}
            IN  /\ total' = [format |-> IF total.format \in {"none", format} THEN format ELSE "merged",
                             files |-> [f \in DOMAIN files \cup DOMAIN total.files |-> both(f)],
                             functions |-> [f \in DOMAIN functions \cup DOMAIN total.functions |->
                                               of(f, functions) \cup of(f, total.functions)]]
                /\ shard' = shard + 1
                /\ files' = Empty /\ functions' = Empty
                /\ current' = Nothing /\ source' = Nothing /\ sources' = <<>> /\ classes' = <<>>
                /\ phase' = IF shard = Len(supplied) THEN "done" ELSE "find"
                /\ UNCHANGED <<supplied, document, format, at, budget>>

NoReport == [format |-> "none", files |-> Empty, functions |-> Empty]

Init ==
    /\ supplied \in Supplies /\ shard = 1
    /\ document = Nothing /\ format = "none" /\ at = 0
    /\ current = Nothing /\ source = Nothing /\ sources = <<>> /\ classes = <<>>
    /\ budget = NewBudget
    /\ files = Empty /\ functions = Empty
    /\ total = NoReport
    /\ phase = "find"

Next ==
    \/ Load
    \/ ReadLcov \/ ReadPython \/ ReadIstanbul \/ ReadLlvm \/ ReadElement
    \/ ReadEnd
    \/ Merge

Spec == Init /\ [][Next]_vars

----------------------------------------------------------------------------
(* What the reports say, record by record *)

Said(file, line, hits) ==
    IF Normalized(file) = Here \/ LineNumber(line) = 0 THEN {} ELSE {[file |-> Normalized(file), line |-> line, hits |-> hits]}

\* The last of the indices below n that satisfy a condition opened what n is in.
LastOf(indices) == IF indices = {} THEN 0 ELSE Max(indices)

LcovSays(d) ==
    UNION {LET i == LastOf({k \in 1..(j - 1) : d.entries[k].kind # "DA"})
           IN  IF d.entries[j].kind = "DA" /\ i # 0 /\ d.entries[i].kind = "SF" /\ d.entries[j].hits >= 0
                   THEN Said(d.entries[i].file, d.entries[j].line, d.entries[j].hits \div 2) ELSE {} :
           j \in DOMAIN d.entries}

SourcesSaid(d) ==
    LET named(name, i) == d.entries[i].markup = "tag" /\ d.entries[i].name = name
        text(i, k) == FoldLeft(LAMBDA path, e : IF path = Here THEN e.text ELSE Joined(path, e.text), Here,
                               SelectSeq(SubSeq(d.entries, i, k), LAMBDA e : e.name = "text"))
    IN  {text(i, k) : <<i, k>> \in {x \in (DOMAIN d.entries) \X (DOMAIN d.entries) :
            /\ x[1] < x[2] /\ named("source", x[1]) /\ named("source", x[2])
            /\ d.entries[x[1]].form = "open" /\ \A m \in x[1] + 1..x[2] - 1 : ~named("source", m)}} \ {Here}

\* A file below a source.  Below the source "/" it is taken for one of a share.
Within(place, file) ==
    Normalized([root |-> IF place.root = "/" /\ place.parts = <<>> THEN "//" ELSE place.root,
                parts |-> place.parts \o file.parts])

CoberturaSays(d) ==
    LET class(j) == LastOf({k \in 1..(j - 1) : d.entries[k].name = "class"})
        names(file) == {file} \cup (IF file.root # "" THEN {} ELSE {Within(Normalized(x), Normalized(file)) : x \in SourcesSaid(d)})
        hits(e) == IF e.hits < 0 THEN 0 ELSE e.hits \div 2
    IN  UNION {UNION {Said(x, d.entries[j].line, hits(d.entries[j])) : x \in names(d.entries[class(j)].file)} :
               j \in {k \in DOMAIN d.entries :
                         /\ d.entries[k].name = "line" /\ class(k) # 0
                         /\ d.entries[class(k)].form = "open" /\ d.entries[class(k)].file # Nothing}}

LlvmSays(d) ==
    UNION {UNION {UNION {Said(r.file, l, r.hits) : l \in r.from.line..r.to.line} :
                      r \in UNION {CodeRegions(d.data[i].functions[j]) : j \in DOMAIN d.data[i].functions}}
           \cup UNION {UNION {Said(f.file, x.line, HitsOrZero(x.hits)) : x \in {y \in Range(f.segments) : y.entry}} :
                            f \in Range(d.data[i].files)} :
           i \in DOMAIN d.data}

DocumentSays(d) ==
    CASE Detected(d) = "lcov" -> LcovSays(d)
      [] Detected(d) = "cobertura" -> CoberturaSays(d)
      [] Detected(d) = "llvm" -> LlvmSays(d)
      [] Detected(d) = "coverage.py" ->
             UNION {UNION {Said(e.file, l, 1) : l \in Range(e.executed)} \cup UNION {Said(e.file, l, 0) : l \in Range(e.missing)} :
                        e \in {x \in Range(d.python) : x.shaped}}
      [] OTHER ->
             UNION {UNION {Said(IF e.path = Nothing THEN e.key ELSE e.path, e.statements[id],
                                IF id \in DOMAIN e.counts THEN HitsOrZero(e.counts[id]) ELSE 0) : id \in DOMAIN e.statements} :
                        e \in {x \in Range(d.istanbul) : x.shaped}}

\* Repeated records retain the highest hit count, whatever order they come in
\* and however they are split over reports (insert_line's comment): once the
\* reports are merged, every line that one of them says is executable is there
\* under every path it is said of, with the highest count said of it, and no
\* other; nothing is truncated at a limit, and the spans of a function agree
\* with the lines of its file.  The counters that limit a report say what it
\* holds.  One reading is the program's own: a class below the source "/" is
\* said of a share, and not of a file below the root (see Within).
ReportsAreRead ==
    /\ phase = "done" =>
           LET said == UNION {UNION {DocumentSays(e.document) : e \in Found(supplied[i])} : i \in DOMAIN supplied}
           IN  /\ DOMAIN total.files = {x.file : x \in said}
               /\ \A f \in DOMAIN total.files : DOMAIN total.files[f] = {x.line : x \in {y \in said : y.file = f}}
               /\ \A x \in said : total.files[x.file][x.line] >= x.hits
               /\ \A f \in DOMAIN total.files : \A l \in DOMAIN total.files[f] :
                      [file |-> f, line |-> l, hits |-> total.files[f][l]] \in said
               /\ \A f \in DOMAIN total.functions : \A c \in total.functions[f] :
                      /\ \A l \in DOMAIN c.lines : c.lines[l] <= total.files[f][l]
                      /\ \A x \in c.spans : Sooner(c.anchor, x[1]) /\ Sooner(x[2], c.end)
    /\ phase \in {"parse", "loaded"} =>
           /\ budget.unique = MapThenSumSet(LAMBDA f : Cardinality(DOMAIN files[f]), DOMAIN files)
           /\ budget.unique <= Limits.lines /\ Cardinality(DOMAIN files) <= Limits.files

=============================================================================
