--------------------------- MODULE ProviderImport ---------------------------
(***************************************************************************)
(* The import of another tool's mutation report (provider-mutation,        *)
(* import.rs): Mutation Testing Elements, the outcomes of cargo-mutants,   *)
(* and Muter's JSON.  Each entry is resolved to bytes of its source by an  *)
(* index of lines and checkpoints, registered against duplicates, and      *)
(* given an identity; the first entry that does not fit refuses the        *)
(* report.                                                                 *)
(*                                                                         *)
(* A character is what the coordinates tell apart: its bytes in UTF-8, its *)
(* units in UTF-16, and whether it may end a line.  Texts, names and paths *)
(* are taken from small sets; an offset of -1 is an error.                 *)
(***************************************************************************)
EXTENDS Integers, Sequences, FiniteSets, SequencesExt, TLC

CONSTANTS
    Reports,        \* the reports a behaviour may begin with
    Entries(_),     \* the entries one of them may hold
    Hash(_, _),     \* stable_id of a file and an external id: 0..IdSpace - 1
    IdSpace,        \* 2^64
    Stride,         \* COORDINATE_CHECKPOINT_STRIDE_BYTES
    MaxFiles,       \* MAX_SOURCE_FILES
    MaxMutants,     \* MAX_MUTANTS
    MaxEach,        \* MAX_RETAINED_BYTES_PER_MUTANT
    MaxRetained,    \* MAX_TOTAL_RETAINED_BYTES
    MaxIndex        \* MAX_RETAINED_SOURCE_AND_INDEX_BYTES

VARIABLES
    report,         \* the report, its sources and the project's tree
    format,         \* "mte", "cargo" or "muter"
    mode,           \* CoordinateMode: "scalar" or "utf16"
    files,          \* the sources that were charged, each with its index
    retained,       \* ImportBudget: [index, text]
    results,        \* the mutations imported so far, shown in the order of their positions
    opened,         \* how many of the report's files were begun
    index,          \* of the entry in its list
    given,          \* ghost: the mutants of the report so far, each with its file
    refused,        \* ghost: the entry that was refused
    phase           \* "header", "entries", "done" or "refused"

imported == <<files, retained, results, opened, index>>
ghosts == <<given, refused>>
vars == <<report, format, mode, imported, ghosts, phase>>

NoOffset == -1
NoSpan == <<-1, -1>>
None == <<>>
Greatest(S) == CHOOSE x \in S : \A y \in S : y <= x
Least(S) == CHOOSE x \in S : \A y \in S : x <= y

Total(w) == LET f[k \in 0..Len(w)] == IF k = 0 THEN 0 ELSE f[k - 1] + w[k] IN f

\* coordinate_width, and the sizes of the first characters of a source.
Width(c, m) == IF m = "utf16" THEN c.units ELSE 1
Bytes(s) == Total([i \in DOMAIN s |-> s[i].bytes])
Units(s, m) == Total([i \in DOMAIN s |-> Width(s[i], m)])

----------------------------------------------------------------------------
(* The index of a source *)

\* line_terminator_bytes; zero stands for no terminator.
TerminatorBytes(s, i, m) ==
    CASE m = "scalar" /\ s[i].kind = "lf" -> 1
      [] m = "utf16" /\ s[i].kind = "cr" -> IF i < Len(s) /\ s[i + 1].kind = "lf" THEN 2 ELSE 1
      [] m = "utf16" /\ s[i].kind \in {"lf", "separator"} -> s[i].bytes
      [] OTHER -> 0

Line(b, end) == [start |-> b.start, end |-> end, checkpoints |-> b.checkpoints]

\* CoordinateBuilder::push_character, for the character i at byte b.at.
PushCharacter(s, m, b, i) ==
    LET after == b.at + s[i].bytes
        ends == TerminatorBytes(s, i, m)
        scalar == b.scalar + 1
        unit == b.unit + Width(s[i], m)
        checkpoint == [byte |-> after, scalar |-> scalar, unit |-> unit]
    IN  IF b.at < b.start THEN [b EXCEPT !.at = after]
        ELSE IF ends > 0
        THEN [lines |-> Append(b.lines, Line(b, b.at)), start |-> b.at + ends, last |-> b.at + ends,
              checkpoints |-> <<>>, scalar |-> 0, unit |-> 0, at |-> after]
        ELSE IF after - b.last >= Stride
        THEN [b EXCEPT !.checkpoints = Append(@, checkpoint), !.last = after,
                       !.scalar = scalar, !.unit = unit, !.at = after]
        ELSE [b EXCEPT !.scalar = scalar, !.unit = unit, !.at = after]

\* CoordinateTable::new
Table(s, m) ==
    LET empty == [lines |-> <<>>, start |-> 0, last |-> 0, checkpoints |-> <<>>,
                  scalar |-> 0, unit |-> 0, at |-> 0]
        b == FoldLeft(LAMBDA x, i : PushCharacter(s, m, x, i), empty, [i \in DOMAIN s |-> i])
    IN  Append(b.lines, Line(b, b.at))

\* Wrong: a checkpoint right at the target is passed over, the next one is taken.
CursorBeyond(line, field, bound) ==
    LET before == {k \in DOMAIN line.checkpoints : line.checkpoints[k][field] <= bound}
        k == Cardinality(before) + 1
    IN  IF k \in DOMAIN line.checkpoints THEN line.checkpoints[k]
        ELSE [byte |-> line.start, scalar |-> 0, unit |-> 0]

\* preceding_checkpoint, or the start of the line.
Cursor(line, field, bound) ==
    LET before == {k \in DOMAIN line.checkpoints : line.checkpoints[k][field] <= bound}
    IN  IF before = {} THEN [byte |-> line.start, scalar |-> 0, unit |-> 0]
        ELSE line.checkpoints[Greatest(before)]

\* CachedSource: a text, the bytes and units before each place, and its lines.
Source(s, m) == [text |-> s, bytes |-> Bytes(s), units |-> Units(s, m), lines |-> Table(s, m)]

Places(c) == 0..Len(c.text)
Size(c) == c.bytes[Len(c.text)]

\* CoordinateTable::offset and scan_coordinate: the place in the line where the
\* units from its start reach the target.
Scan(c, line, cursor, target) ==
    LET origin == CHOOSE k \in Places(c) : c.bytes[k] = cursor.byte
        unit == [k \in Places(c) |-> cursor.unit + c.units[k] - c.units[origin]]
        passed == {k \in Places(c) : k >= origin /\ c.bytes[k] <= line.end /\ unit[k] >= target}
        k == IF passed = {} THEN origin ELSE Least(passed)
    IN  IF unit[k] = target THEN c.bytes[k] ELSE NoOffset    \* outside, or in a surrogate pair

Offset(c, position) ==
    IF position.line = 0 \/ position.column = 0 \/ position.line > Len(c.lines) THEN NoOffset
    ELSE LET line == c.lines[position.line]
         IN  Scan(c, line, Cursor(line, "unit", position.column - 1), position.column - 1)

\* source_span
SpanBetween(from, to) ==
    IF from = NoOffset \/ to = NoOffset \/ to < from THEN NoSpan ELSE <<from, to>>

\* locate_scalar_offset, display_scalar_position and utf8_position: the line of
\* an offset, and its column in characters and in bytes.
Position(c, offset) ==
    LET number == Greatest({k \in DOMAIN c.lines : c.lines[k].start <= offset})
        cursor == Cursor(c.lines[number], "byte", offset)
        between == {k \in Places(c) : cursor.byte < c.bytes[k] /\ c.bytes[k] <= offset}
    IN  [line |-> number,
         column |-> cursor.scalar + Cardinality(between) + 1,
         utf8 |-> offset - c.lines[number].start + 1,
         valid |-> offset <= c.lines[number].end]

----------------------------------------------------------------------------
(* What a report is, and where its files are *)

\* recognized_report, validate_mte_header, mte_coordinate_mode.
Recognized(r) ==
    IF {"files", "schemaVersion"} \subseteq r.members THEN "mte"
    ELSE IF r.provider = "cargo-mutants" /\ "outcomes" \in r.members THEN "cargo"
    ELSE IF r.provider = "muter" /\ "fileReports" \in r.members THEN "muter"
    ELSE "none"

HeaderFits(r) ==
    /\ r.major = 2 \/ (r.major = 1 /\ r.provider = "mull")
    /\ r.thresholds.low <= r.thresholds.high /\ r.thresholds.high <= 100
    /\ r.framework # ""

ModeOf(r) ==
    IF /\ Recognized(r) = "mte"
       /\ r.framework = "StrykerJS" \/ (r.framework = "none" /\ r.provider = "stryker")
    THEN "utf16" ELSE "scalar"

\* relative_input, normalize_relative_components, reject_escaping_symlink_prefixes:
\* a path below the root without "..", of which every prefix that exists leads to
\* a place below the root.
NormalizedRelative(path) ==
    LET parts == SelectSeq(path.parts, LAMBDA part : part # ".")
        prefixes == {SubSeq(parts, 1, n) : n \in 1..Len(parts)}
        escapes == {x \in prefixes : x \in report.escaping}
    IN  IF path.elsewhere \/ ".." \in {parts[i] : i \in DOMAIN parts} \/ parts = <<>> \/ escapes # {}
        THEN None ELSE parts

\* MuterTraversal: the files of a name that are in no excluded directory, to the
\* second one, which proves an ambiguity.
Excluded == {".git", ".build", "build", "target", "node_modules", ".venv", "venv"}
Basenames(name) ==
    {f \in report.tree : f[Len(f)] = name /\ ~\E i \in 1..(Len(f) - 1) : f[i] \in Excluded}

\* resolve_indexed_basename, for a path that validate_muter_basename accepts.
UniqueFile(path) ==
    LET found == IF ~path.elsewhere /\ Len(path.parts) = 1 THEN Basenames(path.parts[1]) ELSE {}
    IN  IF Cardinality(found) = 1 THEN CHOOSE f \in found : TRUE ELSE None

\* The file a path means: that of its parts, or the only one of its name.
FileOf(path) == IF format = "muter" THEN UniqueFile(path) ELSE NormalizedRelative(path)

\* imported_status
Status ==
    [mte |-> [s \in {"killed", "survived", "noCoverage", "compileError", "runtimeError", "timeout",
                     "ignored", "pending"} |-> s],
     cargo |-> [CaughtMutant |-> "killed", MissedMutant |-> "survived", Success |-> "survived",
                Unviable |-> "compileError", Failure |-> "runtimeError", Timeout |-> "timeout"],
     muter |-> [failed |-> "killed", runtimeError |-> "killed", passed |-> "survived",
                buildError |-> "compileError", timeout |-> "timeout"]]

\* validated_muter_position: an offset at a character, whose line and column in
\* bytes are the reported ones.
PositionFits(c, e, p) ==
    /\ e.start.line > 0 /\ e.start.column > 0
    /\ \E k \in Places(c) : c.bytes[k] = e.offset
    /\ p.valid /\ p.line = e.start.line /\ p.utf8 = e.start.column

\* validated_muter_snapshot_span: the text before the change is in the source.
SnapshotSpan(c, e) ==
    LET k == CHOOSE j \in Places(c) : c.bytes[j] = e.offset
        end == k + Len(e.before)
    IN  IF /\ ~e.null /\ PositionFits(c, e, Position(c, e.offset))
           /\ end <= Len(c.text) /\ SubSeq(c.text, k + 1, end) = e.before
        THEN <<e.offset, c.bytes[end]>> ELSE NoSpan

SpanOf(c, e) ==
    IF format = "muter" THEN SnapshotSpan(c, e)
    ELSE SpanBetween(Offset(c, e.start), Offset(c, e.end))

\* cargo_mutant_scenario: the run without a mutant is no mutant.
IsBaseline(e) == format = "cargo" /\ e.status = "Baseline"

\* muter_operator_status: Muter's null sentinel stands for a file without coverage.
IsSentinel(e) == format = "muter" /\ e.status = "noCoverage" /\ e.null

\* A Muter entry is named by where it is.
ExternalId(e, file) == IF format = "muter" THEN <<file, e.start, e.operator, index + 1>> ELSE <<e.id>>

\* Wrong: a collision is not looked for.
ReserveHash(file, external) == Hash(file, external)

\* reserve_stable_id
ReserveStableId(file, external) ==
    LET used == {r.id : r \in results}
        k == Least({k \in 0..IdSpace : (Hash(file, external) + k) % IdSpace \notin used})
    IN  (Hash(file, external) + k) % IdSpace

----------------------------------------------------------------------------
(* Actions *)

Refuse ==
    /\ phase' = "refused"
    /\ UNCHANGED <<report, format, mode, imported, given>>

\* import_json_from_root
Begin ==
    /\ phase = "header"
    /\ IF Recognized(report) = "none" \/ (Recognized(report) = "mte" /\ ~HeaderFits(report))
       THEN Refuse
       ELSE /\ format' = Recognized(report)
            /\ mode' = ModeOf(report)
            /\ phase' = "entries"
            /\ UNCHANGED <<report, imported, given>>
    /\ UNCHANGED refused

\* ensure_cached_source: a file is read and indexed once.
Cached(file) ==
    IF file \in DOMAIN files THEN files[file]
    ELSE IF file \in DOMAIN report.sources THEN Source(report.sources[file], mode)
    ELSE Source(<<>>, mode)

\* coordinate_index_shape: the storage that is charged and reserved, an item
\* for each line and each checkpoint.
Checkpoints(c) == Size(c) \div Stride
IndexSize(c) == Size(c) + Len(c.lines) + Checkpoints(c)

\* ImportBudget::add_source_file and add_coordinate_index, for a file that is
\* not charged yet.
Charged(file, c) == IF file \in DOMAIN files THEN retained.index ELSE retained.index + IndexSize(c)

FileFits(file, c) ==
    /\ file \in DOMAIN report.sources
    /\ Cardinality(DOMAIN files \cup {file}) <= MaxFiles
    /\ Charged(file, c) <= MaxIndex

\* The entries of Mutation Testing Elements and of Muter come by file
\* (register_file, resolve_muter_file); of the former, a file comes once.
Open(file, c) ==
    IF FileFits(file, c) /\ (format = "mte" => file \notin DOMAIN files)
    THEN /\ files' = (file :> c) @@ files
         /\ retained' = [retained EXCEPT !.index = Charged(file, c)]
         /\ opened' = opened + 1 /\ index' = 0
         /\ UNCHANGED <<report, format, mode, results, given, phase>>
    ELSE Refuse

OpenFile ==
    /\ phase = "entries" /\ format # "cargo" /\ opened < Len(report.paths)
    /\ \E file \in {FileOf(report.paths[opened + 1])} : Open(file, Cached(file))
    /\ UNCHANGED refused

\* ImportBudget::add_mutant
MutantFits(e, span) ==
    /\ Cardinality(results) < MaxMutants
    /\ span[2] - span[1] <= MaxEach /\ e.replacement <= MaxEach
    /\ retained.text + (span[2] - span[1]) + e.replacement <= MaxRetained

\* CandidateRegistry::add_external_id and add_effective
IsNew(e, file, span) ==
    \A r \in results : /\ ExternalId(e, file) # r.external
                       /\ <<file, span, e.replacement>> # <<r.file, r.span, r.replacement>>

\* build_mte_mutation, build_cargo_mutation, build_muter_mutation
Mutation(e, file, span, p, external) ==
    [file |-> file, span |-> span, line |-> p.line, column |-> p.column,
     replacement |-> e.replacement, external |-> external,
     id |-> ReserveStableId(file, external), status |-> Status[format][e.status]]

\* import_mutant of the formats, for a span that was resolved: registered and
\* recorded.
Register(e, file, c, span) ==
    IF /\ FileFits(file, c) /\ e.status \in DOMAIN Status[format] /\ span # NoSpan
       /\ MutantFits(e, span) /\ IsNew(e, file, span)
    THEN /\ results' = results \cup
              {Mutation(e, file, span, Position(c, span[1]), ExternalId(e, file))}
         /\ files' = (file :> c) @@ files
         /\ retained' = [index |-> Charged(file, c),
                         text |-> retained.text + (span[2] - span[1]) + e.replacement]
         /\ index' = index + 1
         /\ given' = given \cup {<<file, e>>}
         /\ UNCHANGED <<report, format, mode, opened, refused, phase>>
    ELSE Refuse /\ refused' = {<<file, e>>}

ImportMutant(e, file) ==
    \E c \in {Cached(file)} : \E span \in {SpanOf(c, e)} : Register(e, file, c, span)

\* An entry that is no mutant only counts.
Skip ==
    /\ index' = index + 1
    /\ UNCHANGED <<report, format, mode, files, retained, results, opened, ghosts, phase>>

\* import_outcome, import_operators, import_mutants: the next entry.
Import(e) ==
    /\ index < report.length
    /\ format # "cargo" => opened > 0 /\ e.path = report.paths[opened]
    /\ IF IsBaseline(e) \/ IsSentinel(e) THEN Skip ELSE ImportMutant(e, FileOf(e.path))

Finish ==
    /\ phase = "entries"
    /\ format = "cargo" \/ opened = Len(report.paths)
    /\ phase' = "done"
    /\ UNCHANGED <<report, format, mode, imported, ghosts>>

Init ==
    /\ report \in Reports
    /\ format = "none" /\ mode = "scalar"
    /\ files = <<>> /\ retained = [index |-> 0, text |-> 0]
    /\ results = {} /\ opened = 0 /\ index = 0
    /\ given = {} /\ refused = {}
    /\ phase = "header"

Next ==
    \/ Begin \/ OpenFile \/ Finish
    \/ phase = "entries" /\ \E e \in Entries(report) : Import(e)

Spec == Init /\ [][Next]_vars

----------------------------------------------------------------------------
(* Properties *)

\* The terminators of a source, by their first and last character.
Terminators(s, m) ==
    {t \in (DOMAIN s) \X (DOMAIN s) :
        LET first == s[t[1]].kind
            crlf == t[2] = t[1] + 1 /\ first = "cr" /\ s[t[2]].kind = "lf"
        IN  IF m = "scalar" THEN t[1] = t[2] /\ first = "lf"
            ELSE \/ crlf
                 \/ t[1] = t[2] /\ first = "separator"
                 \/ t[1] = t[2] /\ first = "cr" /\ ~(t[1] < Len(s) /\ s[t[1] + 1].kind = "lf")
                 \/ t[1] = t[2] /\ first = "lf" /\ ~(t[1] > 1 /\ s[t[1] - 1].kind = "cr")}

\* Where the line of the place after k characters begins, by the ends of lines.
Ended(ends, k) == {t \in ends : t[2] <= k}
First(ended) == Greatest({0} \cup {t[2] : t \in ended})

\* The places that a line and a column name, in the units of the tool.
Named(c, ends, position) ==
    {k \in Places(c) :
        /\ ~\E t \in ends : t[1] <= k /\ k < t[2]
        /\ Cardinality(Ended(ends, k)) + 1 = position.line
        /\ c.units[k] - c.units[First(Ended(ends, k))] = position.column - 1}

SpansBetween(c, from, to) == {<<c.bytes[k[1]], c.bytes[k[2]]>> : k \in {x \in from \X to : x[1] <= x[2]}}
NamedSpans(c, ends, e) == SpansBetween(c, Named(c, ends, e.start), Named(c, ends, e.end))

\* A result is the entry that was given, where its coordinates say.
IsGiven(r, g, c, ends) ==
    LET start == CHOOSE k \in Places(c) : c.bytes[k] = r.span[1]
    IN  /\ g[1] = r.file /\ r.replacement = g[2].replacement
        /\ format # "muter" => r.span \in NamedSpans(c, ends, g[2])
        /\ r.line = Cardinality(Ended(ends, start)) + 1
        /\ r.column = start - First(Ended(ends, start)) + 1

\* An entry of a known status is refused for its place, as a duplicate, or for
\* the budget.
IsRefusable(g, c, spans) ==
    \/ spans = {}
    \/ ~FileFits(g[1], c)
    \/ \E span \in spans : ~MutantFits(g[2], span) \/ ~IsNew(g[2], g[1], span)

\* The storage that was reserved for the index of a source suffices.
IndexFits(c, ends) ==
    /\ Len(c.lines) = 1 + Cardinality(ends)
    /\ Total([i \in DOMAIN c.lines |-> Len(c.lines[i].checkpoints)])[Len(c.lines)] <= Checkpoints(c)

\* An import that is not refused has every mutant of the report, at the bytes
\* that its coordinates name in the units of its tool, whatever checkpoints lie
\* before them, and shows it in characters of the same line; no two share an
\* identity or are one edit.  What is refused names no place, has no known
\* status or is a duplicate, or goes beyond the budget.
ImportIsFaithful ==
    /\ Cardinality(results) = Cardinality(given)
    /\ \A r, q \in results :
         r # q => r.id # q.id /\ <<r.file, r.span, r.replacement>> # <<q.file, q.span, q.replacement>>
    /\ \A f \in DOMAIN files : \A ends \in {Terminators(files[f].text, mode)} :
         /\ IndexFits(files[f], ends)
         /\ \A r \in results :
              r.file = f => \E g \in given : IsGiven(r, g, files[f], ends)
    /\ \A g \in refused :
         format # "muter" /\ g[1] # None /\ g[2].status \in DOMAIN Status[format] =>
           \A c \in {Cached(g[1])} :
             IsRefusable(g, c, NamedSpans(c, Terminators(c.text, mode), g[2]))
=============================================================================
