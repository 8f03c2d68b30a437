--------------------------- MODULE BackendRouting ---------------------------
(***************************************************************************)
(* analyze_project: which backend measures which source (reporigor,        *)
(* lib.rs), with the translation units of Clang (adapter-clang, backend.rs *)
(* and ast.rs).  Rust goes to its adapter, the C family to Clang through   *)
(* the entries of a compilation database, one at a time; in auto mode what *)
(* they cannot do is noted and left to the syntax backend, which reads     *)
(* every source and lends its structural facts to Clang's functions.       *)
(*                                                                         *)
(* Files are numbers, in the order of their names.  A function of a file   *)
(* is known by its number there: [owner, leaf, from, to, type, written,    *)
(* spelled], written and spelled being its parameters as the syntax        *)
(* backend and as Clang give them, or Unclear.                             *)
(***************************************************************************)
EXTENDS Naturals, Sequences, FiniteSets

CONSTANTS
    Projects,   \* the projects, each with the request that is made of it
    MaxBytes,   \* max_source_bytes
    MaxFiles,   \* MAX_SELECTED_SOURCE_FILES
    Unclear

VARIABLES
    project,        \* files, commands, tools, and the request
    phase,          \* what is done next, or "done", or "failed"
    sources,        \* what is left to the syntax backend: [file, language]
    units,          \* translation units: [file, language, status], file 0 if skipped
    charged,        \* budgeted_sources
    records,        \* Clang's functions, merged: [file, at, language]
    functions,      \* AnalysisSnapshot.functions: [file, at, by, language, facts]
    notes,          \* fallback diagnostics: the backend, and the file or 0
    authoritative   \* clang_authoritative_files

vars == <<project, phase, sources, units, charged, records, functions, notes, authoritative>>

CFamily == {"c", "cpp"}
request == project.request
Native == request.backend = "native"
Of(languages) == {s \in sources : s.language \in languages}
Code(x) == project.code[x.file][x.at]
SameSymbol(x, y) ==
    x.file = y.file /\ \A key \in {"owner", "leaf", "type"} : Code(x)[key] = Code(y)[key]

Fail == phase' = "failed" /\ UNCHANGED <<project, sources, units, charged, records, functions, notes, authoritative>>
\* missing_clang_resource, handle_missing_rust_project: auto goes on without.
Missing(router, next) ==
    IF Native THEN Fail
    ELSE /\ phase' = next /\ notes' = notes \cup {<<router, 0>>}
         /\ UNCHANGED <<project, sources, units, charged, records, functions, authoritative>>
\* native_error_fallback: a source that is too large is not for the other backend either.
Propagates(error) == error = "too large" \/ Native
Fallback(router, error, next) ==
    IF Propagates(error) THEN Fail
    ELSE /\ phase' = next /\ notes' = notes \cup {<<router, 0>>}
         /\ units' = <<>> /\ charged' = {} /\ records' = {}
         /\ UNCHANGED <<project, sources, functions, authoritative>>

\* run, analysis_provider_resolution, enforce_native_project_providers.
Resolve ==
    /\ phase = "start"
    /\ IF Native /\ (~request.exec \/ ~project.providers)
       THEN Fail
       ELSE /\ phase' = "rust"
            /\ sources' = {[file |-> f, language |-> project.language[f]] : f \in project.found}
            /\ notes' = IF request.backend = "auto" /\ ~request.exec THEN {<<"project-router", 0>>} ELSE {}
            /\ UNCHANGED <<project, units, charged, records, functions, authoritative>>

RustRequested == phase = "rust" /\ request.exec /\ request.backend # "generic" /\ Of({"rust"}) # {}
SkipRust ==
    /\ phase = "rust" /\ ~RustRequested
    /\ phase' = "clang"
    /\ UNCHANGED <<project, sources, units, charged, records, functions, notes, authoritative>>
NoCargo == RustRequested /\ ~project.cargo /\ Missing("rust-router", "clang")
RustFails == RustRequested /\ project.cargo /\ \E error \in {"too large", "other"} : Fallback("rust-router", error, "clang")

\* prepare_rust_fallback: the files that the adapter could not parse go to the
\* syntax backend; all of them, if one is not located.
GenericFiles(broken, located) ==
    IF located = broken THEN located ELSE located \cup {s.file : s \in Of({"rust"})}
\* The functions of some files: <<file, number>>.
FunctionsOf(files) == UNION {{f} \X DOMAIN project.code[f] : f \in files}
RustFunctions(files) ==
    {[file |-> x[1], at |-> x[2], by |-> "rust", language |-> "rust", facts |-> x[2]] : x \in FunctionsOf(files)}
RustAnswers(broken, located) ==
    LET generic == GenericFiles(broken, located)
    IN  /\ RustRequested /\ project.cargo
        /\ broken # {} => request.lenient
        /\ IF Native /\ broken # {}
           THEN Fail
           ELSE /\ phase' = "clang"
                /\ functions' = functions \cup RustFunctions(project.crates \ (broken \cup generic))
                /\ notes' = notes \cup {<<"rust-native", IF f \in located THEN f ELSE 0>> : f \in broken}
                /\ sources' = {s \in sources : s.language = "rust" => s.file \in generic}
                /\ UNCHANGED <<project, units, charged, records, authoritative>>

\* route_clang_sources
Inspect ==
    \/ Of(CFamily) # {}
    \/ Native /\ (request.languages = {} \/ request.languages \cap CFamily # {})
Database == IF request.backend # "generic" /\ request.exec /\ Inspect THEN project.database ELSE "none"
ClangRouted ==
    /\ request.backend # "generic" /\ request.exec
    /\ Of(CFamily) # {} \/ (Native /\ Database # "none")
RouteClang ==
    /\ phase = "clang"
    /\ IF Database = "refused" THEN Fail
       ELSE IF ~ClangRouted
       THEN /\ phase' = "generic"
            /\ UNCHANGED <<project, sources, units, charged, records, functions, notes, authoritative>>
       ELSE IF Database = "none" \/ ~project.compiler THEN Missing("clang-router", "generic")
       ELSE IF Database = "broken" THEN Fallback("clang-router", "other", "generic")
       ELSE /\ phase' = "preflight"
            /\ UNCHANGED <<project, sources, units, charged, records, functions, notes, authoritative>>

\* preflight_command: select_language, select_source.
Skipped(c) ==
    \/ c.mode = "none" \/ (request.languages # {} /\ c.mode \notin request.languages)
    \/ c.at \in {"missing", "outside"} \/ c.file \notin project.selected
\* observe_source: every file is charged once.
ChargeError(c) ==
    IF c.at = "directory" THEN "not regular"
    ELSE IF c.file \in charged THEN "none"
    ELSE IF project.bytes[c.file] > MaxBytes THEN "too large"
    ELSE IF Cardinality(charged) = MaxFiles THEN "budget" ELSE "none"
Preflight ==
    LET c == project.commands[Len(units) + 1]
        Unit(file, status) == [file |-> file, language |-> c.mode, status |-> status]
    IN  /\ phase = "preflight" /\ Len(units) < Len(project.commands)
        /\ IF Skipped(c)
           THEN /\ units' = Append(units, Unit(0, "skipped"))
                /\ UNCHANGED <<project, phase, sources, charged, records, functions, notes, authoritative>>
           ELSE IF ChargeError(c) # "none"
           THEN Fallback("clang-router", ChargeError(c), "generic")
           ELSE /\ units' = Append(units, Unit(c.file, "pending")) /\ charged' = charged \cup {c.file}
                /\ UNCHANGED <<project, phase, sources, records, functions, notes, authoritative>>
EndPreflight ==
    /\ phase = "preflight" /\ Len(units) = Len(project.commands)
    /\ phase' = "validate"
    /\ UNCHANGED <<project, sources, units, charged, records, functions, notes, authoritative>>

\* The first unit with one of these statuses.
InHand(i, statuses) == units[i].status \in statuses /\ \A j \in 1..(i - 1) : units[j].status \notin statuses
None(statuses) == \A i \in DOMAIN units : units[i].status \notin statuses
\* validate_unit: "invalid" stands for a rejection, a time limit or a missing tool too.
Validate(i, status) ==
    /\ phase = "validate" /\ InHand(i, {"pending"})
    /\ units' = [units EXCEPT ![i].status = status]
    /\ UNCHANGED <<project, phase, sources, charged, records, functions, notes, authoritative>>
EndValidate ==
    /\ phase = "validate" /\ None({"pending"})
    /\ phase' = "dump"
    /\ UNCHANGED <<project, sources, units, charged, records, functions, notes, authoritative>>

\* What a unit may show: functions of its source and of what it includes.
InUnit(i) == FunctionsOf({units[i].file} \cup project.includes[units[i].file])
Seen(i, x) == [file |-> x[1], at |-> x[2], language |-> units[i].language]
\* merge_function: one record for a symbol of a file, the first.
MergedWith(shown) ==
    records \cup {x \in shown : /\ \A r \in records : ~SameSymbol(r, x)
                               /\ \A y \in shown : SameSymbol(x, y) => x.at <= y.at}
\* analyze_unit, for units that did not validate and for those whose dump fails.
DumpFails(i) ==
    /\ phase = "dump" /\ InHand(i, {"valid", "invalid"})
    /\ units' = [units EXCEPT ![i].status = "failed"]
    /\ UNCHANGED <<project, phase, sources, charged, records, functions, notes, authoritative>>
Dump(i, shown) ==
    /\ phase = "dump" /\ InHand(i, {"valid", "invalid"})
    /\ units' = [units EXCEPT ![i].status = "analyzed"]
    /\ records' = MergedWith({Seen(i, x) : x \in shown})
    /\ UNCHANGED <<project, phase, sources, charged, functions, notes, authoritative>>

With(statuses) == {units[i].file : i \in {j \in DOMAIN units : units[j].status \in statuses}}
Authoritative == With({"analyzed"})
\* A source is of the language of the first unit that has it.
UnitSources ==
    {[file |-> units[i].file, language |-> units[i].language] :
        i \in {j \in DOMAIN units : units[j].file # 0 /\ \A k \in 1..(j - 1) : units[k].file # units[j].file}}
ClangFunctions ==
    {[file |-> r.file, at |-> r.at, by |-> "clang", language |-> r.language, facts |-> 0] : r \in records}
\* Wrong: only units that failed are noted.
FailedAlone(all) == With({"failed"})
\* diagnose_failed_clang_units, diagnose_unrepresented_clang_sources.
Unrepresented(all) == {s.file : s \in {x \in all : x.language \in CFamily}} \cup With({"failed"})
Integrate ==
    /\ phase = "dump" /\ None({"valid", "invalid"})
    /\ IF Native /\ (Authoritative = {} \/ With({"failed"}) # {})
       THEN Fail
       ELSE /\ phase' = "generic"
            /\ sources' = UnitSources \cup (IF Native THEN sources \ Of(CFamily) ELSE sources)
            /\ notes' = IF Native THEN notes
                        ELSE notes \cup {<<"clang-router", f>> : f \in Unrepresented(sources') \ Authoritative}
            /\ functions' = functions \cup ClangFunctions
            /\ authoritative' = Authoritative
            /\ UNCHANGED <<project, units, charged, records>>

\* Wrong: the first of several that a leaf and a line cannot tell apart.
FirstCandidate(file, k) ==
    LET f == project.code[file][k]
        near == {n \in functions : /\ n.file = file /\ Code(n).leaf = f.leaf
                                   /\ Code(n).from <= f.to /\ f.from <= Code(n).to}
    IN  {n \in near : \A x \in near : n.at <= x.at}
AtMostOne(S) == \A x, y \in S : x = y
\* clang_structural_candidates, for the k-th function of a file.
Candidates(file, k) ==
    LET f == project.code[file][k]
        near == {n \in functions : /\ n.file = file /\ Code(n).leaf = f.leaf
                                   /\ Code(n).from <= f.to /\ f.from <= Code(n).to}
        exact == {n \in near : Code(n).owner = f.owner}
        named == IF ~AtMostOne(near) /\ exact # {} THEN exact ELSE near
    IN  IF AtMostOne(named) THEN named
        ELSE IF f.written = Unclear THEN {}
        ELSE {n \in named : Code(n).spelled = f.written}
\* merge_unique_structural_fact: of the functions that the syntax backend has found.
Claims(file, found, n) == {k \in found : Candidates(file, k) = {n}}
Enriched(file, found, n) ==
    IF n.file = file /\ \E k \in found : Claims(file, found, n) = {k}
    THEN [n EXCEPT !.facts = CHOOSE k \in found : Claims(file, found, n) = {k}] ELSE n
WithFacts(file, found) == {Enriched(file, found, n) : n \in functions}

\* Sorted by name, the one of discovery before the one of a unit.
IsNext(s) ==
    \A x \in sources : s.file < x.file \/ (s.file = x.file /\ (s = x \/ s.language = project.language[s.file]))
\* analyze_generic_source: the sources in the order of their names.
Generic(s, issues, found) ==
    LET clangNative == s.file \in authoritative
    IN  /\ phase = "generic" /\ s \in sources /\ IsNext(s)
        /\ ~issues => found = DOMAIN project.code[s.file]
        /\ IF issues /\ ~request.lenient /\ ~clangNative
           THEN Fail
           ELSE /\ sources' = sources \ {s}
                /\ functions' =
                     IF clangNative THEN WithFacts(s.file, found)
                     ELSE functions \cup
                          {[file |-> s.file, at |-> k, by |-> "syntax", language |-> s.language, facts |-> k] : k \in found}
                /\ UNCHANGED <<project, phase, units, charged, records, notes, authoritative>>
GenericFails == phase = "generic" /\ sources # {} /\ Fail
Finish ==
    /\ phase = "generic" /\ sources = {}
    /\ phase' = "done"
    /\ UNCHANGED <<project, sources, units, charged, records, functions, notes, authoritative>>

Init ==
    /\ project \in Projects
    /\ phase = "start" /\ sources = {} /\ units = <<>> /\ charged = {} /\ records = {}
    /\ functions = {} /\ notes = {} /\ authoritative = {}

Next ==
    \/ Resolve \/ SkipRust \/ NoCargo \/ RustFails
    \/ \E broken \in SUBSET project.crates : \E located \in SUBSET broken : RustAnswers(broken, located)
    \/ RouteClang \/ Preflight \/ EndPreflight
    \/ \E i \in DOMAIN units :
         \/ \E status \in {"valid", "invalid"} : Validate(i, status)
         \/ DumpFails(i)
         \/ units[i].status = "valid" /\ \E shown \in SUBSET InUnit(i) : Dump(i, shown)
    \/ EndValidate \/ Integrate
    \/ \E s \in sources, issues \in BOOLEAN : \E found \in SUBSET DOMAIN project.code[s.file] : Generic(s, issues, found)
    \/ GenericFails \/ Finish

Spec == Init /\ [][Next]_vars

\* What a project may be: of two functions of one scope, one has the parameters
\* that Clang spells for the other only if they are one symbol or Clang spells
\* both alike, as for two that differ in being const.
Consistent(p) ==
    LET Files == DOMAIN p.language
    IN  /\ p.request.backend \in {"auto", "native", "generic"} /\ p.request.exec \in BOOLEAN
        /\ p.found \subseteq Files
        /\ \A f \in p.crates : f \in Files /\ p.language[f] = "rust"
        /\ p.commands \in Seq([file : Files, mode : CFamily \cup {"none"}, at : {"file", "missing", "outside", "directory"}])
        /\ \A i \in DOMAIN p.commands : p.commands[i].at = "file" => p.commands[i].file \notin p.crates
        /\ p.includes \in [Files -> SUBSET Files] /\ DOMAIN p.code = Files
        /\ \A f \in Files : DOMAIN p.code[f] \subseteq Nat \ {0}
        /\ \A f \in Files : \A i, j \in DOMAIN p.code[f] :
              LET x == p.code[f][i]
                  y == p.code[f][j]
              IN  /\ x.from \in Nat /\ x.to \in Nat /\ x.from <= x.to
                  /\ x.owner = y.owner /\ x.leaf = y.leaf /\ y.written # Unclear /\ x.spelled = y.written
                        => x.type = y.type \/ y.spelled = y.written
-----------------------------------------------------------------------------
Noted(routers, f) == \E r \in routers : <<r, 0>> \in notes \/ <<r, f>> \in notes
Routers(language) ==
    {"project-router"} \cup (IF language = "rust" THEN {"rust-router", "rust-native"} ELSE {"clang-router"})
\* What is left to the syntax backend although a native one was asked for.
LeftOver(n) == n.by = "syntax" /\ n.language \in CFamily \cup {"rust"} /\ request.backend # "generic"
ShownByClang(f, k) == \E m \in functions : m.by = "clang" /\ m.file = f /\ m.at = k

\* No function is measured twice or by the wrong backend, whatever the tools
\* answer: where a native analysis of a file stands, the syntax backend adds none
\* (but for a header, which is no unit of its own); native mode takes none
\* of Rust or the C family from it, and auto mode notes those it takes.  And
\* Clang's functions get the structure of their own code, not that of a namesake
\* that Clang has seen as well (route_rust_sources, route_clang_sources and
\* analyze_generic_source; clang_structural_candidates).
MeasuredByOneBackend ==
    phase = "done" =>
        \A n \in functions :
            /\ n.by = "syntax" => /\ n.file \notin authoritative
                                 /\ \A m \in functions : m.file = n.file => m.by # "rust"
            /\ LeftOver(n) => ~Native /\ Noted(Routers(n.language), n.file)
            /\ n.by = "clang" /\ n.facts # 0 =>
                  n.at = n.facts \/ ~ShownByClang(n.file, n.facts)
=============================================================================
