----------------------------- MODULE MCAnalyses -----------------------------
(***************************************************************************)
(* The analyses side by side: the ratchet over the quality rules, the      *)
(* cycles of the package graph, clone groups of functions, exact clones,   *)
(* the join of a coverage report with the functions of a file, the reading *)
(* of coverage and provider reports, identities of mutations, scopes and   *)
(* structure of Rust code, discovery of sources, functions of syntax trees,*)
(* checkouts that are moved around a crash, and the choice of backends.    *)
(* They share no state; part says which one is present, and the variables  *)
(* of the others are absent; those of SourceDiscovery, which this module   *)
(* extends, are then as before a walk.                                     *)
(***************************************************************************)
EXTENDS Analyses, SourceDiscovery, Sequences, FiniteSetsExt, TLC

CONSTANTS Parts, ui, core, util, here, there, elsewhere, inode1, inode2

\* The project of the ratchet.
MCForbiddenEdges == {<<util, ui>>}
MCOtherPairs == {<<1, 2>>, <<2, 1>>, <<3, 0>>}
MCFilters == {{"f1", "f2"}, {"f1"}}
MCTopMetric == [f \in {"f1", "f2"} |-> IF f = "f1" THEN 2 ELSE 1]
MCLayer == [p \in {ui, core} |-> IF p = ui THEN 2 ELSE 1]
MCEdges == {<<ui, core>>, <<core, ui>>, <<core, util>>, <<util, core>>, <<util, ui>>, <<util, util>>}

\* Shingles, and the sources of exact clones.
MCShapes == {<<1>>, <<1, 2>>, <<1, 1, 2>>, <<3, 3, 4>>}
MCSources == {<<x, y>> : x \in [1..4 -> {1, 2}], y \in [1..6 -> {1, 2}]}
MCFingerprint == [w \in [1..2 -> {1, 2}] |-> w[1] + w[2]]

\* Files of three lines of two columns, with two functions anywhere, or three
\* of whole lines; functions nest, and a closure may go without a record.
Spans == {s \in (1..6) \X (1..6) : s[1] <= s[2]}
WholeLines == {s \in Spans : s[1] % 2 = 1 /\ s[2] % 2 = 0}
Placed(spans, owners) ==
    {[from |-> s[1], to |-> s[2], parent |-> p, recorded |-> r] : s \in spans, p \in owners, r \in BOOLEAN}
Encloses(x, y) == y.from <= x.from /\ x.to <= y.to
AreNested(l) ==
    \A i \in DOMAIN l :
        /\ l[i].parent < i /\ (~l[i].recorded => l[i].parent # 0)
        /\ l[i].parent # 0 => Encloses(l[i], l[l[i].parent]) /\ l[l[i].parent].recorded
        /\ \A j \in DOMAIN l : j < i /\ l[i].parent = l[j].parent => l[j].to < l[i].from
MCLayouts ==
    {l \in [1..2 -> Placed(Spans, 0..1)] \cup [1..3 -> Placed(WholeLines, 0..2)] : AreNested(l)}
MCReports ==
    {[records |-> x, regions |-> {}] :
        x \in {y \in SUBSET [line : 1..3, hits : {0, 1}] : Cardinality(y) \in 1..3}}
    \cup {[records |-> {}, regions |-> {[spans |-> {s}, hits |-> 1]}] : s \in Spans}

\* Provider reports, over characters of one to four bytes and all kinds of line
\* ends: a report of mutation elements about one file with any position in it,
\* such reports with two mutants under several names of a file, reports with a
\* header to refuse, and reports of cargo-mutants and of muter.
Chr(bytes, width, kind) == [bytes |-> bytes, units |-> width, kind |-> kind]
A == Chr(1, 1, "text")
W == Chr(4, 2, "text")
CR == Chr(1, 1, "cr")
LF == Chr(1, 1, "lf")
LS == Chr(3, 1, "separator")
ImportedTexts ==
    UNION {[1..n -> {A, W, CR, LF, LS}] : n \in {0, 2}}
    \cup {<<A, W, A>>, <<W, W, A>>, <<A, CR, LF>>, <<A, CR, W, A>>}
FileA == <<"s", "a">>
FileB == <<"s", "b">>
Written(parts) == [elsewhere |-> FALSE, parts |-> parts]
Outside == {[elsewhere |-> TRUE, parts |-> FileA]}
           \cup {Written(x) : x \in {<<".", ".">>, <<"..", "a">>, <<"out", "a">>}}
Elements ==
    [provider |-> "stryker", members |-> {"files", "schemaVersion"}, major |-> 2, framework |-> "none",
     thresholds |-> [low |-> 60, high |-> 80], sources |-> (FileA :> <<A, W, A, A>> @@ FileB :> <<A>>),
     escaping |-> {<<"out">>}, tree |-> {}, paths |-> <<Written(FileA)>>, length |-> 1]
OneFile == {[Elements EXCEPT !.framework = f, !.sources[FileA] = s] : f \in {"none", "other"}, s \in ImportedTexts}
TwoMutants ==
    {[Elements EXCEPT !.provider = "mull", !.major = v, !.framework = "StrykerJS", !.paths = p, !.length = 2] :
        v \in 1..3,
        p \in {<<Written(FileA)>>, <<Written(FileA), Written(<<"s", ".", "a">>)>>,
               <<Written(FileA), Written(FileB)>>} \cup {<<x>> : x \in Outside}}
BadHeaders ==
    {[Elements EXCEPT !.framework = ""], [Elements EXCEPT !.thresholds.high = 50],
     [Elements EXCEPT !.thresholds.high = 101]}
CargoReport ==
    [Elements EXCEPT !.provider = "cargo-mutants", !.members = {"outcomes"}, !.paths = <<>>, !.length = 2,
                     !.sources = (FileA :> <<A, W, LF, A>> @@ FileB :> <<A, A>>)]
MuterReports ==
    {[Elements EXCEPT !.provider = "muter", !.members = {"fileReports"}, !.length = 2, !.paths = p, !.tree = t,
                      !.sources = (FileA :> <<A, W, LF, A, W>> @@ FileB :> <<A, A>>)] :
        p \in {<<Written(<<"a">>)>>, <<Written(<<"a">>), Written(<<"b">>)>>, <<Written(<<"a">>), Written(<<"a">>)>>},
        t \in {{FileA, FileB}, {FileA, FileB, <<"build", "a">>}, {FileA, FileB, <<"a">>}}}
MCImportReports == OneFile \cup TwoMutants \cup BadHeaders \cup {CargoReport} \cup MuterReports

Entry0 ==
    [path |-> Written(FileA), start |-> [line |-> 1, column |-> 1], end |-> [line |-> 1, column |-> 1],
     replacement |-> 1, id |-> 1, status |-> "killed", operator |-> 1, offset |-> 0, before |-> <<>>, null |-> FALSE]
MCEntries(r) ==
    CASE r.length = 1 ->
            LET places == [line : 0..2, column : {0, 1, 2, 4}]
            IN  {[Entry0 EXCEPT !.start = s, !.end = e] : s \in places, e \in places}
      [] r.provider = "mull" ->
            {[Entry0 EXCEPT !.path = Written(p), !.start.column = s, !.end.column = 4, !.replacement = x, !.id = i] :
                p \in {FileA, FileB}, s \in {1, 2}, x \in {1, 2}, i \in {1, 2}}
            \cup {[Entry0 EXCEPT !.status = "odd"]}
      [] r.provider = "cargo-mutants" ->
            {[Entry0 EXCEPT !.path = Written(p), !.start.column = s, !.end.column = 3, !.id = i, !.status = x] :
                p \in {<<"s", ".", "a">>, FileB, <<"..", "a">>}, s \in {1, 2}, i \in {1, 2},
                x \in {"Baseline", "MissedMutant"}}
      [] OTHER ->
            {[Entry0 EXCEPT !.path = Written(<<p>>), !.start = s, !.offset = o, !.before = b, !.status = x, !.null = n] :
                p \in {"a", "b"}, s \in [line : {1, 2}, column : {1, 2}], o \in {0, 1, 2, 6},
                b \in {<<>>, <<A>>, <<W, LF>>}, x \in {"passed", "noCoverage"}, n \in BOOLEAN}
MCHash(file, e) == IF file = FileA THEN 2 ELSE 3

\* Mutations of three files, of which 1 and 3 are one normal path: equal edits
\* on several lines, and fingerprints that adapters provide, one of them equal
\* to the one that is generated for the first edit.
MCModule(file) == 5 + (file % 4)
MCNormal(file) == IF file = 3 THEN 1 ELSE file
MCOperatorOf(operator) == operator
MCFunctions ==
    {[file |-> 1, start |-> 1, end |-> 3, symbol |-> 1, name |-> 1],
     [file |-> 1, start |-> 2, end |-> 2, symbol |-> 0, name |-> 2],
     [file |-> 2, start |-> 1, end |-> 3, symbol |-> 3, name |-> 1]}
Edit(file, line, column, original, replacement, fingerprint) ==
    [file |-> file, symbol |-> 0, operator |-> 0, original |-> original,
     replacement |-> replacement, line |-> line, column |-> column, fingerprint |-> fingerprint]
FirstGenerated == <<1, 1, 0, 1, 1, 2, 1>>
MCRust == {Edit(2, l, 1, 1, 2, <<>>) : l \in 1..2}
MCOthers ==
    {Edit(f, l, 1, 1, 2, <<>>) : f \in {1, 3}, l \in 1..2} \cup {Edit(1, 3, 1, 1, 2, p) : p \in {<<1>>, FirstGenerated}}
    \cup {Edit(1, 4, 1, 2, 1, <<1>>), Edit(1, 3, 2, 2, 1, FirstGenerated)}

MCEditSeeds == {{}, {<<1>>, FirstGenerated}}
MCEditOperators == {{}, {1}}

\* Cargo workspaces: a library and a program that share files, with two items
\* in the root of the library; or with a file of each kind behind one item; or
\* with dependencies only.
CfgIs(fact) == [op |-> "is", fact |-> fact, items |-> <<>>]
CfgTest == [CfgIs("") EXCEPT !.op = "test"]
CfgOf(op, items) == [op |-> op, fact |-> "", items |-> items]
Unix == CfgIs("unix")
NotUnix == CfgOf("not", <<Unix>>)
Attr(meta, name, when, nested) == [meta |-> meta, name |-> name, when |-> when, nested |-> nested]
Cfg(when) == Attr("cfg", <<>>, when, <<>>)
PathIs(path) == Attr("path", path, CfgTest, <<>>)
Word(name) == Attr("word", name, CfgTest, <<>>)
Mod(name, attrs) ==
    [kind |-> "mod", name |-> name, attrs |-> attrs, inline |-> FALSE, items |-> <<>>, path |-> <<>>,
     visibility |-> "private"]
Inline(name, items) == [Mod(name, <<>>) EXCEPT !.inline = TRUE, !.items = items]
Include(path) == [Mod("", <<>>) EXCEPT !.kind = "include", !.path = path]
Macro == [Mod("", <<>>) EXCEPT !.kind = "macro"]
RootItems ==
    {Mod("a", <<>>), Mod("a", <<Cfg(Unix)>>), Mod("a", <<Cfg(CfgTest)>>),
     Mod("a", <<Cfg(CfgOf("any", <<CfgTest, NotUnix>>))>>),
     Mod("b", <<>>), Mod("b", <<PathIs(<<"c.rs">>)>>), Mod("b", <<PathIs(<<"generated", "z.rs">>)>>),
     Mod("b", <<Attr("cfg_attr", <<>>, Unix, <<PathIs(<<"c.rs">>)>>)>>),
     Inline("b", <<Mod("a", <<>>)>>), Inline("c", <<Include(<<"c.rs">>)>>),
     Include(<<"c.rs">>), Include(<<"x.rs">>), Macro,
     [Mod("d", <<Cfg(NotUnix)>>) EXCEPT !.visibility = "public"],
     [Mod("e", <<Cfg(CfgOf("all", <<Unix, CfgTest>>)), Word("ctor")>>) EXCEPT !.visibility = "crate"]}
RootBodies == {<<x, y>> \in RootItems \X RootItems : x.name # y.name \/ (x.name = "" /\ x # y)}
Src(name) == <<"src", name>>
RustFile(items) == [state |-> "text", attrs |-> <<>>, items |-> items]
EmptyFile == RustFile(<<>>)
SharedFiles ==
    {[EmptyFile EXCEPT !.state = x] : x \in {"text", "large", "broken", "generated", "invalid"}}
    \cup {[EmptyFile EXCEPT !.attrs = <<Cfg(CfgTest)>>],
          [RustFile(<<Macro>>) EXCEPT !.attrs = <<Cfg(Unix), Word("no_std")>>],
          RustFile(<<Include(<<"c.rs">>), Include(<<"a.rs">>)>>), RustFile(<<Mod("g", <<>>)>>)}
Crate(name, targets) ==
    [id |-> name, name |-> name, member |-> TRUE, inside |-> TRUE, targets |-> targets, features |-> {"f"},
     library |-> name, dependencies |-> {}, edges |-> <<>>]
Workspace(body, main, shared, cfg, lenient) ==
    [manifest |-> TRUE, answers |-> TRUE, lenient |-> lenient, rustc |-> cfg, filters |-> {{}},
     testNames |-> {"a_test.rs"}, links |-> (Src("e.rs") :> Src("c.rs")),
     files |-> (Src("lib.rs") :> RustFile(body) @@ Src("main.rs") :> RustFile(main) @@ Src("a.rs") :> shared
                @@ <<"src", "b", "mod.rs">> :> RustFile(<<Mod("a", <<>>)>>) @@ <<"src", "b", "a.rs">> :> EmptyFile
                @@ Src("c.rs") :> [EmptyFile EXCEPT !.attrs = <<Cfg(CfgIs("f"))>>]
                @@ <<"src", "generated", "z.rs">> :> EmptyFile),
     packages |-> <<Crate("p", <<[kind |-> "lib", path |-> Src("lib.rs")], [kind |-> "bin", path |-> Src("main.rs")],
                                 [kind |-> "example", path |-> Src("c.rs")]>>)>>]
PlainWorkspace == Workspace(<<Mod("a", <<>>)>>, <<>>, EmptyFile, {}, TRUE)
Dependency(name, alias) == [name |-> name, rename |-> alias, kind |-> "dev", optional |-> FALSE, target |-> FALSE]
Depending(required, edges) ==
    [PlainWorkspace EXCEPT
        !.packages = <<[Crate("p", <<>>) EXCEPT !.dependencies = required, !.edges = edges],
                       [Crate("xml-rs", <<>>) EXCEPT !.library = "xml", !.member = FALSE], Crate("kit", <<>>)>>]
Edge(name, to) == [name |-> name, to |-> to]
MCProjects ==
    {Workspace(b, <<>>, EmptyFile, cfg, TRUE) : b \in RootBodies, cfg \in {{"unix"}, {}}}
    \cup {Workspace(<<b>>, main, shared, {"unix"}, lenient) :
             b \in {Mod("a", <<>>), Mod("a", <<Cfg(Unix)>>), Include(<<"a.rs">>)},
             main \in {<<Mod("a", <<>>)>>, <<Mod("a", <<Cfg(CfgOf("not", <<CfgTest>>))>>), Inline("b", <<Mod("a", <<>>)>>)>>},
             shared \in SharedFiles, lenient \in BOOLEAN}
    \cup {[PlainWorkspace EXCEPT !.filters = {{{Src("a.rs")}}, {{Src("lib.rs"), Src("a.rs")}, {Src("main.rs")}}}],
          [PlainWorkspace EXCEPT !.manifest = FALSE, !.files = @ @@ Src("a_test.rs") :> EmptyFile @@ <<"fuzz", "f.rs">> :> EmptyFile],
          [PlainWorkspace EXCEPT !.answers = FALSE]}
    \cup {Depending({Dependency("xml-rs", "none"), Dependency("kit", "none")}, edges) :
             edges \in {<<>>, <<Edge("kit", "kit"), Edge("xml", "xml-rs")>>}}
    \cup {Depending({Dependency("xml-rs", "a-kit"), Dependency("kit", "none")}, edges) :
             edges \in {<<>>, <<Edge("kit", "kit"), Edge("a_kit", "xml-rs")>>}}
MCCrateIdentifier(name) == CASE name = "xml-rs" -> "xml_rs" [] name = "a-kit" -> "a_kit" [] OTHER -> name

\* Coverage reports: LCOV records in any order below a file, Cobertura elements
\* in blocks, the other formats with a few records of each kind, directories to
\* search, and pairs of shards.  MCReportLimits lets all of them be met.
PathOf(root, parts) == [root |-> root, parts |-> parts]
FileX == PathOf("", <<"x">>)
FileY == PathOf("", <<"d", "x">>)
NoFile == [none |-> TRUE]
Lcov(kind, file, line, hits) == [kind |-> kind, file |-> file, line |-> line, hits |-> hits]
NoDocument == [extension |-> "json", text |-> "json", entries |-> <<>>, python |-> <<>>, istanbul |-> <<>>, data |-> <<>>]
LcovOf(entries) == [NoDocument EXCEPT !.extension = "info", !.text = "lcov", !.entries = entries]
LcovRecords ==
    {Lcov("SF", f, 0, 0) : f \in {FileX, PathOf("", <<"d", "..", ".", "x">>), PathOf("", <<".", "x", "..">>)}}
    \cup {Lcov("DA", FileX, l, h) : l \in {0, 1}, h \in {2, 5}} \cup {Lcov("DA", FileX, 2, -1), Lcov("end_of_record", FileX, 0, 0)}
LcovDocuments == {LcovOf(<<Lcov("SF", FileX, 0, 0)>> \o x) : x \in [1..4 -> LcovRecords]}
LcovShards == {LcovOf(<<Lcov("SF", FileX, 0, 0), Lcov("DA", FileX, l, h)>>) : l \in 1..2, h \in {0, 4}}

Tag(name, form, file) ==
    [markup |-> "tag", name |-> name, form |-> form, file |-> file, line |-> 0, hits |-> 0, text |-> NoFile,
     bytes |-> 1, attributes |-> 1, namespaces |-> 0, repeated |-> FALSE]
LineOf(line, hits) == [Tag("line", "empty", NoFile) EXCEPT !.line = line, !.hits = hits]
TextOf(path) == [Tag("text", "none", NoFile) EXCEPT !.markup = "text", !.text = path]
SourceTag(path) == <<Tag("source", "open", NoFile), TextOf(path), Tag("source", "close", NoFile)>>
ClassOf(file, lines) == <<Tag("class", "open", file)>> \o lines \o <<Tag("class", "close", NoFile)>>
Blocks ==
    {SourceTag(PathOf("/", <<"r">>)), SourceTag(PathOf("", <<".">>)), SourceTag(PathOf("/", <<>>)),
     <<Tag("source", "open", NoFile), TextOf(PathOf("C:", <<"R">>)), [TextOf(PathOf("/", <<"q">>)) EXCEPT !.markup = "cdata"],
       Tag("source", "close", NoFile)>>,
     ClassOf(FileX, <<LineOf(1, 2), LineOf(1, 5)>>), ClassOf(FileX, <<LineOf(1, 4), LineOf(2, 0)>>),
     ClassOf(PathOf("/", <<"r", "x">>), <<LineOf(1, 3)>>), ClassOf(NoFile, <<LineOf(1, 2)>>), <<LineOf(1, 2)>>,
     ClassOf(PathOf("", <<"R">>), <<LineOf(1, 2)>>),
     <<[Tag("comment", "none", NoFile) EXCEPT !.markup = "comment", !.bytes = 3]>>,
     <<Tag("class", "empty", FileX)>>}
Coverage(x) == <<Tag("coverage", "open", NoFile)>> \o x \o <<Tag("coverage", "close", NoFile)>>
XmlOf(x) == [NoDocument EXCEPT !.extension = "xml", !.text = "xml", !.entries = Coverage(x)]
XmlDocuments == {XmlOf(x \o y \o z) : x \in Blocks, y \in Blocks, z \in Blocks}

PythonFile(file, executed, missing) == [file |-> file, shaped |-> TRUE, executed |-> executed, missing |-> missing]
PythonDocuments ==
    {[NoDocument EXCEPT !.python = <<PythonFile(FileX, e, m), [PythonFile(f, <<1>>, <<3>>) EXCEPT !.shaped = s]>>] :
        e \in {<<>>, <<1>>, <<1, 2>>}, m \in {<<1>>, <<2, 3>>, <<3, 4>>}, f \in {FileY, PathOf("", <<".", "x">>)}, s \in BOOLEAN}
IstanbulDocuments ==
    {[NoDocument EXCEPT !.istanbul =
        <<[key |-> FileX, path |-> q, shaped |-> s, statements |-> [i \in 1..2 |-> IF i = 1 THEN 1 ELSE l], counts |-> c],
          [key |-> FileX, path |-> NoFile, shaped |-> TRUE, statements |-> [i \in 1..1 |-> 1], counts |-> [i \in 1..1 |-> 2]]>>] :
        q \in {NoFile, FileY}, s \in BOOLEAN, l \in 1..2, c \in {[i \in 1..1 |-> 4], [i \in 1..2 |-> 3 * i - 4], [i \in {3} |-> 1]}}

PositionAt(line, column) == [line |-> line, column |-> column]
RegionOf(from, to, hits, index) == [from |-> from, to |-> to, hits |-> hits, index |-> index, code |-> TRUE]
Regions ==
    {RegionOf(PositionAt(1, 1), PositionAt(3, 1), 2, 1), RegionOf(PositionAt(2, 1), PositionAt(0, 4), 6, 1), RegionOf(PositionAt(1, 0), PositionAt(2, 4), 6, 1),
     RegionOf(PositionAt(1, 1), PositionAt(5, 1), 0, 1), [RegionOf(PositionAt(1, 1), PositionAt(2, 1), 4, 1) EXCEPT !.code = FALSE]}
    \cup {RegionOf(PositionAt(2, 2), PositionAt(2, 5), h, i) : h \in {0, 5}, i \in 1..3}
LlvmDocuments ==
    {[NoDocument EXCEPT !.data =
        <<[functions |-> <<[filenames |-> <<FileX, PathOf("", <<".", "x">>)>>, regions |-> <<x, y>>]>>,
           files |-> <<[file |-> FileX, segments |-> <<[line |-> 1, hits |-> 8, entry |-> e], [line |-> l, hits |-> 0, entry |-> TRUE]>>]>>]>>] :
        x \in Regions, y \in Regions, e \in BOOLEAN, l \in {2, 4}}
OtherDocuments ==
    {NoDocument, [LcovOf(<<>>) EXCEPT !.text = "other"], [LcovOf(<<Lcov("SF", FileX, 0, 0), Lcov("DA", FileX, 1, 2)>>) EXCEPT !.extension = "txt"],
     [NoDocument EXCEPT !.extension = "xml"], XmlOf(<<[Tag("doctype", "none", NoFile) EXCEPT !.markup = "declaration"]>>),
     XmlOf(<<[Tag("package", "empty", NoFile) EXCEPT !.namespaces = 3]>>)}

FileEntry(path, bytes, d) == [path |-> path, kind |-> "file", bytes |-> bytes, document |-> d]
Single(d) == [kind |-> "file", entries |-> {FileEntry(<<"r">>, 1, d)}]
Shard1 == LcovOf(<<Lcov("SF", FileX, 0, 0), Lcov("DA", FileX, 1, 2)>>)
Shard2 == LcovOf(<<Lcov("SF", FileX, 0, 0), Lcov("DA", FileX, 1, 6), Lcov("DA", FileX, 2, 0)>>)
Lying ==
    {FileEntry(<<"lcov.info">>, 1, Shard1), FileEntry(<<"d", "lcov.info">>, 7, Shard2),
     FileEntry(<<"coverage.json">>, 2, Shard2), FileEntry(<<"coverage.json">>, 11, Shard2),
     [FileEntry(<<"d">>, 0, Shard1) EXCEPT !.kind = "directory"],
     [FileEntry(<<"cobertura.xml">>, 0, Shard1) EXCEPT !.kind = "link"], FileEntry(<<"notes">>, 0, Shard1)}
Directories ==
    {[kind |-> "directory", entries |-> x] : x \in {y \in SUBSET Lying : \A e, f \in y : e.path = f.path => e = f}}
    \cup {[kind |-> "link", entries |-> {FileEntry(<<"r">>, 1, Shard1)}]}
SomeLlvm == CHOOSE d \in LlvmDocuments : \A x \in {d.data[1].functions[1].regions[i] : i \in 1..2} : x.to.line < 5 /\ x.index < 3
SomeXml == XmlOf(ClassOf(FileX, <<LineOf(1, 4), LineOf(2, 0)>>))
MCSupplies ==
    {<<Single(d)>> : d \in LcovDocuments \cup XmlDocuments \cup PythonDocuments \cup IstanbulDocuments \cup LlvmDocuments \cup OtherDocuments}
    \cup {<<d>> : d \in Directories}
    \cup {<<Single(d), Single(e)>> : d \in LcovShards \cup {SomeLlvm, SomeXml}, e \in LcovShards \cup {SomeLlvm, SomeXml}}
MCLowered(n) == CASE n = "R" -> "r" [] n = "C:" -> "c:" [] OTHER -> n
NameRank(n) == CASE n = "cobertura.xml" -> 1 [] n = "coverage.json" -> 2 [] n = "d" -> 3 [] OTHER -> 4
MCBefore(x, y) == \E i \in DOMAIN x : NameRank(x[i]) < NameRank(y[i]) /\ \A j \in 1..(i - 1) : x[j] = y[j]
MCReportLimits ==
    [bytes |-> 10, found |-> 12, entries |-> 5, directories |-> 2, candidates |-> 2, path |-> 4, files |-> 2, perFile |-> 3,
     lines |-> 4, records |-> 16, region |-> 3, expanded |-> 5, attributes |-> 2, value |-> 2, markup |-> 2, depth |-> 4,
     namespaces |-> 2, sources |-> 2, classes |-> 2, classLines |-> 4, resolution |-> 6]

\* A directory that may be a repository of its own, with rules of both and of its
\* exclude file, and one change of an entry or a size at any moment.
Node(kind) == [kind |-> kind, to |-> [base |-> 1, path |-> <<>>], lines |-> <<>>, shell |-> FALSE, foreign |-> FALSE]
Rules(lines) == [Node("file") EXCEPT !.lines = lines]
Ignore(name) == [name |-> name, whitelist |-> FALSE]
KeepRule(name) == [name |-> name, whitelist |-> TRUE]
LinkTo(base, path) == [Node("link") EXCEPT !.to = [base |-> base, path |-> path]]
DiskOf(git, nearer, farther) ==
    [nodes |-> (1 :> Node("directory") @@ 2 :> Node("directory") @@ 3 :> Node("directory") @@ 4 :> Node("directory")
                @@ 5 :> Rules(<<Ignore("x"), KeepRule("a.h")>>) @@ 6 :> Rules(farther) @@ 7 :> Rules(nearer)
                @@ 8 :> Node("file") @@ 9 :> [Node("file") EXCEPT !.shell = TRUE]
                @@ 10 :> LinkTo(20, <<"rules">>) @@ 11 :> LinkTo(20, <<>>) @@ 12 :> LinkTo(1, <<"b.rs">>)
                @@ 20 :> [Node("directory") EXCEPT !.foreign = TRUE]
                @@ 21 :> [Rules(<<Ignore("b.rs")>>) EXCEPT !.foreign = TRUE]
                @@ 22 :> [Node("file") EXCEPT !.foreign = TRUE]),
     sizes |-> [i \in 1..12 \cup 20..22 |-> IF i = 9 THEN 2 ELSE 1],
     entries |-> (1 :> ("d" :> 2 @@ ".gitignore" :> 6 @@ "b.rs" :> 8 @@ "target" :> 2)
                  @@ 2 :> ("a.h" :> 8 @@ "x" :> 9 @@ ".ignore" :> 7 @@ "l" :> 12 @@ IF git THEN ".git" :> 3 ELSE << >>)
                  @@ 3 :> ("info" :> 4) @@ 4 :> ("exclude" :> 5)
                  @@ 20 :> ("rules" :> 21 @@ "a.h" :> 22 @@ ".ignore" :> 21))]
MCDisks == {DiskOf(git, n, f) : git \in BOOLEAN, n \in {<<>>, <<Ignore("a.h"), [Ignore("") EXCEPT !.name = ""]>>, <<Ignore("x"), KeepRule("x")>>},
                f \in {<<Ignore("x")>>, <<Ignore("d")>>, <<KeepRule("a.h"), Ignore("a.h")>>}}
MCChanges == {<<1, ".gitignore", 10>>, <<1, ".gitignore", 7>>, <<1, "d", 11>>, <<1, "d", 8>>, <<2, ".ignore", 10>>, <<2, "a.h", 12>>, <<1, "b.rs", 9>>, <<2, "a.h", 11>>}
MCDiscoveryOptions == {[languages |-> {}, filters |-> {}, tests |-> TRUE, maxBytes |-> 2],
              [languages |-> {"cpp"}, filters |-> {"d"}, tests |-> FALSE, maxBytes |-> 2]}
MCExtensionOf(n) == CASE n = "a.h" -> "header" [] n = "b.rs" -> "rust" [] OTHER -> "none"
EntryRank == ".git" :> 1 @@ ".gitignore" :> 2 @@ ".ignore" :> 3 @@ "a.h" :> 4 @@ "b.rs" :> 5 @@ "d" :> 6 @@ "exclude" :> 7
             @@ "info" :> 8 @@ "l" :> 9 @@ "rules" :> 10 @@ "target" :> 11 @@ "x" :> 12
MCPathOrder(p) == 13 * EntryRank[p[1]] + IF Len(p) = 1 THEN 0 ELSE EntryRank[p[2]]
MCGrowths == {<<6, 2>>, <<8, 3>>}
MCIsTest(n) == n = "l"
MCWalkLimits == [ignoreBytes |-> 1, ignoreLines |-> 3, filePatterns |-> 2, ignoreFiles |-> 3, allIgnoreBytes |-> 4, patterns |-> 5,
             directoryEntries |-> 5, entries |-> 12, directories |-> 3, depth |-> 1, files |-> 3, bytes |-> 4]

\* Small files of six languages, with functions in functions and text that is no code,
\* and the kinds of node that occur in them.
\* A tree as its nodes in the order of the text, with their depths.
Nd(depth, kind, field, text) == [depth |-> depth, kind |-> kind, field |-> field, text |-> text, fault |-> "none"]
Bad(depth, kind, fault) == [depth |-> depth, kind |-> kind, field |-> "", text |-> <<>>, fault |-> fault]
Ends(rows, n) == LET after == {i \in n + 1..Len(rows) : rows[i].depth <= rows[n].depth} IN Min(after \cup {Len(rows) + 1}) - 1
Tree(rows) ==
    [n \in 1..Len(rows) |->
        LET r == rows[n]
        IN  [kind |-> r.kind, field |-> r.field, text |-> r.text, fault |-> r.fault, named |-> r.kind \notin {"op", "kw"},
             parent |-> Max({0} \cup {i \in 1..(n - 1) : rows[i].depth < r.depth}),
             from |-> 3 * (IF Ends(rows, n) = n THEN n ELSE CHOOSE i \in n..Ends(rows, n) : Ends(rows, i) = i /\ \A j \in n..(i - 1) : Ends(rows, j) # j),
             to |-> 3 * Ends(rows, n) + (IF r.fault = "missing" THEN 0 ELSE 1)]]
File(language, rows) ==
    [language |-> language, tree |-> Tree(rows), rows |-> {3 * i + 2 : i \in {j \in 1..Len(rows) : j % 4 = 0}}, wide |-> {10},
     size |-> 3 * Len(rows), test |-> FALSE, generated |-> FALSE, regular |-> TRUE, utf8 |-> TRUE]
RustTree == File("rust", <<
    Nd(0, "source_file", "", <<>>), Nd(1, "impl_item", "", <<>>), Nd(2, "type_identifier", "trait", <<"T">>),
    Nd(2, "type_identifier", "type", <<"A">>), Nd(2, "function_item", "", <<>>), Nd(3, "kw", "", <<"pub">>),
    Nd(3, "identifier", "name", <<"f">>), Nd(3, "parameters", "parameters", <<>>), Nd(4, "parameter", "", <<>>),
    Nd(5, "identifier", "pattern", <<"x">>), Nd(3, "block", "body", <<>>), Nd(4, "let_declaration", "", <<>>),
    Nd(5, "identifier", "pattern", <<"y">>), Nd(5, "binary_expression", "value", <<>>), Nd(6, "identifier", "", <<"x">>),
    Nd(6, "op", "", <<"&&">>), Nd(6, "boolean_literal", "", <<"true">>), Nd(5, "block", "alternative", <<>>),
    Nd(4, "match_expression", "", <<>>), Nd(5, "match_arm", "", <<>>), Nd(6, "match_pattern", "", <<>>),
    Nd(7, "identifier", "condition", <<"y">>), Nd(5, "match_arm", "", <<>>), Nd(6, "identifier", "", <<"g">>),
    Nd(4, "function_item", "", <<>>), Nd(5, "identifier", "name", <<"h">>), Nd(5, "block", "body", <<>>),
    Nd(6, "if_expression", "", <<>>), Nd(7, "binary_expression", "", <<>>), Nd(8, "identifier", "", <<"x">>),
    Nd(8, "op", "", <<"==">>), Nd(8, "identifier", "", <<"y">>), Nd(7, "call_expression", "", <<>>),
    Nd(8, "identifier", "function", <<"g">>), Nd(1, "function_item", "", <<>>), Nd(2, "identifier", "name", <<"Ab">>),
    Nd(2, "parameters", "parameters", <<>>), Nd(2, "block", "body", <<>>), Nd(3, "if_expression", "", <<>>),
    Nd(4, "if_expression", "", <<>>), Nd(5, "line_comment", "", <<"c">>)>>)
\* Two definitions of one name, a comprehension, and text that is not Python.
PythonTree == File("python", <<
    Nd(0, "module", "", <<>>), Nd(1, "function_definition", "", <<>>), Nd(2, "identifier", "name", <<"f">>),
    Nd(2, "parameters", "parameters", <<>>), Nd(3, "identifier", "", <<"x">>), Nd(2, "block", "body", <<>>),
    Nd(3, "import_from_statement", "", <<>>), Nd(4, "dotted_name", "name", <<>>), Nd(5, "identifier", "", <<"m">>),
    Nd(3, "import_statement", "", <<>>), Nd(4, "aliased_import", "name", <<>>), Nd(5, "identifier", "alias", <<"n">>),
    Nd(3, "assignment", "", <<>>), Nd(4, "identifier", "left", <<"v">>), Nd(4, "list_comprehension", "", <<>>),
    Nd(5, "identifier", "body", <<"q">>), Nd(5, "for_in_clause", "", <<>>), Nd(6, "identifier", "left", <<"q">>),
    Nd(6, "identifier", "right", <<"q">>), Nd(5, "if_clause", "", <<>>), Nd(6, "identifier", "", <<"q">>),
    Nd(3, "boolean_operator", "", <<>>), Nd(4, "identifier", "", <<"v">>), Nd(4, "op", "", <<"and">>),
    Nd(4, "lambda", "", <<>>), Nd(5, "conditional_expression", "", <<>>), Nd(6, "identifier", "", <<"v">>),
    Nd(3, "global_statement", "", <<>>), Nd(4, "identifier", "", <<"x">>), Nd(3, "function_definition", "", <<>>),
    Nd(4, "identifier", "name", <<"g">>), Nd(1, "function_definition", "", <<>>), Nd(2, "identifier", "name", <<"f">>),
    Nd(2, "parameters", "parameters", <<>>), Nd(3, "identifier", "", <<"y">>), Nd(2, "block", "body", <<>>),
    Nd(1, "function_definition", "", <<>>), Nd(2, "identifier", "name", <<"f">>),
    Nd(2, "parameters", "parameters", <<>>), Nd(3, "identifier", "", <<"z">>), Nd(2, "block", "body", <<>>),
    Nd(1, "class_definition", "", <<>>), Nd(2, "identifier", "name", <<"A">>), Nd(2, "function_definition", "", <<>>),
    Nd(3, "ERROR", "", <<>>), Bad(1, "ERROR", "error"), Nd(2, "identifier", "", <<"True">>)>>)
BashFile == File("bash", <<
    Nd(0, "program", "", <<>>), Nd(1, "function_definition", "", <<>>), Nd(2, "word", "name", <<"main">>),
    Nd(2, "compound_statement", "body", <<>>), Nd(3, "if_statement", "", <<>>), Nd(4, "test_expression", "", <<>>),
    Nd(5, "word", "", <<"1">>), Nd(5, "test_operator", "", <<>>), Nd(6, "op", "", <<"-eq">>), Nd(5, "word", "", <<"n">>),
    Nd(1, "list", "", <<>>), Nd(2, "command", "", <<>>), Nd(3, "word", "name", <<"main">>), Nd(3, "word", "", <<"x">>),
    Nd(2, "op", "", <<"&&">>), Nd(2, "if_statement", "", <<>>), Nd(3, "variable_assignment", "", <<>>),
    Nd(4, "variable_name", "name", <<"x">>), Bad(1, "fi", "missing")>>)
\* A function of a class defined outside of it, an operator, and a block.
CppFile == File("cpp", <<
    Nd(0, "translation_unit", "", <<>>), Nd(1, "namespace_definition", "", <<>>), Nd(2, "identifier", "name", <<"N">>),
    Nd(2, "function_definition", "", <<>>), Nd(3, "kw", "", <<"static">>), Nd(3, "function_declarator", "declarator", <<>>),
    Nd(4, "qualified_identifier", "declarator", <<"N", "f">>), Nd(4, "parameter_list", "parameters", <<>>),
    Nd(5, "parameter_declaration", "", <<>>), Nd(6, "pointer_declarator", "declarator", <<>>),
    Nd(7, "identifier", "declarator", <<"x">>), Nd(3, "compound_statement", "body", <<>>),
    Nd(4, "declaration", "", <<>>), Nd(5, "init_declarator", "declarator", <<>>),
    Nd(6, "parenthesized_declarator", "declarator", <<>>), Nd(7, "identifier", "", <<"y">>),
    Nd(6, "lambda_expression", "value", <<>>), Nd(7, "if_statement", "", <<>>), Nd(8, "identifier", "", <<"x">>),
    Nd(5, "structured_binding_declarator", "declarator", <<>>), Nd(6, "identifier", "", <<"z">>),
    Nd(4, "binary_expression", "", <<>>), Nd(5, "identifier", "", <<"z">>), Nd(5, "op", "", <<"+">>),
    Nd(5, "number_literal", "", <<"1">>), Nd(1, "function_definition", "", <<>>), Nd(2, "identifier", "", <<"g">>),
    Nd(2, "parameter_list", "", <<>>), Nd(3, "primitive_type", "", <<"void">>)>>)
TypeScriptFile == File("typescript", <<
    Nd(0, "program", "", <<>>), Nd(1, "module", "", <<>>), Nd(2, "identifier", "", <<"M">>),
    Nd(2, "class_declaration", "", <<>>), Nd(3, "type_identifier", "name", <<"A">>),
    Nd(3, "method_definition", "", <<>>), Nd(4, "kw", "", <<"private">>), Nd(4, "property_identifier", "name", <<"f">>),
    Nd(1, "variable_declarator", "", <<>>), Nd(2, "identifier", "name", <<"g">>),
    Nd(2, "arrow_function", "value", <<>>), Nd(3, "identifier", "", <<"b">>), Nd(1, "arrow_function", "", <<>>),
    Nd(2, "if_statement", "", <<>>), Nd(1, "arrow_function", "", <<>>)>>)
SwiftFile == File("swift", <<
    Nd(0, "source_file", "", <<>>), Nd(1, "class_declaration", "", <<>>), Nd(2, "type_identifier", "name", <<"A">>),
    Nd(2, "init_declaration", "", <<>>), Nd(3, "parameter", "", <<>>), Nd(4, "simple_identifier", "name", <<"x">>),
    Nd(3, "guard_statement", "", <<>>), Nd(4, "simple_identifier", "", <<"x">>)>>)
MCFiles ==
    {RustTree, PythonTree, BashFile, CppFile, TypeScriptFile, SwiftFile,
     [BashFile EXCEPT !.size = 1000], [SwiftFile EXCEPT !.regular = FALSE], [CppFile EXCEPT !.generated = TRUE]}
NoKinds == [k \in {} |-> <<>>]
LanguageOf(reported, others, decisions, nesting, statements, locals, owners) ==
    [reported |-> reported, boundaries |-> reported \cup others, decisions |-> decisions, nesting |-> nesting,
     statements |-> statements, locals |-> locals, owners |-> owners, modules |-> {"module"}, special |-> NoKinds,
     blocks |-> {}, items |-> {}]
MCTables ==
    [rust |-> [LanguageOf({"function_item"}, {"closure_expression"}, {"if_expression"}, {"if_expression", "match_expression"}, {},
                     [k \in {"let_declaration"} |-> <<"pattern", "name">>], {"mod_item"})
                   EXCEPT !.blocks = {"block"}, !.items = {"function_item"}],
     python |-> LanguageOf({"function_definition"}, {"lambda"}, {"conditional_expression", "list_comprehension"},
                      {"conditional_expression", "list_comprehension"},
                      {"import_statement", "import_from_statement", "global_statement"},
                      [k \in {"assignment"} |-> <<"left">>], {"class_definition"}),
     bash |-> LanguageOf({"function_definition"}, {}, {"if_statement"}, {"if_statement"},
                    {"if_statement", "compound_statement", "command", "variable_assignment"},
                    [k \in {"variable_assignment"} |-> <<"name">>], {}),
     cpp |-> LanguageOf({"function_definition"}, {"lambda_expression"}, {"if_statement"}, {"if_statement"}, {"if_statement", "declaration"},
                   NoKinds, {"namespace_definition"}),
     typescript |-> LanguageOf({"method_definition", "arrow_function"}, {}, {"if_statement"}, {"if_statement"}, {"if_statement"},
                          NoKinds, {"class_declaration", "module"}),
     swift |-> [LanguageOf({"init_declaration"}, {}, {"guard_statement"}, {"guard_statement"}, {}, NoKinds, {"class_declaration"})
                   EXCEPT !.special = [k \in {"init_declaration"} |-> <<"init">>]]]
MCKinds ==
    [comments |-> {"line_comment"}, strings |-> {"string"}, numbers |-> {"number_literal"}, booleans |-> {"boolean_literal", "true"},
     identifiers |-> {"identifier", "word", "type_identifier", "property_identifier", "simple_identifier"},
     names |-> {"identifier", "word", "type_identifier", "simple_identifier", "qualified_identifier"},
     bindings |-> {"identifier", "simple_identifier", "variable_name"}, types |-> {"type_identifier", "property_identifier"},
     comprehensions |-> {"list_comprehension"}, calls |-> {"call_expression", "command"},
     binary |-> {"binary_expression", "boolean_operator", "test_expression"}, wrappers |-> {"test_operator"},
     unmutated |-> {"line_comment", "string", "word"}, roots |-> {"module", "program", "source_file", "translation_unit"}]
MCBegins(a, b) == a = b \/ <<a, b>> = <<"Ab", "A">>
MCNameBefore(a, b) == a # b /\ a[1] \in {"<script>"}

\* Rust files of two items, as one or two modules of one or two packages.
CodeOf(kind, name, subs) ==
    [kind |-> kind, name |-> name, attrs |-> <<>>, subs |-> subs, vis |-> "private", of |-> [path |-> <<>>, args |-> ""]]
Having(n, attrs) == [n EXCEPT !.attrs = attrs]
Body(statements) == CodeOf("block", <<>>, statements)
Fn(name, statements) == CodeOf("fn", <<name>>, <<Body(statements)>>)
Method(name, statements) == [Fn(name, statements) EXCEPT !.kind = "method"]
Use(name) == CodeOf("path", <<name>>, <<>>)
Leaf(kind) == CodeOf(kind, <<>>, <<>>)
ImplOf(path, args, methods) == [CodeOf("impl", <<"X">>, methods) EXCEPT !.of = [path |-> path, args |-> args]]
InTest == <<Cfg(CfgTest)>>
InNoTest == <<Cfg(CfgOf("not", <<CfgTest>>))>>
Feature == [CfgIs("f") EXCEPT !.op = "feature"]
Busy ==
    CodeOf("fn", <<"busy">>,
        <<CodeOf("param", <<"x">>, <<>>), Having(CodeOf("param", <<"y">>, <<>>), InTest),
          Body(<<CodeOf("let", <<"v">>, <<CodeOf("closure", <<>>, <<CodeOf("||", <<>>, <<Use("x"), Use("inner")>>)>>)>>),
                 CodeOf("if", <<>>, <<CodeOf("&&", <<>>, <<Use("v"), Use("helper")>>),
                     Body(<<CodeOf("match", <<>>, <<Use("y"), CodeOf("arm", <<"w">>, <<CodeOf("guard", <<>>, <<Use("w")>>)>>),
                                                   Having(CodeOf("arm", <<>>, <<Use("probe")>>), InTest),
                                                   Having(CodeOf("arm", <<>>, <<Use("late")>>), InNoTest)>>)>>)>>),
                 CodeOf("struct", <<"S">>, <<CodeOf("value", <<"g">>, <<Use("kept")>>),
                                             Having(CodeOf("value", <<"h">>, <<Use("probe")>>), InTest)>>),
                 Having(CodeOf("letelse", <<"z">>, <<CodeOf("try", <<>>, <<CodeOf("path", <<"m", "far">>, <<>>)>>)>>), <<Cfg(Feature)>>),
                 Fn("inner", <<CodeOf("||", <<>>, <<Leaf("true"), Leaf("false")>>)>>),
                 ImplOf(<<>>, "", <<Method("local", <<CodeOf("while", <<>>, <<Body(<<Leaf("break"), Use("x"), Use("x")>>)>>)>>)>>),
                 Having(Leaf("return"), <<Cfg(Feature)>>), Use("dead"), CodeOf("loop", <<>>, <<Body(<<Leaf("continue"), Use("dead")>>)>>)>>)>>)
CodeItems ==
    {Fn("a", <<Use("helper")>>), [Fn("main", <<CodeOf("call", <<"go">>, <<Use("helper")>>)>>) EXCEPT !.vis = "public"],
     Having(Fn("t", <<Use("helper"), CodeOf("get", <<"part">>, <<>>)>>), <<Word("test")>>),
     Having(Fn("t", <<Use("helper")>>), <<Attr("qualified", "test", CfgTest, <<>>)>>),
     Having(CodeOf("mod", <<"tests">>, <<Fn("u", <<Use("probe"), CodeOf("&&", <<>>, <<>>)>>)>>), InTest),
     Having(CodeOf("mod", <<"tests">>, <<Fn("u", <<Use("late")>>), ImplOf(<<"super", "Tr">>, "", <<Method("d", <<>>)>>)>>), InNoTest),
     Having(CodeOf("mod", <<"b">>, <<Leaf("macro"), Having(Fn("u", <<Use("probe")>>), <<Word("inline")>>)>>), <<Word("bench")>>),
     CodeOf("trait", <<"Tr">>, <<Method("d", <<Leaf("return"), Use("helper"), Use("helper")>>), CodeOf("method", <<"e">>, <<>>)>>),
     ImplOf(<<"Tr">>, "", <<Method("d", <<Use("helper")>>), CodeOf("type", <<"T">>, <<>>)>>),
     CodeOf("mod", <<"c">>, <<ImplOf(<<"crate", "Conv">>, "u8", <<Method("c", <<>>)>>), ImplOf(<<"crate", "Conv">>, "u16", <<Method("c", <<>>)>>)>>),
     ImplOf(<<"From">>, "u8", <<Having(Method("m", <<Use("probe")>>), <<Cfg(CfgOf("any", <<CfgTest, Unix>>))>>)>>),
     ImplOf(<<>>, "", <<Having(Method("m", <<>>), <<Cfg(CfgOf("all", <<CfgTest, Feature>>))>>)>>),
     CodeOf("type", <<"S">>, <<Having(CodeOf("field", <<"g">>, <<>>), <<Attr("serde", <<"m", "helper">>, CfgTest, <<>>)>>),
                              Having(CodeOf("field", <<"h">>, <<>>), <<Cfg(CfgTest), Attr("serde", <<"probe">>, CfgTest, <<>>)>>)>>),
     Having(Fn("t", <<Use("late")>>), <<Attr("cfg_attr", <<>>, Feature, <<Word("no_mangle")>>), Word("no_mangle")>>),
     CodeOf("modfile", <<"far">>, <<>>), Busy}
Plainly == [tests |-> FALSE, facts |-> {"unix"}]
Testing == [Plainly EXCEPT !.tests = TRUE]
ScopeOf(prefix, package, cfg) == [prefix |-> prefix, package |-> package, cfg |-> cfg, gated |-> FALSE, evidence |-> <<>>]
CodeScopes ==
    {<<ScopeOf(<<>>, "p", {Plainly, Testing})>>,
     <<[ScopeOf(<<"q">>, "p", {Testing}) EXCEPT !.evidence = InTest], ScopeOf(<<"r">>, "p", {Plainly})>>,
     <<ScopeOf(<<"q">>, "p", {Plainly, Testing}), [ScopeOf(<<>>, "s", {[Plainly EXCEPT !.facts = @ \cup {"f"}]}) EXCEPT !.gated = TRUE]>>}
CodeFile(items, scopes) == [state |-> "text", lenient |-> FALSE, testPath |-> FALSE, root |-> CodeOf("file", <<>>, items), scopes |-> scopes]
OneScope == <<ScopeOf(<<>>, "", {Plainly, Testing})>>
MCCodeFiles ==
    {CodeFile(pair, scopes) : pair \in {<<x, y>> \in CodeItems \X CodeItems : x # y /\ (x.kind \in {"mod", "trait"} \/ x = Busy)}, scopes \in CodeScopes}
    \cup {[CodeFile(<<x>>, OneScope) EXCEPT !.testPath = t, !.root.attrs = a] : x \in CodeItems, t \in BOOLEAN, a \in {<<>>, <<Cfg(Unix), Word("no_std")>>}}
    \cup {[CodeFile(<<>>, OneScope) EXCEPT !.state = s, !.lenient = l] : s \in {"broken", "large"}, l \in BOOLEAN}

\* Projects for the choice of backends: files 1 and 2 in C, 1 including 2, 3 and 4 in
\* Rust, 5 in Python.  Every request and tool with Rust; every two commands with C;
\* every state of the tools of Clang; budgets; and three functions of a C++ file, of
\* one name, on two lines.
NamesakeOf(owner, from, to, written) ==
    [owner |-> owner, leaf |-> "f", from |-> from, to |-> to, type |-> written, written |-> written, spelled |-> written]
FunctionPointer == [NamesakeOf("A", 1, 1, "int") EXCEPT !.written = Absent, !.type = "fp", !.spelled = Absent]
CommandFor(file, mode, where) == [file |-> file, mode |-> mode, at |-> where]
AskedFor(backend, exec, languages, lenient) ==
    [backend |-> backend, exec |-> exec, languages |-> languages, lenient |-> lenient]
MixedProject ==
    [request |-> AskedFor("auto", TRUE, {}, TRUE), language |-> <<"c", "c", "rust", "rust", "python">>,
     found |-> 1..5, selected |-> 1..5, providers |-> TRUE, cargo |-> TRUE, crates |-> {3, 4}, database |-> "found",
     compiler |-> TRUE, commands |-> <<>>, bytes |-> [f \in 1..5 |-> 1],
     includes |-> [f \in 1..5 |-> IF f = 1 THEN {2} ELSE {}],
     code |-> [f \in 1..5 |-> <<NamesakeOf("", 1, 2, "int")>>]]
RustProjects ==
    {[MixedProject EXCEPT !.request = AskedFor(b, e, l, n), !.cargo = c, !.crates = k, !.found = {3, 4, 5}, !.providers = p] :
        b \in {"auto", "native", "generic"}, e \in BOOLEAN, l \in {{}, {"rust", "python"}}, n \in BOOLEAN,
        c \in BOOLEAN, k \in {{3}, {3, 4}}, p \in BOOLEAN}
CommandsOfC ==
    {CommandFor(1, "c", "file"), CommandFor(1, "cpp", "file"), CommandFor(2, "c", "file"), CommandFor(1, "none", "file"),
     CommandFor(1, "c", "missing"), CommandFor(2, "c", "directory"), CommandFor(4, "c", "outside"), CommandFor(5, "cpp", "file")}
CProjects ==
    {[MixedProject EXCEPT !.request = AskedFor(b, TRUE, l, n), !.found = f, !.commands = c, !.selected = {1, 2}] :
        b \in {"auto", "native"}, l \in {{}, {"c"}}, n \in BOOLEAN, f \in {{1, 2}, {}},
        c \in UNION {[1..k -> CommandsOfC] : k \in 0..2}}
ToolProjects ==
    {[MixedProject EXCEPT !.request.backend = b, !.found = f, !.database = d, !.compiler = x] :
        b \in {"auto", "native"}, f \in {{1}, {5}}, d \in {"none", "found", "broken", "refused"}, x \in BOOLEAN}
BudgetProjects ==
    {[MixedProject EXCEPT !.found = {1}, !.bytes[1] = n,
        !.commands = <<CommandFor(1, "c", "file"), CommandFor(1, "c", "file"), CommandFor(2, "c", "file"), CommandFor(5, "c", "file")>>] :
        n \in {1, 2}}
NamesakeProjects ==
    {[MixedProject EXCEPT !.found = {1}, !.commands = <<CommandFor(1, "cpp", "file")>>, !.code[1] = <<x, y, z>>, !.code[2] = <<>>] :
        x \in {NamesakeOf("A", 1, 1, "int"), FunctionPointer},
        y \in {NamesakeOf(o, 1, t, w) : o \in {"A", "B"}, t \in {1, 2}, w \in {"int", "long"}},
        z \in {NamesakeOf("A", 1, 1, "long"), NamesakeOf("B", 1, 2, "int"), NamesakeOf("A", 2, 2, "long"),
               [NamesakeOf("A", 1, 1, "int") EXCEPT !.type = "int const"],
               [NamesakeOf("A", 1, 1, "char") EXCEPT !.spelled = Absent]}}
MCRoutedProjects == RustProjects \cup CProjects \cup ToolProjects \cup BudgetProjects \cup NamesakeProjects

VARIABLES v1, v2, v3, v4, v5, v6, v7, v8, v9, v10, v11, v12, v13, v14

others == <<v1, v2, v3, v4, v5, v6, v7, v8, v9, v10, v11, v12, v13, v14>>
\* vars is that of SourceDiscovery.
mcvars == <<part, checkouts, routing, ratchet, graph, kinships, clones, crap, identified, vars, others>>

Imports == INSTANCE ProviderImport WITH
    Reports <- MCImportReports, Entries <- MCEntries, Hash <- MCHash, IdSpace <- 4, Stride <- 3,
    MaxFiles <- 2, MaxMutants <- 2, MaxEach <- 4, MaxRetained <- 6, MaxIndex <- 24,
    report <- v1, format <- v2, mode <- v3, files <- v4, retained <- v5, results <- v6, opened <- v7,
    index <- v8, given <- v9, refused <- v10, phase <- v11
Scopes == INSTANCE RustScope WITH
    Projects <- MCProjects, CrateIdentifier <- MCCrateIdentifier,
    project <- v1, tests <- v2, filters <- v3, todo <- v4, frames <- v5, visited <- v6, collected <- v7,
    merged <- v8, scopes <- v9, repository <- v10, phase <- v11

Reported == INSTANCE CoverageReports WITH
    Supplies <- MCSupplies, Lower <- MCLowered, Before <- MCBefore, MaxLine <- 5, Limits <- MCReportLimits,
    supplied <- v1, shard <- v2, document <- v3, format <- v4, at <- v5, current <- v6, source <- v7, sources <- v8,
    classes <- v9, budget <- v10, files <- v11, functions <- v12, total <- v13, phase <- v14

Syntax == INSTANCE SyntaxFunctions WITH
    Files <- MCFiles, Tables <- MCTables, Kinds <- MCKinds, Begins <- MCBegins, NameBefore <-
    MCNameBefore, Limit <- 200, file <- v1, allow <- v2, phase <- v3, issues <- v4, pending <- v5, walk
    <- v6, measured <- v7, functions <- v8, output <- v9

Structure == INSTANCE RustStructure WITH
    Files <- MCCodeFiles, file <- v1, syntax <- v2, todo <- v3, frames <- v4, analysis <- v5, repository
    <- v6, phase <- v7

\* The variables from the n-th on are absent, or stay as they are.
Absent14 == v14 = Absent
Absent12 == v12 = Absent /\ v13 = Absent /\ Absent14
Absent10 == v10 = Absent /\ v11 = Absent /\ Absent12
Absent8 == v8 = Absent /\ v9 = Absent /\ Absent10
Keep14 == UNCHANGED v14
Keep12 == UNCHANGED <<v12, v13>> /\ Keep14
Keep10 == UNCHANGED <<v10, v11>> /\ Keep12
Keep8 == UNCHANGED <<v8, v9>> /\ Keep10

NoCheckouts ==
    /\ at = Absent /\ source = Absent /\ journals = Absent
    /\ pointer = Absent /\ marked = Absent /\ analysed = Absent
NoRouting ==
    /\ project = Absent /\ phase = Absent /\ sources = Absent /\ units = Absent /\ charged = Absent
    /\ records = Absent /\ functions = Absent /\ notes = Absent /\ authoritative = Absent
NoRatchet == family = Absent /\ facts = Absent /\ report = Absent /\ baseline = Absent
NoGraph ==
    /\ dependencies = Absent /\ frames = Absent /\ indices = Absent
    /\ lowlinks = Absent /\ stack = Absent /\ components = Absent
NoFamilies ==
    /\ shingled = Absent /\ occurrences = Absent /\ candidates = Absent /\ parents = Absent
    /\ accepted = Absent /\ outcome = Absent /\ clusters = Absent
NoClones ==
    /\ tokens = Absent /\ cap = Absent /\ buckets = Absent /\ pairs = Absent /\ extended = Absent
    /\ regions = Absent /\ groups = Absent /\ selected = Absent /\ turn = Absent
NoCrap ==
    /\ layout = Absent /\ precise = Absent /\ coverage = Absent /\ zero = Absent /\ unread = Absent
    /\ counted = Absent /\ ahead = Absent /\ opening = Absent /\ closing = Absent /\ active = Absent
    /\ unmarked = Absent /\ ambiguous = Absent /\ scores = Absent /\ stage = Absent
NoIdentities ==
    /\ nativeEdits = Absent /\ foundEdits = Absent /\ namedEdits = Absent
    /\ allowedKinds = Absent /\ chosenEdits = Absent /\ naming = Absent
NoDiscovery ==
    /\ disk = Absent /\ changes = Absent /\ options = Absent /\ pending = Absent /\ task = Absent /\ wanted = Absent
    /\ listing = Absent /\ found = Absent /\ entry = Absent
    /\ reading = NoReading /\ located = <<>> /\ budget = [files |-> 0, bytes |-> 0, read |-> {}] /\ state = "walk"
NoOther ==
    /\ v1 = Absent /\ v2 = Absent /\ v3 = Absent /\ v4 = Absent /\ v5 = Absent /\ v6 = Absent /\ v7 = Absent
    /\ Absent8

OthersInit ==
    \/ part = "imports" /\ Imports!Init /\ Absent12
    \/ part = "scopes" /\ Scopes!Init /\ Absent12
    \/ part = "reports" /\ Reported!Init
    \/ part = "syntax" /\ Syntax!Init /\ Absent10
    \/ part = "structure" /\ Structure!Init /\ Absent8

MCInit ==
    /\ part \in Parts
    /\ IF part = "checkouts" THEN Checkouts!Init ELSE NoCheckouts
    /\ IF part = "routing" THEN Routing!Init ELSE NoRouting
    /\ IF part = "ratchet" THEN Ratchet!Init ELSE NoRatchet
    /\ IF part = "cycles" THEN Graph!Init ELSE NoGraph
    /\ IF part = "families" THEN Families!Init ELSE NoFamilies
    /\ IF part = "clones" THEN Clones!Init ELSE NoClones
    /\ IF part = "crap" THEN Crap!Init ELSE NoCrap
    /\ IF part = "identities" THEN Identities!Init ELSE NoIdentities
    /\ IF part = "discovery" THEN Init ELSE NoDiscovery
    /\ IF part \in {"checkouts", "routing", "ratchet", "cycles", "families", "clones", "crap", "identities", "discovery"} THEN NoOther ELSE OthersInit

\* One baseline is adopted in a behaviour of the ratchet.
RatchetNext ==
    \/ \E scope \in Ratchet!ScopesOf(family), enabled \in BOOLEAN : Ratchet!Check(scope, enabled)
    \/ ~baseline.made /\ \E x \in Ratchet!FactsOf(family) : Ratchet!Adopt(x)

OthersNext ==
    \/ part = "imports" /\ Imports!Next /\ Keep12
    \/ part = "scopes" /\ Scopes!Next /\ Keep12
    \/ part = "reports" /\ Reported!Next
    \/ part = "syntax" /\ Syntax!Next /\ Keep10
    \/ part = "structure" /\ Structure!Next /\ Keep8

MCNext ==
    /\ \/ part = "checkouts" /\ Checkouts!Next /\ UNCHANGED <<routing, ratchet, graph, kinships, clones, crap, identified, vars, others>>
       \/ part = "routing" /\ Routing!Next /\ UNCHANGED <<checkouts, ratchet, graph, kinships, clones, crap, identified, vars, others>>
       \/ part = "ratchet" /\ RatchetNext /\ UNCHANGED <<checkouts, routing, graph, kinships, clones, crap, identified, vars, others>>
       \/ part = "cycles" /\ Graph!Next /\ UNCHANGED <<checkouts, routing, ratchet, kinships, clones, crap, identified, vars, others>>
       \/ part = "clones" /\ Clones!Next /\ UNCHANGED <<checkouts, routing, ratchet, graph, kinships, crap, identified, vars, others>>
       \/ part = "families" /\ Families!Next /\ UNCHANGED <<checkouts, routing, ratchet, graph, clones, crap, identified, vars, others>>
       \/ part = "crap" /\ Crap!Next /\ UNCHANGED <<checkouts, routing, ratchet, graph, kinships, clones, identified, vars, others>>
       \/ part = "identities" /\ Identities!Next /\ UNCHANGED <<checkouts, routing, ratchet, graph, kinships, clones, crap, vars, others>>
       \/ part = "discovery" /\ Next /\ UNCHANGED <<checkouts, routing, ratchet, graph, kinships, clones, crap, identified, others>>
       \/ OthersNext /\ UNCHANGED <<checkouts, routing, ratchet, graph, kinships, clones, crap, identified, vars>>
    /\ UNCHANGED part

MCSpec == MCInit /\ [][MCNext]_mcvars

ResolvedClonesAreGone == part = "ratchet" => Ratchet!ResolvedClonesAreGone

\* Every family of similar functions is reported (analysis-dry,
\* find_function_duplicates).
EveryFamilyIsReported == part = "families" => Families!EveryFamilyIsReported

\* What is imported is what a report says of this source, or nothing: mutations
\* (provider-mutation, import.rs), and lines with their highest count
\* (analysis-crap, coverage.rs).
ImportIsFaithful ==
    /\ part = "imports" => Imports!ImportIsFaithful
    /\ part = "reports" => Reported!ReportsAreRead

\* The files, modules and configurations of a workspace, the names of its
\* dependencies (adapter-rust, scope.rs), and production code told from test code
\* the same way by flags and by spans (complexity.rs).
WorkspaceIsRead ==
    /\ part = "scopes" => Scopes!ScopesAreUses /\ Scopes!DependenciesAreNamed
    /\ part = "structure" => Structure!ProductionIsToldFromTests

\* Every function of a file is measured by its own code, and by nothing else;
\* symbols are unique, and mutations apart (adapter-tree-sitter).
CodeIsMeasuredOnce == part = "syntax" => Syntax!CodeIsMeasuredOnce
=============================================================================
