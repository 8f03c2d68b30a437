--------------------------- MODULE RustStructure ---------------------------
(***************************************************************************)
(* What is said of the code of a Rust file: its functions and their        *)
(* measures, the names that production and tests use, its modules, tests   *)
(* and trait implementations, and its mutations (adapter-rust,             *)
(* complexity.rs, syntax.rs, tokens.rs, mutations.rs and lib.rs).          *)
(*                                                                         *)
(* A file may be several modules of several packages: each of its scopes   *)
(* is [prefix, package, cfg, gated, evidence], cfg a set of                *)
(* configurations.  Its syntax is a tree of nodes                          *)
(* [kind, name, attrs, subs, vis, of]: the kind of an operator or of a     *)
(* Boolean is its text; name is the identifiers that the node itself       *)
(* writes; the parameters of a function come before its block; of is the   *)
(* trait of an `impl`, as [path, args].  A place is the path of a node     *)
(* from the root, and stands for the span of the node with its             *)
(* attributes.  Keywords and the names of attributes are left out of the   *)
(* tokens.                                                                 *)
(***************************************************************************)
EXTENDS CfgAttributes, FiniteSetsExt

CONSTANT Files    \* the files that a run may be about

VARIABLES
    file,          \* [state, lenient, testPath, root, scopes]
    syntax,        \* the parsed tree: its places in order, and the node at each
    todo,          \* the scopes that remain, and then the packages
    frames,        \* the calls of collect_items: [at, next, in]
    analysis,      \* what FileAnalysis holds
    repository,    \* RepositorySemantics
    phase          \* "start", "collect", "count", "done" or "refused"

vars == <<file, syntax, todo, frames, analysis, repository, phase>>

----------------------------------------------------------------------------
(* The tree *)

Items == {"fn", "impl", "trait", "mod", "modfile", "type"}
Expressions ==
    {"if", "for", "while", "loop", "match", "closure", "try", "return", "break", "continue", "path", "call",
     "get", "struct", "&&", "||", "==", "!=", "<", "<=", ">", ">=", "+", "-", "*", "/", "%", "true", "false"}

\* The nodes that AttributeRangeVisitor looks at, and those that the visitors of
\* a body do.
Ranged == Items \cup Expressions \cup {"method", "let", "letelse", "arm", "field", "value", "macro"}
Filtered == Ranged \ {"method", "field", "value"}

RECURSIVE Preorder(_)
Preorder(n) ==
    <<<<>>>> \o FlattenSeq([i \in DOMAIN n.subs |->
                    LET below == Preorder(n.subs[i]) IN [k \in DOMAIN below |-> <<i>> \o below[k]]])

Parsed ==
    LET order == Preorder(file.root)
    IN  [order |-> order, at |-> [p \in ToSet(order) |-> FoldLeft(LAMBDA n, i : n.subs[i], file.root, p)]]

At(p) == syntax.at[p]
Places == DOMAIN syntax.at
Within(p, ranges) == \E r \in ranges : IsPrefix(r, p)
Below(p) == {q \in Places : IsPrefix(p, q)}
Children(p) == [i \in DOMAIN At(p).subs |-> Append(p, i)]

----------------------------------------------------------------------------
(* Configurations *)

\* CfgContext: active in any variant, in one without tests, in one with them.
ActiveIn(cfg, attrs) == \E v \in cfg : AttrsActive(v, attrs)
InProduction(cfg, attrs) == \E v \in cfg : ~v.tests /\ AttrsActive(v, attrs)
InTests(cfg, attrs) == \E v \in cfg : v.tests /\ AttrsActive(v, attrs)

\* RealizableCfg
Selects(selection, attrs) ==
    IF selection.tests THEN InTests(selection.cfg, attrs) ELSE InProduction(selection.cfg, attrs)

\* meta_requires_test
RECURSIVE PredicateRequiresTest(_)
PredicateRequiresTest(p) ==
    CASE p.op = "test" -> TRUE
      [] p.op = "all" -> \E i \in DOMAIN p.items : PredicateRequiresTest(p.items[i])
      [] p.op = "any" -> p.items # <<>> /\ \A i \in DOMAIN p.items : PredicateRequiresTest(p.items[i])
      [] OTHER -> FALSE

SaysTest(attrs) == \E i \in DOMAIN attrs : attrs[i].meta = "word" /\ attrs[i].name \in {"test", "bench"}

\* attributes_require_test
RequiresTest(attrs) ==
    SaysTest(attrs) \/ \E i \in DOMAIN attrs : attrs[i].meta = "cfg" /\ PredicateRequiresTest(attrs[i].when)

Gated(attrs) == \E i \in DOMAIN attrs : attrs[i].meta \in {"cfg", "cfg_attr"}

\* inactive_file_ranges, and attribute_ranges as explicit_test_ranges calls it
Inactive(cfg) == {p \in Places : At(p).kind \in Ranged /\ ~ActiveIn(cfg, At(p).attrs)}
TestRanges(cfg) ==
    {p \in Places : At(p).kind \in Ranged /\ (SaysTest(At(p).attrs) \/ ~InProduction(cfg, At(p).attrs))}

----------------------------------------------------------------------------
(* The measures of a body *)

Control == {"if", "for", "while", "loop", "match"}

\* What MetricsVisitor, LocalVisitor and ReferenceVisitor visit of a body.
Own(body, selection) ==
    {p \in Below(body) :
        \A k \in (Len(body) + 1)..Len(p) :
            LET n == At(SubSeq(p, 1, k))
            IN  /\ n.kind \in Filtered => Selects(selection, n.attrs)
                /\ k < Len(p) => n.kind \notin Items \cup {"closure"}}

\* The paths that a node adds: a match one for every further active arm.
Paths(p, selection) ==
    LET arms == {q \in ToSet(Children(p)) : At(q).kind = "arm" /\ Selects(selection, At(q).attrs)}
    IN  CASE At(p).kind = "match" -> IF arms = {} THEN 0 ELSE Cardinality(arms) - 1
          [] At(p).kind \in (Control \cup {"guard", "letelse", "try", "&&", "||"}) -> 1
          [] OTHER -> 0

Complexity(body, selection) == 1 + MapThenSumSet(LAMBDA p : Paths(p, selection), Own(body, selection))
Depth(body, selection) ==
    Max({Cardinality({k \in (Len(body) + 1)..Len(p) : At(SubSeq(p, 1, k)).kind \in Control}) :
            p \in Own(body, selection)})
Statements(body, selection) ==
    Cardinality({p \in Own(body, selection) \ {body} : At(Front(p)).kind = "block"})

\* The parameters of a function that are active.
Parameters(p, selection) ==
    {q \in ToSet(Children(p)) : At(q).kind = "param" /\ Selects(selection, At(q).attrs)}

\* local_names
Locals(p, body, selection) ==
    UNION {ToSet(At(q).name) :
              q \in Parameters(p, selection)
                    \cup {x \in Own(body, selection) : At(x).kind \in {"let", "letelse", "arm", "for"}}}

\* nonlocal_references
References(body, locals, selection) ==
    LET named == {q \in Own(body, selection) : At(q).kind \in {"path", "call", "get"}}
        reference(n) ==
            CASE n.kind = "path" -> n.name
              [] n.kind = "call" -> <<"method">> \o n.name
              [] OTHER -> <<"field">> \o n.name
    IN  {r \in {reference(At(q)) : q \in named} : Len(r) > 1 \/ r[1] \notin locals}

\* NestedExecutableBodyVisitor: closures and free functions, not the methods of
\* an `impl` in the body.
Nested(body) ==
    LET inner == {p \in Below(body) : At(p).kind \in {"fn", "closure"}}
    IN  {p \in inner : \A q \in inner : IsPrefix(q, p) => q = p}

\* normalize_fragment_excluding
Fragment(place, locals, excluded) ==
    LET kept == SelectSeq(syntax.order, LAMBDA p : IsPrefix(place, p) /\ ~Within(p, excluded))
        token(n) ==
            IF n.kind \in {"true", "false"} THEN [kind |-> "LITERAL", words |-> <<>>]
            ELSE [kind |-> n.kind, words |-> [i \in DOMAIN n.name |-> IF n.name[i] \in locals THEN "LOCAL" ELSE n.name[i]]]
    IN  [k \in DOMAIN kept |-> token(At(kept[k]))]

\* owned_normalized_tokens
OwnedTokens(body, locals, selection) ==
    LET ranges == {p \in Below(body) : At(p).kind \in Ranged /\ ~Selects(selection, At(p).attrs)}
    IN  Fragment(body, locals, Nested(body) \cup ranges)

\* UnreachableVisitor: in every block the active statements after the first one
\* that leaves it.
RECURSIVE Unreachable(_, _)
Unreachable(p, cfg) ==
    LET below == Children(p)
        active == SelectSeq(below, LAMBDA q : ActiveIn(cfg, At(q).attrs))
        leaves == SelectSeq(active, LAMBDA q : At(q).kind \in {"return", "break", "continue"})
        inner(children) == [i \in DOMAIN children |->
                               IF At(children[i]).kind \in {"fn", "closure"} THEN <<>> ELSE Unreachable(children[i], cfg)]
        after(q) == leaves # <<>> /\ Last(q) > Last(leaves[1])
        dead(q) ==
            IF after(q) THEN <<[statement |-> q, after |-> At(leaves[1]).kind,
                                gated |-> Gated(At(q).attrs) \/ Gated(At(leaves[1]).attrs)]>>
            ELSE <<>>
    IN  IF At(p).kind = "block"
            THEN FlattenSeq([i \in DOMAIN active |-> dead(active[i]) \o inner(active)[i]])
            ELSE FlattenSeq(inner(below))

----------------------------------------------------------------------------
(* Functions *)

Scope == todo[1]
Qualified(prefix, local) == (IF Scope.package = "" THEN <<>> ELSE <<Scope.package>>) \o prefix \o local

\* stable_with_cfg
WithCfg(name, inherited, attrs) == [name |-> name, cfg |-> Evidence(inherited, attrs)]

\* entry_point: `main`, or an attribute that is not known to be inert; an
\* attribute `abi` stands for a foreign ABI.
Inert ==
    {"allow", "cfg", "cfg_attr", "cold", "deny", "deprecated", "doc", "forbid", "inline", "must_use", "track_caller", "warn"}
EntryPoint(n) == n.name = <<"main">> \/ \E i \in DOMAIN n.attrs : Marker(n.attrs[i]) \notin Inert

\* nested_item_context
NestedItem(in, attrs) ==
    [in EXCEPT !.evidence = Evidence(@, attrs), !.gated = @ \/ TargetGated(attrs),
               !.active = @ /\ InProduction(Scope.cfg, attrs) /\ ~RequiresTest(attrs)]

\* metric: what is said of the function at a place, [function, unreachable, tests].
Metric(x) ==
    LET n == At(x.place)
        body == Append(x.place, Len(n.subs))
        symbol == WithCfg(x.name, x.in.evidence, n.attrs)
        production ==
            ~file.testPath /\ x.in.active /\ InProduction(Scope.cfg, n.attrs) /\ ~RequiresTest(n.attrs)
        selection == [cfg |-> Scope.cfg, tests |-> ~production /\ InTests(Scope.cfg, n.attrs)]
        locals == Locals(x.place, body, selection)
        references == References(body, locals, selection)
        gated == Scope.gated \/ x.in.gated \/ TargetGated(n.attrs)
        dead == Unreachable(body, Scope.cfg)
        shape(i) == Fragment(dead[i].statement, locals, {})
        markers == {Marker(n.attrs[i]) : i \in DOMAIN n.attrs}
    IN  [function |->
            [place |-> x.place, symbol |-> symbol, package |-> Scope.package,
             complexity |-> Complexity(body, selection), depth |-> Depth(body, selection),
             statements |-> Statements(body, selection), parameters |-> Cardinality(Parameters(x.place, selection)),
             tokens |-> OwnedTokens(body, locals, selection), references |-> references, excluded |-> Nested(body),
             visibility |-> x.visibility, production |-> production, selection |-> selection,
             entry |-> gated \/ ~production \/ EntryPoint(n)],
         unreachable |->
            [i \in DOMAIN dead |->
                [symbol |-> symbol, after |-> dead[i].after, shape |-> shape(i),
                 ordinal |-> Cardinality({j \in 1..(i - 1) : shape(j) = shape(i)}),
                 gated |-> gated \/ ~production \/ dead[i].gated]],
         tests |->
            IF markers \cap {"test", "bench"} = {} THEN {}
            ELSE {[symbol |-> symbol, package |-> Scope.package, references |-> references,
                   markers |-> markers \cup ToSet(n.name), gated |-> gated]}]

\* The records of functions: one for each place and symbol.
Measure(inputs, semantics) ==
    LET results == [i \in DOMAIN inputs |-> Metric(inputs[i])]
    IN  /\ analysis' = [analysis EXCEPT !.functions = @ \cup {results[i].function : i \in DOMAIN results}]
        /\ repository' =
               [semantics EXCEPT !.unreachable = @ \o FlattenSeq([i \in DOMAIN results |-> results[i].unreachable]),
                                 !.tests = @ \cup UNION {results[i].tests : i \in DOMAIN results}]

Input(p, in, owner, visibility) ==
    [place |-> p, in |-> in, name |-> Qualified(in.prefix, owner \o At(p).name), visibility |-> visibility]

----------------------------------------------------------------------------
(* Reading and collecting *)

NoRepository ==
    [unreachable |-> <<>>, tests |-> {}, implementations |-> {}, modules |-> {}, identifiers |-> {},
     features |-> {}, reliable |-> FALSE]

\* read_scoped_source, parse_scoped_source and parse_fallback
Read ==
    /\ phase = "start"
    /\ IF file.state = "large" \/ (file.state = "broken" /\ ~file.lenient)
           THEN phase' = "refused" /\ UNCHANGED <<file, syntax, todo, frames, analysis, repository>>
       ELSE IF file.state = "broken"
           THEN /\ phase' = "done"
                /\ analysis' = [analysis EXCEPT !.errors = 1]
                /\ UNCHANGED <<file, syntax, todo, frames, repository>>
       ELSE /\ phase' = "collect"
            /\ syntax' = Parsed
            /\ todo' = file.scopes
            /\ UNCHANGED <<file, frames, analysis, repository>>

\* extract: the items of the file in its next scope.
StartScope ==
    /\ phase = "collect" /\ todo # <<>> /\ frames = <<>>
    /\ LET attrs == file.root.attrs
           in == [prefix |-> Scope.prefix, evidence |-> Scope.evidence,
                  gated |-> Scope.gated \/ TargetGated(attrs),
                  active |-> /\ ~file.testPath
                             /\ \E v \in Scope.cfg : ~v.tests
                             /\ InProduction(Scope.cfg, attrs)
                             /\ ~RequiresTest(attrs)]
       IN  frames' = <<[at |-> <<>>, next |-> 1, in |-> in]>>
    /\ UNCHANGED <<file, syntax, todo, analysis, repository, phase>>

Top == frames[Len(frames)]
Place == Append(Top.at, Top.next)
Item == At(Place)
Advanced == [frames EXCEPT ![Len(frames)].next = @ + 1]
Collecting == phase = "collect" /\ frames # <<>> /\ Top.next <= Len(At(Top.at).subs)
Selected == ActiveIn(Scope.cfg, Item.attrs)

\* collect_items: an inactive item, or one that says nothing.
SkipItem ==
    /\ Collecting
    /\ ~Selected \/ Item.kind \notin {"fn", "impl", "trait", "mod"}
    /\ frames' = Advanced
    /\ UNCHANGED <<file, syntax, todo, analysis, repository, phase>>

\* collect_function
CollectFunction ==
    /\ Collecting /\ Selected /\ Item.kind = "fn"
    /\ Measure(<<Input(Place, Top.in, <<>>, Item.vis)>>, repository)
    /\ frames' = Advanced
    /\ UNCHANGED <<file, syntax, todo, phase>>

\* stable_trait_symbol: a trait of the same items, or a path from the crate, this
\* module or one above; any other keeps its arguments.
TraitSymbol(of, prefix) ==
    LET siblings == {At(p).name : p \in {q \in ToSet(Children(Top.at)) : At(q).kind = "trait"}}
        supers == SelectInSeq(of.path, LAMBDA x : x # "super") - 1
        up == IF supers < 0 THEN Len(of.path) ELSE supers
        above == SubSeq(prefix, 1, IF up > Len(prefix) THEN 0 ELSE Len(prefix) - up)
    IN  CASE of.path \in siblings -> [name |-> Qualified(prefix, of.path), args |-> ""]
          [] of.path[1] = "crate" -> [name |-> Qualified(<<>>, Tail(of.path)), args |-> ""]
          [] of.path[1] = "self" -> [name |-> Qualified(prefix, Tail(of.path)), args |-> ""]
          [] of.path[1] = "super" -> [name |-> Qualified(above, SubSeq(of.path, up + 1, Len(of.path))), args |-> ""]
          [] OTHER -> [name |-> of.path, args |-> of.args]

\* The methods of a type or trait that are active and have a body.
Methods ==
    SelectSeq(Children(Place),
              LAMBDA p : /\ At(p).kind = "method" /\ ActiveIn(Scope.cfg, At(p).attrs)
                         /\ At(p).subs # <<>> /\ Last(At(p).subs).kind = "block")

\* collect_implementation
CollectImplementation ==
    /\ Collecting /\ Selected /\ Item.kind = "impl"
    /\ LET nested == NestedItem(Top.in, Item.attrs)
           ofTrait == Item.of.path # <<>>
           trait == TraitSymbol(Item.of, Top.in.prefix)
           owner == Item.name \o (IF ofTrait THEN <<"as">> \o trait.name \o <<trait.args>> ELSE <<>>)
           record ==
               [trait |-> trait, symbol |-> WithCfg(Qualified(Top.in.prefix, Item.name), nested.evidence, <<>>),
                package |-> Scope.package, gated |-> Scope.gated \/ nested.gated \/ ~nested.active]
       IN  Measure([i \in DOMAIN Methods |->
                       Input(Methods[i], nested, owner, IF ofTrait THEN "unknown" ELSE At(Methods[i]).vis)],
                   [repository EXCEPT !.implementations = IF ofTrait THEN @ \cup {record} ELSE @])
    /\ frames' = Advanced
    /\ UNCHANGED <<file, syntax, todo, phase>>

\* collect_trait_defaults
CollectTraitDefaults ==
    /\ Collecting /\ Selected /\ Item.kind = "trait"
    /\ LET nested == NestedItem(Top.in, Item.attrs)
       IN  Measure([i \in DOMAIN Methods |-> Input(Methods[i], nested, <<"trait">> \o Item.name, Item.vis)],
                   repository)
    /\ frames' = Advanced
    /\ UNCHANGED <<file, syntax, todo, phase>>

\* RegistrationVisitor on the items of a module
Registers(p) ==
    \E q \in Below(p) \ {p} :
        At(q).kind = "macro" \/ ReflectionReachable(At(q).attrs) \/ FrameworkManaged(At(q).attrs)

\* collect_inline_module
EnterModule ==
    /\ Collecting /\ Selected /\ Item.kind = "mod"
    /\ LET nested == [NestedItem(Top.in, Item.attrs) EXCEPT !.prefix = @ \o Item.name]
           record ==
               [symbol |-> WithCfg(Qualified(nested.prefix, <<>>), nested.evidence, <<>>), package |-> Scope.package,
                visibility |-> Item.vis, gated |-> Scope.gated \/ nested.gated,
                framework |-> ~nested.active \/ FrameworkManaged(Item.attrs),
                reflection |-> ReflectionReachable(Item.attrs) \/ Registers(Place)]
       IN  /\ repository' = [repository EXCEPT !.modules = @ \cup {record}]
           /\ frames' = Append(Advanced, [at |-> Place, next |-> 1, in |-> nested])
    /\ UNCHANGED <<file, syntax, todo, analysis, phase>>

\* The end of collect_items, and after the last scope the packages of the file.
Return ==
    /\ phase = "collect" /\ frames # <<>> /\ Top.next > Len(At(Top.at).subs)
    /\ frames' = Front(frames)
    /\ IF Len(frames) > 1 THEN UNCHANGED <<todo, phase>>
       ELSE IF Len(todo) > 1 THEN todo' = Tail(todo) /\ UNCHANGED phase
       ELSE /\ todo' = SetToSeq({s.package : s \in ToSet(file.scopes)})
            /\ phase' = "count"
    /\ UNCHANGED <<file, syntax, analysis, repository>>

----------------------------------------------------------------------------
(* Names, features and mutations *)

\* Wrong: the first scope speaks for its package.
FirstCfg(package) ==
    file.scopes[SelectInSeq(file.scopes, LAMBDA s : s.package = package)].cfg

\* package_cfg
PackageCfg(package) == UNION {s.cfg : s \in {x \in ToSet(file.scopes) : x.package = package}}

\* The identifiers of a node, and those of callbacks that its attributes name.
Identifiers(n) ==
    n.name \o n.of.path
    \o FlattenSeq([i \in DOMAIN n.attrs |-> IF n.attrs[i].meta = "serde" THEN n.attrs[i].name ELSE <<>>])

\* identifier_counts and append_framework_callbacks: the identifiers outside of
\* some ranges.
Counted(ranges) ==
    FlattenSeq([k \in DOMAIN syntax.order |->
        IF Within(syntax.order[k], ranges) THEN <<>> ELSE Identifiers(At(syntax.order[k]))])
Times(x, list) == Cardinality({i \in DOMAIN list : list[i] = x})

\* FeatureReferenceVisitor: the features that a predicate or attribute names,
\* active or not.
RECURSIVE FeaturesOf(_)
FeaturesOf(p) ==
    IF p.op = "feature" THEN <<p.fact>>
    ELSE FlattenSeq([i \in DOMAIN p.items |-> FeaturesOf(p.items[i])])
RECURSIVE FeaturesIn(_)
FeaturesIn(attrs) ==
    FlattenSeq([i \in DOMAIN attrs |->
        CASE attrs[i].meta = "cfg" -> FeaturesOf(attrs[i].when)
          [] attrs[i].meta = "cfg_attr" -> FeaturesOf(attrs[i].when) \o FeaturesIn(attrs[i].nested)
          [] OTHER -> <<>>])

\* append_package_identifiers
CountPackage ==
    /\ phase = "count" /\ todo # <<>>
    /\ LET package == todo[1]
           inactive == Inactive(PackageCfg(package))
           all == Counted(inactive)
           production == IF file.testPath THEN <<>> ELSE Counted(inactive \cup TestRanges(PackageCfg(package)))
           features == FlattenSeq([k \in DOMAIN syntax.order |-> FeaturesIn(At(syntax.order[k]).attrs)])
       IN  repository' =
               [repository EXCEPT
                   !.identifiers = @ \cup {[identifier |-> x, package |-> package, production |-> Times(x, production),
                                            tests |-> Times(x, all) - Times(x, production)] : x \in ToSet(all)},
                   !.features = @ \cup {[package |-> package, name |-> f, references |-> Times(f, features)] :
                                            f \in ToSet(features)}]
    /\ todo' = Tail(todo)
    /\ UNCHANGED <<file, syntax, frames, analysis, phase>>

\* BinaryReplacement, and the other Boolean
Replacements ==
    [o \in {"+", "-", "*", "/", "%", "&&", "||", "==", "!=", "<", "<=", ">", ">=", "true", "false"} |->
        CASE o = "+" -> "-" [] o = "-" -> "+" [] o = "*" -> "/" [] o \in {"/", "%"} -> "*"
          [] o = "&&" -> "||" [] o = "||" -> "&&" [] o = "==" -> "!=" [] o = "!=" -> "=="
          [] o = "<" -> ">=" [] o = "<=" -> ">" [] o = ">" -> "<=" [] o = ">=" -> "<"
          [] o = "true" -> "false" [] o = "false" -> "true"]

\* enumerate: every operator and Boolean of the active code.
Mutations(inactive) ==
    {[place |-> p, original |-> At(p).kind, replacement |-> Replacements[At(p).kind]] :
        p \in {q \in Places : At(q).kind \in DOMAIN Replacements /\ ~Within(q, inactive)}}

\* The end of extract, and the rest of analyze_scoped_file.
Finish ==
    /\ phase = "count" /\ todo = <<>>
    /\ LET inactive == Inactive(UNION {s.cfg : s \in ToSet(file.scopes)})
       IN  analysis' = [analysis EXCEPT !.tokens = Fragment(<<>>, {}, inactive), !.mutations = Mutations(inactive)]
    /\ repository' = [repository EXCEPT !.reliable = TRUE]
    /\ phase' = "done"
    /\ UNCHANGED <<file, syntax, todo, frames>>

Init ==
    /\ file \in Files
    /\ syntax = [order |-> <<>>, at |-> <<>>]
    /\ todo = <<>> /\ frames = <<>>
    /\ analysis = [functions |-> {}, tokens |-> <<>>, mutations |-> {}, errors |-> 0]
    /\ repository = NoRepository
    /\ phase = "start"

Next ==
    \/ Read
    \/ StartScope
    \/ SkipItem
    \/ CollectFunction
    \/ CollectImplementation
    \/ CollectTraitDefaults
    \/ EnterModule
    \/ Return
    \/ CountPackage
    \/ Finish

Spec == Init /\ [][Next]_vars

----------------------------------------------------------------------------
(* Properties *)

\* What a function owns, but for a field of a literal that is not there: the
\* measures and references still take such a field in.
Sure(f) ==
    {p \in Own(Append(f.place, Len(At(f.place).subs)), f.selection) :
        \A k \in 1..Len(p) :
            At(SubSeq(p, 1, k)).kind = "value" => Selects(f.selection, At(SubSeq(p, 1, k)).attrs)}

\* Which code is production's is decided twice, by flags that functions inherit
\* and by spans of attributes, and both agree: what a production function refers
\* to is referred to by production, and a name that production refers to occurs
\* outside of the functions that are tests in every scope of the package.  Code
\* that is measured is mutated.  Two functions share a symbol only as methods of
\* one trait, which a type implements with several arguments; and if they do
\* not, no two of their unreachable statements are taken for one
\* (adapter-rust, complexity.rs and mutations.rs).
ProductionIsToldFromTests ==
    phase = "done" /\ analysis.errors = 0 =>
        /\ \A f \in analysis.functions :
               \A p \in Sure(f) :
                   /\ f.production /\ At(p).kind \in {"path", "call", "get"} =>
                          \A x \in ToSet(At(p).name) :
                              \E r \in repository.identifiers :
                                  r.identifier = x /\ r.package = f.package /\ r.production > 0
                   /\ At(p).kind \in {"&&", "||"} => \E m \in analysis.mutations : m.place = p
        /\ \A r \in repository.identifiers :
               r.production > 0 =>
                   \E p \in Places :
                       LET around == {f \in analysis.functions : f.package = r.package /\ IsPrefix(f.place, p)}
                       IN  /\ r.identifier \in ToSet(Identifiers(At(p)))
                           /\ around = {} \/ \E f \in around : f.production
        /\ \A f, g \in analysis.functions :
               f.symbol = g.symbol =>
                   \/ f = g
                   \/ LET x == At(Front(f.place))
                          y == At(Front(g.place))
                      IN  x.kind = "impl" /\ y.kind = "impl" /\ x.of.path = y.of.path /\ x.of.args # y.of.args
        /\ \A i, j \in DOMAIN repository.unreachable :
               repository.unreachable[i] = repository.unreachable[j] =>
                   i = j \/ Cardinality({f \in analysis.functions : f.symbol = repository.unreachable[i].symbol}) > 1

=============================================================================
