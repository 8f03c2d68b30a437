----------------------------- MODULE RustScope -----------------------------
(***************************************************************************)
(* Which files of a Cargo workspace are analysed, as which modules and     *)
(* under which configurations (adapter-rust, scope.rs).                    *)
(*                                                                         *)
(* Every target in scope is walked once per configuration: production, and *)
(* with tests.  A walk goes depth first through the items that the         *)
(* configuration leaves active, follows modules and literal includes to    *)
(* their files, and visits a file once per module path.  The files of all  *)
(* walks are merged by file, module path and package.                      *)
(*                                                                         *)
(* A path is a sequence of names from the root; <<"..">> leads outside.    *)
(***************************************************************************)
EXTENDS CfgAttributes, FiniteSets

CONSTANTS
    Projects,             \* the projects that a run may be about
    CrateIdentifier(_)    \* of a name: its hyphens are underscores

VARIABLES
    project,     \* files, links, packages and what Cargo and rustc answer
    tests,       \* include_tests
    filters,     \* the path filters, as sets of files
    todo,        \* the walks that remain: [package, target, context]
    frames,      \* the items still to walk, one frame per call of walk_items
    visited,     \* WalkState.visited
    collected,   \* WalkState.output
    merged,      \* MergedScope by path, prefix and package
    scopes,      \* ScopeDiscovery.scopes
    repository,  \* the module and dependency records of RepositorySemantics
    phase        \* "start", "walk", "done" or "refused"

vars == <<project, tests, filters, todo, frames, visited, collected, merged, scopes, repository, phase>>

----------------------------------------------------------------------------
\* RegistrationVisitor: macros, an include among them, and attributes may register.
RECURSIVE Registers(_)
Registers(items) ==
    \E i \in DOMAIN items :
        \/ items[i].kind \in {"include", "macro"}
        \/ ReflectionReachable(items[i].attrs) \/ FrameworkManaged(items[i].attrs)
        \/ Registers(items[i].items)

----------------------------------------------------------------------------
(* Files *)

Parent(path) == SubSeq(path, 1, Len(path) - 1)
Join(dir, path) == dir \o path

Canonical(path) == IF path \in DOMAIN project.links THEN project.links[path] ELSE path
IsFile(path) == Canonical(path) \in DOMAIN project.files
WithinRoot(path) == IsFile(path) /\ Head(Canonical(path)) # ".."
IsGeneratedPath(path) == \E i \in DOMAIN path : path[i] \in {"generated", "gen", "DerivedSources"}

Unresolved == [path |-> <<>>, dir |-> <<>>]

\* resolve_module: an override, or one of <name>.rs and <name>/mod.rs; both is
\* an error.
Resolved(module, dir, context) ==
    LET override == Overrides(context, module.attrs)
        direct == Join(dir, <<module.name \o ".rs">>)
        nested == Join(dir, <<module.name, "mod.rs">>)
    IN  IF override # <<>>
            THEN LET path == Join(dir, override[1])
                 IN  IF IsFile(path) THEN [path |-> path, dir |-> Parent(path)] ELSE Unresolved
        ELSE IF IsFile(direct) /\ IsFile(nested) THEN Unresolved
        ELSE IF IsFile(direct) THEN [path |-> direct, dir |-> Append(dir, module.name)]
        ELSE IF IsFile(nested) THEN [path |-> nested, dir |-> Append(dir, module.name)]
        ELSE Unresolved

\* nested_module_context
Nested(in, module) ==
    [prefix |-> Append(in.prefix, module.name),
     gated |-> in.gated \/ TargetGated(module.attrs),
     evidence |-> Evidence(in.evidence, module.attrs),
     framework |-> in.framework \/ FrameworkManaged(module.attrs),
     reflection |-> in.reflection \/ ReflectionReachable(module.attrs)]

TopLevel == [prefix |-> <<>>, gated |-> FALSE, evidence |-> <<>>, framework |-> FALSE, reflection |-> FALSE]

\* base_scoped_file and enriched_scoped_file
Record(path, in, visibility) ==
    [path |-> path, prefix |-> in.prefix, package |-> todo[1].package.name, context |-> todo[1].context,
     gated |-> in.gated, evidence |-> in.evidence, visibility |-> visibility,
     framework |-> in.framework, reflection |-> in.reflection]

\* What the attributes of a file add to what is inherited.
InFile(in, attrs) ==
    [in EXCEPT !.gated = @ \/ TargetGated(attrs), !.evidence = Evidence(@, attrs),
               !.framework = @ \/ FrameworkManaged(attrs), !.reflection = @ \/ ReflectionReachable(attrs)]

----------------------------------------------------------------------------
(* The walk *)

Refuse ==
    /\ phase' = "refused"
    /\ UNCHANGED <<project, tests, filters, todo, frames, visited, collected, merged, scopes, repository>>

\* Wrong: a file is visited once, whatever module it is.
VisitedByPath(path, prefix) == <<path>>

\* The key of prepare_visit_path.
VisitKey(path, prefix) == <<path, prefix>>

\* visit_file, prepare_visit_path, visit_source and visit_syntax.  The frames
\* are those below the call.
Visit(path, dir, in, visibility, below) ==
    LET canonical == Canonical(path)
        file == project.files[canonical]
        key == VisitKey(canonical, in.prefix)
        inside == InFile(in, file.attrs)
        parsed == file.state = "text" /\ AttrsActive(todo[1].context, file.attrs)
        unread == file.state \in {"large", "broken"}
    IN  IF ~WithinRoot(path) THEN Refuse
        ELSE IF IsGeneratedPath(canonical) \/ key \in visited
            THEN /\ frames' = below
                 /\ UNCHANGED <<project, tests, filters, todo, visited, collected, merged, scopes, repository, phase>>
        ELSE IF file.state = "invalid" \/ (file.state = "broken" /\ ~project.lenient) THEN Refuse
        ELSE /\ visited' = visited \cup {key}
             /\ collected' =
                    IF unread THEN Append(collected, Record(canonical, in, visibility))
                    ELSE IF parsed
                        THEN Append(collected,
                                    [Record(canonical, inside, visibility) EXCEPT
                                        !.reflection = @ \/ Registers(file.items)])
                    ELSE collected
             /\ frames' =
                    IF parsed
                        THEN Append(below, [items |-> file.items, dir |-> dir, source |-> Parent(canonical), in |-> inside])
                        ELSE below
             /\ UNCHANGED <<project, tests, filters, todo, merged, scopes, repository, phase>>

Top == frames[Len(frames)]
Next1 == Head(Top.items)
Below == [frames EXCEPT ![Len(frames)].items = Tail(@)]
Walking == phase = "walk" /\ frames # <<>> /\ Top.items # <<>>
Selected == AttrsActive(todo[1].context, Next1.attrs)
Advance(to) ==
    /\ frames' = to
    /\ UNCHANGED <<project, tests, filters, todo, visited, collected, merged, scopes, repository, phase>>

\* walk_items: an inactive item, or one that leads nowhere.
SkipItem ==
    /\ Walking
    /\ \/ ~Selected
       \/ Next1.kind \notin {"mod", "include"}
       \/ Next1.kind = "include" /\ ~IsFile(Join(Top.source, Next1.path))    \* or no literal
    /\ Advance(Below)

\* walk_module with a body in place: the files of its modules lie one level down.
EnterModule ==
    /\ Walking /\ Selected /\ Next1.kind = "mod" /\ Next1.inline
    /\ Advance(Append(Below, [items |-> Next1.items, dir |-> Append(Top.dir, Next1.name),
                              source |-> Top.source, in |-> Nested(Top.in, Next1)]))

\* walk_module with a file
FollowModule ==
    /\ Walking /\ Selected /\ Next1.kind = "mod" /\ ~Next1.inline
    /\ LET found == Resolved(Next1, Top.dir, todo[1].context)
       IN  IF found = Unresolved THEN Refuse
           ELSE Visit(found.path, found.dir, Nested(Top.in, Next1), Next1.visibility, Below)

\* walk_include
FollowInclude ==
    /\ Walking /\ Selected /\ Next1.kind = "include"
    /\ LET path == Join(Top.source, Next1.path)
       IN  IsFile(path) /\ Visit(path, Parent(path), Top.in, "crate", Below)

\* The end of walk_items.
Return == phase = "walk" /\ Len(frames) > 1 /\ Top.items = <<>> /\ Advance(Front(frames))

----------------------------------------------------------------------------
(* Discovery *)

VisibilityRank(v) == CASE v = "private" -> 1 [] v = "crate" -> 2 [] v = "public" -> 3 [] OTHER -> 0
Wider(x, y) == IF VisibilityRank(x) >= VisibilityRank(y) THEN x ELSE y

\* Wrong: gated on one way is gated.
MergedGatedAnyhow(scope, f) == scope.gated \/ f.gated

\* all_target_gated
MergedGated(scope, f) == scope.gated /\ f.gated

\* merge_context
MergeContext(scopesSoFar, f) ==
    LET key == <<f.path, f.prefix, f.package>>
        first == [contexts |-> {f.context}, gated |-> f.gated, evidence |-> {f.evidence} \ {<<>>},
                  visibility |-> f.visibility, framework |-> f.framework, reflection |-> f.reflection]
        again(s) ==
            [contexts |-> s.contexts \cup {f.context}, gated |-> MergedGated(s, f),
             evidence |-> s.evidence \cup ({f.evidence} \ {<<>>}), visibility |-> Wider(s.visibility, f.visibility),
             framework |-> s.framework \/ f.framework, reflection |-> s.reflection \/ f.reflection]
    IN  IF key \in DOMAIN scopesSoFar THEN [scopesSoFar EXCEPT ![key] = again(@)]
        ELSE [k \in DOMAIN scopesSoFar \cup {key} |-> IF k = key THEN first ELSE scopesSoFar[k]]

\* target_in_scope
TargetInScope(target) ==
    /\ target.kind \notin {"custom-build", "example", "bench"}
    /\ tests \/ target.kind # "test"

\* rustc_cfg and target_contexts: production, then with tests.
TargetContexts(package) ==
    LET facts == project.rustc \cup package.features
    IN  <<[facts |-> facts, tests |-> FALSE]>> \o (IF tests THEN <<[facts |-> facts, tests |-> TRUE]>> ELSE <<>>)

\* The walks of collect_workspace_scopes, in order.
Walks ==
    LET members == SelectSeq(project.packages, LAMBDA p : p.member)
        ofTarget(p, t) == [i \in DOMAIN TargetContexts(p) |-> [package |-> p, target |-> t, context |-> TargetContexts(p)[i]]]
        ofPackage(p) == FlattenSeq([i \in DOMAIN SelectSeq(p.targets, TargetInScope) |->
                                       ofTarget(p, SelectSeq(p.targets, TargetInScope)[i])])
    IN  FlattenSeq([i \in DOMAIN members |-> ofPackage(members[i])])

\* dependency_source_identifier: the edge of Cargo's resolution to a package of
\* that name, under the configured name if there is one; else that name, the
\* library's, or the package's.
SourceIdentifier(package, d) ==
    LET named(e) == \E i \in DOMAIN project.packages : project.packages[i].id = e.to /\ project.packages[i].name = d.name
        edges == SelectSeq(package.edges, LAMBDA e : named(e) /\ (d.rename = "none" \/ e.name = CrateIdentifier(d.rename)))
        known == SelectSeq(project.packages, LAMBDA p : p.name = d.name)
    IN  IF edges # <<>> THEN edges[1].name
        ELSE IF d.rename # "none" THEN CrateIdentifier(d.rename)
        ELSE IF known # <<>> /\ known[1].library # "none" THEN CrateIdentifier(known[1].library)
        ELSE CrateIdentifier(d.name)

\* metadata_semantics
Dependencies ==
    LET members == {i \in DOMAIN project.packages : project.packages[i].member}
        internal == {project.packages[i].name : i \in members}
    IN  UNION {{[package |-> project.packages[i].name, dependency |-> d.name,
                 identifier |-> SourceIdentifier(project.packages[i], d),
                 scope |-> CASE d.kind = "dev" -> "development" [] d.kind = "build" -> "build" [] OTHER -> "production",
                 internal |-> d.name \in internal, optional |-> d.optional, gated |-> d.target] :
                   d \in project.packages[i].dependencies} : i \in members}

\* fallback_files: every source below the root that no convention leaves out;
\* the names of tests end in _test.rs.
FallbackFiles ==
    {f \in DOMAIN project.files :
        LET name == f[Len(f)]
            among(names) == \E i \in DOMAIN f : f[i] \in names
        IN  /\ f \notin DOMAIN project.links
            /\ Head(f) # ".."
            /\ ~among({".git", "target", "vendor", "node_modules", ".venv", "venv", "build", "dist"})
            /\ ~IsGeneratedPath(f)
            /\ ~among({"examples", "benches", "fuzz"})
            /\ name # "build.rs"
            /\ tests \/ (name \notin project.testNames /\ ~among({"tests"}))}

NoRepository == [modules |-> {}, dependencies |-> {}, reliable |-> FALSE]

\* discover_with_semantics without a manifest
Fallback ==
    /\ phase = "start" /\ ~project.manifest
    /\ scopes' = {[path |-> f, prefix |-> <<>>, package |-> "", contexts |-> {[facts |-> {}, tests |-> tests]},
                   gated |-> FALSE, evidence |-> {}, visibility |-> "unknown", framework |-> FALSE,
                   reflection |-> FALSE] : f \in FallbackFiles}
    /\ phase' = "done"
    /\ UNCHANGED <<project, tests, filters, todo, frames, visited, collected, merged, repository>>

\* cargo_metadata and rustc answer, or not; every manifest is in the root.
Begin ==
    /\ phase = "start" /\ project.manifest
    /\ IF project.answers /\ \A i \in DOMAIN project.packages : project.packages[i].member => project.packages[i].inside
           THEN /\ todo' = Walks
                /\ phase' = "walk"
                /\ repository' = [NoRepository EXCEPT !.dependencies = Dependencies]
                /\ UNCHANGED <<project, tests, filters, frames, visited, collected, merged, scopes>>
           ELSE Refuse

\* collect_target and collect_context_scopes: the walk starts at the source of
\* the target, below an empty frame.
StartWalk ==
    /\ phase = "walk" /\ todo # <<>> /\ frames = <<>>
    /\ LET path == todo[1].target.path
       IN  Visit(path, Parent(path), TopLevel, "public",
                 <<[items |-> <<>>, dir |-> Parent(path), source |-> Parent(path), in |-> TopLevel]>>)

\* A walk ends; its files are merged.
EndWalk ==
    /\ phase = "walk" /\ Len(frames) = 1 /\ Top.items = <<>>
    /\ frames' = <<>>
    /\ merged' = FoldLeft(MergeContext, merged, collected)
    /\ todo' = Tail(todo)
    /\ visited' = {}
    /\ collected' = <<>>
    /\ UNCHANGED <<project, tests, filters, scopes, repository, phase>>

\* scopes_from_merged, retain_scope_filters and append_module_records
Finish ==
    /\ phase = "walk" /\ todo = <<>>
    /\ LET all == {[path |-> k[1], prefix |-> k[2], package |-> k[3], contexts |-> merged[k].contexts,
                    gated |-> merged[k].gated, evidence |-> merged[k].evidence, visibility |-> merged[k].visibility,
                    framework |-> merged[k].framework, reflection |-> merged[k].reflection] :
                      k \in {x \in DOMAIN merged : ~IsGeneratedPath(x[1])}}
           kept == {s \in all : filters = {} \/ s.path \in UNION filters}
       IN  /\ scopes' = kept
           /\ repository' =
                  [repository EXCEPT
                      !.modules = {[symbol |-> <<s.package>> \o s.prefix, file |-> s.path, visibility |-> s.visibility,
                                    gated |-> s.gated, framework |-> s.framework, reflection |-> s.reflection,
                                    invoked |-> s.prefix = <<>>] : s \in kept},
                      !.reliable = Cardinality(kept) = Cardinality(all)]
    /\ phase' = "done"
    /\ UNCHANGED <<project, tests, filters, todo, frames, visited, collected, merged>>

Init ==
    /\ project \in Projects
    /\ tests \in BOOLEAN
    /\ filters \in project.filters
    /\ todo = <<>> /\ frames = <<>> /\ visited = {} /\ collected = <<>>
    /\ merged = [k \in {} |-> {}]
    /\ scopes = {}
    /\ repository = NoRepository
    /\ phase = "start"

Next ==
    \/ Fallback
    \/ Begin
    \/ StartWalk
    \/ SkipItem
    \/ EnterModule
    \/ FollowModule
    \/ FollowInclude
    \/ Return
    \/ EndWalk
    \/ Finish

Spec == Init /\ [][Next]_vars

----------------------------------------------------------------------------
(* Properties *)

\* The files that the active items of a file lead to, at any depth of modules
\* with bodies.
RECURSIVE Declared(_, _, _, _, _, _)
Declared(context, items, dir, source, prefix, gated) ==
    UNION {LET item == items[i]
               below == Append(prefix, item.name)
               behind == gated \/ TargetGated(item.attrs)
               found == Resolved(item, dir, context)
               path == Join(source, item.path)
           IN  CASE item.kind = "mod" /\ item.inline ->
                        Declared(context, item.items, Append(dir, item.name), source, below, behind)
                 [] item.kind = "mod" /\ ~item.inline ->
                        {[path |-> Canonical(found.path), dir |-> found.dir, prefix |-> below, gated |-> behind]}
                 [] item.kind = "include" /\ IsFile(path) ->
                        {[path |-> Canonical(path), dir |-> Parent(path), prefix |-> prefix, gated |-> gated]}
                 [] OTHER -> {} :
             i \in {j \in DOMAIN items : AttrsActive(context, items[j].attrs)}}

\* Whether a way to a file makes it part of the build, and is followed.
Opened(context, x) ==
    /\ ~IsGeneratedPath(x.path)
    /\ project.files[x.path].state = "text" /\ AttrsActive(context, project.files[x.path].attrs)
Built(context, x) ==
    Opened(context, x) \/ (~IsGeneratedPath(x.path) /\ project.files[x.path].state \in {"large", "broken"})

\* All ways to files in a walk, whatever the order.
RECURSIVE Ways(_, _)
Ways(context, known) ==
    LET next == known \cup UNION {LET file == project.files[x.path]
                                  IN  Declared(context, file.items, x.dir, Parent(x.path), x.prefix,
                                               x.gated \/ TargetGated(file.attrs)) :
                                    x \in {y \in known : Opened(context, y)}}
    IN  IF next = known THEN known ELSE Ways(context, next)

Uses ==
    UNION {LET walk == Walks[i]
               first == [path |-> Canonical(walk.target.path), dir |-> Parent(walk.target.path), prefix |-> <<>>, gated |-> FALSE]
           IN  {[walk |-> i, context |-> walk.context, path |-> x.path, prefix |-> x.prefix, package |-> walk.package.name,
                 gated |-> x.gated \/ (Opened(walk.context, x) /\ TargetGated(project.files[x.path].attrs))] :
                   x \in {y \in Ways(walk.context, {first}) : Built(walk.context, y)}} :
             i \in DOMAIN Walks}

\* Every file that a build of the workspace uses, directly, through modules or
\* through includes, is analysed once as every module it is, under exactly the
\* configurations that use it there; it counts as target-gated only if every
\* build that uses it does so behind a gate; and the module graph is reliable
\* only if no use is filtered away (adapter-rust, scope.rs).
ScopesAreUses ==
    phase = "done" /\ project.manifest =>
        \A uses \in {Uses} :
            /\ \A u \in uses : (filters = {} \/ u.path \in UNION filters) =>
                   \E s \in scopes : s.path = u.path /\ s.prefix = u.prefix /\ s.package = u.package
            /\ \A s \in scopes :
                   \A mine \in {{u \in uses : s.path = u.path /\ s.prefix = u.prefix /\ s.package = u.package}} :
                       /\ \A t \in scopes : <<t.path, t.prefix, t.package>> = <<s.path, s.prefix, s.package>> => t = s
                       /\ s.contexts = {u.context : u \in mine}
                       /\ s.gated => \A u \in mine : \E v \in mine : v.walk = u.walk /\ v.gated
                       /\ ~s.gated => \E u \in mine : ~u.gated
            /\ repository.reliable => \A u \in uses : \E s \in scopes : s.path = u.path

\* A dependency on a package that its dependent declares once is recorded under
\* the name that the dependent's sources use: its alias, or the library's name
\* (dependency_source_identifier).
DependenciesAreNamed ==
    \A r \in repository.dependencies, i \in DOMAIN project.packages :
        LET p == project.packages[i]
            mine == {d \in p.dependencies : d.name = r.dependency}
        IN  r.package = p.name /\ Cardinality(mine) = 1 =>
                \A d \in mine, j \in DOMAIN project.packages :
                    project.packages[j].name = d.name =>
                        r.identifier = CrateIdentifier(IF d.rename # "none" THEN d.rename ELSE project.packages[j].library)

=============================================================================
