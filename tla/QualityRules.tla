---------------------------- MODULE QualityRules ----------------------------
(***************************************************************************)
(* analyze_rules: the rule rows and the omissions that one check derives   *)
(* from the facts of its adapters (analysis-quality, rules.rs).  A row is  *)
(* known by its rule and by what it is about, which the stable violation   *)
(* id hashes; its excess says by how much it fails.                        *)
(*                                                                         *)
(* The facts are of one family at a time: the functions, the mutants, the  *)
(* package graph, or the whole-project inventories.  What the adapters     *)
(* could not establish is part of the facts, in the field lacks, so that   *)
(* a check sees less than there is.                                        *)
(***************************************************************************)
EXTENDS Naturals, FiniteSets, Functions, Graphs

CONSTANTS
    FailOver,         \* crap.fail_over and the maxima of kiss
    MinimumScore,     \* mutation.minimum_score, in parts of Unit
    Unit,             \* the whole: a multiple of every number of mutants
    MaxDependencies,  \* the maximum of dependencies and fan-out of a package
    ForbiddenEdges,   \* architecture.forbidden_edges and the like
    Layer,            \* architecture.layers: a partial function on packages
    MaxItems,         \* the maxima of yagni
    Packages

Row(rule, id, excess) ==
    [rule |-> rule, id |-> id, fails |-> excess > 0, excess |-> excess]

\* evaluate_rule, by the comparison.
Above(m, a) == IF m > a THEN m - a ELSE 0
Maximum(rule, id, m, a) == Row(rule, id, Above(m, a))
Minimum(rule, id, m, a) == Row(rule, id, Above(a, m))
Boolean(rule, id, passed) == Row(rule, id, IF passed THEN 0 ELSE 1)

\* A maximum that is itself a violation fails by the least excess there is.
MaximumExclusive(rule, id, m, a) ==
    Row(rule, id, CASE m < a -> 0 [] m = a -> 1 [] m > a -> m - a)

Empty(rule) == Boolean(rule, {}, TRUE)

-----------------------------------------------------------------------------
(* Functions: each has a metric, which stands for its complexity and the   *)
(* other structural measures and grows its CRAP score; alike says whether  *)
(* the functions are clones of one another, and so related.                *)

Present(functions) == {f \in DOMAIN functions : functions[f].lacks # "parse"}
Reliable(functions) == {f \in Present(functions) : functions[f].lacks # "reliability"}
Scored(functions) == {f \in Present(functions) : functions[f].lacks # "coverage"}

\* An inventory that is empty or partial is an omission of its rules.
OmittedUnless(counted, all, rules) == IF counted = {} \/ counted # all THEN rules ELSE {}

CrapRows(functions) ==
    {Maximum("crap.maximum", {f}, functions[f].metric, FailOver) : f \in Scored(functions)}

\* The four rules over structural metrics are evaluated and omitted alike.
KissRows(functions) ==
    {Maximum("kiss.function", {f}, functions[f].metric, FailOver) : f \in Reliable(functions)}

\* One module owns the functions: its row is about the module alone.
CohesionRows(functions, alike) ==
    IF Reliable(functions) = {} THEN {}
    ELSE {Minimum("cohesion.module", {},
                  IF alike \/ Cardinality(Reliable(functions)) < 2 THEN 1 ELSE 0, 1)}

\* analyze_rule_dry over the reliable functions: the group is known by its members.
CloneRows(functions, alike) ==
    IF alike /\ Cardinality(Reliable(functions)) > 1
    THEN {MaximumExclusive("dry.clone", Reliable(functions), 1, 1)}
    ELSE {Empty("dry.clone")}

FunctionRows(functions, alike) ==
    CrapRows(functions) \cup KissRows(functions)
        \cup CohesionRows(functions, alike) \cup CloneRows(functions, alike)

FunctionOmissions(functions) ==
    OmittedUnless(Scored(functions), Present(functions), {"crap.maximum"})
        \cup OmittedUnless(Reliable(functions), Present(functions), {"kiss.function", "cohesion.module"})

-----------------------------------------------------------------------------
(* Mutants: in the order of their seeded keys.  One that survives is one   *)
(* that the test command would not kill.                                   *)

Inventory(mutants) == {m \in DOMAIN mutants : mutants[m].lacks # "parse"}

\* Candidates beyond the cap are ignored; a listing leaves all pending.
Status(mutants, m, executes, cap) ==
    CASE ~executes -> "pending"
      [] executes /\ Cardinality({n \in Inventory(mutants) : n < m}) >= cap -> "ignored"
      [] OTHER -> IF mutants[m].lacks = "verdict" THEN "timeout"
                  ELSE IF mutants[m].survives THEN "survived" ELSE "killed"

WithStatus(mutants, executes, cap, statuses) ==
    {m \in Inventory(mutants) : Status(mutants, m, executes, cap) \in statuses}

Scoreable(mutants, executes, cap) == WithStatus(mutants, executes, cap, {"killed", "survived"})
Survivors(mutants, executes, cap) == WithStatus(mutants, executes, cap, {"survived"})
Unresolved(mutants, executes, cap) == WithStatus(mutants, executes, cap, {"pending", "timeout"})

\* The evidence of the score names the mutants that were scored.
MutationScore(scoreable, survivors) ==
    Minimum("mutation.score", scoreable,
            (Unit * Cardinality(scoreable \ survivors)) \div Cardinality(scoreable), MinimumScore)

MutationRows(mutants, executes, cap) ==
    LET scoreable == Scoreable(mutants, executes, cap)
        survivors == Survivors(mutants, executes, cap)
    IN  {Boolean("mutation.surviving-mutant", {m}, FALSE) : m \in survivors}
            \cup (IF scoreable = {} THEN {} ELSE {MutationScore(scoreable, survivors)})
            \cup (IF scoreable # {} /\ survivors = {} THEN {Empty("mutation.surviving-mutant")} ELSE {})

MutationOmissions(mutants, executes, cap) ==
    IF Scoreable(mutants, executes, cap) = {} \/ Unresolved(mutants, executes, cap) # {}
    THEN {"mutation.score", "mutation.surviving-mutant"} ELSE {}

-----------------------------------------------------------------------------
(* Packages: edges are the direct internal production dependencies.        *)

Graph(edges) == [node |-> Packages, edge |-> edges]

Cycles(edges) ==
    {Ancestors(Graph(edges), p) \cap Descendants(Graph(edges), p) : p \in Packages} \ {{}}

DependencyCount(p, edges) == Cardinality(Successors(Graph(edges), p))

\* The counts of a package: its dependencies, and its fan-out.
CountRows(edges) ==
    {Maximum(rule, {p}, DependencyCount(p, edges), MaxDependencies) :
        rule \in {"kiss.module-dependency-count", "solid.maximum-module-fan-out"}, p \in Packages}

\* The three rules that separate packages stand or fall alike.
SeparationRows(edges) ==
    IF edges = {} THEN {Empty("solid.forbidden-module-edge")}
    ELSE {Boolean("solid.forbidden-module-edge", {e}, e \notin ForbiddenEdges) : e \in edges}

Layered(edges) == {e \in edges : {e[1], e[2]} \subseteq DOMAIN Layer}

DirectionRows(edges) ==
    {Boolean("solid.dependency-direction", {e}, Layer[e[1]] >= Layer[e[2]]) : e \in Layered(edges)}
        \cup (IF DOMAIN Layer # {} /\ Layered(edges) = {} THEN {Empty("solid.dependency-direction")} ELSE {})

CycleRows(edges) ==
    IF Cycles(edges) = {} THEN {Empty("solid.package-cycle")}
    ELSE {Boolean("solid.package-cycle", c, FALSE) : c \in Cycles(edges)}

GraphRows(edges) ==
    CountRows(edges) \cup SeparationRows(edges) \cup DirectionRows(edges) \cup CycleRows(edges)

GraphRules ==
    {"kiss.module-dependency-count", "solid.maximum-module-fan-out", "solid.forbidden-module-edge",
     "solid.dependency-direction", "solid.package-cycle"}

-----------------------------------------------------------------------------
(* Inventories: what no production code refers to, one row per finding     *)
(* that measures them all; and the implementations of contract traits,     *)
(* each of which a marked test must name.                                  *)

YagniRows(unused) ==
    IF unused = {} THEN {Maximum("yagni.unused", {}, 0, MaxItems)}
    ELSE {Maximum("yagni.unused", {i}, Cardinality(unused), MaxItems) : i \in unused}

ContractRows(implementations, tested) ==
    IF implementations = {} THEN {Empty("solid.subtype-contract-test")}
    ELSE {Boolean("solid.subtype-contract-test", {i}, i \in tested) : i \in implementations}
=============================================================================
