--------------------------- MODULE QualityRatchet ---------------------------
(***************************************************************************)
(* reporigor check with a baseline: the ratchet.  A check evaluates the    *)
(* rules, marks as omitted what its evidence does not cover, compares the  *)
(* rows with those of a prior report of the same scope, and decides the    *)
(* gate.  Its report becomes the next baseline only when a person copies   *)
(* it.  Between two checks the project, and what its adapters can          *)
(* establish of it, change in any way.                                     *)
(***************************************************************************)
EXTENDS QualityRules

CONSTANTS
    TopMetric,    \* the functions, with the largest metric of each
    Filters,      \* the selections of functions that a check is asked for
    Mutants,      \* the number of mutants
    Caps,         \* values of mutation.max_mutants
    Edges,        \* the edges that package graphs are drawn from
    Items         \* names of items of the inventories

VARIABLES
    family,    \* the family of facts that this behaviour is about
    facts,     \* the project, and what is lacking of the evidence
    report,    \* the report of the last check, or NoReport
    baseline   \* the report that was adopted, or NoReport

vars == <<family, facts, report, baseline>>

Partial(S, T) == UNION {[D -> T] : D \in SUBSET S}

MaxMetric == CHOOSE n \in Range(TopMetric) : \A k \in Range(TopMetric) : k <= n

FunctionFacts ==
    [functions : {fs \in Partial(DOMAIN TopMetric,
                      [metric : 0..MaxMetric, lacks : {"nothing", "coverage", "reliability", "parse"}]) :
                    \A f \in DOMAIN fs : fs[f].metric <= TopMetric[f]},
     alike : BOOLEAN]

MutantFacts == Partial(1..Mutants, [survives : BOOLEAN, lacks : {"nothing", "verdict", "parse"}])

GraphFacts == [edges : SUBSET Edges, lacks : {"nothing", "graph"}]

InventoryFacts ==
    {x \in [unused : SUBSET Items, implementations : SUBSET Items, tested : SUBSET Items,
            lacks : SUBSET {"references", "traits"}] : x.tested \subseteq x.implementations}

FactsOf(fam) ==
    CASE fam = "functions" -> FunctionFacts
      [] fam = "mutants" -> MutantFacts
      [] fam = "graph" -> GraphFacts
      [] fam = "inventories" -> InventoryFacts

\* What the scope fingerprint hashes: filters, execution of mutants, configuration.
ScopesOf(fam) ==
    [filter : IF fam = "functions" THEN Filters ELSE {DOMAIN TopMetric},
     executes : IF fam = "mutants" THEN BOOLEAN ELSE {FALSE},
     cap : IF fam = "mutants" THEN Caps ELSE {0}]

Selected(functions, scope) == Restrict(functions, DOMAIN functions \cap scope.filter)

-----------------------------------------------------------------------------
Rows(x, scope) ==
    CASE family = "functions" -> FunctionRows(Selected(x.functions, scope), x.alike)
      [] family = "mutants" -> MutationRows(x, scope.executes, scope.cap)
      [] family = "graph" -> IF x.lacks = "graph" THEN {} ELSE GraphRows(x.edges)
      [] family = "inventories" ->
            (IF "references" \in x.lacks THEN {} ELSE YagniRows(x.unused))
                \cup (IF "traits" \in x.lacks THEN {} ELSE ContractRows(x.implementations, x.tested))

\* parse_errors of the snapshot
ParseErrors(x, scope) ==
    CASE family = "functions" ->
            Present(Selected(x.functions, scope)) # DOMAIN Selected(x.functions, scope)
      [] family = "mutants" -> Inventory(x) # DOMAIN x
      [] OTHER -> FALSE

ParseOmissions(x, scope) ==
    IF ParseErrors(x, scope)
    THEN {"crap.maximum", "dry.clone", "kiss.function", "cohesion.module", "mutation.score",
          "mutation.surviving-mutant"}
    ELSE {}

RuleOmissions(x, scope) ==
    CASE family = "functions" -> FunctionOmissions(Selected(x.functions, scope))
      [] family = "mutants" -> MutationOmissions(x, scope.executes, scope.cap)
      [] family = "graph" -> IF x.lacks = "graph" THEN GraphRules ELSE {}
      [] family = "inventories" ->
            (IF "references" \in x.lacks THEN {"yagni.unused"} ELSE {})
                \cup (IF "traits" \in x.lacks THEN {"solid.subtype-contract-test"} ELSE {})

Omissions(x, scope) == RuleOmissions(x, scope) \cup ParseOmissions(x, scope)

-----------------------------------------------------------------------------
Same(r, p) == r.rule = p.rule /\ r.id = p.id

NoReport == [made |-> FALSE, rows |-> {}, scope |-> {}, resolved |-> {}, gate |-> FALSE, exit |-> "none"]
OperationalError == [NoReport EXCEPT !.exit = "operational"]

Disposition(r, previous) ==
    LET before == {p \in previous : Same(r, p)}
    IN  CASE ~r.fails -> IF \E p \in before : p.fails THEN "improved" ELSE "notApplicable"
          [] r.fails /\ before = {} -> "new"
          [] OTHER -> IF \E p \in before : ~p.fails \/ r.excess > p.excess THEN "worsened"
                      ELSE IF \E p \in before : r.excess < p.excess THEN "improved" ELSE "existing"

\* Wrong: what a rule with omissions did not see is resolved.
ResolvedAnyway(rows, previous, omitted) ==
    {p \in previous : p.fails /\ (\E r \in rows : r.rule = p.rule) /\ ~\E r \in rows : Same(r, p)}

\* resolved_violation_count, as the set of rows it counts.
Resolved(rows, previous, omitted) ==
    {p \in previous : /\ p.fails
                      /\ \E r \in rows : r.rule = p.rule
                      /\ p.rule \notin omitted
                      /\ ~\E r \in rows : Same(r, p)}

ComparisonPasses(enabled, rows, previous) ==
    IF enabled THEN \A r \in rows : Disposition(r, previous) \notin {"new", "worsened"}
               ELSE \A r \in rows : ~r.fails

\* Wrong: an omission passes the gate.
GatePassesAnyway(passes, omitted) == passes

\* require_complete_quality_gate
GatePasses(passes, omitted) == passes /\ omitted = {}

MutationExit(x, scope) ==
    IF family = "mutants" /\ WithStatus(x, scope.executes, scope.cap, {"timeout"}) # {}
    THEN "operational" ELSE "ok"

CheckExit(mutationExit, gate) ==
    IF mutationExit = "operational" THEN "operational" ELSE IF gate THEN "ok" ELSE "quality"

BaselineFits(scope) == baseline.made /\ baseline.scope = scope

Report(x, scope, enabled) ==
    LET rows == Rows(x, scope)
        omitted == Omissions(x, scope)
        gate == GatePasses(ComparisonPasses(enabled, rows, baseline.rows), omitted)
    IN  [made |-> TRUE, rows |-> rows, scope |-> scope, gate |-> gate,
         resolved |-> IF enabled THEN Resolved(rows, baseline.rows, omitted) ELSE {},
         exit |-> CheckExit(MutationExit(x, scope), gate)]

\* run_check.  A baseline that is missing or of another scope is an error.
Check(scope, enabled) ==
    /\ report.exit = "none"
    /\ report' = IF enabled /\ ~BaselineFits(scope) THEN OperationalError
                 ELSE Report(facts, scope, enabled)
    /\ UNCHANGED <<family, facts, baseline>>

\* A person makes the report the baseline, and the project moves on.
Adopt(x) ==
    /\ report.made
    /\ baseline' = [NoReport EXCEPT !.made = TRUE, !.rows = report.rows, !.scope = report.scope]
    /\ report' = NoReport
    /\ facts' = x
    /\ UNCHANGED family

Init ==
    /\ family \in {"functions", "mutants", "graph", "inventories"}
    /\ facts \in FactsOf(family)
    /\ report = NoReport /\ baseline = NoReport

Next ==
    \/ \E scope \in ScopesOf(family), enabled \in BOOLEAN : Check(scope, enabled)
    \/ \E x \in FactsOf(family) : Adopt(x)

Spec == Init /\ [][Next]_vars

-----------------------------------------------------------------------------
\* What a check of the same project would report if nothing were lacking.
Complete(x) ==
    CASE family = "functions" ->
            [x EXCEPT !.functions = [f \in DOMAIN x.functions |->
                                        [x.functions[f] EXCEPT !.lacks = "nothing"]]]
      [] family = "mutants" -> [m \in DOMAIN x |-> [x[m] EXCEPT !.lacks = "nothing"]]
      [] family = "graph" -> [x EXCEPT !.lacks = "nothing"]
      [] family = "inventories" -> [x EXCEPT !.lacks = {}]

Everything(scope) == [scope EXCEPT !.filter = DOMAIN TopMetric]

TrueFailures(scope) == {r \in Rows(Complete(facts), scope) : r.fails}

\* A violation that a check counts as resolved is no longer in the project:
\* it has not only left the selection, the parsed files or the executed
\* mutants (resolved_violation_count, rules.rs's omissions).  Clones are
\* excluded: ResolvedClonesAreGone.
ResolvedIsGone ==
    \A p \in report.resolved :
        p.rule # "dry.clone" => ~\E r \in TrueFailures(Everything(report.scope)) : Same(r, p)

\* The same for clones: docs/CONFIGURATION.md says that an id that disappears
\* is resolved only when its rule was completely evaluated.
ResolvedClonesAreGone ==
    \A p \in report.resolved :
        p.rule = "dry.clone" => ~\E r \in TrueFailures(Everything(report.scope)) : Same(r, p)

\* A gate that passes holds the line: whatever fails in the project as it is,
\* seen by the check or not, failed at least as badly in the baseline; and
\* without a baseline nothing fails (enabled_baseline, finish_check).
GateHoldsTheLine ==
    report.gate =>
        \A r \in TrueFailures(report.scope) :
            \E p \in baseline.rows : Same(r, p) /\ p.fails /\ ~(r.excess > p.excess)
=============================================================================
