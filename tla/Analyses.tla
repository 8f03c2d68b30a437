------------------------------ MODULE Analyses ------------------------------
(***************************************************************************)
(* The analyses whose properties are proved, side by side: checkouts that  *)
(* are moved around a crash, the choice of backends, the ratchet over the  *)
(* quality rules, the cycles of the package graph, clone groups of         *)
(* functions, exact clones, the join of a coverage report with the         *)
(* functions of a file, and the identities of mutations.  They share no    *)
(* state.  MCAnalyses adds the others and says which one is present in a   *)
(* behaviour; the variables of those that are not present are Absent.      *)
(***************************************************************************)
EXTENDS Integers, Sequences, FiniteSets

CONSTANTS
    PathNames, Dirs, Texts, MaxJournals,        \* of MovedCheckout
    RoutedProjects, MaxBytes, MaxFiles,     \* of BackendRouting
    FailOver, MinimumScore, FullScore, MaxDependencies, ForbiddenEdges, Layer, MaxItems, Packages,
    TopMetric, Filters, Mutants, Caps, PackageEdges, ItemNames,     \* of QualityRatchet
    PackageCount, OtherPairs,               \* of DependencyGraph
    FunctionCount, Shapes, CloneFiles, Threshold, Whole, OccurrenceLimits,  \* of CloneGroups
    Tokens, CloneSources, MinTokens, WindowCaps, WindowFingerprint, TokensPerLine,     \* of ExactClones
    ColumnsPerLine, Layouts, CoverageReports, MaxLines,                     \* of CoverageJoin
    RustEdits, OtherEdits, EditedFunctions, EditNames, NormalPath(_), ModuleSymbol(_), OperatorName(_),
    EditSeeds, EditOperators, MaxFoundEdits,                                \* of MutationIdentities
    Absent                                  \* no value at all

VARIABLES
    part,                                           \* the analysis that is present
    at, source, journals, pointer, marked, analysed,
    project, phase, sources, units, charged, records, functions, notes, authoritative,
    family, facts, report, baseline,
    dependencies, frames, indices, lowlinks, stack, components,
    shingled, occurrences, candidates, parents, accepted, outcome, clusters,
    tokens, cap, buckets, pairs, extended, regions, groups, selected, turn,
    layout, precise, coverage, zero, unread, counted, ahead, opening, closing, active, unmarked,
    ambiguous, scores, stage,
    nativeEdits, foundEdits, namedEdits, allowedKinds, chosenEdits, naming

checkouts == <<at, source, journals, pointer, marked, analysed>>
routing == <<project, phase, sources, units, charged, records, functions, notes, authoritative>>
ratchet == <<family, facts, report, baseline>>
graph == <<dependencies, frames, indices, lowlinks, stack, components>>
kinships == <<shingled, occurrences, candidates, parents, accepted, outcome, clusters>>
clones == <<tokens, cap, buckets, pairs, extended, regions, groups, selected, turn>>
crap == <<layout, precise, coverage, zero, unread, counted, ahead, opening, closing, active,
          unmarked, ambiguous, scores, stage>>
identified == <<nativeEdits, foundEdits, namedEdits, allowedKinds, chosenEdits, naming>>

Checkouts == INSTANCE MovedCheckout WITH Paths <- PathNames, Nothing <- Absent
Routing == INSTANCE BackendRouting WITH Projects <- RoutedProjects, Unclear <- Absent
Ratchet == INSTANCE QualityRatchet WITH Unit <- FullScore, Edges <- PackageEdges, Items <- ItemNames
Graph == INSTANCE DependencyGraph WITH Nodes <- PackageCount, records <- dependencies
Families == INSTANCE CloneGroups WITH
    Count <- FunctionCount, Files <- CloneFiles,
    functions <- shingled, result <- outcome, groups <- clusters
Clones == INSTANCE ExactClones WITH
    Sources <- CloneSources, Caps <- WindowCaps, PerLine <- TokensPerLine,
    files <- tokens, phase <- turn
Crap == INSTANCE CoverageJoin WITH
    PerLine <- ColumnsPerLine, Reports <- CoverageReports, functions <- layout, report <- coverage,
    records <- unread, lines <- counted, phase <- stage
Identities == INSTANCE MutationIdentities WITH
    Rust <- RustEdits, Others <- OtherEdits, Functions <- EditedFunctions, Normal <- NormalPath,
    Module <- ModuleSymbol, OperatorOf <- OperatorName, Seeds <- EditSeeds, Operators <- EditOperators,
    MaxFound <- MaxFoundEdits, native <- nativeEdits, found <- foundEdits, mutations <- namedEdits,
    allowed <- allowedKinds, selected <- chosenEdits, phase <- naming

\* A path, a directory and the absence of either are told apart, and so are a
\* record and its absence (Option in the code).
ASSUME CheckoutsAssumption ==
    /\ PathNames \cap Dirs = {} /\ Absent \notin PathNames \cup Dirs
    /\ Absent \notin Checkouts!Records \cup [dir : Dirs, member : BOOLEAN]
    /\ Absent \notin [root : Checkouts!Roots, change : Checkouts!Records,
                      identity : {Absent} \cup [dir : Dirs, member : BOOLEAN]]

\* Cargo's crates consist of Rust files that no command compiles as C, a unit
\* includes files of the project, a function ends after it begins, and a
\* function that has the parameters which Clang spells for another of its scope
\* is that one, or is spelled so itself.
ASSUME RoutingAssumption == \A p \in RoutedProjects : Routing!Consistent(p)

\* The packages are the numbers up to their count.
ASSUME GraphAssumption == PackageCount \in Nat

\* The shingles of a function are sorted, and the threshold is in (0, 1].
ASSUME FamiliesAssumption ==
    /\ FunctionCount \in Nat /\ Whole \in Nat /\ Threshold \in 1..Whole /\ OccurrenceLimits \subseteq Nat
    /\ \A s \in Shapes : s \in Seq(Nat) /\ \A i, j \in DOMAIN s : i < j => s[i] <= s[j]

\* Files are sequences, a window has some tokens, and a line has some.
ASSUME ClonesAssumption ==
    /\ \A s \in CloneSources : s \in Seq(Seq(Tokens))
    /\ MinTokens \in Nat \ {0} /\ TokensPerLine \in Nat \ {0}

\* A line has some columns, functions are nested, and regions have some code.
ASSUME CrapAssumption ==
    /\ ColumnsPerLine \in Nat \ {0}
    /\ \A l \in Layouts : Crap!WellNested(l)
    /\ \A r \in CoverageReports : Crap!Consistent(r)

\* Names are ordered as numbers are, and what names are made to is a name.
ASSUME IdentitiesAssumption ==
    /\ EditNames \subseteq Nat
    /\ \A x \in EditNames : {NormalPath(x), ModuleSymbol(x), OperatorName(x)} \subseteq EditNames
    /\ \A f \in EditedFunctions :
          f \in [file : EditNames, start : Nat, end : Nat, symbol : EditNames, name : EditNames]
    /\ \A c \in RustEdits \cup OtherEdits :
          c \in [file : EditNames, symbol : EditNames, operator : EditNames, original : EditNames,
                replacement : EditNames, line : Nat, column : Nat, fingerprint : Seq(Nat)]

-----------------------------------------------------------------------------
\* Wherever a mutated checkout is moved, it stays known (analysis-mutate).
MutatedCheckoutStaysKnown == part = "checkouts" => Checkouts!MutatedCheckoutStaysKnown

\* No function is measured twice or by the wrong backend (reporigor, lib.rs).
MeasuredByOneBackend == part = "routing" => Routing!MeasuredByOneBackend

\* What counts as resolved is gone, and a gate that passes holds the line
\* (analysis-quality, baseline.rs; reporigor, lib.rs).
RatchetHolds == part = "ratchet" => Ratchet!ResolvedIsGone /\ Ratchet!GateHoldsTheLine

\* Cycles are the classes of mutual dependency (analysis-quality, graph.rs).
CyclesAreMutualDependencies == part = "cycles" => Graph!CyclesAreMutualDependencies

\* Groups are the families of similar functions (analysis-dry,
\* find_function_duplicates).
GroupsAreFamilies == part = "families" => Families!GroupsAreFamilies

\* Equal windows lie in a region that is kept, or that shares lines with what is
\* kept, and what is kept are occurrences of the same tokens (analysis-dry).
DuplicatesAreFound == part = "clones" => Clones!ClonesAreTouched

\* No function is scored by another's execution (analysis-crap).
CoverageIsOwn == part = "crap" => Crap!CoverageIsOwn

\* A mutation is found again under its fingerprint (reporigor-core, model.rs).
IdentitiesAreStable == part = "identities" => Identities!IdentitiesAreStable
=============================================================================
