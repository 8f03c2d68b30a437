----------------------------- MODULE CloneGroups -----------------------------
(***************************************************************************)
(* find_function_duplicates (analysis-dry): functions are indexed by their *)
(* shingles, pairs that meet in a bucket are compared by the Dice          *)
(* coefficient of their shingle multisets, accepted pairs are joined in a  *)
(* disjoint set, and the classes become clone groups.                      *)
(*                                                                         *)
(* A function is the file it is in and its sorted shingles, whose number   *)
(* stands for its length in tokens; functions are numbered in the order of *)
(* file and symbol.  Equal fingerprints of different shingles are told     *)
(* apart by the code, so a shingle is its own fingerprint here; the        *)
(* compression of paths changes no root.                                   *)
(***************************************************************************)
EXTENDS Naturals, Sequences, FiniteSets, FiniteSetsExt, Functions

CONSTANTS
    Count,           \* how many functions there are
    Shapes,          \* the sequences of shingles a function may have
    Files,           \* the files, numbered
    Threshold,       \* dry.similarity_threshold, in parts of Whole
    Whole,           \* a multiple of every sum of two lengths
    OccurrenceLimits \* values of dry.max_occurrences_per_window

VARIABLES
    functions,   \* [file, shingles, eligible]
    occurrences, \* max_occurrences_per_window
    candidates,  \* the pairs still to compare
    parents,     \* DisjointSet
    accepted,    \* the accepted pairs, with their similarity
    result,      \* "none", "groups" or "error"
    groups       \* the groups of the result

vars == <<functions, occurrences, candidates, parents, accepted, result, groups>>

Function == 1..Count
Length(f) == Len(functions[f].shingles)

\* eligible_functions: reliable, and neither too short nor seen twice
Eligible == {f \in Function : functions[f].eligible}

\* The first functions with a shingle, up to the limit.
Bucket(s) ==
    LET all == {f \in Eligible : s \in Range(functions[f].shingles)}
    IN  {f \in all : Cardinality({g \in all : g < f}) < occurrences}

\* can_reach_dice, and remaining_can_reach_threshold
CanReach(shared, total) == Whole * 2 * shared >= Threshold * total

\* function_candidate_pairs
Candidates ==
    {p \in Eligible \X Eligible :
        /\ p[1] < p[2]
        /\ \E s \in Range(functions[p[1]].shingles) : {p[1], p[2]} \subseteq Bucket(s)
        /\ CanReach(Min({Length(p[1]), Length(p[2])}), Length(p[1]) + Length(p[2]))}

Coefficient(shared, total) == IF total = 0 THEN 0 ELSE (Whole * 2 * shared) \div total

\* A round of the loop of dice_similarity: it is given up as soon as the
\* threshold is out of reach, or advance_dice_indices.
Advance(left, right, m) ==
    IF m.lost \/ m.left = Len(left) \/ m.right = Len(right) THEN m
    ELSE IF ~CanReach(m.shared + Min({Len(left) - m.left, Len(right) - m.right}), Len(left) + Len(right))
        THEN [m EXCEPT !.lost = TRUE]
    ELSE IF left[m.left + 1] < right[m.right + 1] THEN [m EXCEPT !.left = @ + 1]
    ELSE IF left[m.left + 1] > right[m.right + 1] THEN [m EXCEPT !.right = @ + 1]
    ELSE [m EXCEPT !.left = @ + 1, !.right = @ + 1, !.shared = @ + 1]

\* What the loop has come to when it ends.
Merged(left, right) ==
    LET after[n \in 0..(Len(left) + Len(right))] ==
            IF n = 0 THEN [left |-> 0, right |-> 0, shared |-> 0, lost |-> FALSE]
            ELSE Advance(left, right, after[n - 1])
    IN  after[Len(left) + Len(right)]

Similarity(l, r) ==
    LET m == Merged(functions[l].shingles, functions[r].shingles)
    IN  IF m.lost THEN 0 ELSE Coefficient(m.shared, Length(l) + Length(r))

\* DisjointSet::root and union: the lower root is the root of both.
Root(f) == LET up[g \in Function] == IF parents[g] = g THEN g ELSE up[parents[g]] IN up[f]

\* Wrong: the functions are joined themselves, not the roots of their classes.
UnionOfFunctions(l, r) == [parents EXCEPT ![r] = l]

Union(l, r) == [parents EXCEPT ![Max({Root(l), Root(r)})] = Min({Root(l), Root(r)})]

\* accept_function_pairs, one pair
Compare ==
    /\ result = "none"
    /\ \E p \in candidates :
           /\ \A q \in candidates : p[1] < q[1] \/ (p[1] = q[1] /\ p[2] <= q[2])
           /\ candidates' = candidates \ {p}
           /\ LET similarity == Similarity(p[1], p[2])
              IN  IF similarity >= Threshold
                  THEN /\ parents' = Union(p[1], p[2])
                       /\ accepted' = accepted \cup {[pair |-> p, similarity |-> similarity]}
                  ELSE UNCHANGED <<parents, accepted>>
    /\ UNCHANGED <<functions, occurrences, result, groups>>

\* component_members, component_similarities and function_group
Members(root) == {f \in Eligible : Root(f) = root}
Group(root) ==
    [members |-> Members(root),
     length |-> Min({Length(f) : f \in Members(root)}),
     similarity |-> Min({a.similarity : a \in {b \in accepted : Root(b.pair[1]) = root}})]
AllGroups == {Group(root) : root \in {f \in Function : Cardinality(Members(f)) > 1}}

\* exact_group_contained_by: the location of a function is its file and the
\* range from 0 to its length.
Contained(g, h) ==
    /\ g.length < h.length
    /\ \A f \in g.members : \E e \in h.members :
           functions[f].file = functions[e].file /\ Length(f) <= Length(e)

\* select_maximal_exact_groups: being contained is transitive, so the order does not matter.
Maximal(all) == {g \in all : ~\E h \in all : Contained(g, h)}

FunctionGroups ==
    /\ result = "none" /\ candidates = {}
    /\ result' = "groups"
    /\ groups' = Maximal(AllGroups)
    /\ UNCHANGED <<functions, occurrences, candidates, parents, accepted>>

\* CandidateWork::consume: the budget may be used up at any comparison.
ExceedBudget ==
    /\ result = "none" /\ candidates # {}
    /\ result' = "error"
    /\ UNCHANGED <<functions, occurrences, candidates, parents, accepted, groups>>

Init ==
    /\ functions \in [Function -> [file : Files, shingles : Shapes, eligible : BOOLEAN]]
    /\ \A f, g \in Function : f < g => functions[f].file <= functions[g].file
    /\ Cardinality({f \in Function : ~functions[f].eligible}) <= 1
    /\ occurrences \in OccurrenceLimits
    /\ candidates = Candidates
    /\ parents = [f \in Function |-> f]
    /\ accepted = {} /\ result = "none" /\ groups = {}

Next == Compare \/ FunctionGroups \/ ExceedBudget

Spec == Init /\ [][Next]_vars

-----------------------------------------------------------------------------
\* The coefficient as docs/CONFIGURATION.md defines it, from the multisets: what
\* two functions share are the occurrences that both have of a shingle, by number.
Occurrences(f, s) == Cardinality({i \in 1..Length(f) : functions[f].shingles[i] = s})
Shared(f, g) ==
    {x \in Range(functions[f].shingles) \X (1..Length(f)) :
        x[2] <= Occurrences(f, x[1]) /\ x[2] <= Occurrences(g, x[1])}
Dice(f, g) == Coefficient(Cardinality(Shared(f, g)), Length(f) + Length(g))

\* The pairs that should be accepted, in either order.
Similar ==
    {[pair |-> p, similarity |-> Dice(p[1], p[2])] :
        p \in {q \in Eligible \X Eligible : q[1] # q[2] /\ Dice(q[1], q[2]) >= Threshold}}

\* The sets that leave out no function that is similar to one they have.
ClosedSets(similar) ==
    {S \in SUBSET Eligible : \A a \in similar : a.pair[1] \in S => a.pair[2] \in S}

\* The functions that a chain of similar ones leads to are in each of them.
Family(f, closed) == {g \in Eligible : \A S \in closed : f \in S => g \in S}

\* The families, each with its least similarity.
Families(similar) ==
    LET classes == {Family(a.pair[1], ClosedSets(similar)) : a \in similar}
    IN  {[members |-> c, similarity |-> Min({a.similarity : a \in {b \in similar : b.pair[1] \in c}})] : c \in classes}

\* The file of every member of a family also holds a member of another.
Shadowed(family, families) ==
    \E other \in families \ {family} :
        \A f \in family.members : \E g \in other.members : functions[f].file = functions[g].file

Reported(family) ==
    \E g \in groups : g.members = family.members /\ g.similarity = family.similarity

\* As long as no bucket is full, the groups are the families of functions that
\* are linked by accepted pairs, each with its least accepted similarity; only
\* one that shares its files with another may be missing.  When buckets are
\* full, families may come apart but are never mixed
\* (find_function_duplicates).
GroupsAreFamilies ==
    result = "groups" =>
        \A similar \in {Similar} : \A families \in {Families(similar)} :
            /\ \A g \in groups : \E family \in families : g.members \subseteq family.members
            /\ occurrences >= Count =>
                   \A family \in families : Reported(family) \/ Shadowed(family, families)

\* docs/CONFIGURATION.md: connected accepted pairs form one canonical clone group.
EveryFamilyIsReported ==
    result = "groups" /\ occurrences >= Count => \A family \in Families(Similar) : Reported(family)
=============================================================================
