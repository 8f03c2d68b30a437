----------------------------- MODULE ExactClones -----------------------------
(***************************************************************************)
(* analyze_with_functions, exact regions (analysis-dry): windows of tokens *)
(* are indexed by fingerprint, two that are equal are extended as far as   *)
(* they agree, unless their diagonal was extended over them before, and    *)
(* the regions become groups, of which those are kept that are not shifted *)
(* variants of longer ones.  Buckets are processed in the order of their   *)
(* fingerprints, which says nothing of their windows.                      *)
(***************************************************************************)
EXTENDS Naturals, Sequences, FiniteSets, FiniteSetsExt

CONSTANTS
    Sources,         \* the files, as sequences of tokens, that a run may be about
    MinTokens,       \* dry.min_tokens
    Caps,            \* values of dry.max_occurrences_per_window
    WindowFingerprint,  \* of each window; different windows may have the same
    PerLine          \* tokens on a line

VARIABLES
    files,     \* the files
    cap,       \* max_occurrences_per_window
    buckets,   \* the fingerprints to process
    pairs,     \* the pairs to process of the bucket in hand
    extended,  \* extended_regions: [diagonal, start] of every window covered
    regions,   \* candidates: [first, second, size]
    groups,    \* exact groups to consider: [size, locations]
    selected,  \* the groups that are kept
    phase      \* "match", "select" or "done"

vars == <<files, cap, buckets, pairs, extended, regions, groups, selected, phase>>

Place == UNION {{<<f, i>> : i \in 1..Len(files[f])} : f \in DOMAIN files}
Text(p, size) == SubSeq(files[p[1]], p[2], p[2] + size - 1)
Fits(p, size) == p[2] + size - 1 <= Len(files[p[1]])
Shift(p, n) == <<p[1], p[2] + n>>
Before(p, q) == p[1] < q[1] \/ (p[1] = q[1] /\ p[2] < q[2])
Least(S, less(_, _)) == CHOOSE p \in S : \A q \in S \ {p} : less(p, q)

\* build_window_index: the first occurrences of a fingerprint, up to the cap.
Window == {p \in Place : Fits(p, MinTokens)}
Occurrences(key) ==
    LET all == {p \in Window : WindowFingerprint[Text(p, MinTokens)] = key}
    IN  {p \in all : Cardinality({q \in all : Before(q, p)}) < cap}

PairsOf(key) == {p \in Occurrences(key) \X Occurrences(key) : Before(p[1], p[2])}
InTurn(p, q) == Before(p[1], q[1]) \/ (p[1] = q[1] /\ Before(p[2], q[2]))

\* Wrong: the direction of a diagonal is left out of its key.
UndirectedDiagonal(l, r) ==
    [left |-> l[1], right |-> r[1], forward |-> TRUE,
     distance |-> IF l[2] <= r[2] THEN r[2] - l[2] ELSE l[2] - r[2]]

\* diagonal_key
Diagonal(l, r) ==
    [left |-> l[1], right |-> r[1], forward |-> l[2] <= r[2],
     distance |-> IF l[2] <= r[2] THEN r[2] - l[2] ELSE l[2] - r[2]]

\* matching_before and matching_after
Agreeing(l, r, n) == Fits(l, n) /\ Fits(r, n) /\ Text(l, n) = Text(r, n)
Earlier(l, r) == Max({b \in 0..Min({l[2], r[2]}) - 1 :
                        Text(<<l[1], l[2] - b>>, b) = Text(<<r[1], r[2] - b>>, b)})
Later(l, r) == Max({n \in 0..Len(files[l[1]]) : Agreeing(l, r, n)})

\* extend_match
Extension(l, r) ==
    LET b == Earlier(l, r)
    IN  [first |-> <<l[1], l[2] - b>>, second |-> <<r[1], r[2] - b>>, size |-> b + Later(l, r)]

Overlapping(x) == x.first[1] = x.second[1] /\ x.second[2] < x.first[2] + x.size

\* process_bucket
OpenBucket ==
    /\ phase = "match" /\ pairs = {}
    /\ \E key \in buckets : buckets' = buckets \ {key} /\ pairs' = PairsOf(key)
    /\ UNCHANGED <<files, cap, extended, regions, groups, selected, phase>>

\* process_pair, already_extended, extend_region and insert_region
ProcessPair ==
    /\ phase = "match" /\ pairs # {}
    /\ LET pair == Least(pairs, InTurn)
           l == pair[1]
           r == pair[2]
           x == Extension(l, r)
       IN  /\ pairs' = pairs \ {pair}
           /\ IF [diagonal |-> Diagonal(l, r), start |-> l[2]] \in extended \/ ~Agreeing(l, r, MinTokens)
              THEN UNCHANGED <<extended, regions>>
              ELSE /\ extended' = extended \cup
                        {[diagonal |-> Diagonal(l, r), start |-> i] :
                            i \in x.first[2]..x.first[2] + x.size - MinTokens}
                   /\ regions' = IF Overlapping(x) THEN regions ELSE regions \cup {x}
    /\ UNCHANGED <<files, cap, buckets, groups, selected, phase>>

\* contained_by
Within(p, n, q, m) == p[1] = q[1] /\ q[2] <= p[2] /\ p[2] + n <= q[2] + m
ContainedBy(x, y) == Within(x.first, x.size, y.first, y.size) /\ Within(x.second, x.size, y.second, y.size)

\* select_candidates, longest first: what contains a region is before it.
Candidates == {x \in regions : ~\E y \in regions \ {x} : ContainedBy(x, y)}

\* exact_fallback_groups: candidates of the same tokens are one group.
GroupOf(x) ==
    [size |-> x.size,
     locations |-> UNION {{y.first, y.second} :
                     y \in {c \in Candidates : Text(c.first, c.size) = Text(x.first, x.size)}}]

GroupRegions ==
    /\ phase = "match" /\ buckets = {} /\ pairs = {}
    /\ groups' = {GroupOf(x) : x \in Candidates}
    /\ phase' = "select"
    /\ UNCHANGED <<files, cap, buckets, pairs, extended, regions, selected>>

\* The lines of a location, and independent_occurrence_count.
LinesOf(p, size) == {(i - 1) \div PerLine : i \in p[2]..p[2] + size - 1}
Touches(p, size, g) ==
    \E q \in g.locations : p[1] = q[1] /\ LinesOf(p, size) \cap LinesOf(q, g.size) # {}
Independent(g) == {p \in g.locations : ~\E kept \in selected : Touches(p, g.size, kept)}

\* compare_duplicates: the longest, then the first in the order of files.
Head1(g) == Least(g.locations, Before)
InOrder(g, h) == g.size > h.size \/ (g.size = h.size /\ Before(Head1(g), Head1(h)))

\* select_independent_exact_groups, one group
Consider ==
    /\ phase = "select" /\ groups # {}
    /\ LET g == Least(groups, InOrder)
       IN  /\ groups' = groups \ {g}
           /\ selected' = IF Cardinality(Independent(g)) < 2 THEN selected ELSE selected \cup {g}
    /\ UNCHANGED <<files, cap, buckets, pairs, extended, regions, phase>>

Finish ==
    /\ phase = "select" /\ groups = {}
    /\ phase' = "done"
    /\ UNCHANGED <<files, cap, buckets, pairs, extended, regions, groups, selected>>

Init ==
    /\ files \in Sources /\ cap \in Caps
    /\ buckets = {WindowFingerprint[Text(p, MinTokens)] : p \in Window}
    /\ pairs = {} /\ extended = {} /\ regions = {} /\ groups = {} /\ selected = {}
    /\ phase = "match"

Next == OpenBucket \/ ProcessPair \/ GroupRegions \/ Consider \/ Finish

Spec == Init /\ [][Next]_vars

-----------------------------------------------------------------------------
Touched(x) == \E g \in selected : Touches(x.first, x.size, g) \/ Touches(x.second, x.size, g)

\* Whatever order the fingerprints impose: two windows that are equal, and that
\* the cap has not left out, lie in a region that was found, and that a kept
\* group shares lines with, unless they agree so far that they run into each
\* other; and what is kept are occurrences of the same tokens
\* (find_with_hasher, exact_fallback_groups).
ClonesAreTouched ==
    phase = "done" =>
        /\ \A g \in selected : \A p, q \in g.locations : Agreeing(p, q, g.size)
        /\ \A l, r \in Window :
               /\ Before(l, r) /\ Agreeing(l, r, MinTokens)
               /\ {l, r} \subseteq Occurrences(WindowFingerprint[Text(l, MinTokens)])
               /\ ~Overlapping(Extension(l, r))
               => \E x \in Candidates : /\ Within(l, MinTokens, x.first, x.size)
                                        /\ Within(r, MinTokens, x.second, x.size)
                                        /\ Touched(x)
=============================================================================
