------------------------- MODULE MutationIdentities -------------------------
(***************************************************************************)
(* The identities of mutations (reporigor-core, model.rs) and the choice   *)
(* of those to run (analysis-mutate, selection.rs).  The Rust adapter      *)
(* names the candidates of its own snapshot, the snapshots of all adapters *)
(* are merged and named again, and a seed orders what is selected.         *)
(*                                                                         *)
(* A report and its baseline find a mutation again by its fingerprint, so  *)
(* it must not depend on who discovered the candidates in which order.     *)
(* Names, operators and texts are numbers, 0 is the empty string; a digest *)
(* stands for what it is the digest of, and is the sequence of that.  The  *)
(* numeric id of a mutation is its place.                                  *)
(***************************************************************************)
EXTENDS Integers, Sequences, FiniteSets, SequencesExt

CONSTANTS
    Rust, Others,             \* what the Rust adapter and the other ones may find
    Functions,                \* the functions of the files, with their lines
    Normal(_),                \* normalize_repository_path
    Module(_),                \* the symbol of a file's module
    OperatorOf(_),            \* mutation_operator of a text
    Seeds,                    \* a seed is the fingerprints that it puts first
    Operators,                \* what a configuration may allow
    MaxFound

VARIABLES
    native, found,    \* the candidates of the Rust adapter, and of the others
    mutations,        \* those of the merged snapshot
    allowed,          \* the operators of the configuration
    selected, phase
vars == <<native, found, mutations, allowed, selected, phase>>

Empty == 0
Missing == <<>>   \* an empty fingerprint

\* Lexicographic order of sequences of numbers.
Before(s, t) ==
    \E n \in 1..Len(t) :
        /\ \A m \in 1..(n - 1) : m <= Len(s) /\ s[m] = t[m]
        /\ n > Len(s) \/ s[n] < t[n]

\* Vec::sort_by, which is stable: entries are told apart by their places.
Entry(key, i, m) == [key |-> key, at |-> i, mutation |-> m]
Sooner(x, y) == Before(x.key, y.key) \/ (x.key = y.key /\ x.at < y.at)
Preceding(e, entries) == {d \in entries : Sooner(d, e)}
InOrder(entries) ==
    LET ranked == {[rank |-> Cardinality(Preceding(e, entries)) + 1, entry |-> e] : e \in entries}
    IN  [n \in 1..Cardinality(entries) |-> (CHOOSE r \in ranked : r.rank = n).entry.mutation]

----------------------------------------------------------------------------
(* Structural identity *)

Containing(m) == {f \in Functions : f.file = m.file /\ f.start <= m.line /\ m.line <= f.end}

\* The names of the shortest function around a line, or of the first of them.
Innermost(m) ==
    LET names == {<<f.end - f.start, f.symbol, f.name>> : f \in Containing(m)}
    IN  CHOOSE x \in names : \A y \in names : x = y \/ Before(x, y)

SymbolOf(m) ==
    IF Containing(m) = {} THEN Module(m.file)
    ELSE IF Innermost(m)[2] = Empty THEN Innermost(m)[3] ELSE Innermost(m)[2]

\* fill_mutation_structural_identity
Filled(c) ==
    LET m == [c EXCEPT !.file = Normal(@)]
    IN  [m EXCEPT !.symbol = IF @ = Empty THEN SymbolOf(m) ELSE @,
                  !.operator = IF @ = Empty THEN OperatorOf(m.original) ELSE @]

Structure(m) == <<m.file, m.symbol, m.operator, m.original, m.replacement>>

\* The keys of mutation_structural_location_cmp, and those of numeric ids: what
\* would follow the fingerprint never counts, since no two share one.
Location(m) == <<m.file, m.symbol, m.operator, m.original, m.replacement, m.line, m.column>> \o m.fingerprint
Identity(m) == <<m.file, m.symbol>> \o m.fingerprint

----------------------------------------------------------------------------
(* Fingerprints *)

\* generated_mutation_fingerprint: stable_id of a file, a symbol and evidence.
Generated(m, ordinal) == <<m.file, m.symbol, 0, m.operator, m.original, m.replacement, ordinal>>

\* Wrong: what an adapter provided further on is not reserved.
ReservedByUse(ms) == {}

\* The fingerprints that adapters provided.
Reserved(ms) == {ms[i].fingerprint : i \in DOMAIN ms} \ {Missing}

\* disambiguated_fingerprint: the first free one from where the last collision
\* of the same proposal stopped.
Attempt(m, proposed, n) == <<m.file, m.symbol, 1, n>> \o proposed
Disambiguated(m, proposed, taken, from) ==
    CHOOSE n \in from..(from + Cardinality(taken)) :
        /\ Attempt(m, proposed, n) \notin taken
        /\ \A k \in from..(n - 1) : Attempt(m, proposed, k) \in taken

\* assign_mutation_fingerprints, one mutation: the ordinal counts the earlier ones
\* of the same structure.
Fingerprint(ms, i, acc) ==
    LET m == ms[i]
        ordinal == Cardinality({j \in 1..(i - 1) : Structure(ms[j]) = Structure(m)})
        provided == m.fingerprint # Missing
        proposed == IF provided THEN m.fingerprint ELSE Generated(m, ordinal)
        conflicts == proposed \in acc.used \/ (~provided /\ proposed \in Reserved(ms))
        from == IF proposed \in DOMAIN acc.collisions THEN acc.collisions[proposed] ELSE 1
        collision == Disambiguated(m, proposed, acc.used \cup Reserved(ms), from)
        name == IF conflicts THEN Attempt(m, proposed, collision) ELSE proposed
    IN  [used |-> acc.used \cup {name},
         collisions |-> IF conflicts
                        THEN [x \in DOMAIN acc.collisions \cup {proposed} |->
                                IF x = proposed THEN collision + 1 ELSE acc.collisions[x]]
                        ELSE acc.collisions,
         named |-> Append(acc.named, [m EXCEPT !.fingerprint = name])]

Fingerprinted(ms) ==
    LET after[n \in 0..Len(ms)] ==
            IF n = 0 THEN [used |-> {}, collisions |-> <<>>, named |-> <<>>]
            ELSE Fingerprint(ms, n, after[n - 1])
    IN  after[Len(ms)].named

\* assign_mutation_ids
AssignMutationIds(ms) ==
    LET located == InOrder({Entry(Location(Filled(ms[i])), i, Filled(ms[i])) : i \in DOMAIN ms})
        named == Fingerprinted(located)
    IN  InOrder({Entry(Identity(named[i]), i, named[i]) : i \in DOMAIN named})

----------------------------------------------------------------------------
(* Selection *)

Refused == "refused"

SeededKey(seed, m) == <<IF m.fingerprint \in seed THEN 0 ELSE 1, m.file, m.symbol>> \o m.fingerprint

\* CandidateSelector: in the order of the seeded keys; no operators, or a
\* fingerprint that is missing or comes twice, is an error.
SelectCandidates(ms, seed) ==
    LET chosen == {i \in DOMAIN ms : ms[i].operator \in allowed}
        names == {ms[i].fingerprint : i \in chosen}
    IN  IF allowed = {} \/ Missing \in names \/ Cardinality(names) < Cardinality(chosen) THEN Refused
        ELSE InOrder({Entry(SeededKey(seed, ms[i]), i, ms[i]) : i \in chosen})

----------------------------------------------------------------------------
(* Actions *)

\* AnalysisSnapshot::push, of one file's candidates at a time.
Discover(c) ==
    /\ phase = "discovery" /\ Len(native) + Len(found) < MaxFound
    /\ IF c \in Rust THEN native' = Append(native, c) /\ UNCHANGED found
       ELSE found' = Append(found, c) /\ UNCHANGED native
    /\ UNCHANGED <<mutations, allowed, selected, phase>>

\* The order of AnalysisSnapshot::merge.
Merged(ms) ==
    InOrder({Entry(<<ms[i].file, ms[i].line, ms[i].column, ms[i].replacement>>, i, ms[i]) : i \in DOMAIN ms})

Analyzed(rust, others) == AssignMutationIds(Merged(AssignMutationIds(rust)) \o others)

\* analyze_project
Analyze ==
    /\ phase = "discovery"
    /\ mutations' = Analyzed(native, found)
    /\ phase' = "named"
    /\ UNCHANGED <<native, found, allowed, selected>>

Select(seed) ==
    /\ phase = "named"
    /\ selected' = SelectCandidates(mutations, seed)
    /\ phase' = "selected"
    /\ UNCHANGED <<native, found, mutations, allowed>>

Init ==
    /\ found = <<>> /\ native = <<>> /\ mutations = <<>> /\ selected = <<>>
    /\ allowed \in Operators
    /\ phase = "discovery"

Next ==
    \/ \E c \in Rust \cup Others : Discover(c)
    \/ Analyze
    \/ \E seed \in Seeds : Select(seed)

Spec == Init /\ [][Next]_vars

----------------------------------------------------------------------------
(* Properties *)

Swapped(s, i) == [s EXCEPT ![i] = s[i + 1], ![i + 1] = s[i]]

\* What the naming of the merged snapshot is given.
Given == ToSet(AssignMutationIds(native)) \cup ToSet(found)

\* Every mutation has a fingerprint of its own, and the same one at the same
\* place, whichever of two was discovered first; a fingerprint that an adapter
\* gave stays with a mutation that it was given to.  So a selection is refused
\* only for want of operators, and holds every mutation of the allowed ones.
IdentitiesAreStable ==
    /\ phase = "named" =>
         /\ \A i, j \in DOMAIN mutations :
              i # j => mutations[i].fingerprint # mutations[j].fingerprint
         /\ \A i \in DOMAIN found \ {Len(found)} : Analyzed(native, Swapped(found, i)) = mutations
         /\ \A i \in DOMAIN native \ {Len(native)} : Analyzed(Swapped(native, i), found) = mutations
         /\ \A given \in {Given} : \A c \in given :
              c.fingerprint # Missing =>
                \E g \in given : g.fingerprint = c.fingerprint /\ Filled(g) \in ToSet(mutations)
    /\ phase = "selected" =>
         IF allowed = {} THEN selected = Refused
         ELSE ToSet(selected) = {m \in ToSet(mutations) : m.operator \in allowed}
=============================================================================
