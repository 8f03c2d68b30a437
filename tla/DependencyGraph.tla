-------------------------- MODULE DependencyGraph --------------------------
(***************************************************************************)
(* dependency_cycles (analysis-quality, graph.rs): the internal production *)
(* graph of the packages, and Tarjan's algorithm over it.  The recursion   *)
(* of visit is a stack of frames, each with the edges it has still to      *)
(* follow; packages and edges are visited in the order of their names.     *)
(***************************************************************************)
EXTENDS Naturals, Sequences, FiniteSets, FiniteSetsExt, Functions

CONSTANTS
    Nodes,       \* the number of packages
    OtherPairs   \* pairs that may also be dependencies of another kind

VARIABLES
    records,     \* dependency records: [pair, kind]
    frames,      \* the calls of visit: [node, edges still to follow]
    indices, lowlinks,
    stack,       \* on_stack is its range
    components

vars == <<records, frames, indices, lowlinks, stack, components>>

Node == 1..Nodes

\* Test scope, a target gate, a package from outside, or a name that no
\* package has: none of these is an edge.
Kind == {"production", "test", "targetGated", "external"}

\* internal_dependency_graph
Edges == {r.pair : r \in {q \in records : q.kind = "production"}} \cap (Node \X Node)

\* component_is_cycle
IsCycle(component) ==
    Cardinality(component) > 1 \/ \E n \in component : <<n, n>> \in Edges

Cycles == {c \in Range(components) : IsCycle(c)}

Top == frames[Len(frames)]
Unvisited == Node \ DOMAIN indices

\* BTreeMap::insert
Inserted(map, node, value) == [n \in DOMAIN map \cup {node} |-> IF n = node THEN value ELSE map[n]]

\* start_node, and the frame of its visit_edges
Start(node, below) ==
    LET index == Cardinality(DOMAIN indices)
    IN  /\ indices' = Inserted(indices, node, index)
        /\ lowlinks' = Inserted(lowlinks, node, index)
        /\ stack' = Append(stack, node)
        /\ frames' = Append(below, [node |-> node, edges |-> {m \in Node : <<node, m>> \in Edges}])

VisitRoot ==
    /\ frames = <<>> /\ Unvisited # {}
    /\ Start(Min(Unvisited), <<>>)
    /\ UNCHANGED <<records, components>>

Lowered(node, value) == [lowlinks EXCEPT ![node] = Min({@, value})]

\* Wrong: an edge to a package whose component is complete lowers the lowlink.
VisitAnyEdge ==
    /\ frames # <<>> /\ Top.edges # {}
    /\ LET edge == Min(Top.edges)
           rest == [frames EXCEPT ![Len(frames)].edges = @ \ {edge}]
       IN  \/ /\ edge \in Unvisited
              /\ Start(edge, rest)
           \/ /\ edge \notin Unvisited
              /\ frames' = rest
              /\ lowlinks' = Lowered(Top.node, indices[edge])
              /\ UNCHANGED <<indices, stack>>
    /\ UNCHANGED <<records, components>>

\* visit_edge: into a new package, or back to one that is on the stack.
VisitEdge ==
    /\ frames # <<>> /\ Top.edges # {}
    /\ LET edge == Min(Top.edges)
           rest == [frames EXCEPT ![Len(frames)].edges = @ \ {edge}]
       IN  \/ /\ edge \in Unvisited
              /\ Start(edge, rest)
           \/ /\ edge \notin Unvisited
              /\ frames' = rest
              /\ lowlinks' = IF edge \in Range(stack) THEN Lowered(Top.node, indices[edge]) ELSE lowlinks
              /\ UNCHANGED <<indices, stack>>
    /\ UNCHANGED <<records, components>>

\* pop_component: the stack down to the node.
Component(node) ==
    LET first == CHOOSE i \in DOMAIN stack : stack[i] = node
    IN  [members |-> {stack[i] : i \in first..Len(stack)}, below |-> SubSeq(stack, 1, first - 1)]

\* finish_component, and the return to the caller, which takes over the lowlink.
Finish ==
    /\ frames # <<>> /\ Top.edges = {}
    /\ LET node == Top.node
           caller == frames[Len(frames) - 1].node
       IN  /\ IF lowlinks[node] = indices[node]
              THEN /\ components' = Append(components, Component(node).members)
                   /\ stack' = Component(node).below
              ELSE UNCHANGED <<components, stack>>
           /\ lowlinks' = IF Len(frames) > 1 THEN Lowered(caller, lowlinks[node]) ELSE lowlinks
           /\ frames' = SubSeq(frames, 1, Len(frames) - 1)
    /\ UNCHANGED <<records, indices>>

Init ==
    /\ \E pairs \in SUBSET (Node \X Node), other \in [pair : OtherPairs, kind : Kind] :
           records = {[pair |-> p, kind |-> "production"] : p \in pairs} \cup {other}
    /\ frames = <<>> /\ stack = <<>> /\ components = <<>>
    /\ indices = <<>> /\ lowlinks = <<>>

Next == VisitRoot \/ VisitEdge \/ Finish

Spec == Init /\ [][Next]_vars

Done == frames = <<>> /\ Unvisited = {}

-----------------------------------------------------------------------------
\* What a package leads to: the packages in every set that has its dependencies
\* and all dependencies of its members.
Closed(S) == \A m, n \in Node : <<m, n>> \in Edges /\ m \in S => n \in S
Reached(n) ==
    {m \in Node :
        \A S \in SUBSET Node : Closed(S) /\ (\A k \in Node : <<n, k>> \in Edges => k \in S) => m \in S}
MutualDependencies(n) == {m \in Reached(n) : n \in Reached(m)}

\* The cycles are the classes of packages that depend on one another, through
\* any others, and on themselves: whatever the order of visits, none is split,
\* none is joined with what it only leads to, and no package is in two
\* (strongly_connected_components, canonical_cycles).
CyclesAreMutualDependencies ==
    Done => /\ Cycles = {MutualDependencies(n) : n \in Node} \ {{}}
            /\ \A i, j \in DOMAIN components : i # j => components[i] \cap components[j] = {}
=============================================================================
