----------------------------- MODULE ResearchPlan -----------------------------
(***************************************************************************)
(* How the answer of the planner becomes a plan (PlanTask): a list of      *)
(* items, each with an id, 0 when it has none, and a list of dependencies. *)
(***************************************************************************)
EXTENDS Integers, Sequences, SequencesExt, FiniteSetsExt

Ids(nodes) == {nodes[i].id : i \in DOMAIN nodes}
Keep(node, known) == [node EXCEPT !.deps = SelectSeq(@, LAMBDA d : d \in known /\ d # node.id)]

\* Ids that clash are renumbered; a dependency is kept if it names a task so far.
AddItem(items, nodes, i) ==
    LET wanted == IF items[i].id = 0 THEN i ELSE items[i].id
        id == IF wanted \in Ids(nodes) THEN Max(Ids(nodes)) + 1 ELSE wanted
    IN  Append(nodes, Keep([id |-> id, deps |-> items[i].deps], Ids(nodes) \cup {id}))

\* dfs: colours the tasks and drops the edges that close a cycle.
RECURSIVE Visit(_, _)
Visit(g, id) ==
    LET Edge(h, d) == IF h.color[d] = "gray" THEN [h EXCEPT !.deps[id] = Remove(@, d)]
                      ELSE IF h.color[d] = "white" THEN Visit(h, d) ELSE h
    IN  [FoldLeft(Edge, [g EXCEPT !.color[id] = "gray"], g.deps[id]) EXCEPT !.color[id] = "black"]

EnsureTopologicallyValid(nodes) ==
    LET known == Ids(nodes)
        kept == [i \in DOMAIN nodes |-> Keep(nodes[i], known)]
        start == [color |-> [d \in known |-> "white"],
                  deps |-> [d \in known |-> kept[CHOOSE i \in DOMAIN nodes : nodes[i].id = d].deps]]
        end == FoldLeft(LAMBDA g, n : IF g.color[n.id] = "white" THEN Visit(g, n.id) ELSE g, start, kept)
    IN  [i \in DOMAIN nodes |-> [nodes[i] EXCEPT !.deps = end.deps[nodes[i].id]]]

FallbackTask == <<[id |-> 1, deps |-> <<>>]>>

Parse(items, maxTasks) ==
    LET taken == SubSeq(items, 1, IF Len(items) < maxTasks THEN Len(items) ELSE maxTasks)
        nodes == FoldLeftDomain(LAMBDA acc, i : AddItem(taken, acc, i), <<>>, taken)
    IN  IF nodes = <<>> THEN FallbackTask ELSE EnsureTopologicallyValid(nodes)

-----------------------------------------------------------------------------
\* Reference definitions.
RECURSIVE Reaches(_, _, _)
Reaches(nodes, from, steps) ==
    IF steps = 0 THEN from
    ELSE Reaches(nodes, from \cup UNION {ToSet(nodes[i].deps) : i \in {j \in DOMAIN nodes : nodes[j].id \in from}}, steps - 1)

Acyclic(nodes) == \A i \in DOMAIN nodes : nodes[i].id \notin Reaches(nodes, ToSet(nodes[i].deps), Len(nodes))
IsPlan(nodes) ==
    /\ nodes # <<>> /\ Cardinality(Ids(nodes)) = Len(nodes) /\ Acyclic(nodes)
    /\ \A i \in DOMAIN nodes : ToSet(nodes[i].deps) \subseteq Ids(nodes)

\* Only dependencies on unknown tasks and on the task itself are dropped from a
\* plan without cycles.  The code does not keep this: a task later in the list
\* is not known yet.
KeepsKnownDependencies(items) ==
    Cardinality(Ids(items)) = Len(items) /\ 0 \notin Ids(items) /\ Acyclic(items) =>
        \A i \in DOMAIN items : ToSet(Parse(items, Len(items))[i].deps) = ToSet(items[i].deps) \cap Ids(items)
=============================================================================
