----------------------------- MODULE StateGraph -----------------------------
(***************************************************************************)
(* The states an entity declares and the moves between them                *)
(* (src/states.ts), what is asked of that graph at definition time         *)
(* (src/analysis.ts), and the edges a diagram draws (src/diagram.ts).      *)
(*                                                                         *)
(* Nodes are interned to their position in declaration order.  Edges are   *)
(* an overlay: a graph without one allows every move, which is not the     *)
(* same as an overlay that declares no edges out of a state.               *)
(***************************************************************************)
EXTENDS Integers, Sequences, SequencesExt, Lists

\* A list that became a Set: the first occurrence of each element stays.
Dedupe(list) ==
  Picked(list, {i \in DOMAIN list : \A j \in 1 .. i - 1 : list[j] # list[i]})

\* No overlay.  An overlay has one row for each node, and there is one node.
NoEdges == <<>>

StatesOf(names) == [nodes |-> Dedupe(names), edges |-> NoEdges]

HasEdges(graph) == graph.edges # NoEdges

HasState(graph, name) == Contains(graph.nodes, name)

\* What a name that is not declared interns to: it indexes no row.
UNKNOWN_NODE == 0

IdOf(graph, name) ==
  IF HasState(graph, name)
    THEN CHOOSE i \in DOMAIN graph.nodes : graph.nodes[i] = name
    ELSE UNKNOWN_NODE

\* Install the overlay from <<source, targets>> entries: a source that comes
\* twice keeps its last row, and a node without an entry has no way out.
DeclareEdges(graph, entries) ==
  LET Rows(name) == {i \in DOMAIN entries : entries[i][1] = name}
      Row(name)  == IF Rows(name) = {} THEN <<>>
                    ELSE Dedupe(entries[Max(Rows(name))][2])
  IN  [graph EXCEPT !.edges = [i \in DOMAIN graph.nodes |-> Row(graph.nodes[i])]]

\* The declared targets of a node; without an overlay, every node.
TargetsFrom(graph, id) ==
  IF id \notin DOMAIN graph.nodes THEN <<>>
  ELSE IF HasEdges(graph) THEN graph.edges[id]
  ELSE graph.nodes

TargetsOf(graph, from) == TargetsFrom(graph, IdOf(graph, from))

\* checkEdgeFrom: without an overlay not even the names are asked about.
AllowsFrom(graph, fromId, to) ==
  HasEdges(graph) => Contains(TargetsFrom(graph, fromId), to)

Allows(graph, from, to) == AllowsFrom(graph, IdOf(graph, from), to)

\* States nothing leaves.
Terminals(graph) == {n \in ToSet(graph.nodes) : TargetsOf(graph, n) = <<>>}

\* Where one step leads.
Found(graph, names) == UNION {ToSet(TargetsOf(graph, n)) : n \in names}

Mutant_ReachableFrom(graph, from) == ToSet(TargetsOf(graph, from))

\* Breadth first.  Every round that finds a state finds a new one, so the
\* frontier is empty after as many rounds as there are states.
ReachableFrom(graph, from) ==
  LET round[k \in 0 .. Len(graph.nodes)] ==
        IF k = 0 THEN [seen |-> {}, frontier |-> {from}]
        ELSE LET new == Found(graph, round[k - 1].frontier) \ round[k - 1].seen
             IN  [seen |-> round[k - 1].seen \cup new, frontier |-> new]
  IN  IF HasState(graph, from) THEN round[Len(graph.nodes)].seen ELSE {}

UnreachableFrom(graph, from) ==
  {n \in ToSet(graph.nodes) : n # from /\ n \notin ReachableFrom(graph, from)}

\* What analyze() reports of an entity.
Analyze(graph, initial) ==
  [constrained |-> HasEdges(graph),
   terminals   |-> Terminals(graph),
   unreachable |-> UnreachableFrom(graph, initial)]

\* The edges of a diagram: the declared ones, and the observed ones that
\* were never declared.
EdgesOf(graph, observed) ==
  LET declared == {e \in ToSet(graph.nodes) \X ToSet(graph.nodes) :
                     HasEdges(graph) /\ Contains(TargetsOf(graph, e[1]), e[2])}
  IN  [declared |-> declared,
       observed |-> {e \in observed :
                       ~(HasEdges(graph) /\ Allows(graph, e[1], e[2]))}]

=============================================================================
