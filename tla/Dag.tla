-------------------------------- MODULE Dag --------------------------------
(***************************************************************************)
(* topologicalSort of internal/runtime/dag.go: Kahn's algorithm on the     *)
(* workflow's depends_on lists, one action per step taken off the queue.   *)
(*                                                                         *)
(* depends_on is a list and may name a step twice; both the in-degree and  *)
(* the list of dependents count it twice.  Go iterates maps in random      *)
(* order, so the initial queue, and the steps that one step releases, come *)
(* in any order.  (The dependents lists share one iteration of the map,    *)
(* but a step is released once, so the blocks are independent.)            *)
(***************************************************************************)
EXTENDS DepGraph

CONSTANTS
  Node,       \* step IDs
  DepLists    \* the depends_on lists considered: functions from Node to lists of Node

ASSUME NodeAssumption == IsFiniteSet(Node)
ASSUME DepListsAssumption == DepLists \subseteq [Node -> Seq(Node)]

VARIABLES
  graph,      \* step -> its depends_on list
  inDegree,   \* step -> dependencies not yet in result
  queue,      \* steps whose dependencies are all in result
  result,     \* the order so far
  verdict     \* "none" while running, then "order" or "cycle"

vars == <<graph, inDegree, queue, result, verdict>>

Elements(list) == {list[i] : i \in DOMAIN list}
DepSet(g) == [n \in Node |-> Elements(g[n])]

\* The lists that hold every member of S once.
Listings(S) == {q \in [1..Cardinality(S) -> S] : IsPermutationOf(S, q)}

\* How often `of' names n: how often n's dependents list holds `of'.
Occurrences(g, of, n) == Cardinality({i \in DOMAIN g[of] : g[of][i] = n})

TypeOK ==
  /\ graph \in DepLists
  /\ inDegree \in [Node -> Nat]
  /\ queue \in Seq(Node)
  /\ result \in Seq(Node)
  /\ verdict \in {"none", "order", "cycle"}

\* Mutant: the in-degree of a list that names a step twice counts it once.
BugInDegrees(g) == [n \in Node |-> Cardinality(Elements(g[n]))]

\* The in-degree of a step is the length of its list.
InDegrees(g) == [n \in Node |-> Len(g[n])]

Init ==
  /\ graph \in DepLists
  /\ inDegree = InDegrees(graph)
  /\ queue \in Listings({n \in Node : graph[n] = <<>>})
  /\ result = <<>>
  /\ verdict = "none"

\* Mutant: every dependent is queued as soon as one of its dependencies is done.
BugReleased(n) == {m \in Node : inDegree[m] > 0 /\ Occurrences(graph, m, n) > 0}

\* The dependents of n whose in-degree the removal of n takes to zero.
Released(n) ==
  {m \in Node : inDegree[m] > 0 /\ inDegree[m] = Occurrences(graph, m, n)}

\* Mutant: a stack, not a queue.
BugEnqueue(q, block) == block \o Tail(q)

Enqueue(q, block) == Tail(q) \o block

\* Take the head of the queue and put the steps it releases at the end.
Take ==
  /\ verdict = "none"
  /\ queue # <<>>
  /\ LET n == Head(queue) IN
     /\ result' = Append(result, n)
     /\ inDegree' = [m \in Node |-> inDegree[m] - Occurrences(graph, m, n)]
     /\ \E block \in Listings(Released(n)) : queue' = Enqueue(queue, block)
  /\ UNCHANGED <<graph, verdict>>

\* Mutant: the queue running dry is taken for success.
BugFinish ==
  /\ verdict = "none"
  /\ queue = <<>>
  /\ verdict' = "order"
  /\ UNCHANGED <<graph, inDegree, queue, result>>

\* Mutant: the loop runs until result holds every step.
BugFinishWhenFull ==
  /\ verdict = "none"
  /\ queue = <<>>
  /\ Len(result) = Cardinality(Node)
  /\ verdict' = "order"
  /\ UNCHANGED <<graph, inDegree, queue, result>>

\* Whatever was never queued is on a cycle or behind one.
Finish ==
  /\ verdict = "none"
  /\ queue = <<>>
  /\ verdict' = IF Len(result) = Cardinality(Node) THEN "order" ELSE "cycle"
  /\ UNCHANGED <<graph, inDegree, queue, result>>

Next == Take \/ Finish

\* A sequential function that runs to its return.
Spec == Init /\ [][Next]_vars /\ WF_vars(Next)

-----------------------------------------------------------------------------
\* The in-degree of a step counts the entries of its list that are not in result:
\* duplicates in depends_on cannot make it miss zero.
InDegreeCountsMissing ==
  \A n \in Node :
    inDegree[n] = Cardinality({i \in DOMAIN graph[n] : graph[n][i] \notin Elements(result)})

\* At any time a step has been taken, waits in the queue, or has a positive in-degree,
\* and none of these twice: no step is lost and none is run twice.
EveryStepOnce ==
  /\ \A n \in Node :
       n \in Elements(result) \cup Elements(queue) <=> inDegree[n] = 0
  /\ Elements(result) \cap Elements(queue) = {}
  /\ \A i, j \in DOMAIN result : result[i] = result[j] => i = j
  /\ \A i, j \in DOMAIN queue : queue[i] = queue[j] => i = j

\* A returned order holds every step once and after its dependencies, in the
\* first-released order that Executor assumes of it.
ReturnedOrderIsKahn ==
  verdict = "order" => IsKahnOrder(Node, DepSet(graph), result)

\* The sort and Workflow.Validate agree on which workflows are cyclic, so Execute
\* never fails with "cycle detected" after Validate has passed.
VerdictIsRight ==
  /\ verdict = "order" => Acyclic(Node, DepSet(graph))
  /\ verdict = "cycle" => ~ Acyclic(Node, DepSet(graph))

\* The sort returns for every graph, cyclic ones included.
SortReturns == <>(verdict # "none")
=============================================================================
