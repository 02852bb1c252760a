--------------------------- MODULE ValidateCycles ---------------------------
(***************************************************************************)
(* Workflow.validateNoCycles (internal/workflow/workflow.go): the          *)
(* depth-first search for a cycle that runs before topologicalSort, one    *)
(* action per iteration of its two loops and per return of visit.  The     *)
(* calls of the recursive visit that have not returned are on a stack.     *)
(*                                                                         *)
(* Executor.Execute has the workflow validated and then builds its graph,  *)
(* so that the sort only sees what the search lets pass.  Here the sort    *)
(* runs after either answer: only so can the two be compared.              *)
(***************************************************************************)
EXTENDS Dag

VARIABLES
  roots,      \* steps to which the loop over the map has not come
  stack,      \* the steps of the calls of visit in progress, the innermost last
  visiting,   \* the maps of the search: steps with a call in progress ...
  visited,    \* ... and steps from which no cycle can be reached
  passed,     \* step -> how many entries of its list its call of visit is done with
  answer      \* "none" while the search runs, then "cycle" or "acyclic"

searchVars == <<roots, stack, visiting, visited, passed, answer>>

Innermost(calls) == calls[Len(calls)]
Outer(calls) == SubSeq(calls, 1, Len(calls) - 1)

SearchInit ==
  /\ roots = Node
  /\ stack = <<>>
  /\ visiting = {} /\ visited = {}
  /\ passed = [n \in Node |-> 0]
  /\ answer = "none"

\* A call has returned false: its caller, if it is a visit, goes on to the next entry.
GoesOn(calls) ==
  passed' = IF calls = <<>> THEN passed ELSE [passed EXCEPT ![Innermost(calls)] = @ + 1]

\* Mutant: a step that has been visited is taken for one that is being visited.
BugVisit(n) ==
  \/ /\ n \in visiting \cup visited
     /\ answer' = "cycle"
     /\ UNCHANGED <<stack, visiting, visited, passed>>
  \/ /\ n \notin visiting \cup visited
     /\ stack' = Append(stack, n)
     /\ visiting' = visiting \cup {n}
     /\ UNCHANGED <<visited, passed, answer>>

\* The call visit(n), up to the loop: true ends the search through all calls in progress.
Visit(n) ==
  \/ /\ n \in visiting
     /\ answer' = "cycle"
     /\ UNCHANGED <<stack, visiting, visited, passed>>
  \/ /\ n \in visited \ visiting
     /\ GoesOn(stack)
     /\ UNCHANGED <<stack, visiting, visited, answer>>
  \/ /\ n \notin visiting \cup visited
     /\ stack' = Append(stack, n)
     /\ visiting' = visiting \cup {n}
     /\ UNCHANGED <<visited, passed, answer>>

\* The loop over the map, in any order.
VisitRoot ==
  /\ answer = "none" /\ stack = <<>>
  /\ \E n \in roots :
       /\ roots' = roots \ {n}
       /\ Visit(n)

\* The loop over a depends_on list, in its order.
VisitDependency ==
  /\ answer = "none" /\ stack # <<>>
  /\ LET n == Innermost(stack) IN
     /\ passed[n] < Len(graph[n])
     /\ Visit(graph[n][passed[n] + 1])
  /\ UNCHANGED roots

\* Mutant: the step stays marked as being visited.
BugReturn ==
  /\ answer = "none" /\ stack # <<>>
  /\ LET n == Innermost(stack) IN
     /\ passed[n] = Len(graph[n])
     /\ visited' = visited \cup {n}
  /\ stack' = Outer(stack)
  /\ GoesOn(Outer(stack))
  /\ UNCHANGED <<roots, visiting, answer>>

\* The end of visit, false.
Return ==
  /\ answer = "none" /\ stack # <<>>
  /\ LET n == Innermost(stack) IN
     /\ passed[n] = Len(graph[n])
     /\ visiting' = visiting \ {n}
     /\ visited' = visited \cup {n}
  /\ stack' = Outer(stack)
  /\ GoesOn(Outer(stack))
  /\ UNCHANGED <<roots, answer>>

\* No step is left.
Accept ==
  /\ answer = "none" /\ stack = <<>> /\ roots = {}
  /\ answer' = "acyclic"
  /\ UNCHANGED <<roots, stack, visiting, visited, passed>>

SearchNext == VisitRoot \/ VisitDependency \/ Return \/ Accept

-----------------------------------------------------------------------------
(* The search, then the sort.                                              *)

BothInit == Init /\ SearchInit

BothNext ==
  \/ SearchNext /\ UNCHANGED vars
  \/ answer # "none" /\ Next /\ UNCHANGED searchVars

\* Two sequential functions that run to their returns.
BothSpec ==
  BothInit /\ [][BothNext]_<<vars, searchVars>> /\ WF_<<vars, searchVars>>(BothNext)

\* While the search runs, the steps marked as being visited are those with a call in
\* progress, each once, and each call was made for the entry its caller has come to: a mark
\* that is met is a way back.
VisitingIsThePath ==
  /\ visiting = Elements(stack)
  /\ \A i, j \in DOMAIN stack : stack[i] = stack[j] => i = j
  /\ \A i \in 1..(Len(stack) - 1) :
       /\ passed[stack[i]] < Len(graph[stack[i]])
       /\ graph[stack[i]][passed[stack[i]] + 1] = stack[i + 1]

\* The search of Validate says "cycle" exactly of the graphs that the sort rejects,
\* whatever order the maps list the steps in: Execute never fails with "cycle detected"
\* after Validate has passed.
ValidateAgreesWithSort ==
  verdict # "none" => (answer = "cycle" <=> verdict = "cycle")
=============================================================================
