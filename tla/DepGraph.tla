------------------------------ MODULE DepGraph ------------------------------
(***************************************************************************)
(* Dependency graphs of workflow steps, as the runtime understands them:   *)
(* `deps[s]' is the set of the steps that step s names in depends_on.      *)
(* These are the notions that several modules share; they have no state.   *)
(***************************************************************************)
EXTENDS Integers, FiniteSets, Sequences

\* No set of steps of S waits on itself: what Workflow.validateNoCycles accepts.
Acyclic(S, deps) ==
  \A C \in (SUBSET S) \ {{}} : \E s \in C : deps[s] \cap C = {}

\* C is closed under deps: whoever is in C finds its dependencies in C.
DepsClosed(C, deps) == \A s \in C : deps[s] \subseteq C

\* The steps of S that s waits for, directly or through others: the members of
\* every closed set that holds the direct dependencies of s.
Ancestors(S, deps, s) ==
  {t \in S : \A C \in SUBSET S :
                deps[s] \subseteq C /\ DepsClosed(C, deps) => t \in C}

\* The order o names every step of S once ...
IsPermutationOf(S, o) ==
  /\ \A s \in S : \E i \in DOMAIN o : o[i] = s
  /\ \A i, j \in DOMAIN o : o[i] = o[j] => i = j

\* ... and every step after its dependencies.
IsTopologicalOrder(S, deps, o) ==
  /\ IsPermutationOf(S, o)
  /\ \A i \in DOMAIN o : \A d \in deps[o[i]] : \E j \in 1..(i - 1) : o[j] = d

\* Mutant: the steps in any order, as a Go map would list them.
BugAnyOrder(S, deps, o) == IsPermutationOf(S, o)

\* A topological order that a first-in first-out worklist can produce: when i is
\* before j, the last dependency of i is not after the last dependency of j.
\* Steps that the same step releases come in any order (Go iterates maps at random).
IsKahnOrder(S, deps, o) ==
  /\ IsTopologicalOrder(S, deps, o)
  /\ \A i, j \in DOMAIN o : i < j =>
        \A k \in 1..(i - 1) : o[k] \in deps[o[i]] =>
           \E m \in k..(j - 1) : o[m] \in deps[o[j]]

\* Every order that topologicalSort (internal/runtime/dag.go) can return for S.
KahnOrders(S, deps) ==
  {o \in [1..Cardinality(S) -> S] : IsKahnOrder(S, deps, o)}
=============================================================================
