----------------------------- MODULE MCExecutor -----------------------------
(* Small workflows for Executor.                                            *)
EXTENDS ExecutorLedger, TLC

CONSTANTS a, b, c

NoDeps == [s \in Step |-> {}]
Flow(deps, pause, refs, unsaved) ==
  [steps |-> Step, deps |-> deps, pause |-> pause, refs |-> refs, unsaved |-> unsaved]

\* decision, approval, after: the workflow of the README and of executor_test.go
Chain == Flow((b :> {a}) @@ (c :> {b}) @@ NoDeps, {b}, (c :> {a}) @@ (b :> {a}) @@ NoDeps, {})
\* two steps that one step releases; one of them pauses, the other may come first
Fork == Flow((b :> {a}) @@ (c :> {a}) @@ NoDeps, {b}, (c :> {a}) @@ NoDeps, {})
\* two approvals in a row, then a join; the output of b is not saved
Join == Flow((b :> {a}) @@ (c :> {a, b}) @@ NoDeps, {a, b}, (c :> {a}) @@ NoDeps, {b})
\* c refers to a and does not depend on it
Loose == Flow((b :> {a}) @@ NoDeps, {b}, (c :> {a}) @@ NoDeps, {})
\* c refers to a step that does not save its output
Unsaved == Flow((c :> {a, b}) @@ NoDeps, {c}, (c :> {a, b}) @@ NoDeps, {b})
\* an edit of Chain that drops the approval step
Shortcut == [Chain EXCEPT !.steps = {a, c}, !.deps[c] = {a}, !.pause = {}, !.unsaved = {a}]
\* an edit of Chain that turns its order round
Reversed == Flow((a :> {b}) @@ (b :> {c}) @@ NoDeps, {b}, NoDeps, {})
\* not accepted by Validate
Cyclic == Flow((a :> {b}) @@ (b :> {a}) @@ NoDeps, {}, NoDeps, {})

SequentialFlows == {Fork, Join, Loose}
ApprovalFlow == {Chain}
EditedFlows == {Chain, Fork, Unsaved, Shortcut, Reversed, Cyclic}

RunSymmetry == Permutations(Run)
=============================================================================
