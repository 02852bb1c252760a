------------------------------- MODULE MCDag -------------------------------
(* Small graphs for Dag.                                                       *)
EXTENDS ValidateCycles

CONSTANTS a, b, c, d

\* Every graph of three steps whose lists have at most two entries, duplicates and
\* self-references included; d waits for all three, so that it stands behind every cycle.
ShortLists == {<<>>} \cup [1..1 -> {a, b, c}] \cup [1..2 -> {a, b, c}]
Tangled ==
  {[n \in Node |-> CASE n = a -> x [] n = b -> y [] n = c -> z [] OTHER -> <<a, b, c>>] :
      x, y, z \in ShortLists}

\* Every acyclic graph of four steps, up to renaming.
Layered ==
  {[n \in Node |-> CASE n = a -> <<>> [] n = b -> y [] n = c -> z [] OTHER -> w] :
      y \in {<<>>, <<a>>},
      z \in {<<>>, <<a>>, <<b>>, <<a, b>>},
      w \in {<<>>, <<a>>, <<b>>, <<c>>, <<a, b>>, <<a, c>>, <<b, c>>, <<a, b, c>>}}

Graphs == Tangled \cup Layered
=============================================================================
