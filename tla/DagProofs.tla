------------------------------ MODULE DagProofs ------------------------------
(***************************************************************************)
(* topologicalSort of Dag is right for any steps and any depends_on lists, *)
(* with duplicates, self-references and cycles, and in every order in      *)
(* which Go may walk the maps; and it agrees with the depth-first search   *)
(* of ValidateCycles.                                                      *)
(***************************************************************************)
EXTENDS ValidateCycles, FiniteSetTheorems, SequenceTheorems, TLAPS

-----------------------------------------------------------------------------
(* The inductive invariant.                                                *)

Distinct(s) == \A i, j \in DOMAIN s : s[i] = s[j] => i = j

\* What has been taken and what waits, in this order: the order in which the steps were
\* released, to which Take only adds at the end.
Order == result \o queue

\* All dependencies of a step that is released have been taken, and before it.
DependenciesTaken ==
  \A i \in DOMAIN Order : \A d \in Elements(graph[Order[i]]) :
    \E j \in 1..Len(result) : j < i /\ result[j] = d

\* Of two steps the one whose last dependency was taken first stands first.
ReleasedInOrder ==
  \A i, j \in DOMAIN Order : i < j =>
    \A k \in 1..(i - 1) : Order[k] \in Elements(graph[Order[i]]) =>
      \E m \in k..(j - 1) : Order[m] \in Elements(graph[Order[j]])

\* Steps that wait for each other are never released.
Knot(C) == \A s \in C : Elements(graph[s]) \cap C # {}
KnotsStay ==
  \A C \in SUBSET Node : Knot(C) => C \cap (Elements(result) \cup Elements(queue)) = {}

VerdictInv ==
  verdict # "none" =>
    queue = <<>> /\ (verdict = "order" <=> Len(result) = Cardinality(Node))

IInv ==
  /\ TypeOK /\ InDegreeCountsMissing /\ EveryStepOnce
  /\ DependenciesTaken /\ ReleasedInOrder /\ KnotsStay /\ VerdictInv

-----------------------------------------------------------------------------
(* Lemmas on lists and counts.                                             *)

\* The entries of m's list that are not in R.
Missing(g, m, R) == {i \in DOMAIN g[m] : g[m][i] \notin R}

LEMMA GraphType ==
  ASSUME NEW g \in DepLists
  PROVE  g \in [Node -> Seq(Node)]
BY DepListsAssumption

LEMMA ElementsType ==
  ASSUME NEW s \in Seq(Node)
  PROVE  Elements(s) \subseteq Node
BY DEF Elements

\* The positions of a list with a property are finitely many.
LEMMA PositionsFinite ==
  ASSUME NEW s \in Seq(Node), NEW P, P \subseteq DOMAIN s
  PROVE  IsFiniteSet(P) /\ Cardinality(P) \in Nat
<1>1. Len(s) \in Nat /\ DOMAIN s = 1..Len(s)
  OBVIOUS
<1>2. IsFiniteSet(1..Len(s))
  BY <1>1, FS_Interval
<1>3. IsFiniteSet(P)
  BY <1>1, <1>2, FS_Subset
<1>4. QED
  BY <1>3, FS_CardinalityType

LEMMA OccurrencesType ==
  ASSUME NEW g \in DepLists, NEW m \in Node, NEW n \in Node
  PROVE  Occurrences(g, m, n) \in Nat
<1>1. g[m] \in Seq(Node)
  BY GraphType
<1>2. QED
  BY <1>1, PositionsFinite DEF Occurrences

\* Taking n takes from the missing entries of m's list those that name n.
LEMMA CountSplits ==
  ASSUME NEW g \in DepLists, NEW m \in Node, NEW n \in Node, NEW R, n \notin R
  PROVE  /\ Cardinality(Missing(g, m, R)) \in Nat
         /\ Cardinality(Missing(g, m, R \cup {n})) \in Nat
         /\ Cardinality(Missing(g, m, R \cup {n}))
              = Cardinality(Missing(g, m, R)) - Occurrences(g, m, n)
<1> DEFINE All == Missing(g, m, R)
           Rest == Missing(g, m, R \cup {n})
           Named == {i \in DOMAIN g[m] : g[m][i] = n}
<1>1. g[m] \in Seq(Node)
  BY GraphType
<1>2. /\ IsFiniteSet(All) /\ Cardinality(All) \in Nat
      /\ IsFiniteSet(Rest) /\ Cardinality(Rest) \in Nat
      /\ IsFiniteSet(Named) /\ Cardinality(Named) \in Nat
  BY <1>1, PositionsFinite DEF Missing
<1>3. All = Rest \cup Named /\ Rest \cap Named = {}
  BY DEF Missing
<1>4. Occurrences(g, m, n) = Cardinality(Named)
  BY DEF Occurrences
<1> HIDE DEF All, Rest, Named
<1>5. Cardinality(Rest \cup Named)
        = Cardinality(Rest) + Cardinality(Named) - Cardinality(Rest \cap Named)
  BY <1>2, FS_Union
<1>6. Cardinality(Rest \cap Named) = 0
  BY <1>3, FS_EmptySet
<1>7. Cardinality(Rest) = Cardinality(All) - Cardinality(Named)
  BY <1>2, <1>3, <1>5, <1>6
<1>8. QED
  BY <1>2, <1>4, <1>7 DEF All, Rest

LEMMA NothingMissing ==
  ASSUME NEW g \in DepLists, NEW m \in Node, NEW R, Cardinality(Missing(g, m, R)) = 0
  PROVE  Elements(g[m]) \subseteq R
<1>1. g[m] \in Seq(Node)
  BY GraphType
<1>2. IsFiniteSet(Missing(g, m, R))
  BY <1>1, PositionsFinite DEF Missing
<1>3. Missing(g, m, R) = {}
  BY <1>2, FS_EmptySet
<1>4. QED
  BY <1>3 DEF Elements, Missing

LEMMA OccursMeansNamed ==
  ASSUME NEW g \in DepLists, NEW m \in Node, NEW n \in Node, Occurrences(g, m, n) # 0
  PROVE  n \in Elements(g[m])
<1> DEFINE Named == {i \in DOMAIN g[m] : g[m][i] = n}
<1>1. Cardinality(Named) # 0
  BY DEF Occurrences
<1>2. Named # {}
  BY <1>1, FS_EmptySet
<1>3. QED
  BY <1>2 DEF Elements

\* A listing of S is a sequence that holds every member of S once.
LEMMA ListingsAreLists ==
  ASSUME NEW S \in SUBSET Node, NEW q \in Listings(S)
  PROVE  q \in Seq(Node) /\ Elements(q) = S /\ Distinct(q)
<1>1. IsFiniteSet(S)
  BY NodeAssumption, FS_Subset
<1>2. Cardinality(S) \in Nat
  BY <1>1, FS_CardinalityType
<1>3. q \in [1..Cardinality(S) -> S] /\ IsPermutationOf(S, q)
  BY DEF Listings
<1>4. q \in Seq(S)
  BY <1>2, <1>3
<1>5. QED
  BY <1>3, <1>4 DEF Elements, Distinct, IsPermutationOf

LEMMA ElementsAppend ==
  ASSUME NEW s \in Seq(Node), NEW n \in Node
  PROVE  Elements(Append(s, n)) = Elements(s) \cup {n}
<1> DEFINE t == Append(s, n)
<1>1. /\ Len(t) = Len(s) + 1 /\ DOMAIN t = 1..Len(t) /\ DOMAIN s = 1..Len(s) /\ Len(s) \in Nat
      /\ t[Len(s) + 1] = n
      /\ \A i \in 1..Len(s) : t[i] = s[i]
  BY AppendProperties, LenProperties
<1>2. Elements(t) \subseteq Elements(s) \cup {n}
  BY <1>1 DEF Elements
<1>3. Elements(s) \cup {n} \subseteq Elements(t)
  BY <1>1 DEF Elements
<1>4. QED
  BY <1>2, <1>3

LEMMA ElementsConcat ==
  ASSUME NEW s \in Seq(Node), NEW t \in Seq(Node)
  PROVE  Elements(s \o t) = Elements(s) \cup Elements(t)
<1> DEFINE u == s \o t
<1>1. /\ Len(u) = Len(s) + Len(t) /\ DOMAIN u = 1..Len(u)
      /\ DOMAIN s = 1..Len(s) /\ DOMAIN t = 1..Len(t) /\ Len(s) \in Nat /\ Len(t) \in Nat
      /\ \A i \in 1..(Len(s) + Len(t)) : u[i] = IF i <= Len(s) THEN s[i] ELSE t[i - Len(s)]
  BY ConcatProperties, LenProperties
<1>2. Elements(u) \subseteq Elements(s) \cup Elements(t)
  BY <1>1 DEF Elements
<1>3. Elements(s) \subseteq Elements(u)
  BY <1>1 DEF Elements
<1>4. ASSUME NEW i \in DOMAIN t
      PROVE  t[i] \in Elements(u)
  <2>1. u[Len(s) + i] = t[i] /\ Len(s) + i \in DOMAIN u
    BY <1>1
  <2>2. QED
    BY <2>1 DEF Elements
<1>5. QED
  BY <1>2, <1>3, <1>4 DEF Elements

LEMMA DistinctConcat ==
  ASSUME NEW s \in Seq(Node), NEW t \in Seq(Node), Distinct(s), Distinct(t),
         Elements(s) \cap Elements(t) = {}
  PROVE  Distinct(s \o t)
<1> DEFINE u == s \o t
<1>1. /\ Len(u) = Len(s) + Len(t) /\ DOMAIN u = 1..Len(u)
      /\ DOMAIN s = 1..Len(s) /\ DOMAIN t = 1..Len(t) /\ Len(s) \in Nat /\ Len(t) \in Nat
      /\ \A i \in 1..(Len(s) + Len(t)) : u[i] = IF i <= Len(s) THEN s[i] ELSE t[i - Len(s)]
  BY ConcatProperties, LenProperties
<1>2. ASSUME NEW i \in DOMAIN u, NEW j \in DOMAIN u, u[i] = u[j]
      PROVE  i = j
  <2>1. CASE i <= Len(s) /\ j <= Len(s)
    BY <1>1, <1>2, <2>1 DEF Distinct
  <2>2. CASE i > Len(s) /\ j > Len(s)
    <3>1. t[i - Len(s)] = t[j - Len(s)] /\ i - Len(s) \in DOMAIN t /\ j - Len(s) \in DOMAIN t
      BY <1>1, <1>2, <2>2
    <3>2. i - Len(s) = j - Len(s)
      BY <3>1 DEF Distinct
    <3>3. QED
      BY <1>1, <3>2
  <2>3. CASE i <= Len(s) /\ j > Len(s)
    <3>1. s[i] = t[j - Len(s)] /\ i \in DOMAIN s /\ j - Len(s) \in DOMAIN t
      BY <1>1, <1>2, <2>3
    <3>2. QED
      BY <3>1 DEF Elements
  <2>4. CASE i > Len(s) /\ j <= Len(s)
    <3>1. t[i - Len(s)] = s[j] /\ i - Len(s) \in DOMAIN t /\ j \in DOMAIN s
      BY <1>1, <1>2, <2>4
    <3>2. QED
      BY <3>1 DEF Elements
  <2>5. QED
    BY <1>1, <2>1, <2>2, <2>3, <2>4
<1>3. QED
  BY <1>2 DEF Distinct

\* The head of a list without repetitions is not in its tail.
LEMMA HeadAndTail ==
  ASSUME NEW s \in Seq(Node), s # <<>>, Distinct(s)
  PROVE  /\ Head(s) \in Node /\ Tail(s) \in Seq(Node) /\ s = <<Head(s)>> \o Tail(s)
         /\ Elements(s) = Elements(Tail(s)) \cup {Head(s)}
         /\ Head(s) \notin Elements(Tail(s)) /\ Distinct(Tail(s))
<1> DEFINE t == Tail(s)
<1>1. /\ Len(s) \in Nat /\ Len(s) > 0 /\ t \in Seq(Node) /\ Len(t) = Len(s) - 1
      /\ DOMAIN s = 1..Len(s) /\ DOMAIN t = 1..Len(t)
      /\ Head(s) = s[1] /\ \A i \in 1..Len(t) : t[i] = s[i + 1]
  BY HeadTailProperties, LenProperties, EmptySeq
<1>2. Head(s) \in Node
  BY <1>1
<1>3. s = <<Head(s)>> \o t
  BY <1>1, HeadTailProperties
<1>4. Elements(s) \subseteq Elements(t) \cup {Head(s)}
  <2>1. ASSUME NEW i \in DOMAIN s, i # 1
        PROVE  s[i] \in Elements(t)
    <3>1. i - 1 \in DOMAIN t /\ t[i - 1] = s[i]
      BY <1>1, <2>1
    <3>2. QED
      BY <3>1 DEF Elements
  <2>2. QED
    BY <1>1, <2>1 DEF Elements
<1>5. Elements(t) \cup {Head(s)} \subseteq Elements(s)
  BY <1>1 DEF Elements
<1>6. Head(s) \notin Elements(t)
  BY <1>1 DEF Elements, Distinct
<1>7. Distinct(t)
  <2>1. ASSUME NEW i \in DOMAIN t, NEW j \in DOMAIN t, t[i] = t[j]
        PROVE  i = j
    <3>1. i + 1 \in DOMAIN s /\ j + 1 \in DOMAIN s /\ s[i + 1] = s[j + 1]
      BY <1>1, <2>1
    <3>2. i + 1 = j + 1
      BY <3>1 DEF Distinct
    <3>3. QED
      BY <1>1, <3>2
  <2>2. QED
    BY <2>1 DEF Distinct
<1>8. QED
  BY <1>1, <1>2, <1>3, <1>4, <1>5, <1>6, <1>7

-----------------------------------------------------------------------------
(* The initial state.                                                      *)

LEMMA InitHolds == Init => IInv
<1> SUFFICES ASSUME Init
             PROVE  IInv
  OBVIOUS
<1> DEFINE S == {n \in Node : graph[n] = <<>>}
<1>1. graph \in DepLists /\ graph \in [Node -> Seq(Node)]
  BY GraphType DEF Init
<1>2. queue \in Seq(Node) /\ Elements(queue) = S /\ Distinct(queue)
  <2>1. queue \in Listings(S) /\ S \in SUBSET Node
    BY DEF Init
  <2>2. QED
    BY <2>1, ListingsAreLists
<1>3. result = <<>> /\ result \in Seq(Node) /\ Elements(result) = {} /\ verdict = "none"
  BY DEF Init, Elements
<1>4. ASSUME NEW n \in Node
      PROVE  /\ inDegree[n] = Len(graph[n]) /\ inDegree[n] \in Nat
             /\ inDegree[n] = Cardinality(Missing(graph, n, Elements(result)))
             /\ inDegree[n] = 0 <=> graph[n] = <<>>
  <2>1. graph[n] \in Seq(Node) /\ inDegree[n] = Len(graph[n])
    BY <1>1 DEF Init, InDegrees
  <2>2. Len(graph[n]) \in Nat /\ DOMAIN graph[n] = 1..Len(graph[n])
    BY <2>1, LenProperties
  <2>3. Cardinality(1..Len(graph[n])) = Len(graph[n])
    BY <2>2, FS_Interval
  <2>4. Missing(graph, n, Elements(result)) = 1..Len(graph[n])
    BY <1>3, <2>2 DEF Missing
  <2>5. QED
    BY <2>1, <2>2, <2>3, <2>4, EmptySeq
<1>5. TypeOK
  BY <1>1, <1>2, <1>3, <1>4 DEF TypeOK, Init, InDegrees
<1>6. InDegreeCountsMissing
  BY <1>4 DEF InDegreeCountsMissing, Missing
<1>7. EveryStepOnce
  <2>1. \A n \in Node : n \in Elements(result) \cup Elements(queue) <=> inDegree[n] = 0
    BY <1>2, <1>3, <1>4
  <2>2. Elements(result) \cap Elements(queue) = {}
    BY <1>3
  <2>3. Distinct(result)
    BY <1>3 DEF Distinct
  <2>4. QED
    BY <1>2, <2>1, <2>2, <2>3 DEF EveryStepOnce, Distinct
<1>8. Order = queue
  BY <1>2, <1>3, ConcatEmptySeq DEF Order
<1>9. \A i \in DOMAIN Order : Elements(graph[Order[i]]) = {}
  BY <1>2, <1>8 DEF Elements
<1>10. DependenciesTaken /\ ReleasedInOrder
  BY <1>9 DEF DependenciesTaken, ReleasedInOrder
<1>11. KnotsStay
  <2>1. \A s \in S : Elements(graph[s]) = {}
    BY DEF Elements
  <2>2. QED
    BY <1>2, <1>3, <2>1 DEF KnotsStay, Knot
<1>12. QED
  BY <1>3, <1>5, <1>6, <1>7, <1>10, <1>11 DEF IInv, VerdictInv

-----------------------------------------------------------------------------
(* The steps.                                                              *)

LEMMA TakeStep ==
  ASSUME IInv, Take
  PROVE  IInv'
<1> DEFINE n == Head(queue)
<1>1. /\ graph \in DepLists /\ graph \in [Node -> Seq(Node)] /\ inDegree \in [Node -> Nat]
      /\ queue \in Seq(Node) /\ result \in Seq(Node) /\ verdict = "none"
      /\ Distinct(queue) /\ Distinct(result) /\ Elements(result) \cap Elements(queue) = {}
  BY GraphType DEF IInv, TypeOK, EveryStepOnce, Distinct, Take
<1>2. /\ n \in Node /\ Tail(queue) \in Seq(Node) /\ queue = <<n>> \o Tail(queue)
      /\ Elements(queue) = Elements(Tail(queue)) \cup {n}
      /\ n \notin Elements(Tail(queue)) /\ Distinct(Tail(queue))
  BY <1>1, HeadAndTail DEF Take
<1>3. PICK block \in Listings(Released(n)) : queue' = Tail(queue) \o block
  BY DEF Take, Enqueue
<1>4. block \in Seq(Node) /\ Elements(block) = Released(n) /\ Distinct(block)
  BY <1>3, ListingsAreLists DEF Released
<1>5. /\ result' = Append(result, n) /\ graph' = graph /\ verdict' = verdict
      /\ inDegree' = [m \in Node |-> inDegree[m] - Occurrences(graph, m, n)]
  BY DEF Take
<1>6. result' \in Seq(Node) /\ Elements(result') = Elements(result) \cup {n}
  BY <1>1, <1>2, <1>5, ElementsAppend, AppendProperties
<1>7. queue' \in Seq(Node) /\ Elements(queue') = Elements(Tail(queue)) \cup Released(n)
  BY <1>2, <1>3, <1>4, ElementsConcat, ConcatProperties
<1>8. n \notin Elements(result)
  BY <1>1, <1>2
<1> HIDE DEF n
<1>9. ASSUME NEW m \in Node
      PROVE  /\ inDegree[m] \in Nat /\ inDegree'[m] \in Nat
             /\ Occurrences(graph, m, n) \in Nat
             /\ inDegree'[m] = inDegree[m] - Occurrences(graph, m, n)
             /\ inDegree'[m] = Cardinality(Missing(graph, m, Elements(result')))
  <2>1. inDegree[m] = Cardinality(Missing(graph, m, Elements(result)))
    BY DEF IInv, InDegreeCountsMissing, Missing
  <2>2. /\ Cardinality(Missing(graph, m, Elements(result) \cup {n})) \in Nat
        /\ Cardinality(Missing(graph, m, Elements(result) \cup {n}))
             = Cardinality(Missing(graph, m, Elements(result))) - Occurrences(graph, m, n)
    BY <1>1, <1>2, <1>8, CountSplits
  <2>3. Occurrences(graph, m, n) \in Nat
    BY <1>1, <1>2, OccurrencesType
  <2>4. inDegree'[m] = inDegree[m] - Occurrences(graph, m, n) /\ inDegree[m] \in Nat
    BY <1>1, <1>5
  <2>5. Missing(graph, m, Elements(result')) = Missing(graph, m, Elements(result) \cup {n})
    BY <1>6
  <2>6. QED
    BY <2>1, <2>2, <2>3, <2>4, <2>5
<1>10. Released(n) = {m \in Node : inDegree[m] > 0 /\ inDegree'[m] = 0}
  <2>1. ASSUME NEW m \in Node
        PROVE  inDegree[m] = Occurrences(graph, m, n) <=> inDegree'[m] = 0
    <3>1. /\ inDegree[m] \in Nat /\ Occurrences(graph, m, n) \in Nat
          /\ inDegree'[m] = inDegree[m] - Occurrences(graph, m, n)
      BY <1>9
    <3>2. QED
      BY <3>1
  <2>2. QED
    BY <2>1 DEF Released
<1>11. TypeOK'
  <2>1. inDegree' \in [Node -> Nat]
    BY <1>5, <1>9
  <2>2. QED
    BY <1>1, <1>5, <1>6, <1>7, <2>1 DEF TypeOK
<1>12. InDegreeCountsMissing'
  BY <1>5, <1>9 DEF InDegreeCountsMissing, Missing
<1>13. \A m \in Node : m \in Elements(result) \cup Elements(queue) <=> inDegree[m] = 0
  BY DEF IInv, EveryStepOnce
<1>14. Released(n) \cap (Elements(result) \cup Elements(queue)) = {}
  BY <1>1, <1>10, <1>13
<1>15. Elements(result') \cup Elements(queue')
         = Elements(result) \cup Elements(queue) \cup Released(n)
  BY <1>2, <1>6, <1>7
<1>16. EveryStepOnce'
  <2>1. ASSUME NEW m \in Node
        PROVE  m \in Elements(result') \cup Elements(queue') <=> inDegree'[m] = 0
    <3>1. /\ inDegree[m] \in Nat /\ inDegree'[m] \in Nat /\ Occurrences(graph, m, n) \in Nat
          /\ inDegree'[m] = inDegree[m] - Occurrences(graph, m, n)
      BY <1>9
    <3>2. inDegree'[m] = 0 <=> inDegree[m] = 0 \/ m \in Released(n)
      BY <1>10, <3>1
    <3>3. QED
      BY <1>13, <1>15, <3>2
  <2>2. Elements(result') \cap Elements(queue') = {}
    BY <1>1, <1>2, <1>6, <1>7, <1>14
  <2>3. Distinct(queue')
    BY <1>2, <1>3, <1>4, <1>14, DistinctConcat
  <2>4. Distinct(result')
    <3>1. Distinct(<<n>>) /\ <<n>> \in Seq(Node) /\ Elements(<<n>>) = {n}
      BY <1>2 DEF Distinct, Elements
    <3>2. Distinct(result \o <<n>>)
      BY <1>1, <1>8, <3>1, DistinctConcat
    <3>3. result' = result \o <<n>>
      BY <1>1, <1>2, <1>5, AppendIsConcat
    <3>4. QED
      BY <3>2, <3>3
  <2>5. QED
    BY <2>1, <2>2, <2>3, <2>4 DEF EveryStepOnce, Distinct
<1>17. KnotsStay'
  <2>1. SUFFICES ASSUME NEW C \in SUBSET Node, Knot(C)', NEW m \in C,
                        m \in Elements(result') \cup Elements(queue')
                 PROVE  FALSE
    BY DEF KnotsStay
  <2>2. Knot(C)
    BY <1>5, <2>1 DEF Knot
  <2>3. C \cap (Elements(result) \cup Elements(queue)) = {}
    BY <2>2 DEF IInv, KnotsStay
  <2>4. m \in Released(n)
    BY <1>15, <2>1, <2>3
  <2>5. PICK d \in C : d \in Elements(graph[m])
    BY <2>1, <2>2 DEF Knot
  <2>6. d \in Elements(result')
    <3>1. m \in Node /\ inDegree'[m] = 0
      BY <1>10, <2>4
    <3>2. Cardinality(Missing(graph, m, Elements(result'))) = 0
      BY <1>9, <3>1
    <3>3. QED
      BY <1>1, <2>5, <3>1, <3>2, NothingMissing
  <2>7. QED
    BY <1>2, <1>6, <2>3, <2>5, <2>6
<1>18. /\ Order \in Seq(Node) /\ Order' = Order \o block /\ Order' = result' \o queue'
       /\ Order = result \o queue
  <2>1. Order' = (result \o <<n>>) \o (Tail(queue) \o block)
    BY <1>1, <1>2, <1>3, <1>5, AppendIsConcat DEF Order
  <2>2. <<n>> \in Seq(Node)
    BY <1>2
  <2>3. (result \o <<n>>) \o (Tail(queue) \o block) = ((result \o <<n>>) \o Tail(queue)) \o block
    <3> DEFINE r == result \o <<n>>
               q == Tail(queue)
    <3>1. r \in Seq(Node) /\ q \in Seq(Node)
      BY <1>1, <1>2, <2>2, ConcatProperties
    <3> HIDE DEF r, q
    <3>2. r \o (q \o block) = (r \o q) \o block
      BY ONLY <1>4, <3>1, ConcatAssociative
    <3>3. QED
      BY ONLY <3>2 DEF r, q
  <2>4. (result \o <<n>>) \o Tail(queue) = result \o queue
    <3> DEFINE h == <<n>>
               q == Tail(queue)
    <3>1. h \in Seq(Node) /\ q \in Seq(Node) /\ queue = h \o q
      BY <1>2, <2>2
    <3> HIDE DEF h, q
    <3>2. result \in Seq(Node)
      BY <1>1
    <3>3. result \o (h \o q) = (result \o h) \o q
      BY ONLY <3>1, <3>2, ConcatAssociative
    <3>4. QED
      BY ONLY <3>1, <3>3 DEF h, q
  <2>5. QED
    BY <1>1, <2>1, <2>3, <2>4, ConcatProperties DEF Order
<1>19. /\ Len(Order) = Len(result) + Len(queue) /\ Len(queue) \in Nat \ {0}
       /\ Len(result) \in Nat /\ Len(result') = Len(result) + 1 /\ Len(block) \in Nat
       /\ DOMAIN Order = 1..Len(Order) /\ DOMAIN Order' = 1..(Len(Order) + Len(block))
       /\ DOMAIN block = 1..Len(block)
       /\ \A i \in 1..Len(Order) : Order'[i] = Order[i]
       /\ \A i \in 1..Len(block) : Order'[Len(Order) + i] = block[i]
       /\ \A i \in 1..Len(result) : result'[i] = result[i]
       /\ \A i \in 1..Len(result') : Order'[i] = result'[i]
       /\ Order'[Len(result')] = n
  <2>1. Len(queue) # 0
    BY <1>1, EmptySeq DEF Take
  <2>2. /\ Len(Order) = Len(result) + Len(queue) /\ Len(queue) \in Nat \ {0}
        /\ Len(result) \in Nat /\ Len(result') = Len(result) + 1 /\ Len(block) \in Nat
        /\ DOMAIN Order = 1..Len(Order) /\ DOMAIN block = 1..Len(block)
    BY <1>1, <1>2, <1>4, <1>5, <1>18, <2>1, ConcatProperties, AppendProperties, LenProperties
  <2>3. /\ DOMAIN Order' = 1..(Len(Order) + Len(block))
        /\ \A i \in 1..Len(Order) : Order'[i] = Order[i]
        /\ \A i \in 1..Len(block) : Order'[Len(Order) + i] = block[i]
    <3> DEFINE o == Order
               p == Order'
    <3>1. o \in Seq(Node) /\ p = o \o block
      BY <1>18
    <3> HIDE DEF o, p
    <3>2. /\ p \in Seq(Node) /\ Len(p) = Len(o) + Len(block) /\ DOMAIN p = 1..Len(p)
          /\ Len(o) \in Nat /\ Len(block) \in Nat
          /\ \A i \in 1..(Len(o) + Len(block)) :
               p[i] = IF i <= Len(o) THEN o[i] ELSE block[i - Len(o)]
      BY ONLY <1>4, <3>1, ConcatProperties, LenProperties
    <3>3. /\ \A i \in 1..Len(o) : p[i] = o[i]
          /\ \A i \in 1..Len(block) : p[Len(o) + i] = block[i]
      BY ONLY <3>2
    <3>4. QED
      BY ONLY <3>2, <3>3 DEF o, p
  <2>4. /\ \A i \in 1..Len(result) : result'[i] = result[i]
        /\ result'[Len(result')] = n
    BY <1>1, <1>2, <1>5, <2>2, AppendProperties
  <2>5. \A i \in 1..Len(result') : Order'[i] = result'[i]
    BY <1>6, <1>7, <1>18, <2>2, ConcatProperties, LenProperties
  <2>6. QED
    BY <2>2, <2>3, <2>4, <2>5
\* What is at the end of the new order has just been released.
<1>20. ASSUME NEW i \in DOMAIN Order', i > Len(Order)
       PROVE  /\ Order'[i] \in Node /\ n \in Elements(graph[Order'[i]])
              /\ Elements(graph[Order'[i]]) \subseteq Elements(result')
  <2>1. Order'[i] = block[i - Len(Order)] /\ i - Len(Order) \in DOMAIN block
    BY <1>19, <1>20
  <2>2. Order'[i] \in Released(n)
    BY <1>4, <2>1 DEF Elements
  <2>3. Order'[i] \in Node /\ Occurrences(graph, Order'[i], n) # 0 /\ inDegree'[Order'[i]] = 0
    BY <1>1, <1>9, <1>10, <2>2 DEF Released
  <2>4. Cardinality(Missing(graph, Order'[i], Elements(result'))) = 0
    BY <1>9, <2>3
  <2>5. n \in Elements(graph[Order'[i]])
    BY <1>1, <1>2, <2>3, OccursMeansNamed
  <2>6. Elements(graph[Order'[i]]) \subseteq Elements(result')
    BY <1>1, <2>3, <2>4, NothingMissing
  <2>7. QED
    BY <2>3, <2>5, <2>6
<1>21. DependenciesTaken'
  <2>1. SUFFICES ASSUME NEW i \in DOMAIN Order', NEW d \in Elements(graph[Order'[i]])
                 PROVE  \E j \in 1..Len(result') : j < i /\ result'[j] = d
    BY <1>5 DEF DependenciesTaken
  <2>2. CASE i <= Len(Order)
    <3>1. i \in DOMAIN Order /\ Order'[i] = Order[i]
      BY <1>19, <2>2
    <3>2. PICK j \in 1..Len(result) : j < i /\ result[j] = d
      BY <2>1, <3>1 DEF IInv, DependenciesTaken
    <3>3. QED
      BY <1>19, <3>2
  <2>3. CASE i > Len(Order)
    <3>1. d \in Elements(result')
      BY <1>20, <2>3
    <3>2. PICK j \in DOMAIN result' : result'[j] = d
      BY <3>1 DEF Elements
    <3>3. j \in 1..Len(result') /\ j < i
      BY <1>6, <1>19, <2>3, <3>2, LenProperties
    <3>4. QED
      BY <3>2, <3>3
  <2>4. QED
    BY <1>19, <2>2, <2>3
<1>22. Distinct(Order')
  BY <1>6, <1>7, <1>16, <1>18, DistinctConcat DEF EveryStepOnce, Distinct
<1>23. ReleasedInOrder'
  <2>1. SUFFICES ASSUME NEW i \in DOMAIN Order', NEW j \in DOMAIN Order', i < j,
                        NEW k \in 1..(i - 1), Order'[k] \in Elements(graph[Order'[i]])
                 PROVE  \E m \in k..(j - 1) : Order'[m] \in Elements(graph[Order'[j]])
    BY <1>5 DEF ReleasedInOrder
  <2>2. CASE j <= Len(Order)
    <3>1. /\ i \in DOMAIN Order /\ j \in DOMAIN Order /\ Order'[i] = Order[i]
          /\ Order'[j] = Order[j] /\ Order'[k] = Order[k]
      BY <1>19, <2>1, <2>2
    <3>2. PICK m \in k..(j - 1) : Order[m] \in Elements(graph[Order[j]])
      BY <2>1, <3>1 DEF IInv, ReleasedInOrder
    <3>3. Order'[m] = Order[m]
      BY <1>19, <2>1, <2>2, <3>2
    <3>4. QED
      BY <3>1, <3>2, <3>3
  <2>3. CASE j > Len(Order)
    <3>1. n \in Elements(graph[Order'[j]])
      BY <1>20, <2>3
    <3>2. PICK x \in 1..Len(result') : x < i /\ result'[x] = Order'[k]
      BY <1>5, <1>21, <2>1 DEF DependenciesTaken
    <3>3. Order'[x] = Order'[k] /\ x \in DOMAIN Order' /\ k \in DOMAIN Order'
      BY <1>19, <2>1, <3>2
    <3>4. k = x
      BY <1>22, <3>3 DEF Distinct
    <3>5. Len(result') \in k..(j - 1)
      BY <1>19, <2>1, <2>3, <3>2, <3>4
    <3>6. QED
      BY <1>19, <3>1, <3>5
  <2>4. QED
    BY <1>19, <2>2, <2>3
<1>24. VerdictInv'
  BY <1>1, <1>5 DEF VerdictInv
<1>25. QED
  BY <1>11, <1>12, <1>16, <1>17, <1>21, <1>23, <1>24 DEF IInv

LEMMA StepPreserves == IInv /\ [Next]_vars => IInv'
<1> SUFFICES ASSUME IInv, [Next]_vars
             PROVE  IInv'
  OBVIOUS
<1>1. CASE Take
  BY <1>1, TakeStep
<1>2. ASSUME UNCHANGED <<graph, inDegree, queue, result>>, TypeOK', VerdictInv'
      PROVE  IInv'
  <2>1. graph' = graph /\ inDegree' = inDegree /\ queue' = queue /\ result' = result
    BY <1>2
  <2>2. Order' = Order
    BY <2>1 DEF Order
  <2>3. InDegreeCountsMissing'
    BY <2>1 DEF IInv, InDegreeCountsMissing
  <2>4. EveryStepOnce'
    BY <2>1 DEF IInv, EveryStepOnce
  <2>5. DependenciesTaken'
    BY <2>1, <2>2 DEF IInv, DependenciesTaken
  <2>6. ReleasedInOrder'
    BY <2>1, <2>2 DEF IInv, ReleasedInOrder
  <2>7. KnotsStay'
    BY <2>1 DEF IInv, KnotsStay, Knot
  <2>8. QED
    BY <1>2, <2>3, <2>4, <2>5, <2>6, <2>7 DEF IInv
<1>3. CASE Finish
  BY <1>2, <1>3 DEF Finish, IInv, TypeOK, VerdictInv
<1>4. CASE UNCHANGED vars
  BY <1>2, <1>4 DEF vars, IInv, TypeOK, VerdictInv
<1>5. QED
  BY <1>1, <1>3, <1>4 DEF Next

LEMMA Invariance == Spec => []IInv
<1>1. QED
  BY InitHolds, StepPreserves, PTL DEF Spec

-----------------------------------------------------------------------------
(* What follows.                                                           *)

\* A result as long as there are steps holds every step.
LEMMA FullResult ==
  ASSUME IInv
  PROVE  Len(result) = Cardinality(Node) <=> Node \subseteq Elements(result)
<1> DEFINE l == Len(result)
<1>1. /\ result \in Seq(Node) /\ l \in Nat /\ DOMAIN result = 1..l
      /\ result \in [1..l -> Node]
  BY LenProperties DEF IInv, TypeOK
<1>2. Distinct(result)
  BY DEF IInv, EveryStepOnce, Distinct
<1>3. result \in Injection(1..l, Node)
  BY <1>1, <1>2 DEF Injection, IsInjective, Distinct
<1>4. Cardinality(1..l) = Cardinality(Node) <=> result \in Surjection(1..l, Node)
  BY <1>3, NodeAssumption, FS_Injection
<1>5. Cardinality(1..l) = l
  BY <1>1, FS_Interval
<1>6. result \in Surjection(1..l, Node) <=> Node \subseteq Elements(result)
  BY <1>1 DEF Surjection, Elements
<1>7. QED
  BY <1>4, <1>5, <1>6

\* Every order that the sort returns is an order that Executor assumes of it, for any
\* graph and however the maps are walked. (dag.go:38-82)
THEOREM OrdersAreKahn == Spec => []ReturnedOrderIsKahn
<1>1. IInv => ReturnedOrderIsKahn
  <2> SUFFICES ASSUME IInv, verdict = "order"
               PROVE  IsKahnOrder(Node, DepSet(graph), result)
    BY DEF ReturnedOrderIsKahn
  <2>1. queue = <<>> /\ Len(result) = Cardinality(Node) /\ result \in Seq(Node)
    BY DEF IInv, VerdictInv, TypeOK
  <2>2. Order = result
    BY <2>1, ConcatEmptySeq DEF Order
  <2>3. DOMAIN result = 1..Len(result) /\ Len(result) \in Nat
    BY <2>1, LenProperties
  <2>4. \A i \in DOMAIN result : DepSet(graph)[result[i]] = Elements(graph[result[i]])
    BY <2>1, <2>3 DEF DepSet
  <2>5. IsPermutationOf(Node, result)
    BY <2>1, FullResult DEF IInv, EveryStepOnce, IsPermutationOf, Elements
  <2>6. ASSUME NEW i \in DOMAIN result, NEW d \in DepSet(graph)[result[i]]
        PROVE  \E j \in 1..(i - 1) : result[j] = d
    <3>1. PICK j \in 1..Len(result) : j < i /\ result[j] = d
      BY <2>2, <2>4, <2>6 DEF IInv, DependenciesTaken
    <3>2. j \in 1..(i - 1)
      BY <2>3, <2>6, <3>1
    <3>3. QED
      BY <3>1, <3>2
  <2>7. ASSUME NEW i \in DOMAIN result, NEW j \in DOMAIN result, i < j,
               NEW k \in 1..(i - 1), result[k] \in DepSet(graph)[result[i]]
        PROVE  \E m \in k..(j - 1) : result[m] \in DepSet(graph)[result[j]]
    BY <2>2, <2>4, <2>7 DEF IInv, ReleasedInOrder
  <2>8. QED
    BY <2>5, <2>6, <2>7 DEF IsKahnOrder, IsTopologicalOrder
<1>2. QED
  BY <1>1, Invariance, PTL

LEMMA VerdictFollows == IInv => VerdictIsRight
<1> SUFFICES ASSUME IInv
             PROVE  VerdictIsRight
  OBVIOUS
<1>1. \A n \in Node : DepSet(graph)[n] = Elements(graph[n])
  BY DEF DepSet
<1>2. ASSUME verdict = "order"
      PROVE  Acyclic(Node, DepSet(graph))
  <2>1. Node \subseteq Elements(result)
    BY <1>2, FullResult DEF IInv, VerdictInv
  <2>2. ASSUME NEW C \in (SUBSET Node) \ {{}}
        PROVE  \E s \in C : DepSet(graph)[s] \cap C = {}
    <3>1. ~ Knot(C)
      BY <2>1 DEF IInv, KnotsStay
    <3>2. PICK s \in C : Elements(graph[s]) \cap C = {}
      BY <3>1 DEF Knot
    <3>3. QED
      BY <1>1, <3>2
  <2>3. QED
    BY <2>2 DEF Acyclic
<1>3. ASSUME verdict = "cycle"
      PROVE  ~ Acyclic(Node, DepSet(graph))
  <2> DEFINE C == Node \ Elements(result)
  <2>1. queue = <<>> /\ Elements(queue) = {} /\ C # {}
    BY <1>3, FullResult DEF IInv, VerdictInv, Elements
  <2>2. ASSUME NEW s \in C
        PROVE  DepSet(graph)[s] \cap C # {}
    <3>1. graph \in DepLists /\ graph[s] \in Seq(Node) /\ inDegree[s] \in Nat
      BY GraphType DEF IInv, TypeOK
    <3>2. inDegree[s] # 0
      BY <2>1 DEF IInv, EveryStepOnce
    <3>3. Missing(graph, s, Elements(result)) # {}
      BY <3>2, FS_EmptySet DEF IInv, InDegreeCountsMissing, Missing
    <3>4. PICK i \in DOMAIN graph[s] : graph[s][i] \notin Elements(result)
      BY <3>3 DEF Missing
    <3>5. graph[s][i] \in C /\ graph[s][i] \in Elements(graph[s])
      BY <3>1, <3>4 DEF Elements
    <3>6. QED
      BY <1>1, <3>5
  <2>3. QED
    BY <2>1, <2>2 DEF Acyclic
<1>4. QED
  BY <1>2, <1>3 DEF VerdictIsRight

\* The sort says "cycle" exactly of the workflows that Workflow.Validate refuses as
\* cyclic, for any graph. (dag.go:77-80, workflow.go:150)
THEOREM VerdictHolds == Spec => []VerdictIsRight
<1>1. QED
  BY VerdictFollows, Invariance, PTL

\* Every variable keeps its type: no in-degree ever falls below zero, however often
\* depends_on names a step. (dag.go:69-70)
THEOREM TypeCorrect == Spec => []TypeOK
<1>1. IInv => TypeOK
  BY DEF IInv
<1>2. QED
  BY <1>1, Invariance, PTL

\* An in-degree counts the entries of depends_on that are still missing, duplicates and
\* self-references included. (dag.go:40-51, 69-70)
THEOREM InDegreesHold == Spec => []InDegreeCountsMissing
<1>1. IInv => InDegreeCountsMissing
  BY DEF IInv
<1>2. QED
  BY <1>1, Invariance, PTL

\* No step is lost and none is queued twice. (dag.go:53-75)
THEOREM StepsAreTakenOnce == Spec => []EveryStepOnce
<1>1. IInv => EveryStepOnce
  BY DEF IInv
<1>2. QED
  BY <1>1, Invariance, PTL

-----------------------------------------------------------------------------
(* The search of Validate: its inductive invariant.                        *)

SearchTypes ==
  /\ roots \in SUBSET Node /\ visiting \in SUBSET Node /\ visited \in SUBSET Node
  /\ stack \in Seq(Node) /\ passed \in [Node -> Nat]
  /\ answer \in {"none", "cycle", "acyclic"}

\* No step is forgotten, and none is done with and in progress.
StepsKept ==
  /\ visiting \cap visited = {}
  /\ \A n \in Node : n \in roots \cup visiting \cup visited

\* What a call of visit has passed in its list has been visited.
PassedAreVisited ==
  \A n \in Node : passed[n] <= Len(graph[n]) /\ \A k \in 1..passed[n] : graph[n][k] \in visited

\* From a visited step no other is reached, and no steps that wait for each other.
VisitedAreSettled ==
  /\ \A n \in visited : Elements(graph[n]) \subseteq visited
  /\ \A C \in SUBSET visited : Knot(C) => C = {}

AnswerIsRight ==
  /\ answer = "none" => verdict = "none"
  /\ answer = "cycle" => \E C \in SUBSET Node : C # {} /\ Knot(C)
  /\ answer = "acyclic" => visited = Node

SearchInv ==
  /\ SearchTypes /\ VisitingIsThePath /\ StepsKept /\ PassedAreVisited
  /\ VisitedAreSettled /\ AnswerIsRight

-----------------------------------------------------------------------------
(* The calls in progress.                                                  *)

LEMMA BelowTheLast ==
  ASSUME NEW l \in Nat, NEW i \in 1..l, NEW k \in i..l, k # l
  PROVE  k \in 1..(l - 1) /\ k + 1 \in i..l /\ k + 1 \in 1..l
OBVIOUS

LEMMA NotTheLast ==
  ASSUME NEW l \in Nat, NEW k \in 1..l, k # l
  PROVE  k \in 1..(l - 1) /\ k + 1 \in 1..l
OBVIOUS

LEMMA BeforeTheLast ==
  ASSUME NEW l \in Nat, NEW i \in 1..(l - 1)
  PROVE  i \in 1..l /\ l \in 1..l /\ i # l
OBVIOUS

LEMMA StackIs ==
  ASSUME NEW s \in Seq(Node)
  PROVE  Len(s) \in Nat /\ DOMAIN s = 1..Len(s) /\ \A i \in 1..Len(s) : s[i] \in Node
BY LenProperties

LEMMA InnermostIs ==
  ASSUME NEW s \in Seq(Node), s # <<>>
  PROVE  /\ Len(s) \in Nat \ {0} /\ Innermost(s) = s[Len(s)]
         /\ Innermost(s) \in Node /\ Innermost(s) \in Elements(s)
<1>1. Len(s) \in Nat \ {0} /\ DOMAIN s = 1..Len(s)
  BY EmptySeq, LenProperties
<1>2. Len(s) \in DOMAIN s /\ s[Len(s)] \in Node
  BY <1>1
<1>3. QED
  BY <1>1, <1>2 DEF Innermost, Elements

\* The innermost call returns; the others go on, each step still once.
LEMMA OuterIs ==
  ASSUME NEW s \in Seq(Node), s # <<>>, Distinct(s)
  PROVE  /\ Outer(s) \in Seq(Node) /\ Len(Outer(s)) = Len(s) - 1
         /\ \A i \in 1..(Len(s) - 1) : Outer(s)[i] = s[i]
         /\ Elements(Outer(s)) = Elements(s) \ {Innermost(s)}
         /\ Distinct(Outer(s))
<1> DEFINE o == Outer(s)
<1>1. Len(s) \in Nat \ {0} /\ DOMAIN s = 1..Len(s) /\ Innermost(s) = s[Len(s)]
  BY InnermostIs, StackIs
<1>2. o \in Seq(Node) /\ Len(o) = Len(s) - 1 /\ \A i \in 1..(Len(s) - 1) : o[i] = s[i]
  BY <1>1, SubSeqProperties DEF Outer
<1>3. DOMAIN o = 1..(Len(s) - 1)
  BY <1>2, LenProperties
<1>4. Distinct(o)
  BY <1>1, <1>2, <1>3 DEF Distinct
<1>5. ASSUME NEW i \in 1..(Len(s) - 1)
      PROVE  s[i] # Innermost(s) /\ i \in DOMAIN s
  BY <1>1 DEF Distinct
<1>6. Elements(o) \subseteq Elements(s) \ {Innermost(s)}
  BY <1>2, <1>3, <1>5 DEF Elements
<1>7. ASSUME NEW i \in DOMAIN s, s[i] # Innermost(s)
      PROVE  s[i] \in Elements(o)
  <2>1. i \in 1..(Len(s) - 1)
    BY <1>1, <1>7
  <2>2. QED
    BY <1>2, <1>3, <2>1 DEF Elements
<1>8. Elements(s) \ {Innermost(s)} \subseteq Elements(o)
  BY <1>7 DEF Elements
<1>9. QED
  BY <1>2, <1>4, <1>6, <1>8

\* The entry a call has come to.
Entry(n) == graph[n][passed[n] + 1]

LEMMA EntryIs ==
  ASSUME IInv, SearchInv, NEW n \in Node, passed[n] < Len(graph[n])
  PROVE  Entry(n) \in Elements(graph[n]) /\ Entry(n) \in Node
<1>1. graph[n] \in Seq(Node) /\ passed[n] \in Nat
  BY GraphType DEF IInv, TypeOK, SearchInv, SearchTypes
<1>2. passed[n] + 1 \in DOMAIN graph[n]
  BY <1>1, LenProperties
<1>3. QED
  BY <1>1, <1>2, ElementsType DEF Entry, Elements

\* A mark that is met closes a cycle: the steps from the marked one to the innermost wait
\* for each other.
LEMMA MarksCloseCycles ==
  ASSUME IInv, SearchInv, stack # <<>>, NEW t, t = Innermost(stack),
         passed[t] < Len(graph[t]), Entry(t) \in visiting
  PROVE  \E C \in SUBSET Node : C # {} /\ Knot(C)
<1>1. /\ stack \in Seq(Node) /\ visiting = Elements(stack)
      /\ \A i \in 1..(Len(stack) - 1) :
           passed[stack[i]] < Len(graph[stack[i]]) /\ Entry(stack[i]) = stack[i + 1]
  BY DEF SearchInv, SearchTypes, VisitingIsThePath, Entry
<1>2. Len(stack) \in Nat \ {0} /\ DOMAIN stack = 1..Len(stack) /\ t = stack[Len(stack)]
  BY <1>1, InnermostIs, StackIs
<1>3. PICK i \in 1..Len(stack) : stack[i] = Entry(t)
  BY <1>1, <1>2 DEF Elements
<1> DEFINE C == {stack[k] : k \in i..Len(stack)}
<1>4. C \in SUBSET Node /\ C # {}
  BY <1>1, <1>2, StackIs
<1>5. ASSUME NEW k \in i..Len(stack)
      PROVE  Elements(graph[stack[k]]) \cap C # {}
  <2>1. stack[k] \in Node
    BY <1>1, <1>2, StackIs
  <2>2. CASE k = Len(stack)
    <3>1. Entry(t) \in Elements(graph[t])
      BY <1>2, <2>1, <2>2, EntryIs
    <3>2. Entry(t) \in C
      BY <1>2, <1>3
    <3>3. QED
      BY <1>2, <2>2, <3>1, <3>2
  <2>3. CASE k # Len(stack)
    <3>1. k \in 1..(Len(stack) - 1) /\ k + 1 \in i..Len(stack)
      BY <1>2, <1>3, <2>3, BelowTheLast
    <3>2. stack[k + 1] \in Elements(graph[stack[k]])
      BY <1>1, <2>1, <3>1, EntryIs
    <3>3. stack[k + 1] \in C
      BY <3>1
    <3>4. QED
      BY <3>2, <3>3
  <2>4. QED
    BY <2>2, <2>3
<1>6. Knot(C)
  BY <1>5 DEF Knot
<1>7. QED
  BY <1>4, <1>6

\* With a step whose dependencies are all settled there is still no knot.
LEMMA SettledGrows ==
  ASSUME VisitedAreSettled, NEW n, n \notin visited, Elements(graph[n]) \subseteq visited,
         NEW C \in SUBSET (visited \cup {n}), Knot(C)
  PROVE  C = {}
<1> DEFINE D == C \ {n}
<1>1. \A s \in D : Elements(graph[s]) \subseteq visited
  BY DEF VisitedAreSettled
<1>2. Knot(D)
  <2>1. \A s \in D : Elements(graph[s]) \cap C # {}
    BY DEF Knot
  <2>2. \A s \in D : Elements(graph[s]) \cap D # {}
    BY <1>1, <2>1
  <2>3. QED
    BY <2>2 DEF Knot
<1>3. D = {}
  BY <1>2 DEF VisitedAreSettled
<1>4. n \notin C
  BY <1>3 DEF Knot
<1>5. QED
  BY <1>3, <1>4

-----------------------------------------------------------------------------
(* The steps of the search.                                                *)

\* A caller goes on when the step of its entry has been visited.
LEMMA GoesOnKeeps ==
  ASSUME IInv, SearchTypes, PassedAreVisited, NEW calls \in Seq(Node), GoesOn(calls),
         graph' = graph, visited \subseteq visited',
         calls # <<>> => /\ passed[Innermost(calls)] < Len(graph[Innermost(calls)])
                         /\ Entry(Innermost(calls)) \in visited'
  PROVE  /\ passed' \in [Node -> Nat] /\ PassedAreVisited'
         /\ \A m \in Node : calls = <<>> \/ m # Innermost(calls) => passed'[m] = passed[m]
<1>1. CASE calls = <<>>
  BY <1>1 DEF GoesOn, SearchTypes, PassedAreVisited
<1>2. CASE calls # <<>>
  <2> DEFINE t == Innermost(calls)
  <2>1. t \in Node /\ passed' = [passed EXCEPT ![t] = passed[t] + 1]
    BY <1>2, InnermostIs DEF GoesOn
  <2>2. passed[t] < Len(graph[t]) /\ graph[t][passed[t] + 1] \in visited'
    BY <1>2 DEF Entry
  <2> HIDE DEF t
  <2>3. passed' \in [Node -> Nat]
    BY <2>1 DEF SearchTypes
  <2>4. passed'[t] = passed[t] + 1 /\ \A m \in Node : m # t => passed'[m] = passed[m]
    BY <2>1 DEF SearchTypes
  <2>5. ASSUME NEW m \in Node
        PROVE  passed'[m] <= Len(graph[m]) /\ \A k \in 1..passed'[m] : graph[m][k] \in visited'
    <3>1. graph[m] \in Seq(Node) /\ passed[m] \in Nat
      BY GraphType DEF IInv, TypeOK, SearchTypes
    <3>2. Len(graph[m]) \in Nat
      BY <3>1, LenProperties
    <3>3. passed[m] <= Len(graph[m]) /\ \A k \in 1..passed[m] : graph[m][k] \in visited'
      BY DEF PassedAreVisited
    <3>4. CASE m # t
      BY <2>4, <3>3, <3>4
    <3>5. CASE m = t
      <4>1. ASSUME NEW k \in 1..(passed[m] + 1)
            PROVE  graph[m][k] \in visited'
        <5>1. k \in 1..passed[m] \/ k = passed[m] + 1
          BY <3>1
        <5>2. QED
          BY <2>2, <3>3, <3>5, <5>1
      <4>2. QED
        BY <2>2, <2>4, <3>1, <3>2, <3>5, <4>1
    <3>6. QED
      BY <3>4, <3>5
  <2>6. PassedAreVisited'
    BY <2>5 DEF PassedAreVisited
  <2>7. QED
    BY <1>2, <2>3, <2>4, <2>6 DEF t
<1>3. QED
  BY <1>1, <1>2

\* A call of visit, by the loop over the map or for the entry the innermost call has come to.
LEMMA VisitKeeps ==
  ASSUME IInv, SearchInv, answer = "none", NEW n \in Node, Visit(n), UNCHANGED vars,
         roots' \in SUBSET Node, roots \subseteq roots' \cup {n},
         stack # <<>> => /\ passed[Innermost(stack)] < Len(graph[Innermost(stack)])
                         /\ Entry(Innermost(stack)) = n
  PROVE  SearchInv'
<1>1. /\ SearchTypes /\ StepsKept /\ PassedAreVisited /\ VisitedAreSettled
      /\ stack \in Seq(Node) /\ visiting = Elements(stack) /\ Distinct(stack)
      /\ \A i \in 1..(Len(stack) - 1) :
           passed[stack[i]] < Len(graph[stack[i]]) /\ Entry(stack[i]) = stack[i + 1]
  BY DEF SearchInv, SearchTypes, VisitingIsThePath, Distinct, Entry
<1>2. Len(stack) \in Nat /\ DOMAIN stack = 1..Len(stack) /\ \A i \in 1..Len(stack) : stack[i] \in Node
  BY <1>1, StackIs
<1>3. graph' = graph /\ verdict' = verdict
  BY DEF vars
<1>4. verdict = "none"
  BY DEF SearchInv, AnswerIsRight
<1>5. CASE n \in visiting /\ answer' = "cycle" /\ UNCHANGED <<stack, visiting, visited, passed>>
  <2>1. stack # <<>>
    BY <1>1, <1>5 DEF Elements
  <2>2. PICK C \in SUBSET Node : C # {} /\ Knot(C)
    BY <1>5, <2>1, MarksCloseCycles
  <2>3. Knot(C)'
    BY <1>3, <2>2 DEF Knot
  <2>4. AnswerIsRight'
    BY <1>5, <2>2, <2>3 DEF AnswerIsRight
  <2>5. SearchTypes' /\ VisitingIsThePath' /\ PassedAreVisited'
    BY <1>1, <1>3, <1>5 DEF SearchTypes, VisitingIsThePath, PassedAreVisited, Distinct, Entry
  <2>6. StepsKept'
    BY <1>1, <1>5 DEF StepsKept
  <2>7. VisitedAreSettled'
    BY <1>1, <1>3, <1>5 DEF VisitedAreSettled, Knot
  <2>8. QED
    BY <2>4, <2>5, <2>6, <2>7 DEF SearchInv
<1>6. CASE n \in visited \ visiting /\ GoesOn(stack) /\ UNCHANGED <<stack, visiting, visited, answer>>
  <2>1. /\ passed' \in [Node -> Nat] /\ PassedAreVisited'
        /\ \A m \in Node : stack = <<>> \/ m # Innermost(stack) => passed'[m] = passed[m]
    BY <1>1, <1>3, <1>6, GoesOnKeeps
  <2>2. ASSUME NEW i \in 1..(Len(stack) - 1)
        PROVE  passed'[stack[i]] = passed[stack[i]]
    <3>1. i \in DOMAIN stack /\ Len(stack) \in DOMAIN stack /\ i # Len(stack) /\ stack[i] \in Node
      BY <1>2, BeforeTheLast
    <3>2. stack[i] # stack[Len(stack)]
      BY <1>1, <3>1 DEF Distinct
    <3>3. QED
      BY <2>1, <3>1, <3>2 DEF Innermost
  <2>3. VisitingIsThePath'
    BY <1>1, <1>3, <1>6, <2>2 DEF VisitingIsThePath, Distinct, Entry
  <2>4. SearchTypes'
    BY <1>1, <1>6, <2>1 DEF SearchTypes
  <2>5. StepsKept'
    BY <1>1, <1>6 DEF StepsKept
  <2>6. VisitedAreSettled'
    BY <1>1, <1>3, <1>6 DEF VisitedAreSettled, Knot
  <2>7. AnswerIsRight'
    BY <1>3, <1>4, <1>6 DEF AnswerIsRight
  <2>8. QED
    BY <2>1, <2>3, <2>4, <2>5, <2>6, <2>7 DEF SearchInv
<1>7. CASE /\ n \notin visiting \cup visited /\ stack' = Append(stack, n)
           /\ visiting' = visiting \cup {n} /\ UNCHANGED <<visited, passed, answer>>
  <2>1. /\ stack' \in Seq(Node) /\ Len(stack') = Len(stack) + 1 /\ stack'[Len(stack) + 1] = n
        /\ \A i \in 1..Len(stack) : stack'[i] = stack[i]
    BY <1>1, <1>7, AppendProperties
  <2>2. DOMAIN stack' = 1..(Len(stack) + 1)
    BY <2>1, LenProperties
  <2>3. visiting' = Elements(stack')
    BY <1>1, <1>7, ElementsAppend
  <2>4. \A i, j \in DOMAIN stack' : stack'[i] = stack'[j] => i = j
    <3>1. \A i \in 1..Len(stack) : stack[i] # n
      BY <1>1, <1>2, <1>7 DEF Elements
    <3>2. \A i, j \in 1..Len(stack) : stack[i] = stack[j] => i = j
      BY <1>1, <1>2 DEF Distinct
    <3>3. \A i \in DOMAIN stack' : i \in 1..Len(stack) \/ i = Len(stack) + 1
      BY <1>2, <2>2
    <3>4. QED
      BY <2>1, <3>1, <3>2, <3>3
  <2>5. ASSUME NEW i \in 1..(Len(stack') - 1)
        PROVE  /\ passed'[stack'[i]] < Len(graph'[stack'[i]])
               /\ graph'[stack'[i]][passed'[stack'[i]] + 1] = stack'[i + 1]
    <3>1. i \in 1..Len(stack) /\ stack'[i] = stack[i]
      BY <1>2, <2>1
    <3>2. CASE i = Len(stack)
      <4>1. stack # <<>> /\ Innermost(stack) = stack[i] /\ stack'[i + 1] = n
        BY <1>2, <2>1, <3>1, <3>2, EmptySeq DEF Innermost
      <4>2. QED
        BY <1>3, <1>7, <3>1, <4>1 DEF Entry
    <3>3. CASE i # Len(stack)
      <4>1. i \in 1..(Len(stack) - 1) /\ i + 1 \in 1..Len(stack)
        BY <1>2, <3>1, <3>3, NotTheLast
      <4>2. QED
        BY <1>1, <1>3, <1>7, <2>1, <3>1, <4>1 DEF Entry
    <3>4. QED
      BY <3>2, <3>3
  <2>6. VisitingIsThePath'
    BY <2>3, <2>4, <2>5 DEF VisitingIsThePath
  <2>7. SearchTypes'
    BY <1>1, <1>7, <2>1 DEF SearchTypes
  <2>8. StepsKept'
    BY <1>1, <1>7 DEF StepsKept
  <2>9. PassedAreVisited'
    BY <1>1, <1>3, <1>7 DEF PassedAreVisited
  <2>10. VisitedAreSettled'
    BY <1>1, <1>3, <1>7 DEF VisitedAreSettled, Knot
  <2>11. AnswerIsRight'
    BY <1>3, <1>4, <1>7 DEF AnswerIsRight
  <2>12. QED
    BY <2>6, <2>7, <2>8, <2>9, <2>10, <2>11 DEF SearchInv
<1>8. QED
  BY <1>5, <1>6, <1>7 DEF Visit

LEMMA ReturnKeeps ==
  ASSUME IInv, SearchInv, Return, UNCHANGED vars
  PROVE  SearchInv'
<1> DEFINE n == Innermost(stack)
           calls == Outer(stack)
<1>1. /\ SearchTypes /\ StepsKept /\ PassedAreVisited /\ VisitedAreSettled
      /\ stack \in Seq(Node) /\ stack # <<>> /\ visiting = Elements(stack) /\ Distinct(stack)
      /\ \A i \in 1..(Len(stack) - 1) :
           passed[stack[i]] < Len(graph[stack[i]]) /\ Entry(stack[i]) = stack[i + 1]
  BY DEF Return, SearchInv, SearchTypes, VisitingIsThePath, Distinct, Entry
<1>2. Len(stack) \in Nat \ {0} /\ n = stack[Len(stack)] /\ n \in Node /\ n \in Elements(stack)
  BY <1>1, InnermostIs
<1>3. DOMAIN stack = 1..Len(stack) /\ \A i \in 1..Len(stack) : stack[i] \in Node
  BY <1>1, StackIs
<1>4. /\ calls \in Seq(Node) /\ Len(calls) = Len(stack) - 1
      /\ \A i \in 1..(Len(stack) - 1) : calls[i] = stack[i]
      /\ Elements(calls) = Elements(stack) \ {n} /\ Distinct(calls)
  BY <1>1, OuterIs
<1>5. graph' = graph /\ verdict' = verdict
  BY DEF vars
<1>6. /\ passed[n] = Len(graph[n]) /\ visiting' = visiting \ {n} /\ visited' = visited \cup {n}
      /\ stack' = calls /\ GoesOn(calls) /\ roots' = roots /\ answer' = answer /\ answer = "none"
  BY DEF Return
<1>7. Elements(graph[n]) \subseteq visited /\ n \notin visited
  <2>1. graph[n] \in Seq(Node)
    BY <1>2, GraphType DEF IInv, TypeOK
  <2>2. \A k \in 1..Len(graph[n]) : graph[n][k] \in visited
    BY <1>1, <1>2, <1>6 DEF PassedAreVisited
  <2>3. QED
    BY <1>1, <1>2, <2>1, <2>2, LenProperties DEF Elements, StepsKept
<1> HIDE DEF n, calls
\* The caller, if there is one, has come to the entry that names n.
<1>8. ASSUME calls # <<>>
      PROVE  /\ Len(stack) - 1 \in 1..(Len(stack) - 1)
             /\ Innermost(calls) = stack[Len(stack) - 1]
             /\ passed[Innermost(calls)] < Len(graph[Innermost(calls)])
             /\ Entry(Innermost(calls)) = n
  <2>1. Len(calls) \in Nat \ {0} /\ Innermost(calls) = calls[Len(calls)]
    BY <1>4, <1>8, InnermostIs
  <2>2. Len(stack) - 1 \in 1..(Len(stack) - 1) /\ (Len(stack) - 1) + 1 = Len(stack)
    BY <1>2, <1>4, <2>1
  <2>3. Innermost(calls) = stack[Len(stack) - 1]
    BY <1>4, <2>1, <2>2
  <2>4. QED
    BY <1>1, <1>2, <2>2, <2>3
<1>9. /\ passed' \in [Node -> Nat] /\ PassedAreVisited'
      /\ \A m \in Node : calls = <<>> \/ m # Innermost(calls) => passed'[m] = passed[m]
  <2>1. visited \subseteq visited' /\ n \in visited'
    BY <1>6
  <2>2. QED
    BY <1>1, <1>4, <1>5, <1>6, <1>8, <2>1, GoesOnKeeps
<1>10. VisitingIsThePath'
  <2>1. visiting' = Elements(stack')
    BY <1>1, <1>4, <1>6
  <2>2. \A i, j \in DOMAIN stack' : stack'[i] = stack'[j] => i = j
    BY <1>4, <1>6 DEF Distinct
  <2>3. ASSUME NEW i \in 1..(Len(stack') - 1)
        PROVE  /\ passed'[stack'[i]] < Len(graph'[stack'[i]])
               /\ graph'[stack'[i]][passed'[stack'[i]] + 1] = stack'[i + 1]
    <3>1. /\ i \in 1..(Len(stack) - 1) /\ i + 1 \in 1..(Len(stack) - 1)
          /\ i # Len(stack) - 1 /\ Len(stack) - 1 \in 1..Len(stack) /\ i \in 1..Len(stack)
          /\ Len(calls) # 0
      <4>1. i \in 1..((Len(stack) - 1) - 1)
        BY <1>4, <1>6
      <4>2. QED
        BY <1>2, <1>4, <4>1
    <3>2. stack'[i] = stack[i] /\ stack'[i + 1] = stack[i + 1]
      BY <1>4, <1>6, <3>1
    <3>3. calls # <<>>
      BY <1>4, <3>1, EmptySeq
    <3>4. stack[i] # Innermost(calls)
      BY <1>1, <1>3, <1>8, <3>1, <3>3 DEF Distinct
    <3>5. passed'[stack[i]] = passed[stack[i]]
      BY <1>3, <1>9, <3>1, <3>4
    <3>6. QED
      BY <1>1, <1>5, <3>1, <3>2, <3>5 DEF Entry
  <2>4. QED
    BY <2>1, <2>2, <2>3 DEF VisitingIsThePath
<1>11. SearchTypes'
  BY <1>1, <1>2, <1>4, <1>6, <1>9 DEF SearchTypes
<1>12. StepsKept'
  BY <1>1, <1>6 DEF StepsKept
<1>13. VisitedAreSettled'
  <2>1. \A m \in visited' : Elements(graph[m]) \subseteq visited'
    BY <1>1, <1>6, <1>7 DEF VisitedAreSettled
  <2>2. \A C \in SUBSET visited' : Knot(C) => C = {}
    BY <1>1, <1>6, <1>7, SettledGrows
  <2>3. QED
    BY <1>5, <2>1, <2>2 DEF VisitedAreSettled, Knot
<1>14. AnswerIsRight'
  BY <1>5, <1>6 DEF SearchInv, AnswerIsRight
<1>15. QED
  BY <1>9, <1>10, <1>11, <1>12, <1>13, <1>14 DEF SearchInv

LEMMA AcceptKeeps ==
  ASSUME SearchInv, Accept, UNCHANGED vars
  PROVE  SearchInv'
<1>1. /\ UNCHANGED <<roots, stack, visiting, visited, passed>> /\ answer' = "acyclic"
      /\ stack = <<>> /\ roots = {} /\ graph' = graph
  BY DEF Accept, vars
<1>2. visiting = {}
  BY <1>1 DEF SearchInv, VisitingIsThePath, Elements
<1>3. visited = Node
  BY <1>1, <1>2 DEF SearchInv, SearchTypes, StepsKept
<1>4. AnswerIsRight'
  BY <1>1, <1>3 DEF AnswerIsRight
<1>5. SearchTypes' /\ VisitingIsThePath' /\ StepsKept' /\ PassedAreVisited' /\ VisitedAreSettled'
  BY <1>1 DEF SearchInv, SearchTypes, VisitingIsThePath, StepsKept, PassedAreVisited,
              VisitedAreSettled, Knot
<1>6. QED
  BY <1>4, <1>5 DEF SearchInv

LEMMA SearchStep ==
  ASSUME IInv, SearchInv, SearchNext, UNCHANGED vars
  PROVE  SearchInv'
<1>1. CASE VisitRoot
  <2>1. PICK n \in roots : roots' = roots \ {n} /\ Visit(n)
    BY <1>1 DEF VisitRoot
  <2>2. /\ answer = "none" /\ stack = <<>> /\ n \in Node /\ roots' \in SUBSET Node
        /\ roots \subseteq roots' \cup {n}
    BY <1>1, <2>1 DEF VisitRoot, SearchInv, SearchTypes
  <2>3. QED
    BY <2>1, <2>2, VisitKeeps
<1>2. CASE VisitDependency
  <2> DEFINE t == Innermost(stack)
             n == Entry(t)
  <2>1. /\ answer = "none" /\ stack # <<>> /\ passed[t] < Len(graph[t]) /\ Visit(n)
        /\ roots' = roots
    BY <1>2 DEF VisitDependency, Entry
  <2>2. t \in Node
    BY <2>1, InnermostIs DEF SearchInv, SearchTypes
  <2>3. n \in Node
    BY <2>1, <2>2, EntryIs
  <2>4. roots' \in SUBSET Node /\ roots \subseteq roots' \cup {n}
    BY <2>1 DEF SearchInv, SearchTypes
  <2> HIDE DEF n
  <2>5. QED
    BY <2>1, <2>3, <2>4, VisitKeeps DEF n
<1>3. CASE Return
  BY <1>3, ReturnKeeps
<1>4. CASE Accept
  BY <1>4, AcceptKeeps
<1>5. QED
  BY <1>1, <1>2, <1>3, <1>4 DEF SearchNext

\* The sort leaves the graph and the search alone.
LEMMA SortStep ==
  ASSUME SearchInv, answer # "none", Next, UNCHANGED searchVars
  PROVE  SearchInv'
<1>1. /\ graph' = graph /\ roots' = roots /\ stack' = stack /\ visiting' = visiting
      /\ visited' = visited /\ passed' = passed /\ answer' = answer
  BY DEF Next, Take, Finish, searchVars
<1>2. AnswerIsRight'
  BY <1>1 DEF SearchInv, AnswerIsRight, Knot
<1>3. SearchTypes' /\ VisitingIsThePath' /\ StepsKept' /\ PassedAreVisited' /\ VisitedAreSettled'
  BY <1>1 DEF SearchInv, SearchTypes, VisitingIsThePath, StepsKept, PassedAreVisited,
              VisitedAreSettled, Knot
<1>4. QED
  BY <1>2, <1>3 DEF SearchInv

LEMMA SearchStarts ==
  ASSUME BothInit
  PROVE  SearchInv
<1>1. /\ roots = Node /\ stack = <<>> /\ visiting = {} /\ visited = {} /\ answer = "none"
      /\ passed = [n \in Node |-> 0] /\ verdict = "none" /\ graph \in DepLists
  BY DEF BothInit, SearchInit, Init
<1>2. stack \in Seq(Node) /\ Len(stack) = 0 /\ Elements(stack) = {}
  BY <1>1 DEF Elements
<1>3. VisitingIsThePath
  BY <1>1, <1>2 DEF VisitingIsThePath
<1>4. PassedAreVisited
  <2>1. ASSUME NEW n \in Node
        PROVE  passed[n] = 0 /\ passed[n] <= Len(graph[n])
    <3>1. Len(graph[n]) \in Nat
      BY <1>1, GraphType, LenProperties
    <3>2. QED
      BY <1>1, <3>1
  <2>2. QED
    BY <2>1 DEF PassedAreVisited
<1>5. SearchTypes /\ StepsKept /\ VisitedAreSettled /\ AnswerIsRight
  BY <1>1, <1>2 DEF SearchTypes, StepsKept, VisitedAreSettled, AnswerIsRight
<1>6. QED
  BY <1>3, <1>4, <1>5 DEF SearchInv

LEMMA BothInvariance == BothSpec => [](IInv /\ SearchInv)
<1>1. BothInit => IInv /\ SearchInv
  BY InitHolds, SearchStarts DEF BothInit
<1>2. IInv /\ SearchInv /\ [BothNext]_<<vars, searchVars>> => (IInv /\ SearchInv)'
  <2> SUFFICES ASSUME IInv, SearchInv, [BothNext]_<<vars, searchVars>>
               PROVE  IInv' /\ SearchInv'
    OBVIOUS
  <2>1. [Next]_vars
    BY DEF BothNext
  <2>2. IInv'
    BY <2>1, StepPreserves
  <2>3. CASE SearchNext /\ UNCHANGED vars
    BY <2>2, <2>3, SearchStep
  <2>4. CASE answer # "none" /\ Next /\ UNCHANGED searchVars
    BY <2>2, <2>4, SortStep
  <2>5. CASE UNCHANGED <<vars, searchVars>>
    <3>1. /\ graph' = graph /\ verdict' = verdict /\ roots' = roots /\ stack' = stack
          /\ visiting' = visiting /\ visited' = visited /\ passed' = passed /\ answer' = answer
      BY <2>5 DEF vars, searchVars
    <3>2. AnswerIsRight'
      BY <3>1 DEF SearchInv, AnswerIsRight, Knot
    <3>3. SearchTypes' /\ VisitingIsThePath' /\ StepsKept' /\ PassedAreVisited' /\ VisitedAreSettled'
      BY <3>1 DEF SearchInv, SearchTypes, VisitingIsThePath, StepsKept, PassedAreVisited,
                  VisitedAreSettled, Knot
    <3>4. QED
      BY <2>2, <3>2, <3>3 DEF SearchInv
  <2>6. QED
    BY <2>3, <2>4, <2>5 DEF BothNext
<1>3. QED
  BY <1>1, <1>2, PTL DEF BothSpec

\* The marks of the search are the calls in progress, and these are a path of the graph, for
\* any graph and in any order of the maps. (workflow.go:157-174)
THEOREM MarksHold == BothSpec => []VisitingIsThePath
<1>1. SearchInv => VisitingIsThePath
  BY DEF SearchInv
<1>2. QED
  BY <1>1, BothInvariance, PTL

\* Validate's search and the executor's sort agree on every graph: a cycle the search finds
\* is one, and where it finds none the sort orders all steps. (workflow.go:150, dag.go:77)
THEOREM AnswersAgree == BothSpec => []ValidateAgreesWithSort
<1>1. IInv /\ SearchInv => ValidateAgreesWithSort
  <2> SUFFICES ASSUME IInv, SearchInv, verdict # "none"
               PROVE  answer = "cycle" <=> verdict = "cycle"
    BY DEF ValidateAgreesWithSort
  <2>1. /\ verdict \in {"order", "cycle"} /\ answer \in {"cycle", "acyclic"}
        /\ answer = "cycle" => \E C \in SUBSET Node : C # {} /\ Knot(C)
        /\ answer = "acyclic" => visited = Node
        /\ \A C \in SUBSET visited : Knot(C) => C = {}
    BY DEF IInv, TypeOK, SearchInv, SearchTypes, AnswerIsRight, VisitedAreSettled
  <2>2. VerdictIsRight
    BY VerdictFollows
  <2>3. Acyclic(Node, DepSet(graph)) <=> \A C \in SUBSET Node : Knot(C) => C = {}
    BY DEF Acyclic, DepSet, Knot
  <2>4. QED
    BY <2>1, <2>2, <2>3 DEF VerdictIsRight
<1>2. QED
  BY <1>1, BothInvariance, PTL
=============================================================================
