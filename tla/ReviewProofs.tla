---------------------------- MODULE ReviewProofs ----------------------------
(***************************************************************************)
(* The safety properties of ReviewComments, for any jobs, settings, lists  *)
(* of comments, other people, numbers of attempts and sizes of a page.     *)
(***************************************************************************)
EXTENDS ReviewComments, FiniteSetTheorems, SequenceTheorems, TLAPS

-----------------------------------------------------------------------------
(* The inductive invariant.                                                *)

\* The provers do not know that a literal is a string.
Texts == STRING \cup {"", "0", "body"}

\* Comments as the handlers see them: each of their strings contains itself.
Notes ==
  {c \in [file : Texts, line : Texts, text : Texts] :
     c.file \in Inside[c.file] /\ c.line \in Inside[c.line] /\ c.text \in Inside[c.text]}

Entries == [file : Texts, line : Texts, text : Texts, body : SUBSET Texts,
            path : Texts, by : Job \cup {"stranger"}]

Progress == [pc : {"idle", "run", "post", "done", "failed"}, batch : Batches \cup {<<>>},
             attempt : 0..MaxAttempts, comments : Seq(Notes), existing : SUBSET Entries,
             next : Nat, posted : Nat, skipped : Nat, before : Nat, late : BOOLEAN]

TypeInv ==
  /\ setting \in Settings /\ mr \in Seq(Entries) /\ job \in [Job -> Progress]
  /\ launches \in 0..MaxLaunches /\ faults \in 0..MaxFaults /\ strangers \in 0..MaxStrangers
  /\ overlapped \in BOOLEAN

IsDuplicate(c, existing) ==
  /\ setting.dedup
  /\ IF setting.platform = "gitlab" THEN GitLabIsDuplicate(c, existing)
     ELSE GitHubIsDuplicate(c, existing)

\* The comments that an attempt has dealt with.
Turn(s) == IF s.pc = "done" THEN Len(s.comments) ELSE s.next - 1

\* Where an attempt is: it begins with nothing, and its loop is over what it has parsed.
AttemptInv(j) ==
  LET s == job[j] IN
  /\ s.next \in 1..(Len(s.comments) + 1)
  /\ Cardinality(s.existing) <= PageSize
  /\ s.late => setting.timeout
  /\ s.pc = "run" => /\ s.comments = <<>> /\ s.next = 1 /\ s.posted = 0 /\ s.skipped = 0
                     /\ s.existing = {} /\ s.batch \in Batches
  /\ s.pc = "post" => /\ setting.op = "inline" /\ s.batch \in Batches
                      /\ s.comments = Parse(s.batch) /\ s.next <= Len(s.comments)
                      /\ setting.platform = "github" => s.next = 1

Accounted(j, c) ==
  \/ \E m \in 1..Len(mr) : mr[m].by = j /\ Line(mr[m]) = c
  \/ IsDuplicate(c, job[j].existing)

AccountInv(j) ==
  LET s == job[j] IN
  (s.pc \in {"post", "done"} /\ s.comments # <<>>) =>
    /\ s.posted + s.skipped = Turn(s)
    /\ Own(j) = s.before + s.posted
    /\ \A n \in 1..Turn(s) : Accounted(j, s.comments[n])

OverlapInv == Overlap => overlapped

\* What the entries of the jobs show, where they can be recognised.
EntryOK(e) ==
  (setting.op = "inline" /\ e.by \in Job) =>
    /\ Line(e) \in Notes
    /\ setting.platform = "gitlab" /\ setting.api = "notes" => e.body = {e.file, e.line, e.text}
    /\ setting.platform = "github" => e.path = e.file /\ e.file # ""

EntriesInv == \A n \in 1..Len(mr) : EntryOK(mr[n])

\* How many entries of the jobs have the line c, how many of the first n comments are c.
Ours(c) == Cardinality({m \in 1..Len(mr) : mr[m].by \in Job /\ Line(mr[m]) = c})
Among(c, seq, n) == Cardinality({i \in 1..n : seq[i] = c})

Sheltered ==
  setting.op = "inline" /\ setting.dedup /\ Recognisable /\ ~ overlapped /\ Len(mr) <= PageSize

\* While an attempt posts, a comment that it did not find when it began is there as often
\* as the attempt has come by it.
FreshInv(j) ==
  LET s == job[j] IN
  s.pc = "post" =>
    \A n \in 1..Len(s.comments) :
      ~ IsDuplicate(s.comments[n], s.existing) =>
        Ours(s.comments[n]) <= Among(s.comments[n], s.comments, s.next - 1)

RepeatInv == Sheltered => NoneTooOften /\ \A j \in Job : FreshInv(j)

IInv ==
  /\ TypeInv /\ OverlapInv /\ EntriesInv
  /\ \A j \in Job : AttemptInv(j) /\ AccountInv(j)
  /\ RepeatInv

-----------------------------------------------------------------------------
(* Counting positions of a sequence.                                       *)

LEMMA PositionsAreFinite ==
  ASSUME NEW n \in Nat, NEW K \in SUBSET (1..n)
  PROVE  IsFiniteSet(K) /\ Cardinality(K) \in Nat /\ Cardinality(K) <= n
<1>1. IsFiniteSet(1..n) /\ Cardinality(1..n) = n
  BY FS_Interval
<1>2. QED
  BY <1>1, FS_Subset, FS_CardinalityType

\* Two sets of positions of which one is the other, moved.
LEMMA MovedPositions ==
  ASSUME NEW n \in Nat, NEW K \in SUBSET (1..n), NEW d \in Nat
  PROVE  LET M == {k + d : k \in K} IN IsFiniteSet(M) /\ Cardinality(M) = Cardinality(K)
<1> DEFINE M == {k + d : k \in K}
           f == [k \in K |-> k + d]
<1>1. IsFiniteSet(K)
  BY PositionsAreFinite
<1>2. f \in Bijection(K, M)
  BY DEF Bijection, Injection, Surjection, IsInjective
<1>3. ExistsBijection(K, M)
  BY <1>2 DEF ExistsBijection
<1>4. QED
  BY <1>1, <1>3, FS_Bijection

\* How many positions of s hold a member of S.
Count(s, S) == Cardinality({n \in 1..Len(s) : s[n] \in S})

LEMMA CountConcat ==
  ASSUME NEW E, NEW s \in Seq(E), NEW t \in Seq(E), NEW S
  PROVE  /\ Count(s, S) \in Nat /\ Count(t, S) \in Nat
         /\ Count(s \o t, S) = Count(s, S) + Count(t, S)
<1> DEFINE A == {n \in 1..Len(s) : s[n] \in S}
           B == {n \in 1..Len(t) : t[n] \in S}
           M == {k + Len(s) : k \in B}
           C == {n \in 1..Len(s \o t) : (s \o t)[n] \in S}
<1>1. /\ Len(s) \in Nat /\ Len(t) \in Nat /\ Len(s \o t) = Len(s) + Len(t)
      /\ \A i \in 1..(Len(s) + Len(t)) : (s \o t)[i] = IF i <= Len(s) THEN s[i] ELSE t[i - Len(s)]
  BY LenProperties, ConcatProperties
<1>2. C = A \cup M
  <2>1. ASSUME NEW n \in C PROVE n \in A \cup M
    <3>1. CASE n <= Len(s)
      BY <1>1, <3>1
    <3>2. CASE n > Len(s)
      <4>1. n - Len(s) \in B /\ n = (n - Len(s)) + Len(s)
        BY <1>1, <3>2
      <4>2. QED
        BY <4>1
    <3>3. QED
      BY <1>1, <3>1, <3>2
  <2>2. A \subseteq C
    BY <1>1
  <2>3. ASSUME NEW k \in B PROVE k + Len(s) \in C
    BY <1>1
  <2>4. QED
    BY <2>1, <2>2, <2>3
<1>3. A \cap M = {}
  BY <1>1
<1>4. IsFiniteSet(A) /\ Cardinality(A) \in Nat /\ IsFiniteSet(B) /\ Cardinality(B) \in Nat
  BY <1>1, PositionsAreFinite
<1>5. IsFiniteSet(M) /\ Cardinality(M) = Cardinality(B)
  BY <1>1, MovedPositions
<1>6. Cardinality(C) = Cardinality(A) + Cardinality(M) - Cardinality(A \cap M)
  BY <1>2, <1>4, <1>5, FS_Union
<1>7. Count(s, S) = Cardinality(A) /\ Count(t, S) = Cardinality(B) /\ Count(s \o t, S) = Cardinality(C)
  BY DEF Count
<1> HIDE DEF A, B, C, M
<1>8. Cardinality(A \cap M) = 0
  BY <1>3, FS_EmptySet
<1>9. Cardinality(C) = Cardinality(A) + Cardinality(B)
  BY <1>4, <1>5, <1>6, <1>8
<1>10. QED
  BY <1>4, <1>7, <1>9

LEMMA CountAll ==
  ASSUME NEW E, NEW s \in Seq(E), NEW S, \A n \in 1..Len(s) : s[n] \in S
  PROVE  Count(s, S) = Len(s)
<1> DEFINE A == {n \in 1..Len(s) : s[n] \in S}
<1>1. A = 1..Len(s)
  BY LenProperties
<1>2. Count(s, S) = Cardinality(A)
  BY DEF Count
<1>3. Cardinality(1..Len(s)) = Len(s)
  <2>1. Len(s) \in Nat
    BY LenProperties
  <2> DEFINE l == Len(s)
  <2> HIDE DEF l
  <2>2. Cardinality(1..l) = l
    BY <2>1, FS_Interval DEF l
  <2>3. QED
    BY <2>2 DEF l
<1> HIDE DEF A
<1>4. Cardinality(A) = Len(s)
  BY <1>1, <1>3
<1>5. QED
  BY <1>2, <1>4

LEMMA CountNone ==
  ASSUME NEW s, NEW S, \A n \in 1..Len(s) : s[n] \notin S
  PROVE  Count(s, S) = 0
<1> DEFINE A == {n \in 1..Len(s) : s[n] \in S}
<1>1. A = {}
  OBVIOUS
<1>2. Count(s, S) = Cardinality(A)
  BY DEF Count
<1>3. QED
  BY <1>1, <1>2, FS_EmptySet

-----------------------------------------------------------------------------
(* What Chosen returns.                                                    *)

LEMMA RanksAreDistinct ==
  ASSUME NEW n \in Nat, NEW K \in SUBSET (1..n)
  PROVE  /\ \A i \in K : Rank(K, i) \in 1..Cardinality(K) /\ Rank(K, i) <= i
         /\ \A i, k \in K : Rank(K, i) = Rank(K, k) => i = k
<1>1. ASSUME NEW i \in K PROVE Rank(K, i) \in 1..Cardinality(K) /\ Rank(K, i) <= i
  <2> DEFINE L == {k \in K : k <= i}
  <2>1. i \in 1..n /\ K \subseteq 1..n
    OBVIOUS
  <2>2. i \in Nat /\ L \in SUBSET (1..i) /\ L \in SUBSET K /\ i \in L
    <3>1. i \in Nat /\ i <= i
      BY <2>1
    <3>2. i \in L
      BY <3>1
    <3>3. ASSUME NEW k \in L PROVE k \in 1..i /\ k \in K
      BY <2>1
    <3> HIDE DEF L
    <3>4. QED
      BY <3>1, <3>2, <3>3
  <2>3. IsFiniteSet(K) /\ Cardinality(K) \in Nat
    BY PositionsAreFinite
  <2>4. IsFiniteSet(L) /\ Cardinality(L) \in Nat /\ Cardinality(L) <= i
    BY <2>2, PositionsAreFinite
  <2>5. Cardinality(L) <= Cardinality(K)
    BY <2>2, <2>3, FS_Subset
  <2>6. Cardinality(L) # 0
    BY <2>2, <2>4, FS_EmptySet
  <2>7. Rank(K, i) = Cardinality(L)
    BY DEF Rank
  <2> HIDE DEF L
  <2>8. QED
    BY <2>3, <2>4, <2>5, <2>6, <2>7
<1>2. ASSUME NEW i \in K, NEW k \in K, i < k PROVE Rank(K, i) # Rank(K, k)
  <2> DEFINE L == {m \in K : m <= i}
             M == {m \in K : m <= k}
  <2>1. L \in SUBSET M /\ L # M /\ M \in SUBSET (1..n)
    <3>1. k \in M /\ k \notin L
      BY <1>2
    <3>2. ASSUME NEW m \in L PROVE m \in M
      BY <1>2
    <3>3. QED
      BY <3>1, <3>2
  <2>2. Cardinality(L) # Cardinality(M)
    BY <2>1, PositionsAreFinite, FS_Subset
  <2>3. QED
    BY <2>2 DEF Rank
<1>3. ASSUME NEW i \in K, NEW k \in K, Rank(K, i) = Rank(K, k) PROVE i = k
  BY <1>2, <1>3
<1>4. QED
  BY <1>1, <1>3

\* Every number up to the size of K is the rank of one position.
LEMMA RanksAreAll ==
  ASSUME NEW n \in Nat, NEW K \in SUBSET (1..n), NEW r \in 1..Cardinality(K)
  PROVE  \E i \in K : Rank(K, i) = r
<1> DEFINE f == [i \in K |-> Rank(K, i)]
           c == Cardinality(K)
<1>1. c \in Nat
  BY PositionsAreFinite
<1>2. f \in Injection(K, 1..c)
  BY RanksAreDistinct DEF Injection, IsInjective
<1>3. IsFiniteSet(1..c) /\ Cardinality(1..c) = c
  BY <1>1, FS_Interval
<1>4. f \in Surjection(K, 1..c)
  BY <1>2, <1>3, FS_Injection
<1>5. QED
  BY <1>4 DEF Surjection

\* Chosen(s, K) is a sequence of the entries at the positions of K, each of them once.
LEMMA ChosenIs ==
  ASSUME NEW E, NEW s \in Seq(E), NEW K \in SUBSET (1..Len(s)), NEW t, t = Chosen(s, K)
  PROVE  /\ t \in Seq(E) /\ Len(t) = Cardinality(K) /\ Len(t) \in Nat /\ Len(t) <= Len(s)
         /\ \E at : \A r \in 1..Len(t) : at[r] \in K /\ t[r] = s[at[r]] /\ Rank(K, at[r]) = r
         /\ \A i \in K : Rank(K, i) \in 1..Len(t)
<1> DEFINE c == Cardinality(K)
           at == [r \in 1..c |-> CHOOSE i \in K : Rank(K, i) = r]
<1>1. Len(s) \in Nat /\ \A i \in 1..Len(s) : s[i] \in E
  BY LenProperties
<1>2. c \in Nat /\ c <= Len(s)
  BY <1>1, PositionsAreFinite
<1>3. ASSUME NEW r \in 1..c PROVE at[r] \in K /\ Rank(K, at[r]) = r
  BY <1>1, RanksAreAll
<1>4. t = [r \in 1..c |-> s[at[r]]]
  BY DEF Chosen
<1> HIDE DEF at
<1>5. t \in [1..c -> E]
  BY <1>1, <1>3, <1>4
<1>6. t \in Seq(E)
  BY <1>2, <1>5, SeqDef
<1>7. Len(t) = c
  BY <1>2, <1>5, <1>6, LenProperties
<1>8. ASSUME NEW i \in K PROVE Rank(K, i) \in 1..c
  BY <1>1, RanksAreDistinct
<1>9. \A r \in 1..Len(t) : at[r] \in K /\ t[r] = s[at[r]] /\ Rank(K, at[r]) = r
  BY <1>3, <1>4, <1>7
<1>10. QED
  BY <1>2, <1>6, <1>7, <1>8, <1>9

\* ... so that no member of S is more often in it than it is in s.
LEMMA ChosenCounts ==
  ASSUME NEW E, NEW s \in Seq(E), NEW K \in SUBSET (1..Len(s)), NEW S
  PROVE  Count(Chosen(s, K), S) <= Count(s, S)
<1>1. PICK t : t = Chosen(s, K)
  OBVIOUS
<1>2. Len(t) \in Nat /\ Len(s) \in Nat
  BY <1>1, ChosenIs, LenProperties
<1>3. PICK at : \A r \in 1..Len(t) : at[r] \in K /\ t[r] = s[at[r]] /\ Rank(K, at[r]) = r
  BY <1>1, ChosenIs
<1> DEFINE A == {n \in 1..Len(t) : t[n] \in S}
           B == {n \in 1..Len(s) : s[n] \in S}
           f == [n \in A |-> at[n]]
<1>4. f \in [A -> B] /\ \A m, n \in A : f[m] = f[n] => m = n
  BY <1>2, <1>3
<1>5. f \in Injection(A, B)
  BY <1>4 DEF Injection, IsInjective
<1>6. IsFiniteSet(B)
  BY <1>2, PositionsAreFinite
<1>7. Cardinality(A) <= Cardinality(B)
  BY <1>5, <1>6, FS_Injection
<1>8. QED
  BY <1>7, <1>1 DEF Count

-----------------------------------------------------------------------------
(* What the handlers compute: comments are notes, and lists fit a page.    *)

Items ==
  {i \in [file : STRING, line : STRING, text : STRING, quoted : BOOLEAN] :
     /\ i.file \in Inside[i.file] /\ i.line \in Inside[i.line] /\ i.text \in Inside[i.text]
     /\ "0" \in Inside["0"]}

LEMMA BatchIs ==
  ASSUME NEW batch \in Batches
  PROVE  batch \in Seq(Items)
<1> DEFINE Item == [file : STRING, line : STRING, text : STRING, quoted : BOOLEAN]
<1>1. batch \in Seq(Item)
  BY ReviewConstants
<1>2. Len(batch) \in Nat /\ batch \in [1..Len(batch) -> Item]
  BY <1>1, LenProperties
<1>3. \A n \in 1..Len(batch) : batch[n] \in Items
  BY <1>2, ReviewConstants DEF Items
<1>4. batch \in [1..Len(batch) -> Items]
  BY <1>2, <1>3
<1>5. QED
  BY <1>2, <1>4, SeqDef

LEMMA NotesOf ==
  ASSUME NEW kept \in Seq(Items)
  PROVE  /\ [n \in 1..Len(kept) |->
               [file |-> kept[n].file, line |-> kept[n].line, text |-> kept[n].text]] \in Seq(Notes)
         /\ [n \in 1..Len(kept) |->
               [file |-> kept[n].file, line |-> getInt(kept[n]), text |-> kept[n].text]] \in Seq(Notes)
<1> DEFINE plain(n) == [file |-> kept[n].file, line |-> kept[n].line, text |-> kept[n].text]
           read(n) == [file |-> kept[n].file, line |-> getInt(kept[n]), text |-> kept[n].text]
<1>1. Len(kept) \in Nat /\ \A n \in 1..Len(kept) : kept[n] \in Items
  BY LenProperties
<1>2. ASSUME NEW n \in 1..Len(kept) PROVE plain(n) \in Notes /\ read(n) \in Notes
  <2>1. kept[n] \in Items
    BY <1>1
  <2>2. getInt(kept[n]) \in {kept[n].line, "0"}
    BY DEF getInt
  <2>3. /\ kept[n].file \in Texts /\ kept[n].line \in Texts /\ kept[n].text \in Texts
        /\ kept[n].file \in Inside[kept[n].file] /\ kept[n].line \in Inside[kept[n].line]
        /\ kept[n].text \in Inside[kept[n].text]
        /\ "0" \in Texts /\ "0" \in Inside["0"]
    BY <2>1 DEF Items, Texts
  <2>4. getInt(kept[n]) \in Texts /\ getInt(kept[n]) \in Inside[getInt(kept[n])]
    BY <2>2, <2>3, Zenon
  <2>5. QED
    BY <2>3, <2>4 DEF Notes
<1>3. /\ [n \in 1..Len(kept) |-> plain(n)] \in [1..Len(kept) -> Notes]
      /\ [n \in 1..Len(kept) |-> read(n)] \in [1..Len(kept) -> Notes]
  BY <1>2
<1>4. QED
  BY <1>1, <1>3, SeqDef

LEMMA ParseIs ==
  ASSUME NEW batch \in Batches
  PROVE  Parse(batch) \in Seq(Notes)
<1>1. batch \in Seq(Items)
  BY BatchIs
<1>2. OnlyComplete(batch) \in Seq(Items)
  <2> DEFINE K == {n \in 1..Len(batch) : Complete(batch[n])}
  <2>1. K \in SUBSET (1..Len(batch))
    OBVIOUS
  <2>2. Chosen(batch, K) \in Seq(Items)
    BY <1>1, <2>1, ChosenIs
  <2>3. QED
    BY <2>2 DEF OnlyComplete
<1>3. parseTextComments(batch) \in Seq(Notes)
  BY <1>2, NotesOf DEF parseTextComments
<1>4. parseJSONComments(batch) \in Seq(Notes)
  BY <1>1, <1>2, NotesOf DEF parseJSONComments
<1>5. <<>> \in Seq(Notes)
  BY EmptySeq
<1>6. QED
  BY <1>3, <1>4, <1>5 DEF Parse

LEMMA EntriesAt ==
  ASSUME NEW n \in Nat, NEW K \in SUBSET (1..n), NEW s
  PROVE  LET T == {s[k] : k \in K} IN
         Cardinality(T) \in Nat /\ Cardinality(T) <= Cardinality(K)
<1> DEFINE T == {s[k] : k \in K}
           f == [k \in K |-> s[k]]
<1>1. IsFiniteSet(K)
  BY PositionsAreFinite
<1>2. f \in Surjection(K, T)
  BY DEF Surjection
<1>3. QED
  BY <1>1, <1>2, FS_Surjection, FS_CardinalityType

LEMMA ListsFitAPage ==
  ASSUME mr \in Seq(Entries)
  PROVE  /\ GetMRNotes \subseteq Entries /\ Cardinality(GetMRNotes) <= PageSize
         /\ GetPRReviewComments \subseteq Entries /\ Cardinality(GetPRReviewComments) <= PageSize
<1> DEFINE N == Len(mr)
<1>1. N \in Nat /\ PageSize \in Nat \ {0} /\ \A n \in 1..N : mr[n] \in Entries
  BY LenProperties, ReviewConstants
<1> HIDE DEF N
<1>2. GetMRNotes \subseteq Entries /\ Cardinality(GetMRNotes) <= PageSize
  <2> DEFINE K == {m \in 1..N : m > N - PageSize}
             L == (N - PageSize + 1)..N
  <2>1. GetMRNotes = {mr[k] : k \in K}
    BY DEF GetMRNotes, N
  <2>2. K \in SUBSET (1..N) /\ K \in SUBSET L
    BY <1>1
  <2>3. IsFiniteSet(L) /\ Cardinality(L) = PageSize
    BY <1>1, FS_Interval
  <2> HIDE DEF K, L
  <2>4. Cardinality(K) <= PageSize /\ Cardinality(K) \in Nat
    BY <1>1, <2>2, <2>3, FS_Subset, PositionsAreFinite
  <2> DEFINE T == {mr[k] : k \in K}
  <2>5. Cardinality(T) \in Nat /\ Cardinality(T) <= Cardinality(K)
    BY <1>1, <2>2, EntriesAt
  <2>6. GetMRNotes \subseteq Entries
    BY <1>1, <2>1, <2>2
  <2>7. QED
    BY <1>1, <2>1, <2>4, <2>5, <2>6
<1>3. GetPRReviewComments \subseteq Entries /\ Cardinality(GetPRReviewComments) <= PageSize
  <2> DEFINE R == {n \in 1..N : mr[n].path # ""}
             K == {m \in R : Rank(R, m) <= PageSize}
             f == [k \in K |-> Rank(R, k)]
  <2>1. GetPRReviewComments = {mr[k] : k \in K}
    BY DEF GetPRReviewComments, N
  <2>2. K \in SUBSET (1..N) /\ K \in SUBSET R /\ R \in SUBSET (1..N)
    BY <1>1
  <2>3. \A k \in K : Rank(R, k) <= PageSize
    OBVIOUS
  <2> HIDE DEF R, K
  <2>4. /\ \A k \in R : Rank(R, k) \in 1..Cardinality(R)
        /\ \A i, k \in R : Rank(R, i) = Rank(R, k) => i = k
    BY <1>1, <2>2, RanksAreDistinct
  <2>5. Cardinality(R) \in Nat
    BY <1>1, <2>2, PositionsAreFinite
  <2>6. f \in [K -> 1..PageSize] /\ \A i, k \in K : f[i] = f[k] => i = k
    BY <1>1, <2>2, <2>3, <2>4, <2>5
  <2>7. f \in Injection(K, 1..PageSize)
    BY <2>6 DEF Injection, IsInjective
  <2>8. IsFiniteSet(1..PageSize) /\ Cardinality(1..PageSize) = PageSize
    BY <1>1, FS_Interval
  <2>9. Cardinality(K) <= PageSize
    BY <2>7, <2>8, FS_Injection
  <2> DEFINE T == {mr[k] : k \in K}
  <2>10. Cardinality(T) \in Nat /\ Cardinality(T) <= Cardinality(K) /\ Cardinality(K) \in Nat
    BY <1>1, <2>2, EntriesAt, PositionsAreFinite
  <2>11. GetPRReviewComments \subseteq Entries
    BY <1>1, <2>1, <2>2
  <2>12. QED
    BY <1>1, <2>1, <2>9, <2>10, <2>11
<1>4. QED
  BY <1>2, <1>3

-----------------------------------------------------------------------------
(* What a step that adds entries to the merge request leaves.              *)

Adds(added) == added \in Seq(Entries) /\ mr' = mr \o added /\ UNCHANGED setting

LEMMA MergeRequestGrows ==
  ASSUME mr \in Seq(Entries), NEW added, Adds(added)
  PROVE  /\ mr' \in Seq(Entries) /\ Len(mr) \in Nat /\ Len(added) \in Nat
         /\ Len(mr') = Len(mr) + Len(added)
         /\ \A n \in 1..Len(mr) : mr'[n] = mr[n]
         /\ \A n \in 1..Len(added) : mr'[Len(mr) + n] = added[n]
         /\ \A n \in 1..Len(mr') : n \in 1..Len(mr) \/ n - Len(mr) \in 1..Len(added)
<1>1. added \in Seq(Entries) /\ mr' = mr \o added
  BY DEF Adds
<1>2. Len(mr) \in Nat /\ Len(added) \in Nat
  BY <1>1, LenProperties
<1>3. /\ mr \o added \in Seq(Entries) /\ Len(mr \o added) = Len(mr) + Len(added)
      /\ \A i \in 1..(Len(mr) + Len(added)) :
           (mr \o added)[i] = IF i <= Len(mr) THEN mr[i] ELSE added[i - Len(mr)]
  BY <1>1, ConcatProperties
<1>4. QED
  BY <1>1, <1>2, <1>3

By(j) == {e \in Entries : e.by = j}
Mine(c) == {e \in Entries : e.by \in Job /\ Line(e) = c}

LEMMA OwnIsACount ==
  ASSUME NEW m \in Seq(Entries)
  PROVE  /\ \A j : Cardinality({n \in 1..Len(m) : m[n].by = j}) = Count(m, By(j))
         /\ \A c : Cardinality({n \in 1..Len(m) : m[n].by \in Job /\ Line(m[n]) = c})
                     = Count(m, Mine(c))
<1>1. \A n \in 1..Len(m) : m[n] \in Entries
  BY LenProperties
<1>2. ASSUME NEW j
      PROVE  Cardinality({n \in 1..Len(m) : m[n].by = j}) = Count(m, By(j))
  <2>1. {n \in 1..Len(m) : m[n].by = j} = {n \in 1..Len(m) : m[n] \in By(j)}
    BY <1>1 DEF By
  <2>2. QED
    BY <2>1, Zenon DEF Count
<1>3. ASSUME NEW c
      PROVE  Cardinality({n \in 1..Len(m) : m[n].by \in Job /\ Line(m[n]) = c})
               = Count(m, Mine(c))
  <2>1. {n \in 1..Len(m) : m[n].by \in Job /\ Line(m[n]) = c}
          = {n \in 1..Len(m) : m[n] \in Mine(c)}
    BY <1>1 DEF Mine
  <2>2. QED
    BY <2>1, Zenon DEF Count
<1>4. QED
  BY <1>2, <1>3

LEMMA CountsGrow ==
  ASSUME mr \in Seq(Entries), NEW added, Adds(added)
  PROVE  /\ \A j : Own(j)' = Own(j) + Count(added, By(j)) /\ Own(j) \in Nat
         /\ \A c : Ours(c)' = Ours(c) + Count(added, Mine(c)) /\ Ours(c) \in Nat
<1>1. mr' \in Seq(Entries) /\ mr' = mr \o added /\ added \in Seq(Entries)
  BY MergeRequestGrows DEF Adds
<1>2. ASSUME NEW j PROVE Own(j)' = Own(j) + Count(added, By(j)) /\ Own(j) \in Nat
  <2>1. Own(j) = Count(mr, By(j)) /\ Own(j)' = Count(mr', By(j))
    BY <1>1, OwnIsACount, Zenon DEF Own
  <2>2. QED
    BY <1>1, <2>1, CountConcat
<1>3. ASSUME NEW c PROVE Ours(c)' = Ours(c) + Count(added, Mine(c)) /\ Ours(c) \in Nat
  <2>1. Ours(c) = Count(mr, Mine(c)) /\ Ours(c)' = Count(mr', Mine(c))
    BY <1>1, OwnIsACount, Zenon DEF Ours
  <2>2. QED
    BY <1>1, <2>1, CountConcat
<1>4. QED
  BY <1>2, <1>3

\* The settings never change, nor what is computed from them.
LEMMA SettingsStay ==
  ASSUME UNCHANGED setting
  PROVE  /\ \A batch : Parse(batch)' = Parse(batch)
         /\ \A c, existing : IsDuplicate(c, existing)' = IsDuplicate(c, existing)
         /\ \A e : EntryOK(e)' = EntryOK(e)
BY DEF Parse, Malformed, parseTextComments, parseJSONComments, getInt, IsDuplicate,
       GitLabIsDuplicate, GitHubIsDuplicate, EntryOK

\* Who does not move is where it was, with what it has posted.
LEMMA OthersStay ==
  ASSUME mr \in Seq(Entries), NEW added, Adds(added), NEW k \in Job,
         UNCHANGED job[k], \A n \in 1..Len(added) : added[n].by # k,
         AttemptInv(k), AccountInv(k)
  PROVE  AttemptInv(k)' /\ AccountInv(k)'
<1>1. UNCHANGED setting
  BY DEF Adds
<1>2. AttemptInv(k)'
  BY <1>1, SettingsStay DEF AttemptInv
<1>3. Own(k)' = Own(k)
  <2>1. \A n \in 1..Len(added) : added[n] \notin By(k)
    BY DEF By
  <2>2. Count(added, By(k)) = 0
    BY <2>1, CountNone
  <2>3. QED
    BY <2>2, CountsGrow
<1>4. ASSUME NEW c, Accounted(k, c) PROVE Accounted(k, c)'
  BY <1>1, <1>4, SettingsStay, MergeRequestGrows DEF Accounted, Line
<1>5. AccountInv(k)'
  BY <1>3, <1>4 DEF AccountInv, Turn
<1>6. QED
  BY <1>2, <1>5

LEMMA Bounds ==
  /\ PageSize \in Nat \ {0} /\ MaxAttempts \in Nat \ {0}
  /\ MaxLaunches \in Nat /\ MaxFaults \in Nat /\ MaxStrangers \in Nat
BY ReviewConstants

-----------------------------------------------------------------------------
(* What a step of a job must do to keep the invariant.                     *)

\* No comment that the step adds is there too often afterwards.
InMeasure(added) ==
  \A n \in 1..Len(added) : \E batch \in Batches :
    Ours(Line(added[n]))' <= Times(Line(added[n]), Parse(batch))

Keeps(j, added) ==
  /\ Adds(added) /\ \A n \in 1..Len(added) : added[n].by = j /\ EntryOK(added[n])
  /\ job' \in [Job -> Progress] /\ \A k \in Job : k # j => UNCHANGED job[k]
  /\ AttemptInv(j)' /\ AccountInv(j)'
  /\ Sheltered' => InMeasure(added) /\ FreshInv(j)'

LEMMA Nothing ==
  ASSUME mr \in Seq(Entries), UNCHANGED <<setting, mr>>
  PROVE  /\ Adds(<<>>) /\ Len(<<>>) = 0
         /\ \A j : Own(j)' = Own(j)
         /\ \A c : Ours(c)' = Ours(c)
<1>1. Adds(<<>>) /\ Len(<<>>) = 0
  BY EmptySeq, ConcatEmptySeq DEF Adds
<1>2. QED
  BY <1>1 DEF Own, Ours

LEMMA NothingFits == <<>> \in Seq(Notes) /\ Len(<<>>) = 0 /\ Cardinality({}) <= PageSize
<1>1. Cardinality({}) = 0
  BY FS_EmptySet
<1>2. PageSize \in Nat \ {0}
  BY ReviewConstants
<1>3. QED
  BY <1>1, <1>2, EmptySeq

\* An attempt begins with nothing.
Begun(s) ==
  /\ s \in Progress /\ s.pc = "run" /\ s.batch \in Batches /\ (s.late => setting.timeout)
  /\ s.comments = <<>> /\ s.next = 1 /\ s.posted = 0 /\ s.skipped = 0 /\ s.existing = {}

LEMMA StartKeeps ==
  ASSUME TypeInv, NEW j \in Job, NEW s, Begun(s), job' = [job EXCEPT ![j] = s],
         NEW added, Adds(added), \A i \in 1..Len(added) : added[i].by = j /\ EntryOK(added[i]),
         Sheltered' => InMeasure(added)
  PROVE  Keeps(j, added)
<1>1. job \in [Job -> Progress] /\ UNCHANGED setting
  BY DEF TypeInv, Adds
<1>2. <<>> \in Seq(Notes) /\ Len(<<>>) = 0 /\ Cardinality({}) <= PageSize
  BY NothingFits
<1>3. /\ s.pc = "run" /\ s.comments = <<>> /\ s.next = 1 /\ s.existing = {}
      /\ s.late => setting'.timeout
  BY <1>1 DEF Begun
<1>4. job' \in [Job -> Progress] /\ job'[j] = s /\ \A k \in Job : k # j => UNCHANGED job[k]
  BY <1>1 DEF Begun
<1>5. AttemptInv(j)'
  <2>1. Cardinality(s.existing) <= PageSize
    BY <1>2, <1>3, Zenon
  <2>2. s.next \in 1..(Len(s.comments) + 1)
    BY <1>2, <1>3
  <2>3. QED
    BY <1>3, <1>4, <2>1, <2>2 DEF AttemptInv, Begun
<1>6. AccountInv(j)' /\ FreshInv(j)'
  BY <1>3, <1>4 DEF AccountInv, FreshInv
<1>7. QED
  BY <1>4, <1>5, <1>6 DEF Keeps

LEMMA KillKeeps ==
  ASSUME TypeInv, NEW j \in Job, job' = [job EXCEPT ![j] = Idle], UNCHANGED <<setting, mr>>
  PROVE  Keeps(j, <<>>)
<1>1. mr \in Seq(Entries) /\ job \in [Job -> Progress]
  BY DEF TypeInv
<1>2. <<>> \in Seq(Notes) /\ Len(<<>>) = 0 /\ Cardinality({}) <= PageSize
  BY NothingFits
<1>3. /\ Idle.pc = "idle" /\ Idle.comments = <<>> /\ Idle.next = 1 /\ Idle.existing = {}
      /\ ~ Idle.late
  BY DEF Idle
<1>4. Idle \in Progress
  <2>1. MaxAttempts \in Nat \ {0}
    BY ReviewConstants
  <2>2. QED
    BY <1>2, <2>1 DEF Idle, Progress
<1>5. job' \in [Job -> Progress] /\ job'[j] = Idle /\ \A k \in Job : k # j => UNCHANGED job[k]
  BY <1>1, <1>4
<1>6. AttemptInv(j)'
  <2>1. Cardinality(Idle.existing) <= PageSize
    BY <1>2, <1>3, Zenon
  <2>2. Idle.next \in 1..(Len(Idle.comments) + 1)
    BY <1>2, <1>3
  <2>3. QED
    BY <1>3, <1>5, <2>1, <2>2 DEF AttemptInv
<1>7. AccountInv(j)' /\ FreshInv(j)'
  BY <1>3, <1>5 DEF AccountInv, FreshInv
<1>8. Adds(<<>>) /\ Len(<<>>) = 0
  BY <1>1, Nothing
<1>9. QED
  BY <1>5, <1>6, <1>7, <1>8 DEF Keeps, InMeasure

\* An attempt is lost; the deadline can have passed only if there is one.
Lost(j) == \E late \in BOOLEAN : (late => setting.timeout) /\ Lose(j, late)

LEMMA FailIsLoss ==
  ASSUME TypeInv, NEW j \in Job, AttemptInv(j), Fail(j)
  PROVE  Lost(j)
<1>1. job[j].late \in BOOLEAN /\ (job[j].late => setting.timeout)
  BY DEF TypeInv, Progress, AttemptInv
<1>2. PICK late \in BOOLEAN : late = job[j].late
  BY <1>1
<1>3. CASE Lose(j, job[j].late)
  <2>1. Lose(j, late)
    BY <1>2, <1>3, Zenon
  <2>2. QED
    BY <1>1, <1>2, <2>1 DEF Lost
<1>4. CASE setting.timeout /\ Lose(j, TRUE)
  BY <1>4 DEF Lost
<1>5. QED
  BY <1>3, <1>4 DEF Fail

\* The attempt fails, whether or not entries were added.
LEMMA FailKeeps ==
  ASSUME TypeInv, NEW j \in Job, Active(j), AttemptInv(j), Lost(j),
         NEW added, Adds(added), \A n \in 1..Len(added) : added[n].by = j /\ EntryOK(added[n]),
         Sheltered' => InMeasure(added)
  PROVE  Keeps(j, added)
<1>1. job \in [Job -> Progress] /\ job[j] \in Progress /\ MaxAttempts \in Nat \ {0}
  BY ReviewConstants DEF TypeInv
<1>2. job[j].batch \in Batches /\ UNCHANGED setting
  BY DEF Active, AttemptInv, Adds
<1>3. PICK late \in BOOLEAN : (late => setting.timeout) /\ Lose(j, late)
  BY DEF Lost
<1>4. CASE /\ job[j].attempt < MaxAttempts
           /\ job' = [job EXCEPT ![j] = [Idle EXCEPT !.pc = "run", !.batch = job[j].batch,
                                              !.attempt = job[j].attempt + 1, !.late = late]]
  <2>1. PICK batch \in Batches, n \in 0..MaxAttempts :
          batch = job[j].batch /\ n = job[j].attempt + 1
    BY <1>1, <1>2, <1>4 DEF Progress
  <2> DEFINE s == [Idle EXCEPT !.pc = "run", !.batch = batch, !.attempt = n, !.late = late]
  <2>2. job' = [job EXCEPT ![j] = s]
    BY <1>4, <2>1
  <2>3. Begun(s)
    BY <1>3, NothingFits DEF Begun, Idle, Progress
  <2> HIDE DEF s
  <2>4. QED
    BY <2>2, <2>3, StartKeeps
<1>5. CASE job' = [job EXCEPT ![j].pc = "failed", ![j].late = late]
  <2> DEFINE s == [job[j] EXCEPT !.pc = "failed", !.late = late]
  <2>1. s \in Progress /\ s.pc = "failed" /\ s.next = job[j].next /\ s.comments = job[j].comments
        /\ s.existing = job[j].existing /\ s.late = late
    BY <1>1 DEF Progress
  <2>2. job' = [job EXCEPT ![j] = s]
    BY <1>1, <1>5 DEF Progress
  <2> HIDE DEF s
  <2>3. job' \in [Job -> Progress] /\ job'[j] = s /\ \A k \in Job : k # j => UNCHANGED job[k]
    BY <1>1, <2>1, <2>2
  <2>4. AttemptInv(j)'
    BY <1>2, <1>3, <2>1, <2>3 DEF AttemptInv
  <2>5. AccountInv(j)' /\ FreshInv(j)'
    BY <2>1, <2>3 DEF AccountInv, FreshInv
  <2>6. QED
    BY <2>3, <2>4, <2>5 DEF Keeps
<1>6. QED
  BY <1>3, <1>4, <1>5 DEF Lose

\* The step ends with nothing to account for.
LEMMA SucceedKeeps ==
  ASSUME TypeInv, NEW j \in Job, job[j].pc = "run", AttemptInv(j), Succeed(j),
         NEW added, Adds(added), \A n \in 1..Len(added) : added[n].by = j /\ EntryOK(added[n]),
         Sheltered' => InMeasure(added)
  PROVE  Keeps(j, added)
<1> DEFINE s == [job[j] EXCEPT !.pc = "done"]
<1>1. job \in [Job -> Progress] /\ job[j] \in Progress
  BY DEF TypeInv
<1>2. /\ s \in Progress /\ s.pc = "done" /\ s.next = job[j].next /\ s.comments = job[j].comments
      /\ s.existing = job[j].existing /\ s.late = job[j].late /\ UNCHANGED setting
  BY <1>1 DEF Progress, Adds
<1>3. job' = [job EXCEPT ![j] = s]
  BY <1>1 DEF Succeed, Progress
<1> HIDE DEF s
<1>4. job' \in [Job -> Progress] /\ job'[j] = s /\ \A k \in Job : k # j => UNCHANGED job[k]
  BY <1>1, <1>2, <1>3
<1>5. AttemptInv(j)' /\ s.comments = <<>>
  BY <1>2, <1>4 DEF AttemptInv
<1>6. AccountInv(j)' /\ FreshInv(j)'
  BY <1>2, <1>4, <1>5 DEF AccountInv, FreshInv
<1>7. QED
  BY <1>4, <1>5, <1>6 DEF Keeps

-----------------------------------------------------------------------------
(* The loops.                                                              *)

LEMMA OwnGrows ==
  ASSUME mr \in Seq(Entries), NEW added, Adds(added), NEW j \in Job,
         \A n \in 1..Len(added) : added[n].by = j
  PROVE  Own(j)' = Own(j) + Len(added) /\ Own(j) \in Nat /\ Len(added) \in Nat
<1>1. added \in Seq(Entries) /\ Len(added) \in Nat /\ \A n \in 1..Len(added) : added[n] \in Entries
  BY LenProperties DEF Adds
<1>2. Count(added, By(j)) = Len(added)
  BY <1>1, CountAll DEF By
<1>3. QED
  BY <1>1, <1>2, CountsGrow

\* What was accounted for stays so.
LEMMA AccountedStays ==
  ASSUME mr \in Seq(Entries), NEW added, Adds(added), NEW j \in Job,
         job'[j].existing = job[j].existing, NEW c, Accounted(j, c)
  PROVE  Accounted(j, c)'
BY SettingsStay, MergeRequestGrows DEF Accounted, Line, Adds

\* What was posted is accounted for.
LEMMA PostedIsAccounted ==
  ASSUME mr \in Seq(Entries), NEW added, Adds(added), NEW j \in Job, NEW n \in 1..Len(added),
         added[n].by = j
  PROVE  Accounted(j, Line(added[n]))'
<1>1. mr'[Len(mr) + n] = added[n] /\ Len(mr) + n \in 1..Len(mr')
  BY MergeRequestGrows
<1>2. QED
  BY <1>1 DEF Accounted, Line

\* The arithmetic of a turn of the loop.
LEMMA SumIsNat == \A x \in Nat, y \in Nat : x + y \in Nat
OBVIOUS

LEMMA SumsAssociate == \A x \in Nat, y \in Nat, z \in Nat : (x + y) + z = x + (y + z)
OBVIOUS

LEMMA NextPosition ==
  \A n \in Nat, len \in Nat : n \in 1..len =>
    n + 1 \in Nat /\ n + 1 \in 1..(len + 1) /\ (n # len => n + 1 <= len)
OBVIOUS

LEMMA AdvanceKeeps ==
  ASSUME TypeInv, NEW j \in Job, job[j].pc = "post", setting.platform = "gitlab",
         AttemptInv(j), AccountInv(j),
         NEW posted \in {0, 1}, NEW skipped \in {0, 1}, posted + skipped = 1,
         Advance(j, posted, skipped), NEW comments, comments = job[j].comments,
         NEW next, next = job[j].next,
         NEW added, Adds(added), \A n \in 1..Len(added) : added[n].by = j /\ EntryOK(added[n]),
         Len(added) = posted, Accounted(j, comments[next])',
         Sheltered' =>
           /\ InMeasure(added)
           /\ \A n \in 1..Len(comments) :
                ~ IsDuplicate(comments[n], job[j].existing) =>
                  Ours(comments[n])' <= Among(comments[n], comments, next)
  PROVE  Keeps(j, added)
<1> DEFINE s == job[j]
           end == IF next = Len(comments) THEN "done" ELSE "post"
           t == [s EXCEPT !.next = next + 1, !.posted = s.posted + posted,
                          !.skipped = s.skipped + skipped, !.pc = end]
<1>1. job \in [Job -> Progress] /\ s \in Progress /\ mr \in Seq(Entries)
  BY DEF TypeInv
<1>2. job' = [job EXCEPT ![j] = t]
  BY <1>1 DEF Advance, Progress
<1>3. end \in {"done", "post"}
  OBVIOUS
<1>4. /\ next \in Nat /\ s.posted \in Nat /\ s.skipped \in Nat /\ s.before \in Nat
      /\ Len(comments) \in Nat /\ comments \in Seq(Notes)
  BY <1>1, LenProperties DEF Progress
<1>5. posted \in Nat /\ skipped \in Nat /\ posted + skipped = 1
  OBVIOUS
<1> HIDE DEF end
<1>6. /\ t \in Progress
       /\ t.next = next + 1 /\ t.posted = s.posted + posted /\ t.skipped = s.skipped + skipped
       /\ t.pc = end /\ t.comments = comments
       /\ t.existing = s.existing /\ t.batch = s.batch /\ t.before = s.before
       /\ t.late = s.late
  <2> DEFINE nx == next + 1
             po == s.posted + posted
             sk == s.skipped + skipped
  <2>1. nx \in Nat /\ po \in Nat /\ sk \in Nat
    <3>1. 1 \in Nat
      OBVIOUS
    <3>2. QED
      BY <1>4, <1>5, <3>1, SumIsNat, Zenon
  <2>2. t = [s EXCEPT !.next = nx, !.posted = po, !.skipped = sk, !.pc = end]
    OBVIOUS
  <2> HIDE DEF nx, po, sk, t
  <2>3. /\ t \in Progress
        /\ t.next = nx /\ t.posted = po /\ t.skipped = sk
        /\ t.pc = end /\ t.comments = s.comments
        /\ t.existing = s.existing /\ t.batch = s.batch /\ t.before = s.before
        /\ t.late = s.late
    BY <1>1, <1>3, <2>1, <2>2 DEF Progress
  <2>4. QED
    BY <2>3 DEF nx, po, sk
<1>7. /\ next \in 1..Len(comments) /\ Cardinality(s.existing) <= PageSize
      /\ setting.op = "inline" /\ s.batch \in Batches /\ comments = Parse(s.batch)
      /\ comments # <<>> /\ (s.late => setting.timeout)
  <2>1. next <= Len(comments) /\ next \in 1..(Len(comments) + 1)
    BY DEF AttemptInv
  <2>2. comments # <<>>
    BY <1>4, <2>1, NothingFits
  <2>3. QED
    BY <1>4, <2>1, <2>2 DEF AttemptInv
<1>8. UNCHANGED setting
  BY DEF Adds
<1> HIDE DEF t
<1>9. job' \in [Job -> Progress] /\ job'[j] = t /\ \A k \in Job : k # j => UNCHANGED job[k]
  BY <1>1, <1>2, <1>6
<1>10. AttemptInv(j)'
  <2>1. PICK w \in Progress : w = t
    BY <1>6
  <2>2. /\ w.next = next + 1 /\ w.pc = end /\ w.comments = comments
        /\ w.existing = s.existing /\ w.batch = s.batch /\ w.late = s.late
    BY <1>6, <2>1
  <2>3. next + 1 \in 1..(Len(comments) + 1)
    BY <1>4, <1>7, NextPosition, Zenon
  <2>4. w.pc = "post" => next + 1 <= Len(comments)
    <3>1. w.pc = "post" => next # Len(comments)
      BY <2>2 DEF end
    <3>2. QED
      BY <1>4, <1>7, <3>1, NextPosition, Zenon
  <2>5. w.pc # "run"
    BY <1>3, <2>2
  <2>6. setting.op' = "inline" /\ setting.platform' = "gitlab" /\ (w.late => setting.timeout')
    BY <1>7, <1>8, <2>2
  <2>7. w.batch \in Batches /\ w.comments = Parse(w.batch)'
    BY <1>7, <1>8, <2>2, SettingsStay
  <2>8. Cardinality(w.existing) <= PageSize
    BY <1>7, <2>2
  <2>9. w.next \in 1..(Len(w.comments) + 1) /\ (w.pc = "post" => w.next <= Len(w.comments))
    BY <2>2, <2>3, <2>4
  <2>10. job'[j] = w
    BY <1>9, <2>1
  <2>11. QED
    BY <2>5, <2>6, <2>7, <2>8, <2>9, <2>10 DEF AttemptInv
<1>11. AccountInv(j)'
  <2>1. /\ s.posted + s.skipped = next - 1 /\ Own(j) = s.before + s.posted
        /\ \A n \in 1..(next - 1) : Accounted(j, comments[n])
    BY <1>7 DEF AccountInv, Turn
  <2>2. Own(j)' = Own(j) + posted
    BY <1>1, OwnGrows
  <2>3. Own(j)' = t.before + t.posted
    <3>1. PICK p \in Nat, q \in Nat, r \in Nat : p = s.posted /\ q = s.before /\ r = posted
      BY <1>4, <1>5
    <3>2. Own(j)' = (q + p) + r
      BY <2>1, <2>2, <3>1
    <3>3. t.before = q /\ t.posted = p + r
      BY <1>6, <3>1
    <3>4. (q + p) + r = q + (p + r)
      BY SumsAssociate, Zenon
    <3>5. QED
      BY <3>2, <3>3, <3>4, Zenon
  <2>4. \A n \in 1..(next - 1) : Accounted(j, comments[n])'
    BY <1>1, <1>9, <1>6, <2>1, AccountedStays
  <2>5. \A n \in 1..next : Accounted(j, comments[n])'
    BY <1>4, <2>4
  <2>6. (IF t.pc = "done" THEN Len(t.comments) ELSE t.next - 1) = next
    BY <1>4, <1>6 DEF end
  <2>7. t.posted + t.skipped = next
    <3>1. PICK p \in Nat, k \in Nat : p = s.posted /\ k = s.skipped
      BY <1>4
    <3>2. p + k = next - 1
      BY <2>1, <3>1
    <3>3. t.posted = p + posted /\ t.skipped = k + skipped
      BY <1>6, <3>1
    <3>4. next \in Nat
      BY <1>4
    <3>5. (posted = 0 /\ skipped = 1) \/ (posted = 1 /\ skipped = 0)
      BY <1>5
    <3>6. (p + posted) + (k + skipped) = next
      <4>1. CASE posted = 0 /\ skipped = 1
        <5>1. (p + 0) + (k + 1) = next
          BY <3>2, <3>4
        <5>2. QED
          BY <4>1, <5>1
      <4>2. CASE posted = 1 /\ skipped = 0
        <5>1. (p + 1) + (k + 0) = next
          BY <3>2, <3>4
        <5>2. QED
          BY <4>2, <5>1
      <4>3. QED
        BY <3>5, <4>1, <4>2
    <3>7. QED
      BY <3>3, <3>6
  <2>8. QED
    BY <1>9, <1>6, <2>3, <2>5, <2>6, <2>7 DEF AccountInv, Turn
<1>12. Sheltered' => FreshInv(j)'
  <2>1. t.next - 1 = next
    BY <1>4, <1>6
  <2>2. PICK existing : existing = s.existing
    OBVIOUS
  <2>3. ASSUME Sheltered', NEW n \in 1..Len(comments), ~ IsDuplicate(comments[n], existing)'
        PROVE  Ours(comments[n])' <= Among(comments[n], comments, next)
    <3>1. ~ IsDuplicate(comments[n], existing)
      BY <1>8, <2>3, SettingsStay
    <3>2. QED
      BY <2>2, <2>3, <3>1
  <2>4. t.comments = comments /\ t.existing = existing /\ job'[j] = t
    BY <1>6, <1>9, <2>2
  <2>5. QED
    BY <2>1, <2>3, <2>4 DEF FreshInv, Among
<1>13. QED
  BY <1>9, <1>10, <1>11, <1>12 DEF Keeps

-----------------------------------------------------------------------------
(* Such a step keeps the invariant.                                        *)

LEMMA OftenIs ==
  NoneTooOften <=>
    \A n \in 1..Len(mr) : mr[n].by \in Job =>
      \E batch \in Batches : Ours(Line(mr[n])) <= Times(Line(mr[n]), Parse(batch))
<1> DEFINE ours == {n \in 1..Len(mr) : mr[n].by \in Job}
<1>1. ASSUME NEW c PROVE {m \in ours : Line(mr[m]) = c}
                            = {m \in 1..Len(mr) : mr[m].by \in Job /\ Line(mr[m]) = c}
  OBVIOUS
<1>2. \A c : Cardinality({m \in ours : Line(mr[m]) = c}) = Ours(c)
  BY <1>1, Zenon DEF Ours
<1>3. NoneTooOften <=>
        \A n \in ours : \E batch \in Batches :
          Cardinality({m \in ours : Line(mr[m]) = Line(mr[n])}) <= Times(Line(mr[n]), Parse(batch))
  BY Zenon DEF NoneTooOften
<1>4. NoneTooOften <=>
        \A n \in ours : \E batch \in Batches :
          Ours(Line(mr[n])) <= Times(Line(mr[n]), Parse(batch))
  BY <1>2, <1>3, Zenon
<1>5. QED
  BY <1>4

LEMMA StaysInMeasure ==
  ASSUME mr \in Seq(Entries), NEW added, Adds(added), NoneTooOften,
         \A n \in 1..Len(added) : added[n].by \in Job =>
           \E batch \in Batches : Ours(Line(added[n]))' <= Times(Line(added[n]), Parse(batch))
  PROVE  NoneTooOften'
<1>1. ASSUME NEW n \in 1..Len(mr'), mr'[n].by \in Job, NEW c, c = Line(mr'[n])
      PROVE  \E batch \in Batches : Ours(c)' <= Times(c, Parse(batch))
  <2>1. CASE \E i \in 1..Len(added) : added[i].by \in Job /\ Line(added[i]) = c
    BY <2>1
  <2>2. CASE ~ \E i \in 1..Len(added) : added[i].by \in Job /\ Line(added[i]) = c
    <3>1. \A i \in 1..Len(added) : added[i] \notin Mine(c)
      BY <2>2 DEF Mine
    <3>2. Ours(c)' = Ours(c)
      BY <3>1, CountNone, CountsGrow
    <3>3. n \in 1..Len(mr) /\ mr'[n] = mr[n]
      <4>1. n \in 1..Len(mr) \/ n - Len(mr) \in 1..Len(added)
        BY MergeRequestGrows
      <4>2. CASE n - Len(mr) \in 1..Len(added)
        <5>1. mr'[Len(mr) + (n - Len(mr))] = added[n - Len(mr)]
          BY <4>2, MergeRequestGrows
        <5>2. Len(mr) + (n - Len(mr)) = n
          BY MergeRequestGrows
        <5>3. QED
          BY <1>1, <2>2, <4>2, <5>1, <5>2
      <4>3. QED
        BY <4>1, <4>2, MergeRequestGrows
    <3>4. QED
      BY <1>1, <3>2, <3>3, OftenIs
  <2>3. QED
    BY <2>1, <2>2
<1>2. \A n \in 1..Len(mr') : mr'[n].by \in Job =>
        \E batch \in Batches : Ours(Line(mr[n]))' <= Times(Line(mr[n])', Parse(batch)')
  <2>1. \A batch : Parse(batch)' = Parse(batch)
    BY SettingsStay DEF Adds
  <2>2. SUFFICES ASSUME NEW n \in 1..Len(mr'), mr'[n].by \in Job
                 PROVE  \E batch \in Batches :
                          Ours(Line(mr[n]))' <= Times(Line(mr[n])', Parse(batch)')
    OBVIOUS
  <2>3. PICK c : c = Line(mr'[n])
    OBVIOUS
  <2>4. PICK batch \in Batches : Ours(c)' <= Times(c, Parse(batch))
    BY <1>1, <2>2, <2>3
  <2>5. Line(mr[n])' = c
    BY <2>3 DEF Line
  <2>6. Ours(Line(mr[n]))' = Ours(c)'
    BY <2>5 DEF Ours
  <2>7. QED
    BY <2>1, <2>4, <2>5, <2>6
<1>3. (NoneTooOften <=>
         \A n \in 1..Len(mr) : mr[n].by \in Job =>
           \E batch \in Batches : Ours(Line(mr[n])) <= Times(Line(mr[n]), Parse(batch)))'
  BY OftenIs, PTL
<1>4. QED
  BY <1>2, <1>3

\* Where the jobs are sheltered, they were.
LEMMA ShelterHasStood ==
  ASSUME mr \in Seq(Entries), NEW added, Adds(added), overlapped => overlapped', Sheltered'
  PROVE  Sheltered
<1>1. Len(mr) \in Nat /\ Len(mr') \in Nat /\ Len(mr) <= Len(mr') /\ PageSize \in Nat
  BY MergeRequestGrows, Bounds
<1>2. Len(mr') <= PageSize
  BY DEF Sheltered
<1>3. Len(mr) <= PageSize
  BY <1>1, <1>2
<1>4. QED
  BY <1>3 DEF Sheltered, Recognisable, Adds

LEMMA EntriesKept ==
  ASSUME mr \in Seq(Entries), NEW added, Adds(added), EntriesInv,
         \A n \in 1..Len(added) : EntryOK(added[n])
  PROVE  EntriesInv'
<1>1. UNCHANGED setting
  BY DEF Adds
<1>2. ASSUME NEW n \in 1..Len(mr'), NEW e, e = mr'[n] PROVE EntryOK(e)
  <2>1. CASE n \in 1..Len(mr)
    BY <1>2, <2>1, MergeRequestGrows DEF EntriesInv
  <2>2. CASE n - Len(mr) \in 1..Len(added)
    <3>1. mr'[Len(mr) + (n - Len(mr))] = added[n - Len(mr)]
      BY <2>2, MergeRequestGrows
    <3>2. Len(mr) + (n - Len(mr)) = n
      BY MergeRequestGrows
    <3>3. QED
      BY <1>2, <2>2, <3>1, <3>2
  <2>3. QED
    BY <2>1, <2>2, MergeRequestGrows
<1>3. ASSUME NEW n \in 1..Len(mr') PROVE EntryOK(mr[n])'
  <2>1. PICK e : e = mr'[n]
    OBVIOUS
  <2>2. EntryOK(e)
    BY <1>2, <2>1
  <2>3. QED
    BY <1>1, <2>1, <2>2 DEF EntryOK, Line
<1>4. QED
  BY <1>3 DEF EntriesInv

LEMMA KeepsIsEnough ==
  ASSUME IInv, NEW j \in Job, NEW added, Keeps(j, added), Active(j) \/ Active(j)', Observe,
         launches' \in 0..MaxLaunches, faults' \in 0..MaxFaults, strangers' \in 0..MaxStrangers
  PROVE  IInv'
<1>1. /\ TypeInv /\ mr \in Seq(Entries) /\ overlapped \in BOOLEAN /\ OverlapInv /\ EntriesInv
      /\ Adds(added) /\ UNCHANGED setting
      /\ \A n \in 1..Len(added) : added[n].by = j /\ EntryOK(added[n])
  BY DEF IInv, TypeInv, Keeps, Adds
<1>2. TypeInv'
  BY <1>1, MergeRequestGrows DEF TypeInv, Keeps, Observe
<1>3. OverlapInv'
  BY DEF OverlapInv, Observe
<1>4. EntriesInv'
  BY <1>1, EntriesKept
<1>5. ASSUME NEW k \in Job PROVE AttemptInv(k)' /\ AccountInv(k)'
  <2>1. CASE k = j
    BY <2>1 DEF Keeps
  <2>2. CASE k # j
    BY <1>1, <2>2, OthersStay DEF IInv, Keeps
  <2>3. QED
    BY <2>1, <2>2
<1>6. ASSUME Sheltered' PROVE NoneTooOften' /\ \A k \in Job : FreshInv(k)'
  <2>1. Sheltered
    BY <1>1, <1>6, ShelterHasStood DEF Observe
  <2>2. NoneTooOften /\ InMeasure(added) /\ FreshInv(j)'
    BY <1>6, <2>1 DEF IInv, RepeatInv, Keeps
  <2>3. NoneTooOften'
    BY <1>1, <2>2, StaysInMeasure DEF InMeasure
  <2>4. ASSUME NEW k \in Job, k # j PROVE FreshInv(k)'
    <3>1. job'[k] = job[k]
      BY <2>4 DEF Keeps
    <3>2. CASE job'[k].pc = "post"
      <4>1. Active(k) /\ Active(k)'
        BY <3>1, <3>2 DEF Active
      <4>2. Overlap \/ Overlap'
        BY <2>4, <4>1 DEF Overlap
      <4>3. overlapped'
        BY <1>1, <4>2 DEF OverlapInv, Observe
      <4>4. QED
        BY <1>6, <4>3 DEF Sheltered
    <3>3. QED
      BY <3>2 DEF FreshInv
  <2>5. QED
    BY <2>2, <2>3, <2>4
<1>7. QED
  BY <1>2, <1>3, <1>4, <1>5, <1>6 DEF IInv, RepeatInv

LEMMA LaunchStep ==
  ASSUME IInv, NEW j \in Job, NEW batch \in Batches, Launch(j, batch), Observe
  PROVE  IInv'
<1>1. TypeInv /\ mr \in Seq(Entries) /\ job \in [Job -> Progress]
  BY DEF IInv, TypeInv
<1>2. 1 \in 0..MaxAttempts
  BY Bounds
<1>3. Adds(<<>>) /\ Len(<<>>) = 0
  BY <1>1, Nothing DEF Launch
<1>4. Keeps(j, <<>>)
  <2>1. \A i \in 1..Len(<<>>) : FALSE
    BY <1>3
  <2> DEFINE s == [Idle EXCEPT !.pc = "run", !.batch = batch, !.attempt = 1]
  <2>2. job' = [job EXCEPT ![j] = s]
    BY DEF Launch
  <2>3. Begun(s)
    BY <1>2, NothingFits DEF Begun, Idle, Progress
  <2> HIDE DEF s
  <2>4. InMeasure(<<>>)
    BY <2>1 DEF InMeasure
  <2>5. QED
    BY <1>1, <1>3, <2>1, <2>2, <2>3, <2>4, StartKeeps
<1>5. Active(j)'
  BY <1>1 DEF Launch, Active, Idle
<1>6. launches' \in 0..MaxLaunches /\ faults' \in 0..MaxFaults /\ strangers' \in 0..MaxStrangers
  BY <1>1, Bounds DEF TypeInv, Launch
<1>7. QED
  BY <1>4, <1>5, <1>6, KeepsIsEnough

LEMMA KillStep ==
  ASSUME IInv, NEW j \in Job, Kill(j), Observe
  PROVE  IInv'
<1>1. TypeInv
  BY DEF IInv
<1>2. Keeps(j, <<>>)
  BY <1>1, KillKeeps DEF Kill
<1>3. launches' \in 0..MaxLaunches /\ faults' \in 0..MaxFaults /\ strangers' \in 0..MaxStrangers
  BY <1>1, Bounds DEF TypeInv, Kill
<1>4. QED
  BY <1>2, <1>3, KeepsIsEnough DEF Kill

LEMMA OneEntry ==
  ASSUME NEW e \in Entries
  PROVE  <<e>> \in Seq(Entries) /\ Len(<<e>>) = 1 /\ \A n \in 1..Len(<<e>>) : <<e>>[n] = e
OBVIOUS

\* Other people comment, or nothing happens at all.
LEMMA QuietStep ==
  ASSUME IInv, UNCHANGED <<setting, job, launches, overlapped>>,
         strangers' \in 0..MaxStrangers, faults' \in 0..MaxFaults,
         NEW added, Adds(added), \A n \in 1..Len(added) : added[n].by = "stranger"
  PROVE  IInv'
<1>1. TypeInv /\ mr \in Seq(Entries) /\ EntriesInv /\ "stranger" \notin Job
  BY ReviewConstants DEF IInv, TypeInv
<1>2. added \in Seq(Entries) /\ UNCHANGED setting
  BY DEF Adds
<1>3. TypeInv'
  BY <1>1, MergeRequestGrows DEF TypeInv
<1>4. OverlapInv'
  BY DEF IInv, OverlapInv, Overlap, Active
<1>5. EntriesInv'
  <2>1. \A n \in 1..Len(added) : EntryOK(added[n])
    BY <1>1 DEF EntryOK
  <2>2. QED
    BY <1>1, <2>1, EntriesKept
<1>6. ASSUME NEW k \in Job PROVE AttemptInv(k)' /\ AccountInv(k)'
  BY <1>1, OthersStay DEF IInv
<1>7. ASSUME Sheltered' PROVE NoneTooOften' /\ \A k \in Job : FreshInv(k)'
  <2>1. Sheltered
    BY <1>1, <1>7, ShelterHasStood
  <2>2. NoneTooOften /\ \A k \in Job : FreshInv(k)
    BY <2>1 DEF IInv, RepeatInv
  <2>3. NoneTooOften'
    BY <1>1, <2>2, StaysInMeasure
  <2>4. ASSUME NEW d PROVE Ours(d)' = Ours(d)
    <3>1. Count(added, Mine(d)) = 0
      BY <1>1, CountNone DEF Mine
    <3>2. QED
      BY <1>1, <3>1, CountsGrow
  <2>5. ASSUME NEW k \in Job PROVE FreshInv(k)'
    BY <1>2, <2>2, <2>4, SettingsStay DEF FreshInv, Among
  <2>6. QED
    BY <2>3, <2>5
<1>8. QED
  BY <1>3, <1>4, <1>5, <1>6, <1>7 DEF IInv, RepeatInv

LEMMA CommentStep ==
  ASSUME IInv, NEW c \in Stranger, Comment(c)
  PROVE  IInv'
<1> DEFINE e == [file |-> c.file, line |-> c.line, text |-> c.text, body |-> {c.text},
                 path |-> c.file, by |-> "stranger"]
<1>1. mr \in Seq(Entries) /\ strangers \in 0..MaxStrangers
  BY DEF IInv, TypeInv
<1>2. e \in Entries /\ e.by = "stranger"
  BY ReviewConstants DEF Entries, Texts
<1>3. mr' = Append(mr, e) /\ UNCHANGED <<setting, job, launches, faults, overlapped>>
  BY DEF Comment
<1> HIDE DEF e
<1>4. Adds(<<e>>) /\ \A n \in 1..Len(<<e>>) : <<e>>[n] = e
  BY <1>1, <1>2, <1>3, AppendIsConcat, OneEntry DEF Adds
<1>5. strangers' \in 0..MaxStrangers /\ faults' \in 0..MaxFaults
  BY <1>1, Bounds DEF Comment, IInv, TypeInv
<1>6. QED
  BY <1>2, <1>3, <1>4, <1>5, QuietStep

-----------------------------------------------------------------------------
(* The handlers that post nothing, or one comment on the merge request.    *)

\* A job's step within the bounds, that keeps what it must, whoever added what.
KeepsSome(j) ==
  /\ \E added \in Seq(Entries) : Keeps(j, added)
  /\ launches' \in 0..MaxLaunches /\ faults' \in 0..MaxFaults /\ strangers' \in 0..MaxStrangers

LEMMA FailNow ==
  ASSUME TypeInv, NEW j \in Job, Active(j), AttemptInv(j), Lost(j), UNCHANGED <<setting, mr>>
  PROVE  \E added \in Seq(Entries) : Keeps(j, added)
<1>1. mr \in Seq(Entries)
  BY DEF TypeInv
<1>2. Adds(<<>>) /\ Len(<<>>) = 0
  BY <1>1, Nothing
<1>3. (\A i \in 1..Len(<<>>) : FALSE) /\ <<>> \in Seq(Entries)
  BY <1>2 DEF Adds
<1>4. InMeasure(<<>>)
  BY <1>3 DEF InMeasure
<1>5. Keeps(j, <<>>)
  BY <1>2, <1>3, <1>4, FailKeeps
<1>6. QED
  BY <1>3, <1>5

LEMMA SucceedNow ==
  ASSUME TypeInv, NEW j \in Job, job[j].pc = "run", AttemptInv(j), Succeed(j),
         UNCHANGED <<setting, mr>>
  PROVE  \E added \in Seq(Entries) : Keeps(j, added)
<1>1. mr \in Seq(Entries)
  BY DEF TypeInv
<1>2. Adds(<<>>) /\ Len(<<>>) = 0
  BY <1>1, Nothing
<1>3. (\A i \in 1..Len(<<>>) : FALSE) /\ <<>> \in Seq(Entries)
  BY <1>2 DEF Adds
<1>4. InMeasure(<<>>)
  BY <1>3 DEF InMeasure
<1>5. Keeps(j, <<>>)
  BY <1>2, <1>3, <1>4, SucceedKeeps
<1>6. QED
  BY <1>3, <1>5

LEMMA UnsupportedStep ==
  ASSUME TypeInv, NEW j \in Job, AttemptInv(j), Unsupported(j)
  PROVE  Active(j) /\ KeepsSome(j)
<1>1. Active(j)
  BY DEF Unsupported, Active
<1>2. Lost(j) /\ UNCHANGED <<setting, mr>>
  BY FailIsLoss DEF Unsupported
<1>3. \E added \in Seq(Entries) : Keeps(j, added)
  BY <1>1, <1>2, FailNow
<1>4. QED
  BY <1>1, <1>3 DEF KeepsSome, Unsupported, counts, TypeInv

\* A request that changes nothing is answered, or its attempt is lost.
LEMMA GetIs ==
  ASSUME TypeInv, NEW j \in Job, AttemptInv(j), NEW ACTION answered, Get(j, answered)
  PROVE  \/ answered /\ UNCHANGED faults
         \/ Lost(j) /\ (UNCHANGED faults \/ (faults < MaxFaults /\ faults' = faults + 1))
<1>1. Fail(j) => Lost(j)
  BY FailIsLoss
<1>2. setting.timeout /\ Lose(j, TRUE) => Lost(j)
  BY DEF Lost
<1>3. QED
  BY <1>1, <1>2 DEF Get

LEMMA ReadStep ==
  ASSUME TypeInv, NEW j \in Job, AttemptInv(j), GitLabRead(j) \/ GitHubRead(j)
  PROVE  Active(j) /\ KeepsSome(j)
<1>1. job[j].pc = "run" /\ UNCHANGED <<setting, mr, launches, strangers>>
  BY DEF GitLabRead, GitHubRead, Running
<1>2. Get(j, Succeed(j))
  BY DEF GitLabRead, GitHubRead, GetDiff
<1>3. Active(j)
  BY <1>1 DEF Active
<1>4. CASE Succeed(j) /\ UNCHANGED faults
  BY <1>1, <1>3, <1>4, SucceedNow DEF KeepsSome, TypeInv
<1>5. CASE Lost(j) /\ (UNCHANGED faults \/ (faults < MaxFaults /\ faults' = faults + 1))
  <2>1. \E added \in Seq(Entries) : Keeps(j, added)
    BY <1>1, <1>3, <1>5, FailNow
  <2>2. faults' \in 0..MaxFaults
    BY <1>5, Bounds DEF TypeInv
  <2>3. QED
    BY <1>1, <1>3, <2>1, <2>2 DEF KeepsSome, TypeInv
<1>6. QED
  BY <1>2, <1>4, <1>5, GetIs

\* What a request that adds entries comes to, given what it does when it is accepted.
LEMMA PostStep ==
  ASSUME TypeInv, NEW j \in Job, AttemptInv(j), Active(j), UNCHANGED <<setting, launches, strangers>>,
         NEW entries \in Seq(Entries), NEW attached \in BOOLEAN, NEW ACTION accepted,
         \A n \in 1..Len(entries) : entries[n].by = j,
         (attached => \A n \in 1..Len(entries) :
            [file |-> entries[n].file, line |-> entries[n].line] \in Placeable) =>
           \A n \in 1..Len(entries) : EntryOK(entries[n]),
         Adds(entries) /\ Sheltered' => InMeasure(entries),
         accepted /\ Adds(entries) /\ (\A n \in 1..Len(entries) : EntryOK(entries[n])) =>
           Keeps(j, entries),
         Post(j, entries, attached, accepted)
  PROVE  KeepsSome(j)
<1> DEFINE possible == attached => \A n \in 1..Len(entries) :
                         [file |-> entries[n].file, line |-> entries[n].line] \in Placeable
<1>1. CASE possible /\ mr' = mr \o entries /\ accepted /\ UNCHANGED faults
  <2>1. Adds(entries)
    BY <1>1 DEF Adds
  <2>2. Keeps(j, entries)
    BY <1>1, <2>1
  <2>3. QED
    BY <1>1, <2>2 DEF KeepsSome, TypeInv
<1>2. CASE /\ Lost(j) /\ UNCHANGED mr
           /\ UNCHANGED faults \/ (faults < MaxFaults /\ faults' = faults + 1)
  <2>1. \E added \in Seq(Entries) : Keeps(j, added)
    BY <1>2, FailNow
  <2>2. faults' \in 0..MaxFaults
    BY <1>2, Bounds DEF TypeInv
  <2>3. QED
    BY <2>1, <2>2 DEF KeepsSome, TypeInv
<1>3. CASE /\ Lost(j) /\ possible /\ mr' = mr \o entries
           /\ UNCHANGED faults \/ (faults < MaxFaults /\ faults' = faults + 1)
  <2>1. Adds(entries)
    BY <1>3 DEF Adds
  <2>2. \A n \in 1..Len(entries) : entries[n].by = j /\ EntryOK(entries[n])
    BY <1>3
  <2>3. Keeps(j, entries)
    BY <1>3, <2>1, <2>2, FailKeeps
  <2>4. faults' \in 0..MaxFaults
    BY <1>3, Bounds DEF TypeInv
  <2>5. QED
    BY <2>3, <2>4 DEF KeepsSome, TypeInv
<1>4. Fail(j) => Lost(j)
  BY FailIsLoss
<1>5. setting.timeout /\ Lose(j, TRUE) => Lost(j)
  BY DEF Lost
<1>6. job[j].late /\ Lose(j, TRUE) => Lost(j)
  BY <1>5 DEF AttemptInv
<1>7. QED
  BY <1>1, <1>2, <1>3, <1>4, <1>5, <1>6 DEF Post

LEMMA PostCommentStep ==
  ASSUME TypeInv, NEW j \in Job, AttemptInv(j), GitLabPostComment(j) \/ GitHubPostComment(j)
  PROVE  Active(j) /\ KeepsSome(j)
<1> DEFINE c == [file |-> "", line |-> "", text |-> "body"]
<1>1. /\ job[j].pc = "run" /\ UNCHANGED <<setting, launches, strangers>>
      /\ setting.op = "comment"
  BY DEF GitLabPostComment, GitHubPostComment, Running
<1>2. Active(j)
  BY <1>1 DEF Active
<1>3. PICK e \in {PostMRComment(j, c), PostPRComment(j, c)} : Post(j, <<e>>, FALSE, Succeed(j))
  BY DEF GitLabPostComment, GitHubPostComment
<1>4. e \in Entries /\ e.by = j
  <2> DEFINE body == IF e = PostMRComment(j, c) THEN {"", "body"} ELSE {"body"}
  <2>1. e = [file |-> "", line |-> "", text |-> "body", body |-> body, path |-> "", by |-> j]
    BY DEF PostMRComment, PostPRComment, Entry
  <2>2. body \in SUBSET Texts /\ "" \in Texts /\ "body" \in Texts
    BY DEF Texts
  <2> HIDE DEF body
  <2>3. QED
    BY <2>1, <2>2 DEF Entries
<1>5. <<e>> \in Seq(Entries) /\ \A n \in 1..Len(<<e>>) : <<e>>[n] = e
  BY <1>4, OneEntry
<1>6. EntryOK(e) /\ ~ Sheltered'
  BY <1>1 DEF EntryOK, Sheltered
<1>7. Succeed(j) /\ Adds(<<e>>) => Keeps(j, <<e>>)
  BY <1>1, <1>4, <1>5, <1>6, SucceedKeeps
<1>8. KeepsSome(j)
  BY <1>1, <1>2, <1>3, <1>4, <1>5, <1>6, <1>7, PostStep
<1>9. QED
  BY <1>2, <1>8

-----------------------------------------------------------------------------
(* The attempt asks what is there.                                         *)

LEMMA AmongIs ==
  ASSUME NEW c, NEW seq, NEW n \in Nat
  PROVE  /\ Among(c, seq, n) \in Nat
         /\ Among(c, seq, n + 1) = Among(c, seq, n) + (IF seq[n + 1] = c THEN 1 ELSE 0)
<1> DEFINE A == {i \in 1..n : seq[i] = c}
           B == {i \in 1..(n + 1) : seq[i] = c}
<1>1. IsFiniteSet(A) /\ Cardinality(A) \in Nat
  BY PositionsAreFinite
<1>2. Among(c, seq, n) = Cardinality(A) /\ Among(c, seq, n + 1) = Cardinality(B)
  BY DEF Among
<1>3. n + 1 \notin A /\ B = IF seq[n + 1] = c THEN A \cup {n + 1} ELSE A
  OBVIOUS
<1> HIDE DEF A, B
<1>4. Cardinality(A \cup {n + 1}) = Cardinality(A) + 1
  BY <1>1, <1>3, FS_AddElement
<1>5. QED
  BY <1>1, <1>2, <1>3, <1>4

LEMMA AmongAll ==
  ASSUME NEW c, NEW seq \in Seq(Notes), NEW n \in 0..Len(seq)
  PROVE  Among(c, seq, n) <= Times(c, seq)
<1> DEFINE A == {i \in 1..n : seq[i] = c}
           B == {i \in 1..Len(seq) : Line(seq[i]) = c}
<1>1. Len(seq) \in Nat /\ \A i \in 1..Len(seq) : seq[i] \in Notes
  BY LenProperties
<1>2. \A i \in 1..Len(seq) : Line(seq[i]) = seq[i]
  BY <1>1 DEF Notes, Line
<1>3. A \subseteq B
  BY <1>1, <1>2
<1>4. IsFiniteSet(B)
  BY <1>1, PositionsAreFinite
<1>5. Cardinality(A) <= Cardinality(B)
  BY <1>3, <1>4, FS_Subset
<1>6. QED
  BY <1>5 DEF Among, Times

\* An entry with the line c.
LEMMA OneOfOurs ==
  ASSUME mr \in Seq(Entries), NEW c, Ours(c) # 0
  PROVE  \E m \in 1..Len(mr) : mr[m] \in Entries /\ mr[m].by \in Job /\ Line(mr[m]) = c
<1>1. {m \in 1..Len(mr) : mr[m].by \in Job /\ Line(mr[m]) = c} # {}
  BY FS_EmptySet, Zenon DEF Ours
<1>2. QED
  BY <1>1, LenProperties

\* What fits the page is recognised.
LEMMA ListsAreRecognised ==
  ASSUME mr \in Seq(Entries), EntriesInv, Sheltered, NEW c \in Notes, Ours(c) # 0
  PROVE  /\ setting.platform = "gitlab" => GitLabIsDuplicate(c, GetMRNotes)
         /\ setting.platform = "github" => GitHubIsDuplicate(c, GetPRReviewComments)
<1>1. PICK m \in 1..Len(mr) : mr[m] \in Entries /\ mr[m].by \in Job /\ Line(mr[m]) = c
  BY OneOfOurs
<1>2. Len(mr) \in Nat /\ Len(mr) <= PageSize /\ PageSize \in Nat \ {0}
  BY Bounds, LenProperties DEF Sheltered
<1>3. EntryOK(mr[m]) /\ setting.op = "inline"
  BY DEF EntriesInv, Sheltered
<1>4. mr[m].file = c.file /\ mr[m].line = c.line /\ mr[m].text = c.text
  BY <1>1 DEF Line
<1>5. c.file \in Inside[c.file] /\ c.line \in Inside[c.line] /\ c.text \in Inside[c.text]
  BY DEF Notes
<1>6. ASSUME setting.platform = "gitlab" PROVE GitLabIsDuplicate(c, GetMRNotes)
  <2>1. mr[m].body = {c.file, c.line, c.text}
    BY <1>1, <1>3, <1>4, <1>6 DEF EntryOK, Sheltered, Recognisable
  <2>2. mr[m] \in GetMRNotes
    BY <1>2 DEF GetMRNotes
  <2>3. Contains(mr[m].body, c.file) /\ Contains(mr[m].body, c.line)
    BY <1>5, <2>1 DEF Contains
  <2>4. QED
    BY <2>2, <2>3 DEF GitLabIsDuplicate
<1>7. ASSUME setting.platform = "github" PROVE GitHubIsDuplicate(c, GetPRReviewComments)
  <2> DEFINE reviews == {n \in 1..Len(mr) : mr[n].path # ""}
  <2>1. mr[m].path = c.file /\ m \in reviews
    BY <1>1, <1>3, <1>4, <1>7 DEF EntryOK
  <2>2. reviews \in SUBSET (1..Len(mr))
    OBVIOUS
  <2>3. Rank(reviews, m) \in 1..Cardinality(reviews) /\ Rank(reviews, m) <= m
    BY <1>2, <2>1, <2>2, RanksAreDistinct
  <2>4. Cardinality(reviews) \in Nat
    BY <1>2, <2>2, PositionsAreFinite
  <2>5. Rank(reviews, m) <= PageSize
    <3>1. m \in Nat /\ m <= PageSize
      BY <1>2
    <3> HIDE DEF reviews
    <3>2. QED
      BY <1>2, <2>3, <2>4, <3>1
  <2>6. mr[m] \in GetPRReviewComments
    BY <2>1, <2>5 DEF GetPRReviewComments
  <2>7. QED
    BY <1>4, <1>5, <2>1, <2>6 DEF GitHubIsDuplicate
<1>8. QED
  BY <1>6, <1>7

Begins(j, comments, existing) ==
  job' = [job EXCEPT ![j].pc = "post", ![j].comments = comments,
                     ![j].existing = existing, ![j].before = Own(j)]

LEMMA BeginKeeps ==
  ASSUME TypeInv, NEW j \in Job, job[j].pc = "run", AttemptInv(j), setting.op = "inline",
         NEW comments, comments = Parse(job[j].batch), comments # <<>>,
         NEW existing \in SUBSET Entries, Cardinality(existing) <= PageSize,
         UNCHANGED <<setting, mr>>,
         Begins(j, comments, existing),
         Sheltered' => \A c \in Notes : ~ IsDuplicate(c, existing) => Ours(c) = 0
  PROVE  Keeps(j, <<>>)
<1> DEFINE s == job[j]
           before == Own(j)
           t == [s EXCEPT !.pc = "post", !.comments = comments, !.existing = existing,
                          !.before = before]
<1>1. job \in [Job -> Progress] /\ s \in Progress /\ mr \in Seq(Entries)
  BY DEF TypeInv
<1>2. Adds(<<>>) /\ Len(<<>>) = 0 /\ Own(j)' = before /\ \A c : Ours(c)' = Ours(c)
  BY <1>1, Nothing
<1>3. before \in Nat
  BY <1>1, <1>2, CountsGrow
<1>4. s.batch \in Batches /\ s.next = 1 /\ s.posted = 0 /\ s.skipped = 0
  BY DEF AttemptInv
<1>5. comments \in Seq(Notes)
  <2>1. PICK batch \in Batches : batch = s.batch
    BY <1>4
  <2>2. QED
    BY <2>1, ParseIs
<1>6. Len(comments) \in Nat /\ Len(comments) >= 1 /\ \A n \in 1..Len(comments) : comments[n] \in Notes
  BY <1>5, LenProperties, EmptySeq
<1>7. job' = [job EXCEPT ![j] = t]
  BY <1>1 DEF Progress, Begins
<1> HIDE DEF before
<1>8. /\ t \in Progress
      /\ t.pc = "post" /\ t.comments = comments /\ t.existing = existing /\ t.before = before
      /\ t.batch = s.batch /\ t.next = 1 /\ t.posted = 0 /\ t.skipped = 0 /\ t.late = s.late
  BY <1>1, <1>3, <1>4, <1>5 DEF Progress
<1> HIDE DEF t
<1>9. job' \in [Job -> Progress] /\ job'[j] = t /\ \A k \in Job : k # j => UNCHANGED job[k]
  <2>1. t \in Progress
    BY <1>8
  <2>2. QED
    BY <1>1, <1>7, <2>1
<1>10. AttemptInv(j)'
  <2>1. Parse(job[j].batch)' = comments
    BY <1>8, <1>9, SettingsStay
  <2>2. QED
    BY <1>4, <1>6, <1>8, <1>9, <2>1 DEF AttemptInv
<1>11. AccountInv(j)'
  <2>1. Own(j)' = t.before + t.posted
    BY <1>2, <1>3, <1>8
  <2>2. Turn(t) = 0 /\ t.posted + t.skipped = 0
    BY <1>8 DEF Turn
  <2>3. Turn(job[j])' = 0
    BY <1>9, <2>2 DEF Turn
  <2>4. QED
    BY <1>9, <2>1, <2>2, <2>3 DEF AccountInv
<1>12. Sheltered' => FreshInv(j)'
  <2>1. \A c : Among(c, comments, 0) \in Nat
    BY AmongIs
  <2>2. ASSUME Sheltered', NEW n \in 1..Len(comments), ~ IsDuplicate(comments[n], existing)'
        PROVE  Ours(comments[n])' <= Among(comments[n], comments, 0)
    <3>1. PICK c \in Notes : c = comments[n]
      BY <1>6
    <3>2. ~ IsDuplicate(c, existing)
      BY <2>2, <3>1, SettingsStay
    <3>3. Ours(c)' = 0
      BY <1>2, <2>2, <3>2
    <3>4. QED
      BY <2>1, <3>1, <3>3
  <2>3. t.next - 1 = 0 /\ t.comments = comments /\ t.existing = existing /\ job'[j] = t
    BY <1>8, <1>9
  <2>4. QED
    BY <2>2, <2>3 DEF FreshInv, Among
<1>13. (\A n \in 1..Len(<<>>) : FALSE)
  BY <1>2
<1>14. QED
  BY <1>2, <1>9, <1>10, <1>11, <1>12, <1>13 DEF Keeps, InMeasure

LEMMA PrepareStep ==
  ASSUME TypeInv, EntriesInv, NEW j \in Job, AttemptInv(j), overlapped => overlapped',
         GitLabPrepare(j) \/ GitHubPrepare(j)
  PROVE  Active(j) /\ KeepsSome(j)
<1> DEFINE comments == Parse(job[j].batch)
<1>1. /\ job[j].pc = "run" /\ UNCHANGED <<setting, mr, launches, strangers>>
      /\ setting.op = "inline"
  BY DEF GitLabPrepare, GitHubPrepare, Running, Prepare
<1>2. Active(j) /\ mr \in Seq(Entries)
  BY <1>1 DEF Active, TypeInv
<1>3. PICK list :
        /\ Prepare(j, list)
        /\ \/ (list = GetMRNotes /\ setting.platform = "gitlab")
           \/ (list = GetPRReviewComments /\ setting.platform = "github")
  BY DEF GitLabPrepare, GitHubPrepare, Running
<1>4. list \in SUBSET Entries /\ Cardinality(list) <= PageSize
  BY <1>2, <1>3, ListsFitAPage
<1>5. CASE Lost(j) /\ (UNCHANGED faults \/ (faults < MaxFaults /\ faults' = faults + 1))
  <2>1. \E added \in Seq(Entries) : Keeps(j, added)
    BY <1>1, <1>2, <1>5, FailNow
  <2>2. faults' \in 0..MaxFaults
    BY <1>5, Bounds DEF TypeInv
  <2>3. QED
    BY <1>1, <1>2, <2>1, <2>2 DEF KeepsSome, TypeInv
<1>6. CASE Succeed(j) /\ UNCHANGED faults
  BY <1>1, <1>2, <1>6, SucceedNow DEF KeepsSome, TypeInv
<1>7. CASE /\ comments # <<>> /\ UNCHANGED faults
           /\ \E existing \in {list, {}} :
                /\ existing = IF setting.dedup THEN list ELSE {}
                /\ Begins(j, comments, existing)
  <2>1. PICK existing \in {list, {}} :
          /\ existing = IF setting.dedup THEN list ELSE {}
          /\ Begins(j, comments, existing)
    BY <1>7
  <2>2. existing \in SUBSET Entries /\ Cardinality(existing) <= PageSize
    BY <1>4, <2>1, NothingFits
  <2>3. ASSUME Sheltered', NEW c \in Notes, ~ IsDuplicate(c, existing) PROVE Ours(c) = 0
    <3>1. Sheltered
      <4>1. Adds(<<>>)
        BY <1>1, <1>2, Nothing
      <4>2. QED
        BY <1>2, <2>3, <4>1, ShelterHasStood
    <3>2. existing = list /\ setting.dedup
      BY <2>1, <3>1 DEF Sheltered
    <3>3. CASE Ours(c) # 0
      BY <1>2, <1>3, <2>3, <3>1, <3>2, <3>3, ListsAreRecognised DEF IsDuplicate
    <3>4. QED
      BY <3>3
  <2>4. Keeps(j, <<>>)
    <3>1. PICK cs : cs = comments
      OBVIOUS
    <3>2. QED
      BY <1>1, <1>7, <2>1, <2>2, <2>3, <3>1, BeginKeeps
  <2>5. <<>> \in Seq(Entries)
    BY EmptySeq
  <2>6. QED
    BY <1>1, <1>2, <1>7, <2>4, <2>5 DEF KeepsSome, TypeInv
<1>8. Fail(j) => Lost(j)
  BY FailIsLoss
<1>9. Get(j, Begins(j, comments, list)) =>
        \/ Begins(j, comments, list) /\ UNCHANGED faults
        \/ Lost(j) /\ (UNCHANGED faults \/ (faults < MaxFaults /\ faults' = faults + 1))
  BY GetIs
<1>10. QED
  BY <1>3, <1>5, <1>6, <1>7, <1>8, <1>9 DEF Prepare, Begins

-----------------------------------------------------------------------------
(* The gitlab module posts or passes over one comment.                     *)

LEMMA PostNextStep ==
  ASSUME TypeInv, EntriesInv, RepeatInv, NEW j \in Job, AttemptInv(j), AccountInv(j),
         overlapped => overlapped', GitLabPostNext(j)
  PROVE  Active(j) /\ KeepsSome(j)
<1>1. /\ job[j].pc = "post" /\ setting.platform = "gitlab"
      /\ UNCHANGED <<setting, launches, strangers>>
      /\ mr \in Seq(Entries) /\ job[j] \in Progress /\ job \in [Job -> Progress]
  BY DEF GitLabPostNext, TypeInv
<1>2. Active(j)
  BY <1>1 DEF Active
<1>3. PICK comments \in Seq(Notes), next \in Nat, existing \in SUBSET Entries :
        comments = job[j].comments /\ next = job[j].next /\ existing = job[j].existing
  BY <1>1 DEF Progress
<1>4. PICK batch \in Batches : batch = job[j].batch /\ comments = Parse(batch)
  BY <1>1, <1>3 DEF AttemptInv
<1>5. Len(comments) \in Nat /\ next \in 1..Len(comments) /\ setting.op = "inline"
  <2>1. Len(comments) \in Nat
    BY LenProperties
  <2>2. QED
    BY <1>1, <1>3, <2>1 DEF AttemptInv
<1>6. PICK c \in Notes : c = comments[next]
  BY <1>5, LenProperties
<1>7. \A n \in 1..Len(comments) : Sheltered /\ ~ IsDuplicate(comments[n], existing) =>
        Ours(comments[n]) <= Among(comments[n], comments, next - 1)
  BY <1>1, <1>3 DEF RepeatInv, FreshInv
<1>8. \A d : /\ Among(d, comments, next - 1) \in Nat
             /\ Among(d, comments, next)
                  = Among(d, comments, next - 1) + (IF comments[next] = d THEN 1 ELSE 0)
             /\ Among(d, comments, next) <= Times(d, comments)
  <2>1. next - 1 \in Nat /\ (next - 1) + 1 = next /\ next \in 0..Len(comments)
    BY <1>5
  <2>2. PICK m \in Nat : m = next - 1
    BY <2>1
  <2>3. \A d : Among(d, comments, m) \in Nat
              /\ Among(d, comments, m + 1)
                   = Among(d, comments, m) + (IF comments[m + 1] = d THEN 1 ELSE 0)
    BY AmongIs, Zenon
  <2>4. \A d : Among(d, comments, next) <= Times(d, comments)
    BY <2>1, AmongAll
  <2>5. m + 1 = next
    BY <2>1, <2>2
  <2>6. QED
    BY <2>2, <2>3, <2>4, <2>5, Zenon
<1>9. ASSUME IsDuplicate(c, existing), Advance(j, 0, 1), UNCHANGED <<mr, faults>>
      PROVE  KeepsSome(j)
  <2>1. Adds(<<>>) /\ Len(<<>>) = 0 /\ \A d : Ours(d)' = Ours(d) /\ Ours(d) \in Nat
    BY <1>1, <1>9, Nothing, CountsGrow
  <2>2. \A n \in 1..Len(<<>>) : FALSE
    BY <2>1
  <2>3. job'[j].existing = existing
    BY <1>1, <1>3, <1>9 DEF Advance, Progress
  <2>4. Accounted(j, c)'
    BY <1>1, <1>9, <2>3, SettingsStay DEF Accounted
  <2>5. ASSUME Sheltered', NEW n \in 1..Len(comments), ~ IsDuplicate(comments[n], existing)
        PROVE  Ours(comments[n])' <= Among(comments[n], comments, next)
    <3>1. Sheltered
      BY <1>1, <2>1, <2>5, ShelterHasStood
    <3>2. PICK d \in Notes : d = comments[n]
      BY LenProperties
    <3>3. Ours(d) <= Among(d, comments, next - 1)
      BY <1>7, <2>5, <3>1, <3>2
    <3>4. Among(d, comments, next - 1) <= Among(d, comments, next)
      BY <1>8
    <3>5. Ours(d)' <= Among(d, comments, next)
      BY <1>8, <2>1, <3>3, <3>4
    <3>6. QED
      BY <3>2, <3>5
  <2>6. InMeasure(<<>>)
    BY <2>2 DEF InMeasure
  <2>7. Keeps(j, <<>>)
    BY <1>1, <1>3, <1>6, <1>9, <2>1, <2>2, <2>4, <2>5, <2>6, AdvanceKeeps
  <2>8. QED
    BY <1>1, <1>9, <2>1, <2>7 DEF KeepsSome, TypeInv, Adds
<1> DEFINE discussion == setting.api = "discussions"
<1>10. PICK e : e = IF discussion THEN PostMRDiscussion(j, c) ELSE PostMRComment(j, c)
  OBVIOUS
<1>11. e \in Entries /\ e.by = j /\ Line(e) = c /\ EntryOK(e)
  <2> DEFINE body == IF discussion THEN {c.text} ELSE {c.file, c.line, c.text}
             path == IF discussion THEN c.file ELSE ""
  <2>1. e = [file |-> c.file, line |-> c.line, text |-> c.text, body |-> body,
             path |-> path, by |-> j]
    BY <1>10 DEF PostMRDiscussion, PostMRComment, Entry
  <2>2. c.file \in Texts /\ c.line \in Texts /\ c.text \in Texts /\ "" \in Texts
    BY DEF Notes, Texts
  <2>3. body \in SUBSET Texts /\ path \in Texts
    BY <2>2
  <2>4. setting.api = "notes" => body = {c.file, c.line, c.text}
    OBVIOUS
  <2>5. c = [file |-> c.file, line |-> c.line, text |-> c.text]
    BY DEF Notes
  <2> HIDE DEF body, path
  <2>6. /\ e \in Entries /\ e.by = j /\ Line(e) = c /\ e.body = body
        /\ e.file = c.file /\ e.line = c.line /\ e.text = c.text
    BY <2>1, <2>2, <2>3, <2>5 DEF Entries, Line
  <2>7. EntryOK(e)
    BY <1>1, <2>4, <2>6 DEF EntryOK
  <2>8. QED
    BY <2>6, <2>7
<1>12. /\ <<e>> \in Seq(Entries) /\ Len(<<e>>) = 1
       /\ \A n \in 1..Len(<<e>>) : <<e>>[n] = e
  BY <1>11, OneEntry
<1>13. ASSUME ~ IsDuplicate(c, existing), Adds(<<e>>), Sheltered',
              NEW n \in 1..Len(comments), ~ IsDuplicate(comments[n], existing)
       PROVE  Ours(comments[n])' <= Among(comments[n], comments, next)
  <2>1. Sheltered
    BY <1>1, <1>13, ShelterHasStood
  <2>2. PICK d \in Notes : d = comments[n]
    BY LenProperties
  <2>3. Ours(d) <= Among(d, comments, next - 1) /\ Ours(d) \in Nat
    BY <1>1, <1>7, <1>13, <2>1, <2>2, CountsGrow
  <2>4. Ours(d)' = Ours(d) + Count(<<e>>, Mine(d))
    BY <1>1, <1>13, CountsGrow
  <2>5. CASE d = c
    <3>1. Count(<<e>>, Mine(d)) = 1
      BY <1>11, <1>12, <2>5, CountAll DEF Mine
    <3>2. Among(d, comments, next) = Among(d, comments, next - 1) + 1
      BY <1>6, <1>8, <2>5
    <3>3. Ours(d)' <= Among(d, comments, next)
      BY <1>8, <2>3, <2>4, <3>1, <3>2
    <3>4. QED
      BY <2>2, <3>3
  <2>6. CASE d # c
    <3>1. Count(<<e>>, Mine(d)) = 0
      BY <1>11, <1>12, <2>6, CountNone DEF Mine
    <3>2. Among(d, comments, next) = Among(d, comments, next - 1)
      BY <1>6, <1>8, <2>6
    <3>3. Ours(d)' <= Among(d, comments, next)
      BY <1>8, <2>3, <2>4, <3>1, <3>2
    <3>4. QED
      BY <2>2, <3>3
  <2>7. QED
    BY <2>5, <2>6
<1>14. ASSUME ~ IsDuplicate(c, existing), Adds(<<e>>), Sheltered'
       PROVE  InMeasure(<<e>>)
  <2>1. Ours(c)' <= Among(c, comments, next)
    BY <1>5, <1>6, <1>13, <1>14
  <2>2. Ours(c)' \in Nat /\ Among(c, comments, next) \in Nat
    <3>1. mr' \in Seq(Entries)
      BY <1>1, <1>14, MergeRequestGrows
    <3>2. Count(<<e>>, Mine(c)) \in Nat
      BY <1>12, CountConcat
    <3>3. QED
      BY <1>1, <1>8, <1>14, <3>2, CountsGrow
  <2>3. Among(c, comments, next) <= Times(c, comments)
    BY <1>8
  <2>4. Times(c, comments) \in Nat
    <3>1. {n \in 1..Len(comments) : Line(comments[n]) = c} \in SUBSET (1..Len(comments))
      OBVIOUS
    <3>2. QED
      BY <1>5, <3>1, PositionsAreFinite DEF Times
  <2>5. Ours(c)' <= Times(c, comments)
    BY <2>1, <2>2, <2>3, <2>4
  <2>6. QED
    BY <1>4, <1>11, <1>12, <2>5 DEF InMeasure
<1>15. ASSUME ~ IsDuplicate(c, existing), Adds(<<e>>), Advance(j, 1, 0)
       PROVE  Keeps(j, <<e>>)
  <2>1. Accounted(j, c)'
    BY <1>1, <1>11, <1>12, <1>15, PostedIsAccounted
  <2>2. QED
    BY <1>1, <1>3, <1>6, <1>11, <1>12, <1>13, <1>14, <1>15, <2>1, AdvanceKeeps
<1>16. ASSUME ~ IsDuplicate(c, existing), Post(j, <<e>>, discussion, Advance(j, 1, 0))
       PROVE  KeepsSome(j)
  BY <1>1, <1>2, <1>11, <1>12, <1>14, <1>15, <1>16, PostStep
<1>17. \/ IsDuplicate(c, existing) /\ Advance(j, 0, 1) /\ UNCHANGED <<mr, faults>>
       \/ ~ IsDuplicate(c, existing) /\ Post(j, <<e>>, discussion, Advance(j, 1, 0))
  BY <1>1, <1>3, <1>6, <1>10 DEF GitLabPostNext, IsDuplicate
<1>18. QED
  BY <1>2, <1>9, <1>16, <1>17

-----------------------------------------------------------------------------
(* The github module posts its review.                                     *)

\* The step ends, with some of its comments posted and the others passed over.
Finishes(j, posted, total) ==
  job' = [job EXCEPT ![j].pc = "done", ![j].posted = posted, ![j].skipped = total - posted]

LEMMA FinishKeeps ==
  ASSUME TypeInv, NEW j \in Job, job[j].pc = "post", setting.platform = "github",
         AttemptInv(j), AccountInv(j),
         NEW comments \in Seq(Notes), comments = job[j].comments,
         NEW posted \in 0..Len(comments), Finishes(j, posted, Len(comments)),
         NEW added, Adds(added), \A n \in 1..Len(added) : added[n].by = j /\ EntryOK(added[n]),
         Len(added) = posted,
         \A n \in 1..Len(comments) :
           \/ \E i \in 1..Len(added) : Line(added[i]) = comments[n]
           \/ IsDuplicate(comments[n], job[j].existing),
         Sheltered' => InMeasure(added)
  PROVE  Keeps(j, added)
<1> DEFINE s == job[j]
           total == Len(comments)
           skipped == total - posted
           t == [s EXCEPT !.pc = "done", !.posted = posted, !.skipped = skipped]
<1>1. job \in [Job -> Progress] /\ s \in Progress /\ mr \in Seq(Entries)
  BY DEF TypeInv
<1>2. total \in Nat /\ posted \in Nat /\ skipped \in Nat /\ posted + skipped = total
  <2>1. total \in Nat
    BY LenProperties
  <2> HIDE DEF total
  <2>2. posted \in 0..total
    BY DEF total
  <2>3. QED
    BY <2>1, <2>2
<1>3. job' = [job EXCEPT ![j] = t]
  BY <1>1 DEF Finishes, Progress
<1> HIDE DEF total, skipped
<1>4. /\ t \in Progress
      /\ t.pc = "done" /\ t.posted = posted /\ t.skipped = skipped /\ t.next = s.next
      /\ t.comments = comments /\ t.existing = s.existing /\ t.before = s.before
      /\ t.late = s.late
  BY <1>1, <1>2 DEF Progress
<1> HIDE DEF t
<1>5. job' \in [Job -> Progress] /\ job'[j] = t /\ \A k \in Job : k # j => UNCHANGED job[k]
  BY <1>1, <1>3, <1>4
<1>6. /\ s.next = 1 /\ Len(s.comments) = total /\ total >= 1 /\ Cardinality(s.existing) <= PageSize
      /\ s.late => setting'.timeout
  <2>1. /\ s.next = 1 /\ s.next <= Len(s.comments) /\ Cardinality(s.existing) <= PageSize
        /\ s.late => setting'.timeout
    BY DEF AttemptInv, Adds
  <2>2. Len(s.comments) = total
    BY DEF total
  <2>3. QED
    BY <1>2, <2>1, <2>2
<1>7. AttemptInv(j)'
  <2>1. t.next \in 1..(Len(t.comments) + 1)
    BY <1>2, <1>4, <1>6
  <2>2. QED
    BY <1>4, <1>5, <1>6, <2>1 DEF AttemptInv
<1>8. comments # <<>>
  BY <1>6, NothingFits DEF total
<1>9. s.posted = 0 /\ Own(j) = s.before
  <2>1. s.posted + s.skipped = 0 /\ Own(j) = s.before + s.posted
    BY <1>6, <1>8 DEF AccountInv, Turn
  <2>2. s.posted \in Nat /\ s.skipped \in Nat /\ s.before \in Nat
    BY <1>1 DEF Progress
  <2>3. QED
    BY <2>1, <2>2
<1>10. AccountInv(j)'
  <2>1. Own(j)' = t.before + t.posted
    BY <1>1, <1>4, <1>9, OwnGrows
  <2>2. t.posted + t.skipped = Len(t.comments) /\ Turn(t) = Len(t.comments)
    BY <1>2, <1>4 DEF total, Turn
  <2>3. ASSUME NEW n \in 1..Len(comments) PROVE Accounted(j, comments[n])'
    <3>1. CASE \E i \in 1..Len(added) : Line(added[i]) = comments[n]
      BY <1>1, <3>1, PostedIsAccounted
    <3>2. CASE IsDuplicate(comments[n], s.existing)
      BY <1>4, <1>5, <3>2, SettingsStay DEF Accounted, Adds
    <3>3. QED
      BY <3>1, <3>2
  <2>4. Turn(job[j])' = Turn(t)
    BY <1>5 DEF Turn
  <2>5. QED
    BY <1>4, <1>5, <2>1, <2>2, <2>3, <2>4 DEF AccountInv
<1>11. FreshInv(j)'
  BY <1>4, <1>5 DEF FreshInv
<1>12. QED
  BY <1>5, <1>7, <1>10, <1>11 DEF Keeps

LEMMA ChosenHas ==
  ASSUME NEW s \in Seq(Notes), NEW K \in SUBSET (1..Len(s)), NEW k \in K,
         NEW t, t = Chosen(s, K)
  PROVE  \E r \in 1..Len(t) : t[r] = s[k]
<1>1. PICK at : \A r \in 1..Len(t) : at[r] \in K /\ t[r] = s[at[r]] /\ Rank(K, at[r]) = r
  BY ChosenIs
<1>2. Rank(K, k) \in 1..Len(t)
  BY ChosenIs
<1>3. at[Rank(K, k)] = k
  <2>1. Rank(K, at[Rank(K, k)]) = Rank(K, k) /\ at[Rank(K, k)] \in K
    BY <1>1, <1>2
  <2>2. Len(s) \in Nat
    BY LenProperties
  <2>3. QED
    BY <2>1, <2>2, RanksAreDistinct
<1>4. QED
  BY <1>1, <1>2, <1>3

LEMMA ReviewIs ==
  ASSUME NEW j \in Job, NEW new \in Seq(Notes), NEW added, added = CreateReview(j, new)
  PROVE  /\ added \in Seq(Entries) /\ Len(added) = Len(new) /\ Len(new) \in Nat
         /\ \A n \in 1..Len(new) : /\ new[n] \in Notes /\ added[n] \in Entries
                                   /\ added[n].by = j /\ Line(added[n]) = new[n]
                                   /\ added[n].path = added[n].file
<1>1. Len(new) \in Nat /\ \A n \in 1..Len(new) : new[n] \in Notes
  BY LenProperties
<1>2. ASSUME NEW c \in Notes, NEW e, e = Entry(j, c, {c.text}, c.file)
      PROVE  e \in Entries /\ e.by = j /\ Line(e) = c /\ e.path = e.file
  <2>1. c.file \in Texts /\ c.line \in Texts /\ c.text \in Texts
        /\ c = [file |-> c.file, line |-> c.line, text |-> c.text]
    BY DEF Notes
  <2>2. PICK body \in SUBSET Texts : body = {c.text}
    BY <2>1
  <2>3. e = [file |-> c.file, line |-> c.line, text |-> c.text, body |-> body,
             path |-> c.file, by |-> j]
    BY <1>2, <2>2 DEF Entry
  <2>4. QED
    BY <2>1, <2>3 DEF Entries, Line
<1>3. added = [n \in 1..Len(new) |-> Entry(j, new[n], {new[n].text}, new[n].file)]
  BY DEF CreateReview
<1>4. \A n \in 1..Len(new) : /\ added[n] \in Entries /\ added[n].by = j /\ Line(added[n]) = new[n]
                             /\ added[n].path = added[n].file
  BY <1>1, <1>2, <1>3
<1>5. added \in [1..Len(new) -> Entries]
  BY <1>3, <1>4
<1>6. added \in Seq(Entries)
  BY <1>1, <1>5, SeqDef
<1>7. Len(added) = Len(new)
  BY <1>1, <1>5, <1>6, LenProperties
<1>8. QED
  BY <1>1, <1>4, <1>6, <1>7

LEMMA ReviewStep ==
  ASSUME TypeInv, RepeatInv, NEW j \in Job, AttemptInv(j), AccountInv(j),
         overlapped => overlapped', GitHubCreateReview(j)
  PROVE  Active(j) /\ KeepsSome(j)
<1>1. /\ job[j].pc = "post" /\ setting.platform = "github"
      /\ UNCHANGED <<setting, launches, strangers>>
      /\ mr \in Seq(Entries) /\ job[j] \in Progress
  BY DEF GitHubCreateReview, TypeInv
<1>2. Active(j)
  BY <1>1 DEF Active
<1>3. PICK comments \in Seq(Notes), existing \in SUBSET Entries :
        comments = job[j].comments /\ existing = job[j].existing
  BY <1>1 DEF Progress
<1>4. PICK batch \in Batches : batch = job[j].batch /\ comments = Parse(batch)
  BY <1>1, <1>3 DEF AttemptInv
<1>5. Len(comments) \in Nat /\ job[j].next = 1
  BY <1>1, LenProperties DEF AttemptInv
<1> DEFINE New(c) == ~ (setting.dedup /\ GitHubIsDuplicate(c, existing))
<1>6. \A c : New(c) <=> ~ IsDuplicate(c, existing)
  BY <1>1 DEF IsDuplicate
<1>7. PICK K : K = {n \in 1..Len(comments) : New(comments[n])}
  OBVIOUS
<1>8. PICK new : new = Chosen(comments, K)
  OBVIOUS
<1>9. /\ K \in SUBSET (1..Len(comments))
      /\ \A n \in 1..Len(comments) : n \in K <=> ~ IsDuplicate(comments[n], existing)
  BY <1>6, <1>7
<1> HIDE DEF New
<1>10. /\ new \in Seq(Notes) /\ Len(new) \in Nat /\ Len(new) <= Len(comments)
       /\ \A r \in 1..Len(new) : \E i \in K : new[r] = comments[i]
       /\ \A i \in K : \E r \in 1..Len(new) : new[r] = comments[i]
  <2>1. K \in SUBSET (1..Len(comments))
    BY <1>9
  <2>2. new = Chosen(comments, K)
    BY <1>8
  <2>3. comments \in Seq(Notes)
    OBVIOUS
  <2>4. new \in Seq(Notes) /\ Len(new) \in Nat /\ Len(new) <= Len(comments)
    BY <2>1, <2>2, <2>3, ChosenIs
  <2>5. PICK at : \A r \in 1..Len(new) : at[r] \in K /\ new[r] = comments[at[r]]
    BY <2>1, <2>2, <2>3, ChosenIs
  <2>6. ASSUME NEW i \in K PROVE \E r \in 1..Len(new) : new[r] = comments[i]
    BY <2>1, <2>2, <2>3, ChosenHas
  <2>7. QED
    BY <2>4, <2>5, <2>6
<1>11. PICK added : added = CreateReview(j, new)
  OBVIOUS
<1>12. /\ added \in Seq(Entries) /\ Len(added) = Len(new)
       /\ \A n \in 1..Len(new) : /\ new[n] \in Notes /\ added[n] \in Entries
                                 /\ added[n].by = j /\ Line(added[n]) = new[n]
                                 /\ added[n].path = added[n].file
  BY <1>10, <1>11, ReviewIs
<1>13. \A n \in 1..Len(comments) :
         \/ \E i \in 1..Len(added) : Line(added[i]) = comments[n]
         \/ IsDuplicate(comments[n], existing)
  <2>1. ASSUME NEW n \in K PROVE \E i \in 1..Len(added) : Line(added[i]) = comments[n]
    <3>1. PICK r \in 1..Len(new) : new[r] = comments[n]
      BY <1>10
    <3>2. Line(added[r]) = comments[n]
      BY <1>10, <1>12, <3>1
    <3>3. QED
      BY <1>12, <3>2
  <2>2. QED
    BY <1>9, <2>1
<1>14. ASSUME Adds(added), Sheltered' PROVE InMeasure(added)
  <2>1. Sheltered
    BY <1>1, <1>14, ShelterHasStood
  <2>2. ASSUME NEW n \in 1..Len(added), NEW c, c = Line(added[n])
        PROVE  Ours(c)' <= Times(c, comments)
    <3>1. PICK i \in K : c = comments[i]
      BY <1>10, <1>12, <2>2
    <3>2. i \in 1..Len(comments) /\ ~ IsDuplicate(c, existing)
      BY <1>9, <3>1
    <3>3. Ours(c) <= Among(c, comments, 0)
      <4>1. job[j].next - 1 = 0
        BY <1>5
      <4>2. QED
        BY <1>1, <1>3, <2>1, <3>1, <3>2, <4>1 DEF RepeatInv, FreshInv
    <3>4. Among(c, comments, 0) = 0
      <4>1. {m \in 1..0 : comments[m] = c} = {}
        OBVIOUS
      <4>2. QED
        BY <4>1, FS_EmptySet, Zenon DEF Among
    <3>5. Ours(c)' = Count(added, Mine(c)) /\ Count(added, Mine(c)) \in Nat
      <4>1. Ours(c)' = Ours(c) + Count(added, Mine(c)) /\ Ours(c) \in Nat
        BY <1>1, <1>14, CountsGrow
      <4>2. Count(added, Mine(c)) \in Nat
        BY <1>12, CountConcat
      <4>3. QED
        BY <3>3, <3>4, <4>1, <4>2
    <3>6. Count(added, Mine(c)) = Count(new, {c})
      <4>1. {m \in 1..Len(added) : added[m] \in Mine(c)} = {m \in 1..Len(new) : new[m] \in {c}}
        BY <1>12 DEF Mine
      <4>2. QED
        BY <4>1, Zenon DEF Count
    <3>7. Count(new, {c}) <= Count(comments, {c})
      BY <1>8, <1>9, ChosenCounts
    <3>8. Count(comments, {c}) = Times(c, comments)
      <4>1. \A m \in 1..Len(comments) : Line(comments[m]) = comments[m]
        <5>1. \A m \in 1..Len(comments) : comments[m] \in Notes
          BY LenProperties
        <5>2. QED
          BY <5>1 DEF Notes, Line
      <4>2. {m \in 1..Len(comments) : comments[m] \in {c}}
              = {m \in 1..Len(comments) : Line(comments[m]) = c}
        BY <4>1
      <4>3. QED
        BY <4>2, Zenon DEF Count, Times
    <3>9. QED
      BY <3>5, <3>6, <3>7, <3>8
  <2>3. QED
    BY <1>4, <2>2 DEF InMeasure
<1>15. ASSUME \A n \in 1..Len(added) :
                [file |-> added[n].file, line |-> added[n].line] \in Placeable
       PROVE  \A n \in 1..Len(added) : EntryOK(added[n])
  <2>1. ASSUME NEW n \in 1..Len(added) PROVE EntryOK(added[n])
    <3>1. PICK place \in Placeable : place.file = added[n].file
      BY <1>15
    <3>2. added[n].file # ""
      BY <3>1, ReviewConstants
    <3>3. QED
      BY <1>1, <1>12, <3>2 DEF EntryOK
  <2>2. QED
    BY <2>1
<1>16. ASSUME Finishes(j, Len(new), Len(comments)), Adds(added),
              \A n \in 1..Len(added) : EntryOK(added[n])
       PROVE  Keeps(j, added)
  <2>1. Len(new) \in 0..Len(comments)
    BY <1>5, <1>10
  <2>2. QED
    BY <1>1, <1>3, <1>12, <1>13, <1>14, <1>16, <2>1, FinishKeeps
<1>17. \/ /\ new = <<>> /\ Finishes(j, Len(new), Len(comments)) /\ UNCHANGED <<mr, faults>>
       \/ Post(j, added, TRUE, Finishes(j, Len(new), Len(comments)))
  BY <1>3, <1>7, <1>8, <1>11, Zenon DEF GitHubCreateReview, Finishes, New
<1>18. CASE new = <<>> /\ Finishes(j, Len(new), Len(comments)) /\ UNCHANGED <<mr, faults>>
  <2>1. added = <<>>
    BY <1>12, <1>18, EmptySeq
  <2>2. Adds(added) /\ \A n \in 1..Len(added) : EntryOK(added[n])
    BY <1>1, <1>18, <2>1, Nothing
  <2>3. Keeps(j, added)
    BY <1>16, <1>18, <2>2
  <2>4. QED
    BY <1>1, <1>2, <1>12, <1>18, <2>3 DEF KeepsSome, TypeInv
<1>19. CASE Post(j, added, TRUE, Finishes(j, Len(new), Len(comments)))
  <2>1. KeepsSome(j)
    BY <1>1, <1>2, <1>12, <1>14, <1>15, <1>16, <1>19, PostStep
  <2>2. QED
    BY <1>2, <2>1
<1>20. QED
  BY <1>17, <1>18, <1>19

-----------------------------------------------------------------------------
(* The invariant.                                                          *)

LEMMA HandleStep ==
  ASSUME IInv, NEW j \in Job, Handle(j)
  PROVE  IInv'
<1>1. TypeInv /\ EntriesInv /\ RepeatInv /\ AttemptInv(j) /\ AccountInv(j) /\ Observe
  BY DEF IInv, Handle
<1>2. overlapped => overlapped'
  BY <1>1 DEF Observe
<1>3. Active(j) /\ KeepsSome(j)
  BY <1>1, <1>2, UnsupportedStep, ReadStep, PostCommentStep, PrepareStep, PostNextStep, ReviewStep
     DEF Handle
<1>4. PICK added \in Seq(Entries) : Keeps(j, added)
  BY <1>3 DEF KeepsSome
<1>5. QED
  BY <1>1, <1>3, <1>4, KeepsIsEnough DEF KeepsSome

LEMMA InitIsFine ==
  ASSUME Init
  PROVE  IInv
<1>1. /\ setting \in Settings /\ mr = <<>> /\ job = [j \in Job |-> Idle]
      /\ launches = 0 /\ faults = 0 /\ strangers = 0 /\ overlapped = FALSE
  BY DEF Init
<1>2. <<>> \in Seq(Notes) /\ Len(<<>>) = 0 /\ Cardinality({}) <= PageSize /\ mr \in Seq(Entries)
  BY <1>1, NothingFits, EmptySeq
<1>3. Idle \in Progress /\ Idle.pc = "idle" /\ Idle.comments = <<>> /\ Idle.next = 1 /\ Idle.existing = {}
      /\ ~ Idle.late
  BY <1>2, Bounds DEF Idle, Progress
<1>4. TypeInv
  <2>1. 0 \in 0..MaxLaunches /\ 0 \in 0..MaxFaults /\ 0 \in 0..MaxStrangers
    BY Bounds
  <2>2. job \in [Job -> Progress]
    BY <1>1, <1>3
  <2>3. QED
    BY <1>1, <1>2, <2>1, <2>2 DEF TypeInv
<1>5. OverlapInv /\ EntriesInv
  BY <1>1, <1>2, <1>3 DEF OverlapInv, Overlap, Active, EntriesInv
<1>6. ASSUME NEW j \in Job PROVE AttemptInv(j) /\ AccountInv(j) /\ FreshInv(j)
  <2>1. job[j] = Idle
    BY <1>1
  <2>2. Cardinality(Idle.existing) <= PageSize
    BY <1>2, <1>3, Zenon
  <2>3. Idle.next \in 1..(Len(Idle.comments) + 1)
    BY <1>2, <1>3
  <2>4. QED
    BY <1>3, <2>1, <2>2, <2>3 DEF AttemptInv, AccountInv, FreshInv
<1>7. NoneTooOften
  BY <1>1, <1>2, OftenIs
<1>8. QED
  BY <1>4, <1>5, <1>6, <1>7 DEF IInv, RepeatInv

LEMMA NextKeeps ==
  ASSUME IInv, [Next]_vars
  PROVE  IInv'
<1>1. CASE \E j \in Job : Handle(j)
  BY <1>1, HandleStep
<1>2. CASE \E j \in Job : Kill(j) /\ Observe
  BY <1>2, KillStep
<1>3. CASE \E j \in Job : \E batch \in Batches : Launch(j, batch) /\ Observe
  BY <1>3, LaunchStep
<1>4. CASE \E c \in Stranger : Comment(c)
  BY <1>4, CommentStep
<1>5. CASE FallSilent \/ UNCHANGED vars
  <2>1. mr \in Seq(Entries) /\ strangers \in 0..MaxStrangers
    BY DEF IInv, TypeInv
  <2>2. Adds(<<>>) /\ \A n \in 1..Len(<<>>) : FALSE
    BY <1>5, <2>1, Nothing DEF vars, FallSilent
  <2>3. faults' \in 0..MaxFaults
    BY <1>5, Bounds DEF vars, FallSilent, IInv, TypeInv
  <2>4. QED
    BY <1>5, <2>1, <2>2, <2>3, QuietStep DEF vars, FallSilent
<1>6. QED
  BY <1>1, <1>2, <1>3, <1>4, <1>5 DEF Next

\* The invariant holds in every behaviour: where each attempt is, what it accounts for, and
\* how often a comment is on the merge request.
THEOREM InvariantHolds == Spec => []IInv
<1>1. Init => IInv
  BY InitIsFine
<1>2. IInv /\ [Next]_vars => IInv'
  BY NextKeeps
<1>3. QED
  BY <1>1, <1>2, PTL DEF Spec

\* Every variable and every attempt has its type: where the loop is, how often a step has
\* been tried, and how much of the list an attempt has seen.
THEOREM TypesHold == Spec => []TypeOK
<1>1. IInv /\ silent \in BOOLEAN => TypeOK
  <2> SUFFICES ASSUME IInv, silent \in BOOLEAN PROVE TypeOK
    OBVIOUS
  <2>1. TypeInv /\ \A j \in Job : AttemptInv(j)
    BY DEF IInv
  <2>2. ASSUME NEW n \in 1..Len(mr)
        PROVE  DOMAIN mr[n] = {"file", "line", "text", "body", "path", "by"}
    <3>1. mr[n] \in Entries
      BY <2>1, LenProperties DEF TypeInv
    <3>2. QED
      BY <3>1 DEF Entries
  <2>3. ASSUME NEW j \in Job
        PROVE  /\ job[j].pc \in {"idle", "run", "post", "done", "failed"}
               /\ job[j].batch \in Batches \cup {<<>>} /\ job[j].attempt \in 0..MaxAttempts
               /\ job[j].next \in 1..(Len(job[j].comments) + 1)
               /\ Cardinality(job[j].existing) <= PageSize
               /\ job[j].late \in BOOLEAN /\ (job[j].late => setting.timeout)
    BY <2>1 DEF TypeInv, Progress, AttemptInv
  <2>4. QED
    BY <2>1, <2>2, <2>3 DEF TypeOK, TypeInv
<1>2. Init => silent \in BOOLEAN
  BY DEF Init
<1>3. silent \in BOOLEAN /\ [Next]_vars => (silent \in BOOLEAN)'
  BY DEF Next, Handle, Kill, Launch, Comment, FallSilent, vars
<1>4. QED
  BY <1>1, <1>2, <1>3, InvariantHolds, PTL DEF Spec

\* A step that reports success has posted or found every one of its comments, and counts
\* what its last attempt has added.  (gitlab/module.go:319, github/module.go:250)
THEOREM AccountsHold == Spec => []SuccessAccountsForAll
<1>1. IInv => SuccessAccountsForAll
  <2> SUFFICES ASSUME IInv, NEW j \in Job, job[j].pc = "done", job[j].comments # <<>>
               PROVE  /\ job[j].posted + job[j].skipped = Len(job[j].comments)
                      /\ job[j].posted = Own(j) - job[j].before
                      /\ \A n \in 1..Len(job[j].comments) : Accounted(j, job[j].comments[n])
    BY DEF SuccessAccountsForAll, Accounted, IsDuplicate
  <2>1. /\ job[j].posted + job[j].skipped = Len(job[j].comments)
        /\ Own(j) = job[j].before + job[j].posted
        /\ \A n \in 1..Len(job[j].comments) : Accounted(j, job[j].comments[n])
    BY DEF IInv, AccountInv, Turn
  <2>2. job[j].posted \in Nat /\ job[j].before \in Nat
    BY DEF IInv, TypeInv, Progress
  <2>3. QED
    BY <2>1, <2>2
<1>2. QED
  BY <1>1, InvariantHolds, PTL

\* Where comments can be recognised and jobs come one after another, no comment is posted
\* more often than one batch has it, whatever fails and is repeated.
\* (gitlab/module.go:306, github/module.go:236)
THEOREM RepeatsHold == Spec => []RetriesDoNotRepeat
<1>1. IInv => RetriesDoNotRepeat
  BY DEF IInv, RepeatInv, Sheltered, RetriesDoNotRepeat
<1>2. QED
  BY <1>1, InvariantHolds, PTL
=============================================================================
