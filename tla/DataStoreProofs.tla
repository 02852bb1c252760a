-------------------------- MODULE DataStoreProofs --------------------------
(***************************************************************************)
(* The safety properties of DataStore, for any jobs, stores, names, values *)
(* and lengths of time: the time to live first, then the types, then what  *)
(* a load finds.                                                           *)
(***************************************************************************)
EXTENDS DataStore, TLAPS

-----------------------------------------------------------------------------
(* The inductive invariant: what is in a file, on its way into a file or   *)
(* read from a file expires no later than it is due.                       *)

Timely(c) ==
  /\ c.due \in Int
  /\ c.kind \in {"plain", "envelope"}
  /\ c.kind = "plain" => c.due = Never
  /\ c.kind = "envelope" =>
       c.expires \in Int /\ c.expires <= c.due /\ c.expires > c.due - Second

Sound(c) == c \in {Empty, Torn} \/ Timely(c)

FilesInv == \A p \in DOMAIN files : Sound(files[p])

\* A write under way: the record of a call is kept, whatever other operations note in it.
WriteFields == {"pc", "place", "addr", "content", "alone", "linked"}

CallInv(c) ==
  /\ c.pc = "write" => DOMAIN c = WriteFields /\ Timely(c.content)
  /\ c.pc = "judge" => Timely(c.content) /\ c.content.kind = "envelope"

CallsInv == DOMAIN call = Job /\ \A j \in Job : CallInv(call[j])

ClockInv == clock \in Int /\ clock <= MaxTime

IInv == FilesInv /\ CallsInv /\ ClockInv /\ NothingOutlivesItsTTL

-----------------------------------------------------------------------------
(* Lemmas.                                                                 *)

\* The second in which a moment lies begins no later than the moment, and not much earlier.
LEMMA FloorIsEarlier ==
  ASSUME NEW t \in Int
  PROVE  Floor(t) \in Int /\ Floor(t) <= t /\ Floor(t) > t - Second
<1>1. t % Second \in 0..(Second - 1)
  BY DataConstants
<1>2. QED
  BY <1>1, DataConstants DEF Floor

\* What Save writes expires in time, whatever the ttl.
LEMMA ContentIsTimely ==
  ASSUME ClockInv, NEW data, NEW ttl, ttl = NoTTL \/ ttl \in Int
  PROVE  Timely(Content(data, ttl))
<1>1. CASE ttl = NoTTL
  BY <1>1, DataConstants DEF Content, Timely, Never
<1>2. CASE ttl # NoTTL
  <2>1. clock + ttl \in Int
    BY <1>2 DEF ClockInv
  <2>2. QED
    BY <1>2, <2>1, FloorIsEarlier DEF Content, Timely
<1>3. QED
  BY <1>1, <1>2

\* Files stay sound when a sound content is put at one place ...
LEMMA PutIsSound ==
  ASSUME FilesInv, NEW p, NEW c, Sound(c), files' = With(files, p, c)
  PROVE  FilesInv'
BY DEF FilesInv, With

\* ... and when places are taken away.
LEMMA FewerAreSound ==
  ASSUME NEW f, \A q \in DOMAIN f : Sound(f[q]), NEW S, S \subseteq DOMAIN f,
         files' = [q \in S |-> f[q]]
  PROVE  FilesInv'
BY DEF FilesInv

\* The marks that overlapping operations leave in a call do not touch the rest of it.
LEMMA MarkedCallInv ==
  ASSUME NEW c, CallInv(c), c.pc = "write"
  PROVE  /\ CallInv([c EXCEPT !.alone = FALSE])
         /\ CallInv([c EXCEPT !.alone = FALSE, !.linked = FALSE])
<1>1. DOMAIN c = WriteFields /\ Timely(c.content)
  BY DEF CallInv
<1> DEFINE d == [c EXCEPT !.alone = FALSE]
           e == [c EXCEPT !.alone = FALSE, !.linked = FALSE]
<1>2. DOMAIN d = WriteFields /\ DOMAIN e = WriteFields
  BY <1>1
<1>3. d.pc = "write" /\ e.pc = "write" /\ d.content = c.content /\ e.content = c.content
  BY <1>1 DEF WriteFields
<1>4. QED
  BY <1>1, <1>2, <1>3 DEF CallInv

-----------------------------------------------------------------------------
(* The steps.                                                              *)

LEMMA InitHolds == Init => IInv
BY DataConstants DEF Init, IInv, FilesInv, CallsInv, CallInv, ClockInv, NothingOutlivesItsTTL,
  Idle, None

\* An operation that is refused leaves all but the answer alone.
LEMMA RefusedStep ==
  ASSUME IInv, NEW op, Refused(op), UNCHANGED clock
  PROVE  IInv'
BY DEF Refused, Reply, IInv, FilesInv, CallsInv, ClockInv, NothingOutlivesItsTTL

LEMMA StoreStep ==
  ASSUME IInv, NEW j \in Job, NEW key, NEW namespace, NEW v, NEW ttlOption \in TTL,
         NEW late \in BOOLEAN, Store(j, key, namespace, v, ttlOption, late)
  PROVE  IInv'
<1> DEFINE st == Given(late, store, "gitlab")
           ns == Given(late, namespace, <<>>)
           ttl == Given(late, ttlOption, NoTTL)
           data == IF KindOf[j] = "run" THEN Resolved[v] ELSE v
           p == Place(j, st, key, ns)
           a == Address(j, st, key, ns)
           w == [pc |-> "write", place |-> p, addr |-> a, content |-> Content(data, ttl),
                 alone |-> Writers(a) = {}, linked |-> TRUE]
<1>1. ClockInv' /\ UNCHANGED clock
  BY DEF Store, Ready, IInv, ClockInv
<1>2. CASE Refused("store")
  BY <1>1, <1>2, RefusedStep
<1>3. CASE ~ Refused("store")
  <2>1. ttl = NoTTL \/ ttl \in Int
    BY <1>3, DataConstants DEF Store, Given
  <2>2. Timely(Content(data, ttl))
    BY <2>1, ContentIsTimely DEF IInv
  <2>3. CASE st = "memory"
    <3>1. files' = Ends(j, With(files, p, Content(data, ttl))) /\ call' = call
          /\ answer' = [op |-> "store", outcome |-> "stored"]
      BY <1>3, <2>3 DEF Store, Reply
    <3>2. \A q \in DOMAIN With(files, p, Content(data, ttl)) :
            Sound(With(files, p, Content(data, ttl))[q])
      BY <2>2 DEF IInv, FilesInv, With, Sound
    <3>3. FilesInv'
      BY <3>1, <3>2 DEF FilesInv, Ends, Forget
    <3>4. QED
      BY <1>1, <3>1, <3>3 DEF IInv, CallsInv, NothingOutlivesItsTTL
  <2>4. CASE st # "memory"
    <3>1. /\ files' = With(files, p, Empty) /\ answer' = None
          /\ call' = [[i \in Job |-> IF i \in Writers(a)
                                     THEN [call[i] EXCEPT !.alone = FALSE] ELSE call[i]]
                      EXCEPT ![j] = w]
      BY <1>3, <2>4 DEF Store
    <3>2. FilesInv'
      BY <3>1, PutIsSound DEF IInv, Sound
    <3>3. CallsInv'
      <4>1. DOMAIN call' = Job /\ call'[j] = w
        BY <3>1
      <4>2. CallInv(w)
        BY <2>2 DEF CallInv, WriteFields
      <4>3. ASSUME NEW i \in Job, i # j
            PROVE  CallInv(call'[i])
        <5>1. CASE i \in Writers(a)
          <6>1. call'[i] = [call[i] EXCEPT !.alone = FALSE]
            BY <3>1, <4>3, <5>1
          <6>2. call[i].pc = "write" /\ CallInv(call[i])
            BY <5>1 DEF Writers, IInv, CallsInv
          <6>3. QED
            BY <6>1, <6>2, MarkedCallInv
        <5>2. CASE i \notin Writers(a)
          <6>1. call'[i] = call[i]
            BY <3>1, <4>3, <5>2
          <6>2. QED
            BY <6>1 DEF IInv, CallsInv
        <5>3. QED
          BY <5>1, <5>2
      <4>4. QED
        BY <4>1, <4>2, <4>3 DEF CallsInv
    <3>4. QED
      BY <1>1, <3>1, <3>2, <3>3 DEF IInv, None, NothingOutlivesItsTTL
  <2>5. QED
    BY <2>3, <2>4
<1>4. QED
  BY <1>2, <1>3

LEMMA WriteStep ==
  ASSUME IInv, NEW j \in Job, Write(j)
  PROVE  IInv'
<1>1. ClockInv'
  BY DEF Write, IInv, ClockInv
<1>2. CallsInv'
  BY DEF Write, IInv, CallsInv, CallInv, Idle
<1>3. NothingOutlivesItsTTL'
  BY DEF Write, Reply, NothingOutlivesItsTTL
<1>4. Timely(call[j].content)
  BY DEF Write, IInv, CallsInv, CallInv
<1>5. \/ files' = files
      \/ files' = With(files, call[j].place, call[j].content)
      \/ files' = With(files, call[j].place, Torn)
  BY DEF Write
<1>6. FilesInv'
  <2>1. CASE files' = files
    BY <2>1 DEF IInv, FilesInv
  <2>2. CASE files' = With(files, call[j].place, call[j].content)
    BY <1>4, <2>2, PutIsSound DEF IInv, Sound
  <2>3. CASE files' = With(files, call[j].place, Torn)
    BY <2>3, PutIsSound DEF IInv, Sound
  <2>4. QED
    BY <1>5, <2>1, <2>2, <2>3
<1>7. QED
  BY <1>1, <1>2, <1>3, <1>6 DEF IInv

LEMMA LoadStep ==
  ASSUME IInv, NEW j \in Job, NEW key, NEW namespace, NEW default, NEW late \in BOOLEAN,
         Load(j, key, namespace, default, late)
  PROVE  IInv'
<1> DEFINE st == Given(late, store, "gitlab")
           ns == Given(late, namespace, <<>>)
           fallback == Given(late, default, FALSE)
           p == Place(j, st, key, ns)
           a == Address(j, st, key, ns)
<1>1. UNCHANGED clock
  BY DEF Load, Ready
<1>2. CASE Refused("load")
  BY <1>1, <1>2, RefusedStep
<1>3. CASE ~ Refused("load")
  <2>1. ClockInv' /\ FilesInv' /\ UNCHANGED files
    BY <1>1, <1>3 DEF Load, IInv, ClockInv, FilesInv
  <2>2. ASSUME NEW failed, Missed(fallback, a, failed), UNCHANGED call
        PROVE  IInv'
    BY <2>1, <2>2 DEF Missed, Reply, IInv, CallsInv, NothingOutlivesItsTTL
  <2>3. CASE p \in DOMAIN files /\ ~ \E failed : Missed(fallback, a, failed) /\ UNCHANGED call
    <3>1. files[p].kind \in {"plain", "envelope"} /\ Timely(files[p])
      <4>1. files[p].kind = "envelope" \/ files[p].kind = "plain"
        BY <1>3, <2>3 DEF Load
      <4>2. QED
        BY <2>3, <4>1 DEF IInv, FilesInv, Sound, Empty, Torn
    <3>2. CASE files[p].kind = "envelope"
      <4>1. /\ call' = [call EXCEPT ![j] = [pc |-> "judge", content |-> files[p],
                                           fallback |-> fallback, believed |-> Known(a)]]
            /\ answer' = None
        BY <1>3, <2>3, <3>2 DEF Load
      <4>2. CallsInv'
        BY <3>1, <3>2, <4>1 DEF IInv, CallsInv, CallInv
      <4>3. QED
        BY <2>1, <4>1, <4>2 DEF IInv, None, NothingOutlivesItsTTL
    <3>3. CASE files[p].kind # "envelope"
      <4>1. /\ Found(files[p], IF files[p].data \in Lookalike THEN Nil ELSE files[p].data,
                     Known(a))
            /\ UNCHANGED call
        BY <1>3, <2>3, <3>3 DEF Load
      <4>2. answer'.at = clock /\ answer'.due = Never
        BY <3>1, <3>3, <4>1 DEF Found, Reply, Timely
      <4>3. clock <= Never
        BY DataConstants DEF IInv, ClockInv, Never
      <4>4. QED
        BY <2>1, <4>1, <4>2, <4>3 DEF IInv, CallsInv, NothingOutlivesItsTTL
    <3>4. QED
      BY <3>2, <3>3
  <2>4. CASE p \notin DOMAIN files
    BY <1>3, <2>2, <2>4 DEF Load
  <2>5. QED
    BY <2>2, <2>3, <2>4
<1>4. QED
  BY <1>2, <1>3

\* The answer of Judge is a value only when the clock has not passed the end of the
\* second before the end of the time to live.
LEMMA JudgeStep ==
  ASSUME IInv, NEW j \in Job, Judge(j)
  PROVE  IInv'
<1> DEFINE c == call[j].content
<1>1. ClockInv' /\ FilesInv' /\ CallsInv'
  BY DEF Judge, IInv, ClockInv, FilesInv, CallsInv, CallInv, Idle
<1>2. c.due \in Int /\ c.expires \in Int /\ c.expires <= c.due /\ clock \in Int
  BY DEF Judge, IInv, CallsInv, CallInv, ClockInv, Timely
<1>3. CASE clock > c.expires
  BY <1>1, <1>3 DEF Judge, Reply, IInv, NothingOutlivesItsTTL
<1>4. CASE ~ (clock > c.expires)
  <2>1. answer'.at = clock /\ answer'.due = c.due
    BY <1>4 DEF Judge, Found, Reply
  <2>2. clock <= c.due
    BY <1>2, <1>4
  <2>3. QED
    BY <1>1, <2>1, <2>2 DEF IInv, NothingOutlivesItsTTL
<1>5. QED
  BY <1>3, <1>4

LEMMA DeleteStep ==
  ASSUME IInv, NEW j \in Job, NEW key, NEW namespace, NEW late \in BOOLEAN,
         Delete(j, key, namespace, late)
  PROVE  IInv'
<1> DEFINE st == Given(late, store, "gitlab")
           ns == Given(late, namespace, <<>>)
           p == Place(j, st, key, ns)
           a == Address(j, st, key, ns)
<1>1. UNCHANGED clock
  BY DEF Delete, Ready
<1>2. CASE Refused("delete")
  BY <1>1, <1>2, RefusedStep
<1>3. CASE UNCHANGED <<files, known, call>> /\ answer' = [op |-> "delete", outcome |-> "failed"]
  BY <1>1, <1>3 DEF IInv, FilesInv, CallsInv, ClockInv, NothingOutlivesItsTTL
<1>4. CASE /\ ~ Refused("delete")
           /\ ~ (UNCHANGED <<files, known, call>>
                 /\ answer' = [op |-> "delete", outcome |-> "failed"])
  <2>1. /\ files' = Without(files, p)
        /\ call' = [i \in Job |-> IF i \in Writers(a)
                                  THEN [call[i] EXCEPT !.alone = FALSE, !.linked = FALSE]
                                  ELSE call[i]]
        /\ answer' = [op |-> "delete", outcome |-> IF p \in DOMAIN files \/ st = "memory"
                                                  THEN "deleted" ELSE "failed"]
    <3>1. Accepted(j, st, key)
      BY <1>4, Zenon DEF Delete
    <3>2. QED
      BY <1>4, <3>1, Zenon DEF Delete, Reply
  <2>2. FilesInv'
    BY <2>1 DEF IInv, FilesInv, Without
  <2>3. ASSUME NEW i \in Job
        PROVE  CallInv(call'[i])
    <3>1. CASE i \in Writers(a)
      <4>1. call'[i] = [call[i] EXCEPT !.alone = FALSE, !.linked = FALSE]
        BY <2>1, <3>1
      <4>2. call[i].pc = "write" /\ CallInv(call[i])
        BY <3>1 DEF Writers, IInv, CallsInv
      <4>3. QED
        BY <4>1, <4>2, MarkedCallInv
    <3>2. CASE i \notin Writers(a)
      <4>1. call'[i] = call[i]
        BY <2>1, <3>2
      <4>2. QED
        BY <4>1 DEF IInv, CallsInv
    <3>3. QED
      BY <3>1, <3>2
  <2>4. CallsInv'
    BY <2>1, <2>3 DEF CallsInv
  <2>5. QED
    <3>1. answer'.op = "delete"
      BY <2>1
    <3>2. QED
      BY <1>1, <3>1, <2>2, <2>4 DEF IInv, ClockInv, NothingOutlivesItsTTL
<1>5. QED
  BY <1>2, <1>3, <1>4

LEMMA ExistsStep ==
  ASSUME IInv, NEW j \in Job, NEW key, NEW ns, Exists(j, key, ns)
  PROVE  IInv'
<1>1. UNCHANGED clock
  BY DEF Exists, Ready
<1>2. CASE Refused("exists")
  BY <1>1, <1>2, RefusedStep
<1>3. CASE ~ Refused("exists")
  BY <1>1, <1>3 DEF Exists, Reply, IInv, FilesInv, CallsInv, ClockInv, NothingOutlivesItsTTL
<1>4. QED
  BY <1>2, <1>3

LEMMA DieStep ==
  ASSUME IInv, NEW j \in Job, Die(j)
  PROVE  IInv'
<1>1. FilesInv'
  BY DEF Die, Forget, IInv, FilesInv
<1>2. CallsInv'
  BY DEF Die, IInv, CallsInv, CallInv, Idle
<1>3. QED
  BY <1>1, <1>2 DEF Die, IInv, ClockInv, None, NothingOutlivesItsTTL

LEMMA TickStep ==
  ASSUME IInv, Tick
  PROVE  IInv'
<1>1. ClockInv'
  BY DataConstants DEF Tick, IInv, ClockInv
<1>2. QED
  BY <1>1 DEF Tick, IInv, FilesInv, CallsInv, None, NothingOutlivesItsTTL

LEMMA StepPreserves == IInv /\ [Next]_vars => IInv'
<1> SUFFICES ASSUME IInv, [Next]_vars
             PROVE  IInv'
  OBVIOUS
<1>1. CASE UNCHANGED vars
  BY <1>1 DEF vars, IInv, FilesInv, CallsInv, ClockInv, NothingOutlivesItsTTL
<1>2. CASE Tick
  BY <1>2, TickStep
<1>3. ASSUME NEW j \in Job, Run(j) PROVE IInv'
  BY <1>3, StoreStep, LoadStep, DeleteStep, ExistsStep DEF Run
<1>4. ASSUME NEW j \in Job, SetCommand(j) PROVE IInv'
  BY <1>4, StoreStep DEF SetCommand
<1>5. ASSUME NEW j \in Job, GetCommand(j) PROVE IInv'
  BY <1>5, LoadStep DEF GetCommand
<1>6. ASSUME NEW j \in Job, DeleteCommand(j) PROVE IInv'
  BY <1>6, DeleteStep DEF DeleteCommand
<1>7. ASSUME NEW j \in Job, ListCommand(j) PROVE IInv'
  BY <1>7, RefusedStep DEF ListCommand, Ready
<1>8. ASSUME NEW j \in Job, Write(j) PROVE IInv'
  BY <1>8, WriteStep
<1>9. ASSUME NEW j \in Job, Judge(j) PROVE IInv'
  BY <1>9, JudgeStep
<1>10. ASSUME NEW j \in Job, Die(j) PROVE IInv'
  BY <1>10, DieStep
<1>11. QED
  BY <1>1, <1>2, <1>3, <1>4, <1>5, <1>6, <1>7, <1>8, <1>9, <1>10 DEF Next

\* No load hands out a value after the end of the time to live it was stored with: for any
\* number of jobs and directories, any names, values and times to live, and whatever the
\* length of a second in ticks of the clock.  (data.go:74, :161)
THEOREM TTLHolds == Spec => []NothingOutlivesItsTTL
<1>1. Init => IInv
  BY InitHolds
<1>2. IInv /\ [Next]_vars => IInv'
  BY StepPreserves
<1>3. IInv => NothingOutlivesItsTTL
  BY DEF IInv
<1>4. QED
  BY <1>1, <1>2, <1>3, PTL DEF Spec

-----------------------------------------------------------------------------
(* The types, and whose memory a place is in.                              *)

Answers == {"none", "store", "load", "delete", "exists", "list"}

\* A write under way is into a directory, which is no process's memory.
Placed(j) ==
  /\ call[j].pc \in {"idle", "write", "judge"}
  /\ call[j].pc = "write" => call[j].place.at \notin Job

\* Only the memory store of a run outlives an operation.
PlacesInv ==
  /\ \A p \in DOMAIN files : p.at \in Job => KindOf[p.at] = "run"
  /\ \A j \in Job : Placed(j)

KnownInv == \A a \in DOMAIN known : known[a].kind \in {"plain", "envelope", "unsure"}

CountersInv ==
  /\ pipelineOf \in Pipelines /\ store \in StoreTypes
  /\ clock \in 0..MaxTime /\ ops \in 0..MaxOps /\ answer.op \in Answers

TypeInv == PlacesInv /\ KnownInv /\ CountersInv

LEMMA ReadyCounts ==
  ASSUME CountersInv, NEW j, Ready(j), answer'.op \in Answers
  PROVE  CountersInv'
<1>1. ops' \in 0..MaxOps
  BY DataConstants DEF CountersInv, Ready
<1>2. QED
  BY <1>1 DEF CountersInv, Ready

LEMMA TypesRefused ==
  ASSUME TypeInv, NEW j, Ready(j), NEW op \in Answers, Refused(op)
  PROVE  TypeInv'
<1>1. CountersInv'
  BY ReadyCounts DEF TypeInv, Refused, Reply
<1>2. QED
  BY <1>1 DEF TypeInv, PlacesInv, Placed, KnownInv, Refused

LEMMA KnownWith ==
  ASSUME KnownInv, NEW a, NEW c, c.kind \in {"plain", "envelope", "unsure"},
         known' = With(known, a, c)
  PROVE  KnownInv'
BY DEF KnownInv, With

LEMMA TypesStore ==
  ASSUME IInv, TypeInv, NEW j \in Job, NEW key, NEW namespace, NEW v, NEW ttlOption \in TTL,
         NEW late \in BOOLEAN, Store(j, key, namespace, v, ttlOption, late)
  PROVE  TypeInv'
<1> DEFINE st == Given(late, store, "gitlab")
           ns == Given(late, namespace, <<>>)
           ttl == Given(late, ttlOption, NoTTL)
           data == IF KindOf[j] = "run" THEN Resolved[v] ELSE v
           p == Place(j, st, key, ns)
           a == Address(j, st, key, ns)
           c == Content(data, ttl)
           w == [pc |-> "write", place |-> p, addr |-> a, content |-> c,
                 alone |-> Writers(a) = {}, linked |-> TRUE]
<1>1. Ready(j)
  BY DEF Store
<1>2. CASE Refused("store")
  BY <1>1, <1>2, TypesRefused DEF Answers
<1>3. CASE ~ Refused("store")
  <2>1. st \in {"filesystem", "gitlab", "memory"}
    BY <1>3 DEF Store, Accepted
  <2>2. c.kind \in {"plain", "envelope"} /\ KindOf[j] \in {"run", "command"}
    BY DataConstants DEF Content
  <2>3. p.at = Medium(j, st) /\ a.at = Medium(j, st)
    BY DEF Place, Address
  <2> HIDE DEF c
  <2>4. CASE st = "memory"
    <3>1. files' = Ends(j, With(files, p, c)) /\ known' = Ends(j, With(known, a, c))
          /\ call' = call /\ answer' = [op |-> "store", outcome |-> "stored"]
      BY <1>3, <2>4 DEF Store, Reply, c
    <3>2. p.at = j
      BY <2>3, <2>4 DEF Medium
    <3> HIDE DEF p, a
    <3>3. \A q \in DOMAIN files' : q.at \in Job => KindOf[q.at] = "run"
      <4>1. \A q \in DOMAIN With(files, p, c) : q = p \/ q \in DOMAIN files
        BY DEF With
      <4>2. CASE KindOf[j] = "command"
        <5>1. \A q \in DOMAIN files' : q.at # j /\ q \in DOMAIN With(files, p, c)
          BY <3>1, <4>2 DEF Ends, Forget
        <5>2. QED
          BY <3>2, <4>1, <5>1 DEF TypeInv, PlacesInv
      <4>3. CASE KindOf[j] = "run"
        BY <3>1, <3>2, <4>1, <4>3 DEF Ends, TypeInv, PlacesInv
      <4>4. QED
        BY <2>2, <4>2, <4>3
    <3>4. \A b \in DOMAIN With(known, a, c) :
            With(known, a, c)[b].kind \in {"plain", "envelope", "unsure"}
      BY <2>2 DEF With, TypeInv, KnownInv
    <3>5. KnownInv'
      BY <3>1, <3>4 DEF KnownInv, Ends, Forget
    <3>6. CountersInv'
      BY <1>1, <3>1, ReadyCounts DEF TypeInv, Answers
    <3>7. QED
      BY <3>1, <3>3, <3>5, <3>6 DEF TypeInv, PlacesInv, Placed
  <2>5. CASE st # "memory"
    <3>1. /\ files' = With(files, p, Empty) /\ known' = With(known, a, Unsure) /\ answer' = None
          /\ call' = [[i \in Job |-> IF i \in Writers(a)
                                     THEN [call[i] EXCEPT !.alone = FALSE] ELSE call[i]]
                      EXCEPT ![j] = w]
      BY <1>3, <2>5 DEF Store, c
    <3>2. p.at \notin Job
      BY <2>1, <2>3, <2>5, DataConstants DEF Medium
    <3>3. \A q \in DOMAIN files' : q.at \in Job => KindOf[q.at] = "run"
      BY <3>1, <3>2 DEF With, TypeInv, PlacesInv
    <3>4. KnownInv'
      BY <3>1, KnownWith DEF Unsure, TypeInv
    <3>5. CountersInv'
      BY <1>1, <3>1, ReadyCounts DEF TypeInv, Answers, None
    <3>6. w.pc = "write" /\ w.place = p
      OBVIOUS
    <3> HIDE DEF p, w
    <3>7. ASSUME NEW i \in Job
          PROVE  Placed(i)'
      <4>1. CASE i = j
        BY <3>1, <3>2, <3>6, <4>1 DEF Placed, IInv, CallsInv
      <4>2. CASE i # j /\ i \notin Writers(a)
        <5>1. call'[i] = call[i]
          BY <3>1, <4>2
        <5>2. QED
          BY <5>1 DEF TypeInv, PlacesInv, Placed
      <4>3. CASE i # j /\ i \in Writers(a)
        <5>1. call'[i] = [call[i] EXCEPT !.alone = FALSE]
          BY <3>1, <4>3
        <5>2. call[i].pc = "write" /\ DOMAIN call[i] = WriteFields
          BY <4>3 DEF Writers, IInv, CallsInv, CallInv
        <5>3. call'[i].pc = "write" /\ call'[i].place = call[i].place
          BY <5>1, <5>2 DEF WriteFields
        <5>4. QED
          BY <5>2, <5>3 DEF TypeInv, PlacesInv, Placed
      <4>4. QED
        BY <4>1, <4>2, <4>3
    <3>8. QED
      BY <3>3, <3>4, <3>5, <3>7 DEF TypeInv, PlacesInv
  <2>6. QED
    BY <2>4, <2>5
<1>4. QED
  BY <1>2, <1>3

\* The operation of j in progress ends, or goes on to judge what it read; no other moves.
Ended(j) ==
  /\ call'[j].pc \in {"idle", "judge"}
  /\ \A i \in Job \ {j} : call'[i] = call[i]

PlacedNow == \A i \in Job : Placed(i)'

LEMMA CallPlaces ==
  ASSUME TypeInv, NEW j \in Job, Ended(j)
  PROVE  PlacedNow
BY DEF Ended, PlacedNow, TypeInv, PlacesInv, Placed

LEMMA TypesWrite ==
  ASSUME IInv, TypeInv, NEW j \in Job, Write(j)
  PROVE  TypeInv'
<1> DEFINE w == call[j]
<1>1. w.place.at \notin Job /\ w.content.kind \in {"plain", "envelope"}
  BY DEF Write, TypeInv, PlacesInv, Placed, IInv, CallsInv, CallInv, Timely
<1>2. call' = [call EXCEPT ![j] = Idle] /\ Idle.pc = "idle"
  BY DEF Write, Idle
<1>3. UNCHANGED <<pipelineOf, store, clock, ops>> /\ answer'.op = "store"
  BY DEF Write, Reply
<1>4. \A p \in DOMAIN files' : p \in DOMAIN files \/ p = w.place
  <2>1. PICK c : files' = files \/ files' = With(files, w.place, c)
    BY DEF Write
  <2>2. QED
    BY <2>1 DEF With
<1>5. known' = known \/ known' = With(known, w.addr, w.content)
  BY DEF Write
<1>6. KnownInv'
  <2>1. CASE known' = known
    BY <2>1 DEF TypeInv, KnownInv
  <2>2. CASE known' = With(known, w.addr, w.content)
    BY <1>1, <2>2, KnownWith DEF TypeInv
  <2>3. QED
    BY <1>5, <2>1, <2>2
<1>7. PlacesInv'
  <2>1. \A p \in DOMAIN files' : p.at \in Job => KindOf[p.at] = "run"
    BY <1>1, <1>4 DEF TypeInv, PlacesInv
  <2>2. \A i \in Job : Placed(i)'
    <3>1. Ended(j)
      BY <1>2 DEF Ended, IInv, CallsInv
    <3>2. QED
      BY <3>1, CallPlaces DEF PlacedNow
  <2>3. QED
    BY <2>1, <2>2 DEF PlacesInv
<1>8. CountersInv'
  BY <1>3 DEF TypeInv, CountersInv, Answers
<1>9. QED
  BY <1>6, <1>7, <1>8 DEF TypeInv

LEMMA TypesLoad ==
  ASSUME IInv, TypeInv, NEW j \in Job, NEW key, NEW namespace, NEW default, NEW late \in BOOLEAN,
         Load(j, key, namespace, default, late)
  PROVE  TypeInv'
<1>1. Ready(j)
  BY DEF Load
<1>2. CASE Refused("load")
  BY <1>1, <1>2, TypesRefused DEF Answers
<1>3. CASE ~ Refused("load")
  <2>1. UNCHANGED <<files, known>>
    BY <1>3 DEF Load
  <2>5. answer'.op \in Answers
    <3>1. \/ answer' = None
          \/ \E f, a, x : Missed(f, a, x)
          \/ \E c, d, b : Found(c, d, b)
      BY <1>3 DEF Load
    <3>2. ASSUME NEW f, NEW a, NEW x, Missed(f, a, x) PROVE answer'.op = "load"
      BY <3>2 DEF Missed, Reply
    <3>3. ASSUME NEW c, NEW d, NEW b, Found(c, d, b) PROVE answer'.op = "load"
      BY <3>3 DEF Found, Reply
    <3>4. QED
      BY <3>1, <3>2, <3>3 DEF None, Answers
  <2>2. \A i \in Job : Placed(i)'
    <3>1. CASE call' = call
      BY <3>1 DEF TypeInv, PlacesInv, Placed
    <3>2. CASE call' # call
      <4>1. PICK c : c.pc = "judge" /\ call' = [call EXCEPT ![j] = c]
        BY <1>3, <3>2 DEF Load
      <4>2. QED
        <5>1. Ended(j)
          BY <4>1 DEF Ended, IInv, CallsInv
        <5>2. QED
          BY <5>1, CallPlaces DEF PlacedNow
    <3>3. QED
      BY <3>1, <3>2
  <2>3. CountersInv'
    BY <1>1, <2>5, ReadyCounts DEF TypeInv
  <2>4. QED
    BY <2>1, <2>2, <2>3 DEF TypeInv, PlacesInv, KnownInv
<1>4. QED
  BY <1>2, <1>3

LEMMA TypesJudge ==
  ASSUME IInv, TypeInv, NEW j \in Job, Judge(j)
  PROVE  TypeInv'
<1>1. call' = [call EXCEPT ![j] = Idle] /\ Idle.pc = "idle"
  BY DEF Judge, Idle
<1>2. UNCHANGED <<pipelineOf, store, files, clock, ops, known>> /\ answer'.op = "load"
  BY DEF Judge, Found, Reply
<1>3. PlacesInv'
  <2>1. \A i \in Job : Placed(i)'
    <3>1. Ended(j)
      BY <1>1 DEF Ended, IInv, CallsInv
    <3>2. QED
      BY <3>1, CallPlaces DEF PlacedNow
  <2>2. QED
    BY <1>2, <2>1 DEF TypeInv, PlacesInv
<1>4. QED
  BY <1>2, <1>3 DEF TypeInv, KnownInv, CountersInv, Answers

LEMMA TypesDelete ==
  ASSUME IInv, TypeInv, NEW j \in Job, NEW key, NEW namespace, NEW late \in BOOLEAN,
         Delete(j, key, namespace, late)
  PROVE  TypeInv'
<1> DEFINE p == Place(j, Given(late, store, "gitlab"), key, Given(late, namespace, <<>>))
           a == Address(j, Given(late, store, "gitlab"), key, Given(late, namespace, <<>>))
<1>1. Ready(j)
  BY DEF Delete
<1>2. CASE Refused("delete")
  BY <1>1, <1>2, TypesRefused DEF Answers
<1>3. CASE UNCHANGED <<files, known, call>> /\ answer' = [op |-> "delete", outcome |-> "failed"]
  <2>1. CountersInv'
    BY <1>1, <1>3, ReadyCounts DEF TypeInv, Answers
  <2>2. QED
    BY <1>3, <2>1 DEF TypeInv, PlacesInv, Placed, KnownInv
<1>4. CASE /\ ~ Refused("delete")
           /\ ~ (UNCHANGED <<files, known, call>>
                 /\ answer' = [op |-> "delete", outcome |-> "failed"])
  <2>1. /\ files' = Without(files, p)
        /\ known' = IF Writers(a) = {} THEN Without(known, a) ELSE With(known, a, Unsure)
        /\ call' = [i \in Job |-> IF i \in Writers(a)
                                  THEN [call[i] EXCEPT !.alone = FALSE, !.linked = FALSE]
                                  ELSE call[i]]
    BY <1>4, Zenon DEF Delete, Reply
  <2>2. answer'.op = "delete"
    <3>1. PICK o : answer' = [op |-> "delete", outcome |-> o]
      BY <1>4, Zenon DEF Delete, Reply
    <3>2. QED
      BY <3>1
  <2> HIDE DEF p, a
  <2>3. \A q \in DOMAIN files' : q.at \in Job => KindOf[q.at] = "run"
    BY <2>1 DEF Without, TypeInv, PlacesInv
  <2>4. KnownInv'
    <3>1. CASE known' = With(known, a, Unsure)
      BY <3>1, KnownWith DEF Unsure, TypeInv
    <3>2. CASE known' = Without(known, a)
      BY <3>2 DEF Without, TypeInv, KnownInv
    <3>3. QED
      BY <2>1, <3>1, <3>2
  <2>5. ASSUME NEW i \in Job
        PROVE  Placed(i)'
    <3>1. CASE i \notin Writers(a)
      <4>1. call'[i] = call[i]
        BY <2>1, <3>1
      <4>2. QED
        BY <4>1 DEF TypeInv, PlacesInv, Placed
    <3>2. CASE i \in Writers(a)
      <4>1. call'[i] = [call[i] EXCEPT !.alone = FALSE, !.linked = FALSE]
        BY <2>1, <3>2
      <4>2. call[i].pc = "write" /\ DOMAIN call[i] = WriteFields
        BY <3>2 DEF Writers, IInv, CallsInv, CallInv
      <4>3. call'[i].pc = "write" /\ call'[i].place = call[i].place
        BY <4>1, <4>2 DEF WriteFields
      <4>4. QED
        BY <4>2, <4>3 DEF TypeInv, PlacesInv, Placed
    <3>3. QED
      BY <3>1, <3>2
  <2>6. CountersInv'
    BY <1>1, <2>2, ReadyCounts DEF TypeInv, Answers
  <2>7. QED
    BY <2>3, <2>4, <2>5, <2>6 DEF TypeInv, PlacesInv
<1>5. QED
  BY <1>2, <1>3, <1>4

LEMMA TypesExists ==
  ASSUME TypeInv, NEW j \in Job, NEW key, NEW ns, Exists(j, key, ns)
  PROVE  TypeInv'
<1>1. Ready(j)
  BY DEF Exists
<1>2. CASE Refused("exists")
  BY <1>1, <1>2, TypesRefused DEF Answers
<1>3. CASE ~ Refused("exists")
  <2>1. UNCHANGED <<files, call, known>> /\ answer'.op = "exists"
    BY <1>3 DEF Exists, Reply
  <2>2. CountersInv'
    BY <1>1, <2>1, ReadyCounts DEF TypeInv, Answers
  <2>3. QED
    BY <2>1, <2>2 DEF TypeInv, PlacesInv, Placed, KnownInv
<1>4. QED
  BY <1>2, <1>3

LEMMA TypesDie ==
  ASSUME IInv, TypeInv, NEW j \in Job, Die(j)
  PROVE  TypeInv'
<1>1. call' = [call EXCEPT ![j] = Idle] /\ Idle.pc = "idle"
  BY DEF Die, Idle
<1>2. /\ files' = Forget(files, j) /\ known' = Forget(known, j) /\ answer' = None
      /\ UNCHANGED <<pipelineOf, store, clock, ops>>
  BY DEF Die
<1>3. \A q \in DOMAIN files' : q.at \in Job => KindOf[q.at] = "run"
  BY <1>2 DEF Forget, TypeInv, PlacesInv
<1>4. PlacesInv'
  <2>1. \A i \in Job : Placed(i)'
    <3>1. Ended(j)
      BY <1>1 DEF Ended, IInv, CallsInv
    <3>2. QED
      BY <3>1, CallPlaces DEF PlacedNow
  <2>2. QED
    BY <1>3, <2>1 DEF PlacesInv
<1>5. KnownInv'
  BY <1>2 DEF Forget, TypeInv, KnownInv
<1>6. CountersInv'
  BY <1>2 DEF TypeInv, CountersInv, None, Answers
<1>7. QED
  BY <1>4, <1>5, <1>6 DEF TypeInv

LEMMA TypesStep == IInv /\ TypeInv /\ [Next]_vars => TypeInv'
<1> SUFFICES ASSUME IInv, TypeInv, [Next]_vars
             PROVE  TypeInv'
  OBVIOUS
<1>1. CASE UNCHANGED vars
  BY <1>1 DEF vars, TypeInv, PlacesInv, Placed, KnownInv, CountersInv
<1>2. CASE Tick
  <2>1. clock' \in 0..MaxTime
    BY <1>2, DataConstants DEF Tick, TypeInv, CountersInv
  <2>2. QED
    BY <1>2, <2>1 DEF Tick, TypeInv, PlacesInv, Placed, KnownInv, CountersInv, None, Answers
<1>3. ASSUME NEW j \in Job, Run(j) PROVE TypeInv'
  BY <1>3, TypesStore, TypesLoad, TypesDelete, TypesExists DEF Run
<1>4. ASSUME NEW j \in Job, SetCommand(j) PROVE TypeInv'
  BY <1>4, TypesStore DEF SetCommand
<1>5. ASSUME NEW j \in Job, GetCommand(j) PROVE TypeInv'
  BY <1>5, TypesLoad DEF GetCommand
<1>6. ASSUME NEW j \in Job, DeleteCommand(j) PROVE TypeInv'
  BY <1>6, TypesDelete DEF DeleteCommand
<1>7. ASSUME NEW j \in Job, ListCommand(j) PROVE TypeInv'
  BY <1>7, TypesRefused DEF ListCommand, Answers
<1>8. ASSUME NEW j \in Job, Write(j) \/ Judge(j) \/ Die(j) PROVE TypeInv'
  BY <1>8, TypesWrite, TypesJudge, TypesDie
<1>9. QED
  BY <1>1, <1>2, <1>3, <1>4, <1>5, <1>6, <1>7, <1>8 DEF Next

\* Every variable has its type, and no memory store of a command is left behind: what is in
\* a process's memory is a run's.
THEOREM TypeCorrect == Spec => []TypeOK
<1>1. Init => IInv /\ TypeInv
  <2> SUFFICES ASSUME Init PROVE TypeInv
    BY InitHolds
  <2>1. 0 \in 0..MaxTime /\ 0 \in 0..MaxOps
    BY DataConstants
  <2>2. QED
    BY <2>1 DEF Init, TypeInv, PlacesInv, Placed, KnownInv, CountersInv, Idle, None, Answers
<1>2. IInv /\ TypeInv /\ [Next]_vars => (IInv /\ TypeInv)'
  BY StepPreserves, TypesStep
<1>3. IInv /\ TypeInv => TypeOK
  <2>1. IInv => \A p \in DOMAIN files : files[p].kind \in {"plain", "envelope", "empty", "torn"}
    BY DEF IInv, FilesInv, Sound, Timely, Empty, Torn
  <2>2. QED
    BY <2>1 DEF TypeInv, PlacesInv, Placed, KnownInv, CountersInv, Answers, TypeOK
<1>4. QED
  BY <1>1, <1>2, <1>3, PTL DEF Spec

-----------------------------------------------------------------------------
(* What a load finds.                                                      *)

Directories == {"filesystem", "gitlab"}
Stores == Directories \cup {"memory"}
Scope == Namespace \cup {<<>>}

Slots == {[place |-> Place(j, s, k, n), addr |-> Address(j, s, k, n)] :
            j \in Job, s \in Stores, k \in Key, n \in Scope}

\* Where an operation was acknowledged and overlapped no other, its content is there, and
\* nobody is writing.
Kept(p, a) ==
  Known(a) # Unsure =>
    /\ Writers(a) = {}
    /\ a \in DOMAIN known =>
         p \in DOMAIN files /\ files[p] = known[a] /\ known[a].kind \in {"plain", "envelope"}
    /\ a \notin DOMAIN known => p \notin DOMAIN files

\* Nothing is known of what is being written; a writer who is alone finds the file empty.
Pending(j) ==
  LET w == call[j] IN
  w.pc = "write" =>
    /\ [place |-> w.place, addr |-> w.addr] \in Slots /\ w.addr.at \in Directories
    /\ w.addr \in DOMAIN known /\ known[w.addr] = Unsure
    /\ w.alone => /\ w.linked /\ Writers(w.addr) = {j}
                  /\ w.place \in DOMAIN files /\ files[w.place] = Empty

\* What was read is what was known.
Judging(j) ==
  call[j].pc = "judge" => call[j].believed = Unsure \/ call[j].believed = call[j].content

SlotsInv == \A s \in Slots : Kept(s.place, s.addr)
PendingInv == \A j \in Job : Pending(j)
JudgingInv == \A j \in Job : Judging(j)

CurrentInv == SlotsInv /\ PendingInv /\ JudgingInv

\* Two functions agree at a point.
Agree(f, g, q) == (q \in DOMAIN f <=> q \in DOMAIN g) /\ (q \in DOMAIN f => f[q] = g[q])

LEMMA WithIs ==
  ASSUME NEW f, NEW p, NEW c
  PROVE  /\ p \in DOMAIN With(f, p, c) /\ With(f, p, c)[p] = c
         /\ \A q : q # p => Agree(f, With(f, p, c), q)
BY DEF With, Agree

LEMMA WithoutIs ==
  ASSUME NEW f, NEW p
  PROVE  p \notin DOMAIN Without(f, p) /\ \A q : q # p => Agree(f, Without(f, p), q)
BY DEF Without, Agree

LEMMA ForgetIs ==
  ASSUME NEW f, NEW j
  PROVE  /\ \A q : q.at = j => q \notin DOMAIN Forget(f, j)
         /\ \A q : q.at # j => Agree(f, Forget(f, j), q)
BY DEF Forget, Agree

\* The place of an address is what the address reads as.
LEMMA OnePlace ==
  ASSUME NEW j, NEW st, NEW key, NEW ns
  PROVE  Place(j, st, key, ns) = Address(j, st, key, ns)
BY DEF Place, Address, buildKey

LEMMA SlotFacts ==
  ASSUME NEW s \in Slots
  PROVE  s.place = s.addr
<1>1. PICK i \in Job, st \in Stores, k \in Key, m \in Scope :
        s = [place |-> Place(i, st, k, m), addr |-> Address(i, st, k, m)]
  BY DEF Slots
<1>2. s.place = Place(i, st, k, m) /\ s.addr = Address(i, st, k, m)
  BY <1>1
<1>3. QED
  BY <1>2, OnePlace

\* A slot and a writer's slot.
LEMMA WriterSlot ==
  ASSUME CurrentInv, NEW j \in Job, call[j].pc = "write", NEW s \in Slots
  PROVE  /\ s.place = call[j].place <=> s.addr = call[j].addr
         /\ s.addr.at \in Job => s.addr # call[j].addr
<1> DEFINE t == [place |-> call[j].place, addr |-> call[j].addr]
<1>1. t \in Slots /\ call[j].addr.at \in Directories
  BY DEF CurrentInv, PendingInv, Pending
<1>2. t.place = call[j].place /\ t.addr = call[j].addr
  OBVIOUS
<1> HIDE DEF t
<1>3. s.place = t.place <=> s.addr = t.addr
  BY <1>1, SlotFacts
<1>4. Job \cap Directories = {}
  BY DataConstants DEF Directories
<1>5. QED
  BY <1>1, <1>2, <1>3, <1>4

\* What is not touched is kept.
LEMMA KeptStays ==
  ASSUME NEW p, NEW a, Kept(p, a), Agree(files, files', p), Agree(known, known', a),
         Writers(a)' \subseteq Writers(a)
  PROVE  Kept(p, a)'
BY DEF Kept, Agree, Known

LEMMA PendingStays ==
  ASSUME NEW j \in Job, Pending(j), call'[j] = call[j], UNCHANGED pipelineOf,
         call[j].pc = "write" =>
           /\ Agree(known, known', call[j].addr)
           /\ call[j].alone => Agree(files, files', call[j].place)
           /\ call[j].alone => Writers(call[j].addr)' = Writers(call[j].addr)
  PROVE  Pending(j)'
<1>1. Slots' = Slots
  BY DEF Slots, Place, Address, buildKey
<1>2. QED
  BY <1>1 DEF Pending, Agree

LEMMA SlotsStay ==
  ASSUME UNCHANGED pipelineOf
  PROVE  Slots' = Slots
BY DEF Slots, Place, Address, buildKey

\* An operation that changes neither files nor what is known, and begins no write.
LEMMA ReadersKeep ==
  ASSUME CurrentInv, UNCHANGED <<pipelineOf, files, known>>,
         \A i \in Job : \/ call'[i] = call[i]
                       \/ call'[i].pc \notin {"write", "judge"}
                       \/ /\ call[i].pc # "write" /\ call'[i].pc # "write"
                          /\ call'[i].believed \in {Unsure, call'[i].content}
  PROVE  CurrentInv'
<1>1. Slots' = Slots
  BY SlotsStay
<1>2. \A a : Writers(a)' \subseteq Writers(a)
  BY DEF Writers
<1>3. SlotsInv'
  <2> SUFFICES ASSUME NEW s \in Slots PROVE Kept(s.place, s.addr)'
    BY <1>1 DEF SlotsInv
  <2>1. Kept(s.place, s.addr)
    BY DEF CurrentInv, SlotsInv
  <2>2. QED
    BY <1>2, <2>1, KeptStays DEF Agree
<1>4. ASSUME NEW i \in Job PROVE Pending(i)'
  <2>1. CASE call'[i] = call[i]
    <3>1. Pending(i)
      BY DEF CurrentInv, PendingInv
    <3>2. ASSUME call[i].pc = "write", call[i].alone
          PROVE  Writers(call[i].addr)' = Writers(call[i].addr)
      <4>1. Writers(call[i].addr) = {i}
        BY <3>1, <3>2 DEF Pending
      <4>2. i \in Writers(call[i].addr)'
        BY <2>1, <3>2 DEF Writers
      <4>3. QED
        BY <1>2, <2>1, <4>1, <4>2 DEF Writers
    <3>3. QED
      BY <2>1, <3>1, <3>2, PendingStays DEF Agree
  <2>2. CASE call'[i].pc # "write"
    BY <2>2 DEF Pending
  <2>3. QED
    BY <2>1, <2>2
<1>5. JudgingInv'
  BY DEF CurrentInv, JudgingInv, Judging
<1>6. QED
  BY <1>1, <1>3, <1>4, <1>5 DEF CurrentInv, PendingInv

LEMMA MemoryKeeps ==
  ASSUME CurrentInv, NEW j \in Job, NEW p, NEW a, [place |-> p, addr |-> a] \in Slots, a.at = j,
         NEW c, c.kind \in {"plain", "envelope"},
         files' = Ends(j, With(files, p, c)), known' = Ends(j, With(known, a, c)),
         UNCHANGED <<call, pipelineOf>>
  PROVE  CurrentInv'
<1> DEFINE f == With(files, p, c)
           k == With(known, a, c)
<1>1. Slots' = Slots
  BY SlotsStay
<1>2. /\ p \in DOMAIN f /\ f[p] = c /\ \A q : q # p => Agree(files, f, q)
      /\ a \in DOMAIN k /\ k[a] = c /\ \A q : q # a => Agree(known, k, q)
  BY WithIs
<1>3. /\ KindOf[j] = "command" => files' = Forget(f, j) /\ known' = Forget(k, j)
      /\ KindOf[j] # "command" => files' = f /\ known' = k
  BY DEF Ends
<1> HIDE DEF f, k
<1>4. ASSUME KindOf[j] = "command"
      PROVE  /\ \A q : q.at = j => q \notin DOMAIN files' /\ q \notin DOMAIN known'
             /\ \A q : q.at # j => Agree(f, files', q) /\ Agree(k, known', q)
  <2>1. files' = Forget(f, j) /\ known' = Forget(k, j)
    BY <1>3, <1>4
  <2>2. /\ \A q : q.at = j => q \notin DOMAIN Forget(f, j) /\ q \notin DOMAIN Forget(k, j)
        /\ \A q : q.at # j => Agree(f, Forget(f, j), q) /\ Agree(k, Forget(k, j), q)
    BY ForgetIs
  <2>3. QED
    BY <2>1, <2>2
<1>5. \A b : Writers(b)' = Writers(b)
  BY DEF Writers
<1>6. ASSUME NEW s \in Slots, s.addr.at = j
      PROVE  Writers(s.addr) = {}
  BY <1>6, WriterSlot DEF Writers
<1>7. ASSUME NEW s \in Slots
      PROVE  /\ s.place = p <=> s.addr = a
             /\ s.place.at = s.addr.at
  <2> DEFINE t == [place |-> p, addr |-> a]
  <2>1. t.place = p /\ t.addr = a /\ t \in Slots
    OBVIOUS
  <2> HIDE DEF t
  <2>2. QED
    BY <2>1, SlotFacts
<1>8. ASSUME NEW s \in Slots, s.addr.at # j \/ (KindOf[j] # "command" /\ s.addr # a)
      PROVE  Agree(files, files', s.place) /\ Agree(known, known', s.addr)
  <2>1. s.place # p /\ s.addr # a
    BY <1>7, <1>8
  <2>2. Agree(files, f, s.place) /\ Agree(known, k, s.addr)
    BY <1>2, <2>1
  <2>3. Agree(f, files', s.place) /\ Agree(k, known', s.addr)
    BY <1>3, <1>4, <1>7, <1>8 DEF Agree
  <2>4. QED
    BY <2>2, <2>3 DEF Agree
<1>9. ASSUME NEW s \in Slots PROVE Kept(s.place, s.addr)'
  <2>1. CASE s.addr.at # j \/ (KindOf[j] # "command" /\ s.addr # a)
    <3>1. Kept(s.place, s.addr)
      BY DEF CurrentInv, SlotsInv
    <3>2. QED
      BY <1>5, <1>8, <2>1, <3>1, KeptStays
  <2>2. CASE s.addr.at = j /\ KindOf[j] = "command"
    <3>1. s.addr \notin DOMAIN known' /\ s.place \notin DOMAIN files' /\ Writers(s.addr)' = {}
      BY <1>4, <1>5, <1>6, <1>7, <2>2
    <3>2. QED
      BY <3>1 DEF Kept
  <2>3. CASE s.addr.at = j /\ KindOf[j] # "command" /\ s.addr = a
    <3>1. /\ s.addr \in DOMAIN known' /\ known'[s.addr] = c
          /\ s.place \in DOMAIN files' /\ files'[s.place] = c /\ Writers(s.addr)' = {}
      BY <1>2, <1>3, <1>5, <1>6, <1>7, <2>3
    <3>2. QED
      BY <3>1 DEF Kept
  <2>4. QED
    BY <2>1, <2>2, <2>3
<1>10. SlotsInv'
  BY <1>1, <1>9 DEF SlotsInv
<1>11. ASSUME NEW i \in Job PROVE Pending(i)'
  <2>1. Pending(i)
    BY DEF CurrentInv, PendingInv
  <2>2. ASSUME call[i].pc = "write"
        PROVE  Agree(files, files', call[i].place) /\ Agree(known, known', call[i].addr)
    <3> DEFINE s == [place |-> call[i].place, addr |-> call[i].addr]
    <3>1. s.place = call[i].place /\ s.addr = call[i].addr
      OBVIOUS
    <3>2. s \in Slots /\ s.addr.at \in Directories
      BY <2>1, <2>2 DEF Pending
    <3> HIDE DEF s
    <3>3. s.addr.at # j
      BY <3>2, DataConstants DEF Directories
    <3>4. QED
      BY <1>8, <3>1, <3>2, <3>3
  <2>3. QED
    BY <1>5, <2>1, <2>2, PendingStays
<1>12. JudgingInv'
  BY DEF CurrentInv, JudgingInv, Judging
<1>13. QED
  BY <1>1, <1>10, <1>11, <1>12 DEF CurrentInv, PendingInv

LEMMA SameSlot ==
  ASSUME NEW S, NEW T, S = T, NEW u, NEW v, NEW x, NEW y, x = u, y = v,
         [place |-> u, addr |-> v] \in S
  PROVE  [place |-> x, addr |-> y] \in T
BY Zenon

\* The marks in the calls of writers, and a call that begins or ends: who writes at b.
LEMMA OpenKeeps ==
  ASSUME CurrentInv, CallsInv, NEW j \in Job, call[j].pc = "idle",
         NEW p, NEW a, [place |-> p, addr |-> a] \in Slots, a.at \in Directories,
         NEW w, w.pc = "write", w.place = p, w.addr = a, w.linked, w.alone = (Writers(a) = {}),
         files' = With(files, p, Empty), known' = With(known, a, Unsure),
         call' = [[i \in Job |-> IF i \in Writers(a)
                                 THEN [call[i] EXCEPT !.alone = FALSE] ELSE call[i]]
                  EXCEPT ![j] = w],
         UNCHANGED pipelineOf
  PROVE  CurrentInv'
<1>1. Slots' = Slots
  BY SlotsStay
<1>2. /\ p \in DOMAIN files' /\ files'[p] = Empty /\ \A q : q # p => Agree(files, files', q)
      /\ a \in DOMAIN known' /\ known'[a] = Unsure /\ \A q : q # a => Agree(known, known', q)
  BY WithIs
<1>3. /\ call'[j] = w
      /\ \A i \in Job : i # j =>
           call'[i] = IF i \in Writers(a) THEN [call[i] EXCEPT !.alone = FALSE] ELSE call[i]
  OBVIOUS
<1>4. ASSUME NEW i \in Job, i \in Writers(a)
      PROVE  /\ i # j /\ call[i].pc = "write" /\ call[i].addr = a
             /\ call'[i].pc = "write" /\ call'[i].addr = a /\ call'[i].place = call[i].place
             /\ call'[i].alone = FALSE
  <2>1. i # j /\ call[i].pc = "write" /\ call[i].addr = a
    BY <1>4 DEF Writers
  <2>2. DOMAIN call[i] = WriteFields
    BY <2>1 DEF CallsInv, CallInv
  <2>3. call'[i] = [call[i] EXCEPT !.alone = FALSE]
    BY <1>3, <1>4, <2>1
  <2>4. QED
    BY <2>1, <2>2, <2>3 DEF WriteFields
<1>5. ASSUME NEW i \in Job, i \notin Writers(a), i # j
      PROVE  call'[i] = call[i]
  BY <1>3, <1>5
<1>6. ASSUME NEW b, b # a
      PROVE  {i \in Job : call'[i].pc = "write" /\ call'[i].addr = b} = Writers(b)
  BY <1>3, <1>4, <1>5, <1>6 DEF Writers
<1>7. Writers(a) = {} => {i \in Job : call'[i].pc = "write" /\ call'[i].addr = a} = {j}
  BY <1>3, <1>5 DEF Writers
<1>8. ASSUME NEW s \in Slots
      PROVE  s.place = p <=> s.addr = a
  <2> DEFINE t == [place |-> p, addr |-> a]
  <2>1. t.place = p /\ t.addr = a /\ t \in Slots
    OBVIOUS
  <2> HIDE DEF t
  <2>2. QED
    BY <2>1, SlotFacts
<1> HIDE DEF Agree
<1>9. ASSUME NEW s \in Slots PROVE Kept(s.place, s.addr)'
  <2>1. CASE s.addr = a
    BY <1>2, <2>1 DEF Kept, Known
  <2>2. CASE s.addr # a
    <3>1. Kept(s.place, s.addr)
      BY DEF CurrentInv, SlotsInv
    <3>2. Agree(files, files', s.place) /\ Agree(known, known', s.addr)
      BY <1>2, <1>8, <2>2
    <3>3. Writers(s.addr)' \subseteq Writers(s.addr)
      BY <1>6, <2>2 DEF Writers
    <3>4. QED
      BY <3>1, <3>2, <3>3, KeptStays
  <2>3. QED
    BY <2>1, <2>2
<1>10. SlotsInv'
  BY <1>1, <1>9 DEF SlotsInv
<1>11. ASSUME NEW i \in Job PROVE Pending(i)'
  <2>1. CASE i = j
    BY <1>1, <1>2, <1>3, <1>7, <2>1 DEF Pending, Writers
  <2>2. CASE i \in Writers(a)
    <3>1. [place |-> call[i].place, addr |-> a] \in Slots /\ a.at \in Directories
      BY <1>4, <2>2 DEF CurrentInv, PendingInv, Pending
    <3>2. [place |-> call'[i].place, addr |-> call'[i].addr] \in Slots'
      <4>1. call'[i].place = call[i].place /\ call'[i].addr = a
        BY <1>4, <2>2
      <4>2. Slots = Slots' /\ [place |-> call[i].place, addr |-> a] \in Slots
        BY <1>1, <3>1
      <4>3. QED
        BY <4>1, <4>2, SameSlot
    <3>3. /\ call'[i].alone = FALSE /\ call'[i].addr = a
          /\ a \in DOMAIN known' /\ known'[a] = Unsure /\ a.at \in Directories
      BY <1>2, <1>4, <2>2
    <3>4. QED
      BY <3>2, <3>3 DEF Pending
  <2>3. CASE i # j /\ i \notin Writers(a)
    <3>1. call'[i] = call[i] /\ Pending(i)
      BY <1>5, <2>3 DEF CurrentInv, PendingInv
    <3>2. ASSUME call[i].pc = "write"
          PROVE  /\ Agree(known, known', call[i].addr) /\ Agree(files, files', call[i].place)
                 /\ Writers(call[i].addr)' = Writers(call[i].addr)
      <4> DEFINE s == [place |-> call[i].place, addr |-> call[i].addr]
      <4>1. s.place = call[i].place /\ s.addr = call[i].addr
        OBVIOUS
      <4>2. s \in Slots
        BY <3>1, <3>2 DEF Pending
      <4>3. call[i].addr # a
        BY <2>3, <3>2 DEF Writers
      <4> HIDE DEF s
      <4>4. call[i].place # p
        BY <1>8, <4>1, <4>2, <4>3
      <4>5. Writers(call[i].addr)' = Writers(call[i].addr)
        BY <1>6, <3>1, <4>3 DEF Writers
      <4>6. QED
        BY <1>2, <4>3, <4>4, <4>5
    <3>3. QED
      BY <3>1, <3>2, PendingStays
  <2>4. QED
    BY <2>1, <2>2, <2>3
<1>12. JudgingInv'
  <2> SUFFICES ASSUME NEW i \in Job PROVE Judging(i)'
    BY DEF JudgingInv
  <2>1. Judging(i)
    BY DEF CurrentInv, JudgingInv
  <2>2. QED
    BY <1>3, <1>4, <1>5, <2>1 DEF Judging
<1>13. QED
  BY <1>1, <1>10, <1>11, <1>12 DEF CurrentInv, PendingInv

\* A writer ends, who left the file as it was.
LEMMA EndKeeps ==
  ASSUME CurrentInv, NEW j \in Job, call' = [call EXCEPT ![j] = Idle],
         DOMAIN call = Job, UNCHANGED <<pipelineOf, files, known>>
  PROVE  CurrentInv'
<1>1. Idle.pc = "idle"
  BY DEF Idle
<1>2. \A i \in Job : call'[i] = call[i] \/ call'[i].pc \notin {"write", "judge"}
  BY <1>1
<1>3. QED
  BY <1>2, ReadersKeep

\* A write that is acknowledged.
LEMMA WriteKeeps ==
  ASSUME CurrentInv, CallsInv, NEW j \in Job, call[j].pc = "write",
         call' = [call EXCEPT ![j] = Idle], UNCHANGED pipelineOf,
         \/ ~ call[j].linked /\ UNCHANGED files
         \/ call[j].linked /\ files' = With(files, call[j].place, call[j].content)
         \/ call[j].linked /\ files[call[j].place] # Empty
            /\ files' = With(files, call[j].place, Torn),
         known' = IF call[j].alone THEN With(known, call[j].addr, call[j].content) ELSE known
  PROVE  CurrentInv'
<1> DEFINE p == call[j].place
           a == call[j].addr
           c == call[j].content
           t == [place |-> p, addr |-> a]
<1>1. Slots' = Slots
  BY SlotsStay
<1>2. /\ t \in Slots /\ t.place = p /\ t.addr = a
      /\ a \in DOMAIN known /\ known[a] = Unsure
      /\ call[j].alone => call[j].linked /\ Writers(a) = {j} /\ files[p] = Empty
  BY DEF CurrentInv, PendingInv, Pending
<1>3. DOMAIN call = Job /\ c.kind \in {"plain", "envelope"}
  BY DEF CallsInv, CallInv, Timely
<1>4. Idle.pc = "idle"
  BY DEF Idle
<1>5. call'[j].pc = "idle" /\ \A i \in Job : i # j => call'[i] = call[i]
  BY <1>3, <1>4
<1>6. \A q : q # p => Agree(files, files', q)
  BY WithIs DEF Agree
<1>7. /\ \A q : q # a => Agree(known, known', q)
      /\ ~ call[j].alone => known' = known
      /\ call[j].alone => a \in DOMAIN known' /\ known'[a] = c
  BY WithIs DEF Agree
<1>8. call[j].alone => p \in DOMAIN files' /\ files'[p] = c
  BY <1>2, WithIs
<1>9. \A b : {i \in Job : call'[i].pc = "write" /\ call'[i].addr = b} = Writers(b) \ {j}
  BY <1>5 DEF Writers
<1> HIDE DEF t, p, a, c
<1>10. \A s \in Slots : s.place = p <=> s.addr = a
  BY <1>2, SlotFacts
<1>11. ASSUME NEW s \in Slots PROVE Kept(s.place, s.addr)'
  <2>1. CASE s.addr # a
    <3>1. Kept(s.place, s.addr)
      BY DEF CurrentInv, SlotsInv
    <3>2. Agree(files, files', s.place) /\ Agree(known, known', s.addr)
      BY <1>6, <1>7, <1>10, <2>1
    <3>3. Writers(s.addr)' \subseteq Writers(s.addr)
      BY <1>9 DEF Writers
    <3>4. QED
      BY <3>1, <3>2, <3>3, KeptStays
  <2>2. CASE s.addr = a /\ ~ call[j].alone
    BY <1>2, <1>7, <2>2 DEF Kept, Known
  <2>3. CASE s.addr = a /\ call[j].alone
    <3>1. s.place = p
      BY <1>10, <2>3
    <3>2. Writers(s.addr)' = {}
      BY <1>2, <1>9, <2>3 DEF Writers
    <3>3. QED
      BY <1>3, <1>7, <1>8, <2>3, <3>1, <3>2 DEF Kept
  <2>4. QED
    BY <2>1, <2>2, <2>3
<1>12. SlotsInv'
  BY <1>1, <1>11 DEF SlotsInv
<1>13. ASSUME NEW i \in Job PROVE Pending(i)'
  <2>1. CASE i = j
    BY <1>5, <2>1 DEF Pending
  <2>2. CASE i # j /\ call[i].pc # "write"
    BY <1>5, <2>2 DEF Pending
  <2>3. CASE i # j /\ call[i].pc = "write" /\ call[i].addr = a
    <3>1. i \in Writers(a) /\ j \in Writers(a) /\ Pending(i)
      BY <2>3 DEF Writers, a, CurrentInv, PendingInv
    <3>2. ~ call[i].alone /\ ~ call[j].alone
      BY <1>2, <2>3, <3>1 DEF Pending
    <3>3. known' = known /\ call'[i] = call[i]
      BY <1>5, <1>7, <2>3, <3>2
    <3>4. QED
      BY <1>1, <3>1, <3>2, <3>3 DEF Pending
  <2>4. CASE i # j /\ call[i].pc = "write" /\ call[i].addr # a
    <3>1. Pending(i) /\ call'[i] = call[i]
      BY <1>5, <2>4 DEF CurrentInv, PendingInv
    <3>2. call[i].place # p
      <4> DEFINE s == [place |-> call[i].place, addr |-> call[i].addr]
      <4>1. s \in Slots /\ s.place = call[i].place /\ s.addr = call[i].addr
        BY <2>4, <3>1 DEF Pending
      <4> HIDE DEF s
      <4>2. QED
        BY <1>10, <2>4, <4>1
    <3>3. Writers(call[i].addr)' = Writers(call[i].addr)
      <4>1. j \notin Writers(call[i].addr)
        BY <2>4 DEF Writers, a
      <4>2. QED
        BY <1>9, <3>1, <4>1 DEF Writers
    <3>4. QED
      BY <1>6, <1>7, <2>4, <3>1, <3>2, <3>3, PendingStays
  <2>5. QED
    BY <2>1, <2>2, <2>3, <2>4
<1>14. JudgingInv'
  BY <1>5 DEF CurrentInv, JudgingInv, Judging
<1>15. QED
  BY <1>1, <1>12, <1>13, <1>14 DEF CurrentInv, PendingInv

LEMMA DeleteKeeps ==
  ASSUME CurrentInv, CallsInv, NEW p, NEW a, [place |-> p, addr |-> a] \in Slots,
         files' = Without(files, p),
         known' = IF Writers(a) = {} THEN Without(known, a) ELSE With(known, a, Unsure),
         call' = [i \in Job |-> IF i \in Writers(a)
                                THEN [call[i] EXCEPT !.alone = FALSE, !.linked = FALSE]
                                ELSE call[i]],
         UNCHANGED pipelineOf
  PROVE  CurrentInv'
<1>1. Slots' = Slots
  BY SlotsStay
<1>2. /\ p \notin DOMAIN files' /\ \A q : q # p => Agree(files, files', q)
      /\ \A q : q # a => Agree(known, known', q)
      /\ Writers(a) = {} => a \notin DOMAIN known'
      /\ Writers(a) # {} => a \in DOMAIN known' /\ known'[a] = Unsure
  <2>1. p \notin DOMAIN files' /\ \A q : q # p => Agree(files, files', q)
    BY WithoutIs
  <2>2. CASE Writers(a) = {}
    <3>1. known' = Without(known, a)
      BY <2>2
    <3>2. a \notin DOMAIN known' /\ \A q : q # a => Agree(known, known', q)
      BY <3>1, WithoutIs
    <3>3. QED
      BY <2>1, <2>2, <3>2
  <2>3. CASE Writers(a) # {}
    <3>1. known' = With(known, a, Unsure)
      BY <2>3
    <3>2. /\ a \in DOMAIN known' /\ known'[a] = Unsure
          /\ \A q : q # a => Agree(known, known', q)
      BY <3>1 DEF With, Agree
    <3>3. QED
      BY <2>1, <2>3, <3>2
  <2>4. QED
    BY <2>2, <2>3
<1>3. ASSUME NEW i \in Job, i \in Writers(a)
      PROVE  /\ call[i].pc = "write" /\ call[i].addr = a
             /\ call'[i].pc = "write" /\ call'[i].addr = a /\ call'[i].place = call[i].place
             /\ call'[i].alone = FALSE
  <2>1. call[i].pc = "write" /\ call[i].addr = a
    BY <1>3 DEF Writers
  <2>2. DOMAIN call[i] = WriteFields
    BY <2>1 DEF CallsInv, CallInv
  <2>3. call'[i] = [call[i] EXCEPT !.alone = FALSE, !.linked = FALSE]
    BY <1>3
  <2>4. QED
    BY <2>1, <2>2, <2>3 DEF WriteFields
<1>4. ASSUME NEW i \in Job, i \notin Writers(a)
      PROVE  call'[i] = call[i]
  BY <1>4
<1>5. \A b : {i \in Job : call'[i].pc = "write" /\ call'[i].addr = b} = Writers(b)
  BY <1>3, <1>4 DEF Writers
<1>6. ASSUME NEW s \in Slots
      PROVE  s.place = p <=> s.addr = a
  <2> DEFINE t == [place |-> p, addr |-> a]
  <2>1. t.place = p /\ t.addr = a /\ t \in Slots
    OBVIOUS
  <2> HIDE DEF t
  <2>2. QED
    BY <2>1, SlotFacts
<1>7. ASSUME NEW s \in Slots PROVE Kept(s.place, s.addr)'
  <2>1. CASE s.addr = a /\ Writers(a) # {}
    BY <1>2, <2>1 DEF Kept, Known
  <2>2. CASE s.addr = a /\ Writers(a) = {}
    <3>1. Writers(s.addr)' = {}
      BY <1>5, <2>2 DEF Writers
    <3>2. s.place = p
      BY <1>6, <2>2
    <3>3. QED
      BY <1>2, <2>2, <3>1, <3>2 DEF Kept
  <2>3. CASE s.addr # a
    <3>1. Kept(s.place, s.addr)
      BY DEF CurrentInv, SlotsInv
    <3>2. Agree(files, files', s.place) /\ Agree(known, known', s.addr)
      BY <1>2, <1>6, <2>3
    <3>3. Writers(s.addr)' \subseteq Writers(s.addr)
      BY <1>5 DEF Writers
    <3>4. QED
      BY <3>1, <3>2, <3>3, KeptStays
  <2>4. QED
    BY <2>1, <2>2, <2>3
<1>8. SlotsInv'
  BY <1>1, <1>7 DEF SlotsInv
<1>9. ASSUME NEW i \in Job PROVE Pending(i)'
  <2>1. CASE i \in Writers(a)
    <3>1. [place |-> call[i].place, addr |-> a] \in Slots /\ a.at \in Directories
      BY <1>3, <2>1 DEF CurrentInv, PendingInv, Pending
    <3>2. [place |-> call'[i].place, addr |-> call'[i].addr] \in Slots'
      <4>1. call'[i].place = call[i].place /\ call'[i].addr = a
        BY <1>3, <2>1
      <4>2. Slots = Slots' /\ [place |-> call[i].place, addr |-> a] \in Slots
        BY <1>1, <3>1
      <4>3. QED
        BY <4>1, <4>2, SameSlot
    <3>3. /\ call'[i].alone = FALSE /\ call'[i].addr = a
          /\ a \in DOMAIN known' /\ known'[a] = Unsure /\ a.at \in Directories
      BY <1>2, <1>3, <2>1, <3>1
    <3>4. QED
      BY <3>2, <3>3 DEF Pending
  <2>2. CASE i \notin Writers(a)
    <3>1. call'[i] = call[i] /\ Pending(i)
      BY <1>4, <2>2 DEF CurrentInv, PendingInv
    <3>2. ASSUME call[i].pc = "write"
          PROVE  /\ Agree(known, known', call[i].addr) /\ Agree(files, files', call[i].place)
                 /\ Writers(call[i].addr)' = Writers(call[i].addr)
      <4> DEFINE s == [place |-> call[i].place, addr |-> call[i].addr]
      <4>1. s.place = call[i].place /\ s.addr = call[i].addr
        OBVIOUS
      <4>2. s \in Slots
        BY <3>1, <3>2 DEF Pending
      <4>3. call[i].addr # a
        BY <2>2, <3>2 DEF Writers
      <4> HIDE DEF s
      <4>4. call[i].place # p
        BY <1>6, <4>1, <4>2, <4>3
      <4>5. Writers(call[i].addr)' = Writers(call[i].addr)
        BY <1>5, <3>1 DEF Writers
      <4>6. QED
        BY <1>2, <4>3, <4>4, <4>5
    <3>3. QED
      BY <3>1, <3>2, PendingStays
  <2>3. QED
    BY <2>1, <2>2
<1>10. JudgingInv'
  <2> SUFFICES ASSUME NEW i \in Job PROVE Judging(i)'
    BY DEF JudgingInv
  <2>1. Judging(i)
    BY DEF CurrentInv, JudgingInv
  <2>2. QED
    BY <1>3, <1>4, <2>1 DEF Judging
<1>11. QED
  BY <1>1, <1>8, <1>9, <1>10 DEF CurrentInv, PendingInv

\* A process's memory store ends, and with it what is known of it.
LEMMA DieKeeps ==
  ASSUME CurrentInv, CallsInv, NEW j \in Job, Die(j)
  PROVE  CurrentInv'
<1>1. Slots' = Slots
  BY SlotsStay DEF Die
<1>2. Idle.pc = "idle"
  BY DEF Idle
<1>3. call'[j].pc = "idle" /\ \A i \in Job : i # j => call'[i] = call[i]
  BY <1>2 DEF Die, CallsInv
<1>4. /\ \A q : q.at = j => q \notin DOMAIN files' /\ q \notin DOMAIN known'
      /\ \A q : q.at # j => Agree(files, files', q) /\ Agree(known, known', q)
  BY ForgetIs DEF Die
<1>5. \A b : {i \in Job : call'[i].pc = "write" /\ call'[i].addr = b} = Writers(b) \ {j}
  BY <1>3 DEF Writers
<1>6. ASSUME NEW s \in Slots PROVE Kept(s.place, s.addr)'
  <2>1. s.place.at = s.addr.at
    BY SlotFacts
  <2>2. CASE s.addr.at = j
    <3>1. Writers(s.addr) = {}
      BY <2>2, WriterSlot DEF Writers
    <3>2. Writers(s.addr)' = {}
      BY <1>5, <3>1 DEF Writers
    <3>3. QED
      BY <1>4, <2>1, <2>2, <3>2 DEF Kept
  <2>3. CASE s.addr.at # j
    <3>1. Kept(s.place, s.addr)
      BY DEF CurrentInv, SlotsInv
    <3>2. Writers(s.addr)' \subseteq Writers(s.addr)
      BY <1>5 DEF Writers
    <3>3. QED
      BY <1>4, <2>1, <2>3, <3>1, <3>2, KeptStays
  <2>4. QED
    BY <2>2, <2>3
<1>7. SlotsInv'
  BY <1>1, <1>6 DEF SlotsInv
<1>8. ASSUME NEW i \in Job PROVE Pending(i)'
  <2>1. CASE i = j
    BY <1>3, <2>1 DEF Pending
  <2>2. CASE i # j
    <3>1. Pending(i) /\ call'[i] = call[i]
      BY <1>3, <2>2 DEF CurrentInv, PendingInv
    <3>2. ASSUME call[i].pc = "write"
          PROVE  /\ Agree(known, known', call[i].addr) /\ Agree(files, files', call[i].place)
                 /\ call[i].alone => Writers(call[i].addr)' = Writers(call[i].addr)
      <4> DEFINE s == [place |-> call[i].place, addr |-> call[i].addr]
      <4>1. s.place = call[i].place /\ s.addr = call[i].addr
        OBVIOUS
      <4>2. s \in Slots /\ s.addr.at \in Directories
        BY <3>1, <3>2 DEF Pending
      <4> HIDE DEF s
      <4>3. s.place.at = s.addr.at /\ s.addr.at # j
        BY <4>2, SlotFacts, DataConstants DEF Directories
      <4>4. ASSUME call[i].alone PROVE Writers(call[i].addr)' = Writers(call[i].addr)
        <5>1. Writers(call[i].addr) = {i}
          BY <3>1, <3>2, <4>4 DEF Pending
        <5>2. QED
          BY <1>5, <2>2, <3>1, <5>1 DEF Writers
      <4>5. QED
        BY <1>4, <4>1, <4>3, <4>4
    <3>3. QED
      BY <3>1, <3>2, PendingStays DEF Die
  <2>3. QED
    BY <2>1, <2>2
<1>9. JudgingInv'
  BY <1>3 DEF CurrentInv, JudgingInv, Judging
<1>10. QED
  BY <1>1, <1>7, <1>8, <1>9 DEF CurrentInv, PendingInv

LEMMA SilentAnswer ==
  ASSUME answer'.op \notin {"load", "exists"} \/ answer'.believed = Unsure
  PROVE  AnswersAreCurrent'
BY DEF AnswersAreCurrent

LEMMA RefusedCurrent ==
  ASSUME CurrentInv, NEW op, Refused(op), UNCHANGED pipelineOf
  PROVE  CurrentInv' /\ AnswersAreCurrent'
<1>1. CurrentInv'
  BY ReadersKeep DEF Refused
<1>2. answer'.believed = Unsure
  BY DEF Refused, Reply
<1>3. QED
  BY <1>1, <1>2, SilentAnswer

\* The place and the address of an accepted operation.
LEMMA SlotOf ==
  ASSUME NEW j \in Job, NEW st, NEW key \in Key, NEW namespace \in Namespace,
         NEW late \in BOOLEAN, Accepted(j, st, key), NEW ns, ns = Given(late, namespace, <<>>)
  PROVE  /\ [place |-> Place(j, st, key, ns), addr |-> Address(j, st, key, ns)] \in Slots
         /\ st = "memory" => Address(j, st, key, ns).at = j
         /\ st # "memory" => Address(j, st, key, ns).at \in Directories
<1>1. ns \in Scope
  BY DEF Given, Scope
<1>2. st \in Stores
  BY DEF Accepted, Stores, Directories
<1>3. st # "memory" => st \in Directories
  BY DEF Accepted, Directories
<1>4. [place |-> Place(j, st, key, ns), addr |-> Address(j, st, key, ns)] \in Slots
  BY <1>1, <1>2 DEF Slots
<1>5. Address(j, st, key, ns).at = Medium(j, st)
  BY DEF Address
<1>6. QED
  BY <1>3, <1>4, <1>5 DEF Medium

LEMMA StoreCurrent ==
  ASSUME IInv, CurrentInv, NEW j \in Job, NEW key \in Key, NEW namespace \in Namespace, NEW v,
         NEW ttlOption \in TTL, NEW late \in BOOLEAN, Store(j, key, namespace, v, ttlOption, late)
  PROVE  CurrentInv' /\ AnswersAreCurrent'
<1> DEFINE st == Given(late, store, "gitlab")
           ns == Given(late, namespace, <<>>)
           ttl == Given(late, ttlOption, NoTTL)
           data == IF KindOf[j] = "run" THEN Resolved[v] ELSE v
           p == Place(j, st, key, ns)
           a == Address(j, st, key, ns)
           c == Content(data, ttl)
           w == [pc |-> "write", place |-> p, addr |-> a, content |-> c,
                 alone |-> Writers(a) = {}, linked |-> TRUE]
<1>1. UNCHANGED pipelineOf /\ call[j].pc = "idle" /\ CallsInv
  BY DEF Store, Ready, IInv
<1>2. CASE Refused("store")
  BY <1>1, <1>2, RefusedCurrent
<1>3. CASE ~ Refused("store")
  <2>1. (ttl = NoTTL \/ ttl \in Int) /\ Accepted(j, st, key)
    BY <1>3, DataConstants DEF Store, Given
  <2>2. c.kind \in {"plain", "envelope"}
    BY <2>1, ContentIsTimely DEF IInv, Timely
  <2>3. /\ [place |-> p, addr |-> a] \in Slots
        /\ st = "memory" => a.at = j
        /\ st # "memory" => a.at \in Directories
    BY <2>1, SlotOf
  <2>4. CASE st = "memory"
    <3>1. files' = Ends(j, With(files, p, c)) /\ known' = Ends(j, With(known, a, c))
          /\ answer' = [op |-> "store", outcome |-> "stored"] /\ UNCHANGED call
      BY <1>3, <2>4 DEF Store, Reply
    <3>2. answer'.op = "store" /\ a.at = j
      BY <2>3, <2>4, <3>1
    <3> HIDE DEF p, a, c
    <3>3. CurrentInv'
      BY <1>1, <2>2, <2>3, <3>1, <3>2, MemoryKeeps
    <3>4. QED
      BY <3>2, <3>3, SilentAnswer
  <2>5. CASE st # "memory"
    <3>1. /\ files' = With(files, p, Empty) /\ known' = With(known, a, Unsure) /\ answer' = None
          /\ call' = [[i \in Job |-> IF i \in Writers(a)
                                     THEN [call[i] EXCEPT !.alone = FALSE] ELSE call[i]]
                      EXCEPT ![j] = w]
      BY <1>3, <2>5 DEF Store
    <3>2. answer'.op = "none" /\ a.at \in Directories
      BY <2>3, <2>5, <3>1 DEF None
    <3>3. w.pc = "write" /\ w.place = p /\ w.addr = a /\ w.linked /\ w.alone = (Writers(a) = {})
      OBVIOUS
    <3> HIDE DEF p, a, c, w
    <3>4. CurrentInv'
      BY <1>1, <2>3, <3>1, <3>2, <3>3, OpenKeeps
    <3>5. QED
      BY <3>2, <3>4, SilentAnswer
  <2>6. QED
    BY <2>4, <2>5
<1>4. QED
  BY <1>2, <1>3

LEMMA WriteCurrent ==
  ASSUME IInv, CurrentInv, NEW j \in Job, Write(j)
  PROVE  CurrentInv' /\ AnswersAreCurrent'
<1>1. /\ call[j].pc = "write" /\ call' = [call EXCEPT ![j] = Idle] /\ UNCHANGED pipelineOf
      /\ CallsInv /\ DOMAIN call = Job
  BY DEF Write, IInv, CallsInv
<1>2. answer'.op = "store"
  BY DEF Write, Reply
<1>3. CASE UNCHANGED <<files, known>>
  BY <1>1, <1>2, <1>3, EndKeeps, SilentAnswer
<1>4. CASE ~ UNCHANGED <<files, known>>
  <2>1. CurrentInv'
    BY <1>1, <1>4, WriteKeeps DEF Write
  <2>2. QED
    BY <1>2, <2>1, SilentAnswer
<1>5. QED
  BY <1>3, <1>4

\* What is known of an address is in its place.
LEMMA BelievedIsThere ==
  ASSUME CurrentInv, NEW p, NEW a, [place |-> p, addr |-> a] \in Slots, Known(a) # Unsure
  PROVE  /\ Known(a) = Nothing <=> p \notin DOMAIN files
         /\ p \in DOMAIN files => files[p] = Known(a) /\ Known(a).kind \in {"plain", "envelope"}
<1> DEFINE t == [place |-> p, addr |-> a]
<1>1. t.place = p /\ t.addr = a /\ t \in Slots
  OBVIOUS
<1> HIDE DEF t
<1>2. Kept(p, a)
  BY <1>1 DEF CurrentInv, SlotsInv
<1>3. Nothing.kind = "nothing"
  BY DEF Nothing
<1>4. QED
  BY <1>2, <1>3 DEF Kept, Known

LEMMA LoadCurrent ==
  ASSUME IInv, CurrentInv, NEW j \in Job, NEW key \in Key, NEW namespace \in Namespace,
         NEW default \in BOOLEAN, NEW late \in BOOLEAN, Load(j, key, namespace, default, late)
  PROVE  CurrentInv' /\ AnswersAreCurrent'
<1> DEFINE st == Given(late, store, "gitlab")
           ns == Given(late, namespace, <<>>)
           fallback == Given(late, default, FALSE)
           p == Place(j, st, key, ns)
           a == Address(j, st, key, ns)
           d == [pc |-> "judge", content |-> files[p], fallback |-> fallback, believed |-> Known(a)]
<1>1. UNCHANGED pipelineOf /\ call[j].pc = "idle" /\ DOMAIN call = Job
  BY DEF Load, Ready, IInv, CallsInv
<1>2. CASE Refused("load")
  BY <1>1, <1>2, RefusedCurrent
<1>3. CASE ~ Refused("load")
  <2>1. Accepted(j, st, key) /\ UNCHANGED <<files, known>>
    BY <1>3 DEF Load
  <2>2. [place |-> p, addr |-> a] \in Slots
    BY <2>1, SlotOf
  <2> DEFINE f == files[p]
             k == Known(a)
             gone == p \notin DOMAIN files
  <2>3. /\ k # Unsure => (k = Nothing <=> gone)
        /\ k # Unsure /\ ~ gone => f = k /\ k.kind \in {"plain", "envelope"}
    <3> HIDE DEF p, a
    <3>1. SUFFICES ASSUME k # Unsure
                   PROVE  (k = Nothing <=> gone)
                          /\ (~ gone => f = k /\ k.kind \in {"plain", "envelope"})
      OBVIOUS
    <3>2. QED
      BY <2>2, <3>1, BelievedIsThere
  <2>4. Empty.kind = "empty" /\ Torn.kind = "torn"
    BY DEF Empty, Torn
  <2>5. ASSUME NEW failed, Missed(fallback, a, failed), UNCHANGED call,
               failed = TRUE \/ gone \/ f \in {Empty, Torn}
        PROVE  CurrentInv' /\ AnswersAreCurrent'
    <3>2. CurrentInv'
      BY <1>1, <2>1, <2>5, ReadersKeep
    <3>3. /\ answer'.believed = k /\ answer'.outcome \in {"missing", "fallback"}
          /\ answer'.failed = failed
      BY <2>5 DEF Missed, Reply
    <3> HIDE DEF f, k, gone
    <3>4. k = Unsure \/ k = Nothing \/ answer'.failed
      BY <2>3, <2>4, <2>5, <3>3
    <3>5. QED
      BY <3>2, <3>3, <3>4 DEF AnswersAreCurrent
  <2>6. CASE ~ gone /\ f.kind = "envelope" /\ call' = [call EXCEPT ![j] = d] /\ answer' = None
    <3>1. call' = [call EXCEPT ![j] = d] /\ answer' = None
      BY <2>6
    <3>2. d.pc = "judge" /\ d.believed = k /\ d.content = f
      OBVIOUS
    <3> HIDE DEF d
    <3>3. d.believed \in {Unsure, d.content}
      <4> HIDE DEF f, k, gone
      <4> QED
        BY <2>3, <2>6, <3>2
    <3>4. answer'.op = "none"
      BY <3>1 DEF None
    <3>5. CurrentInv'
      BY <1>1, <2>1, <3>1, <3>2, <3>3, ReadersKeep
    <3>6. QED
      BY <3>4, <3>5, SilentAnswer
  <2>7. CASE /\ ~ gone /\ f.kind = "plain" /\ UNCHANGED call
             /\ Found(f, IF f.data \in Lookalike THEN Nil ELSE f.data, k)
    <3>1. /\ Found(f, IF f.data \in Lookalike THEN Nil ELSE f.data, k)
          /\ UNCHANGED call
      BY <2>7
    <3>2. CurrentInv'
      BY <1>1, <2>1, <3>1, ReadersKeep
    <3>3. /\ answer'.believed = k /\ answer'.outcome = "value"
          /\ answer'.value = IF f.data \in Lookalike THEN Nil ELSE f.data
      BY <3>1 DEF Found, Reply
    <3> HIDE DEF f, k, gone
    <3>4. k = Unsure \/ (k # Nothing /\ k = f /\ k.kind = "plain")
      BY <2>3, <2>7
    <3>5. QED
      BY <3>2, <3>3, <3>4 DEF AnswersAreCurrent
  <2>8. \/ /\ ~ gone => f \in {Empty, Torn}
           /\ Missed(fallback, a, FALSE) /\ UNCHANGED call
        \/ Missed(fallback, a, TRUE) /\ UNCHANGED call
        \/ ~ gone /\ f.kind = "envelope" /\ call' = [call EXCEPT ![j] = d] /\ answer' = None
        \/ /\ ~ gone /\ f.kind = "plain" /\ UNCHANGED call
           /\ Found(f, IF f.data \in Lookalike THEN Nil ELSE f.data, k)
    BY <1>3, <2>1, Zenon DEF Load
  <2>9. QED
    BY <2>5, <2>6, <2>7, <2>8
<1>4. QED
  BY <1>2, <1>3

LEMMA JudgeCurrent ==
  ASSUME IInv, CurrentInv, NEW j \in Job, Judge(j)
  PROVE  CurrentInv' /\ AnswersAreCurrent'
<1> DEFINE c == call[j].content
           b == call[j].believed
<1>1. /\ call[j].pc = "judge" /\ call' = [call EXCEPT ![j] = Idle] /\ DOMAIN call = Job
      /\ UNCHANGED <<pipelineOf, files, known>>
  BY DEF Judge, IInv, CallsInv
<1>2. CurrentInv'
  BY <1>1, EndKeeps
<1>3. /\ b = Unsure \/ b = c
      /\ c.kind = "envelope" /\ c.due \in Int /\ c.expires \in Int /\ c.expires > c.due - Second
      /\ clock \in Int
  BY <1>1 DEF CurrentInv, JudgingInv, Judging, IInv, CallsInv, CallInv, Timely, ClockInv
<1>4. Nothing.kind = "nothing"
  BY DEF Nothing
<1>5. CASE clock > c.expires
  <2>1. answer'.believed = b /\ answer'.outcome = "expired" /\ answer'.at = clock
    BY <1>5 DEF Judge, Reply
  <2>2. clock > c.due - Second
    BY <1>3, <1>5, DataConstants
  <2>3. QED
    BY <1>2, <1>3, <1>4, <2>1, <2>2 DEF AnswersAreCurrent
<1>6. CASE ~ (clock > c.expires)
  <2>1. answer'.believed = b /\ answer'.outcome = "value" /\ answer'.value = c.data
    BY <1>6 DEF Judge, Found, Reply
  <2>2. QED
    BY <1>2, <1>3, <1>4, <2>1 DEF AnswersAreCurrent
<1>7. QED
  BY <1>5, <1>6

LEMMA DeleteCurrent ==
  ASSUME IInv, CurrentInv, NEW j \in Job, NEW key \in Key, NEW namespace \in Namespace,
         NEW late \in BOOLEAN, Delete(j, key, namespace, late)
  PROVE  CurrentInv' /\ AnswersAreCurrent'
<1> DEFINE st == Given(late, store, "gitlab")
           ns == Given(late, namespace, <<>>)
           p == Place(j, st, key, ns)
           a == Address(j, st, key, ns)
<1>1. UNCHANGED pipelineOf /\ CallsInv
  BY DEF Delete, Ready, IInv
<1>2. CASE Refused("delete")
  BY <1>1, <1>2, RefusedCurrent
<1>3. CASE UNCHANGED <<files, known, call>> /\ answer' = [op |-> "delete", outcome |-> "failed"]
  <2>1. CurrentInv' /\ answer'.op = "delete"
    BY <1>1, <1>3, ReadersKeep
  <2>2. QED
    BY <2>1, SilentAnswer
<1>4. CASE /\ ~ Refused("delete")
           /\ ~ (UNCHANGED <<files, known, call>>
                 /\ answer' = [op |-> "delete", outcome |-> "failed"])
  <2>1. Accepted(j, st, key)
    BY <1>4, Zenon DEF Delete
  <2>2. /\ files' = Without(files, p)
        /\ known' = IF Writers(a) = {} THEN Without(known, a) ELSE With(known, a, Unsure)
        /\ call' = [i \in Job |-> IF i \in Writers(a)
                                  THEN [call[i] EXCEPT !.alone = FALSE, !.linked = FALSE]
                                  ELSE call[i]]
        /\ answer' = [op |-> "delete", outcome |-> IF p \in DOMAIN files \/ st = "memory"
                                                  THEN "deleted" ELSE "failed"]
    BY <1>4, <2>1, Zenon DEF Delete, Reply
  <2>3. answer'.op = "delete"
    BY <2>2
  <2>4. [place |-> p, addr |-> a] \in Slots
    BY <2>1, SlotOf
  <2> HIDE DEF p, a
  <2>5. CurrentInv'
    BY <1>1, <2>2, <2>4, DeleteKeeps
  <2>6. QED
    BY <2>3, <2>5, SilentAnswer
<1>5. QED
  BY <1>2, <1>3, <1>4

LEMMA ExistsCurrent ==
  ASSUME IInv, CurrentInv, NEW j \in Job, NEW key \in Key, NEW ns \in Namespace, Exists(j, key, ns)
  PROVE  CurrentInv' /\ AnswersAreCurrent'
<1> DEFINE p == Place(j, store, key, ns)
           a == Address(j, store, key, ns)
<1>1. UNCHANGED pipelineOf
  BY DEF Exists, Ready
<1>2. CASE Refused("exists")
  BY <1>1, <1>2, RefusedCurrent
<1>3. CASE ~ Refused("exists")
  <2>1. Accepted(j, store, key) /\ UNCHANGED <<files, known, call>>
    BY <1>3 DEF Exists
  <2>2. answer' = [op |-> "exists", outcome |-> IF p \in DOMAIN files THEN "yes" ELSE "no",
                   believed |-> Known(a)]
    BY <1>3 DEF Exists, Reply
  <2>3. ns = Given(FALSE, ns, <<>>)
    BY DEF Given
  <2>4. [place |-> p, addr |-> a] \in Slots
    BY <2>1, <2>3, SlotOf
  <2>5. Known(a) = Unsure \/ (Known(a) = Nothing <=> p \notin DOMAIN files)
    BY <2>4, BelievedIsThere
  <2>6. CurrentInv'
    BY <1>1, <2>1, ReadersKeep
  <2> HIDE DEF p, a
  <2>7. /\ answer'.believed = Known(a)
        /\ answer'.outcome = IF p \in DOMAIN files THEN "yes" ELSE "no"
    BY <2>2
  <2>8. QED
    BY <2>5, <2>6, <2>7 DEF AnswersAreCurrent
<1>4. QED
  BY <1>2, <1>3

LEMMA InitCurrent == Init => CurrentInv /\ AnswersAreCurrent
<1> SUFFICES ASSUME Init PROVE CurrentInv /\ AnswersAreCurrent
  OBVIOUS
<1>1. \A j \in Job : call[j].pc = "idle"
  BY DEF Init, Idle
<1>2. SlotsInv /\ PendingInv /\ JudgingInv
  BY <1>1 DEF Init, SlotsInv, Kept, Writers, PendingInv, Pending, JudgingInv, Judging
<1>3. answer.op = "none"
  BY DEF Init, None
<1>4. QED
  BY <1>2, <1>3 DEF CurrentInv, AnswersAreCurrent

LEMMA CurrentStep ==
  IInv /\ CurrentInv /\ AnswersAreCurrent /\ [Next]_vars => CurrentInv' /\ AnswersAreCurrent'
<1> SUFFICES ASSUME IInv, CurrentInv, AnswersAreCurrent, [Next]_vars
             PROVE  CurrentInv' /\ AnswersAreCurrent'
  OBVIOUS
<1>1. CASE UNCHANGED vars
  <2>1. UNCHANGED <<pipelineOf, files, known, call, answer>>
    BY <1>1 DEF vars
  <2>2. CurrentInv'
    BY <2>1, ReadersKeep
  <2>3. QED
    BY <2>1, <2>2 DEF AnswersAreCurrent
<1>2. CASE Tick
  <2>1. UNCHANGED <<pipelineOf, files, known, call>> /\ answer'.op = "none"
    BY <1>2 DEF Tick, None
  <2>2. CurrentInv'
    BY <2>1, ReadersKeep
  <2>3. QED
    BY <2>1, <2>2, SilentAnswer
<1>3. ASSUME NEW j \in Job, Run(j) PROVE CurrentInv' /\ AnswersAreCurrent'
  BY <1>3, StoreCurrent, LoadCurrent, DeleteCurrent, ExistsCurrent DEF Run
<1>4. ASSUME NEW j \in Job, SetCommand(j) PROVE CurrentInv' /\ AnswersAreCurrent'
  BY <1>4, StoreCurrent DEF SetCommand
<1>5. ASSUME NEW j \in Job, GetCommand(j) PROVE CurrentInv' /\ AnswersAreCurrent'
  BY <1>5, LoadCurrent DEF GetCommand
<1>6. ASSUME NEW j \in Job, DeleteCommand(j) PROVE CurrentInv' /\ AnswersAreCurrent'
  BY <1>6, DeleteCurrent DEF DeleteCommand
<1>7. ASSUME NEW j \in Job, ListCommand(j) PROVE CurrentInv' /\ AnswersAreCurrent'
  BY <1>7, RefusedCurrent DEF ListCommand, Ready
<1>8. ASSUME NEW j \in Job, Write(j) PROVE CurrentInv' /\ AnswersAreCurrent'
  BY <1>8, WriteCurrent
<1>9. ASSUME NEW j \in Job, Judge(j) PROVE CurrentInv' /\ AnswersAreCurrent'
  BY <1>9, JudgeCurrent
<1>10. ASSUME NEW j \in Job, Die(j) PROVE CurrentInv' /\ AnswersAreCurrent'
  <2>1. answer'.op = "none"
    BY <1>10 DEF Die, None
  <2>2. QED
    BY <1>10, <2>1, DieKeeps, SilentAnswer DEF IInv
<1>11. QED
  BY <1>1, <1>2, <1>3, <1>4, <1>5, <1>6, <1>7, <1>8, <1>9, <1>10 DEF Next

\* Every load and exists answers for the last operation on what its namespace, pipeline and
\* key read as, if that was acknowledged and overlapped no other; a value may be called
\* missing only when reading it failed: for any jobs, pipelines, stores, names and values,
\* names that read the same once joined included.  (data.go loadData, existsData, buildKey)
THEOREM AnswersHold == Spec => []AnswersAreCurrent
<1>1. Init => IInv /\ CurrentInv /\ AnswersAreCurrent
  BY InitHolds, InitCurrent
<1>2. IInv /\ CurrentInv /\ AnswersAreCurrent /\ [Next]_vars
        => (IInv /\ CurrentInv /\ AnswersAreCurrent)'
  BY StepPreserves, CurrentStep
<1>3. QED
  BY <1>1, <1>2, PTL DEF Spec
=============================================================================
