----------------------------- MODULE DataStore -----------------------------
(***************************************************************************)
(* pkg/data: the data.* steps of a workflow and the commands shiro set,    *)
(* get, delete and list, over the state stores of internal/state.  Several *)
(* processes (jobs) of one or more CI pipelines share a directory.         *)
(*                                                                         *)
(* Atomicity: os.WriteFile is an open that truncates and a write;          *)
(* os.ReadFile, os.Remove and os.Stat are one step each.  The clock may    *)
(* advance between any two steps, and any call on a directory may fail.    *)
(* A name is the sequence of its parts between dashes: joining names with  *)
(* '-' is concatenation, and nothing but the parts is left of where one    *)
(* name ended.  Names that read the same once joined are one name.         *)
(***************************************************************************)
EXTENDS Integers, Sequences

CONSTANTS
  Job,         \* processes, one after another under one identity
  KindOf,      \* "run": a workflow run; "command": one CLI command per process
  Pipelines,   \* which pipelines the jobs may belong to: functions from Job
  StoreTypes,  \* the -state-store values in use
  Key, Namespace,  \* names; <<"">> is the empty key, <<>> no namespace
  Value, Nil, Unresolved,
  Resolved,    \* what the variable resolver makes of a value, once more
  Lookalike,   \* the values that are maps with a member _ttl of their own
  TTL,         \* ttl options: NoTTL, BadTTL or a duration in ticks
  NoTTL, BadTTL,
  Second,      \* ticks of the clock in a second
  MaxTime, MaxOps  \* bounds on the clock and on the operations begun

ASSUME DataConstants ==
  /\ KindOf \in [Job -> {"run", "command"}]
  /\ Pipelines \subseteq [Job -> Seq(STRING)]
  /\ Key \subseteq Seq(STRING) /\ Namespace \subseteq Seq(STRING)
  /\ Resolved \in [Value -> Value \cup {Unresolved}] /\ Lookalike \subseteq Value
  /\ Nil \notin Value /\ Unresolved \notin Value
  /\ TTL \subseteq Int \cup {NoTTL, BadTTL}
  /\ Second \in Nat \ {0} /\ MaxTime \in Nat /\ MaxOps \in Nat
  /\ Job \cap {"filesystem", "gitlab"} = {}

VARIABLES
  pipelineOf,  \* CI_PIPELINE_ID of each job, a name; <<>> when it is not set
  store,   \* the type of the state store
  files,   \* place -> content; a place is a file, or a key of one process's memory store
  clock,   \* time.Now
  ops,     \* operations begun
  call,    \* per job: the operation in progress
  answer,  \* how an operation ended that ended in the last step
  known    \* history: address -> what acknowledged operations have left there; an address
           \* is the text that namespace, pipeline and key read as, one after the other

vars == <<pipelineOf, store, files, clock, ops, call, answer, known>>

Never == MaxTime + 1
Empty == [kind |-> "empty"]   \* truncated
Torn == [kind |-> "torn"]     \* the bytes of two writers
Nothing == [kind |-> "nothing"]
Unsure == [kind |-> "unsure"] \* operations on the address overlapped, failed or were killed
Idle == [pc |-> "idle"]
None == [op |-> "none"]

Floor(t) == t - (t % Second)

\* What Save writes: the value, or an envelope whose _expires_at has no fractions of a
\* second (RFC 3339).  `due' is the moment meant, for the properties.
Content(data, ttl) ==
  IF ttl = NoTTL THEN [kind |-> "plain", data |-> data, due |-> Never]
  ELSE [kind |-> "envelope", data |-> data, due |-> clock + ttl, expires |-> Floor(clock + ttl)]

\* Mutant: the namespace is left out.
BugBuildKey(j, key, ns) ==
  <<"data">> \o (IF pipelineOf[j] = <<>> THEN <<"default">> ELSE pipelineOf[j]) \o key

buildKey(j, key, ns) ==
  <<"data">> \o ns \o (IF pipelineOf[j] = <<>> THEN <<"default">> ELSE pipelineOf[j]) \o key

\* The options of a command.  flag.Parse stops at the first argument that is not an
\* option, so that options after the key are not seen and their defaults hold.
Given(late, option, default) == IF late THEN default ELSE option

\* Each process has a memory store of its own, each directory store its directory.
Medium(j, st) == IF st = "memory" THEN j ELSE st

\* The GitLab store adds the pipeline to the name once more.
Place(j, st, key, ns) ==
  [at |-> Medium(j, st),
   name |-> buildKey(j, key, ns) \o
            (IF st = "gitlab" /\ pipelineOf[j] # <<>> THEN <<"pipeline">> \o pipelineOf[j]
             ELSE <<>>)]

\* What the operation is meant to be at: namespace, pipeline and key, in this order; the
\* pipeline once more where the GitLab store keeps its pipelines apart.
Address(j, st, key, ns) ==
  LET pipeline == IF pipelineOf[j] = <<>> THEN <<"default">> ELSE pipelineOf[j]
      own == IF st = "gitlab" /\ pipelineOf[j] # <<>> THEN <<"pipeline">> \o pipelineOf[j] ELSE <<>>
  IN [at |-> Medium(j, st), name |-> <<"data">> \o ns \o pipeline \o key \o own]
Known(a) == IF a \in DOMAIN known THEN known[a] ELSE Nothing
Writers(a) == {j \in Job : call[j].pc = "write" /\ call[j].addr = a}
With(f, p, c) == [q \in DOMAIN f \cup {p} |-> IF q = p THEN c ELSE f[q]]
Without(f, p) == [q \in DOMAIN f \ {p} |-> f[q]]
\* A process's memory store ends with it.
Forget(f, j) == [q \in {r \in DOMAIN f : r.at # j} |-> f[q]]

\* Mutant: a command's memory store outlives the command.
BugEnds(j, f) == f

Ends(j, f) == IF KindOf[j] = "command" THEN Forget(f, j) ELSE f

TypeOK ==
  /\ pipelineOf \in Pipelines
  /\ store \in StoreTypes
  /\ \A p \in DOMAIN files : files[p].kind \in {"plain", "envelope", "empty", "torn"}
  /\ clock \in 0..MaxTime /\ ops \in 0..MaxOps
  /\ \A j \in Job : call[j].pc \in {"idle", "write", "judge"}
  /\ answer.op \in {"none", "store", "load", "delete", "exists", "list"}
  /\ \A a \in DOMAIN known : known[a].kind \in {"plain", "envelope", "unsure"}
  /\ \A p \in DOMAIN files : p.at \in Job => KindOf[p.at] = "run"

Init ==
  /\ pipelineOf \in Pipelines
  /\ store \in StoreTypes
  /\ files = << >> /\ known = << >>
  /\ clock = 0 /\ ops = 0
  /\ call = [j \in Job |-> Idle]
  /\ answer = None

Tick ==
  /\ clock < MaxTime
  /\ clock' = clock + 1
  /\ answer' = None
  /\ UNCHANGED <<pipelineOf, store, files, ops, call, known>>

Ready(j) ==
  /\ call[j].pc = "idle"
  /\ ops < MaxOps
  /\ ops' = ops + 1
  /\ UNCHANGED <<pipelineOf, store, clock>>

Reply(r) == answer' = r

\* StoreFactory.Create; the commands pass an empty key on, the steps do not.
Accepted(j, st, key) ==
  /\ st \in {"filesystem", "gitlab", "memory"}
  /\ KindOf[j] = "run" => key # <<"">>

\* An operation that ends before it reaches the store; `shiro list' always does.
Refused(op) ==
  /\ Reply([op |-> op, outcome |-> "error", believed |-> Unsure])
  /\ UNCHANGED <<files, call, known>>

-----------------------------------------------------------------------------
(* data.store, shiro set.                                                  *)

\* The map operation of the memory store, or the open of os.WriteFile.
Store(j, key, namespace, v, ttlOption, late) ==
  LET st == Given(late, store, "gitlab")
      ns == Given(late, namespace, <<>>)
      ttl == Given(late, ttlOption, NoTTL)
      data == IF KindOf[j] = "run" THEN Resolved[v] ELSE v
      p == Place(j, st, key, ns)
      a == Address(j, st, key, ns) IN
  /\ Ready(j)
  /\ IF ~ Accepted(j, st, key) \/ data = Unresolved \/ ttl = BadTTL THEN Refused("store")
     ELSE IF st = "memory"
     THEN /\ files' = Ends(j, With(files, p, Content(data, ttl)))
          /\ known' = Ends(j, With(known, a, Content(data, ttl)))
          /\ Reply([op |-> "store", outcome |-> "stored"])
          /\ UNCHANGED call
     ELSE \/ /\ files' = With(files, p, Empty)
             /\ known' = With(known, a, Unsure)
             /\ call' = [[i \in Job |-> IF i \in Writers(a)
                                        THEN [call[i] EXCEPT !.alone = FALSE] ELSE call[i]]
                         EXCEPT ![j] = [pc |-> "write", place |-> p, addr |-> a,
                                        content |-> Content(data, ttl),
                                        alone |-> Writers(a) = {}, linked |-> TRUE]]
             /\ answer' = None
          \/ Refused("store")  \* the directory or the file cannot be opened

\* The write of os.WriteFile, which may fail.  Over the bytes of another writer a shorter
\* text leaves their tail; the bytes of a file that was removed go nowhere.
Write(j) ==
  LET w == call[j] IN
  /\ w.pc = "write"
  /\ call' = [call EXCEPT ![j] = Idle]
  /\ \/ /\ \/ ~ w.linked /\ UNCHANGED files
           \/ w.linked /\ files' = With(files, w.place, w.content)
           \/ w.linked /\ files[w.place] # Empty /\ files' = With(files, w.place, Torn)
        /\ known' = IF w.alone THEN With(known, w.addr, w.content) ELSE known
        /\ Reply([op |-> "store", outcome |-> "stored"])
     \/ /\ Reply([op |-> "store", outcome |-> "error"])
        /\ UNCHANGED <<files, known>>
  /\ UNCHANGED <<pipelineOf, store, clock, ops>>

-----------------------------------------------------------------------------
(* data.load, shiro get.                                                   *)

\* `failed': the file may be there, but reading it failed.
Missed(fallback, a, failed) ==
  Reply([op |-> "load", outcome |-> IF fallback THEN "fallback" ELSE "missing",
         believed |-> Known(a), failed |-> failed])

Found(c, data, believed) ==
  Reply([op |-> "load", outcome |-> "value", value |-> data, at |-> clock, due |-> c.due,
            believed |-> believed])

\* Every error of the store's Load, that of a torn file or of a failing read too, is taken
\* for a missing key, and the fallback (get: -default) is the answer, when there is one.
Load(j, key, namespace, default, late) ==
  LET st == Given(late, store, "gitlab")
      ns == Given(late, namespace, <<>>)
      fallback == Given(late, default, FALSE)
      p == Place(j, st, key, ns)
      a == Address(j, st, key, ns) IN
  /\ Ready(j)
  /\ IF ~ Accepted(j, st, key) THEN Refused("load")
     ELSE /\ \/ /\ p \in DOMAIN files => files[p] \in {Empty, Torn}
                /\ Missed(fallback, a, FALSE) /\ UNCHANGED call
             \/ /\ st # "memory"  \* os.ReadFile fails
                /\ Missed(fallback, a, TRUE) /\ UNCHANGED call
             \/ /\ p \in DOMAIN files /\ files[p].kind = "envelope"
                /\ call' = [call EXCEPT ![j] = [pc |-> "judge", content |-> files[p],
                                          fallback |-> fallback, believed |-> Known(a)]]
                /\ answer' = None
             \/ /\ p \in DOMAIN files /\ files[p].kind = "plain"
                /\ Found(files[p], IF files[p].data \in Lookalike THEN Nil ELSE files[p].data,
                         Known(a))
                /\ UNCHANGED call
          /\ UNCHANGED <<files, known>>

\* Mutant: the expiry counts only when there is a fallback to return.
BugJudge(j) ==
  LET c == call[j].content IN
  /\ call[j].pc = "judge"
  /\ call' = [call EXCEPT ![j] = Idle]
  /\ IF clock > c.expires /\ call[j].fallback
     THEN Reply([op |-> "load", outcome |-> "expired", at |-> clock,
               believed |-> call[j].believed])
     ELSE Found(c, c.data, call[j].believed)
  /\ UNCHANGED <<pipelineOf, store, files, clock, ops, known>>

\* The expiry of an envelope, checked after the file was read.
Judge(j) ==
  LET c == call[j].content IN
  /\ call[j].pc = "judge"
  /\ call' = [call EXCEPT ![j] = Idle]
  /\ IF clock > c.expires
     THEN Reply([op |-> "load", outcome |-> "expired", at |-> clock,
               believed |-> call[j].believed])
     ELSE Found(c, c.data, call[j].believed)
  /\ UNCHANGED <<pipelineOf, store, files, clock, ops, known>>

-----------------------------------------------------------------------------
(* data.delete, shiro delete, data.exists, shiro list.                     *)

\* Removing what is not there is an error of the directory stores and none of the memory
\* store; os.Remove may fail with the file there, too.  The step reports success: false and
\* does not fail.
Delete(j, key, namespace, late) ==
  LET st == Given(late, store, "gitlab")
      ns == Given(late, namespace, <<>>)
      p == Place(j, st, key, ns)
      a == Address(j, st, key, ns) IN
  /\ Ready(j)
  /\ IF ~ Accepted(j, st, key) THEN Refused("delete")
     ELSE \/ /\ files' = Without(files, p)
             /\ known' = IF Writers(a) = {} THEN Without(known, a) ELSE With(known, a, Unsure)
             /\ call' = [i \in Job |-> IF i \in Writers(a)
                                       THEN [call[i] EXCEPT !.alone = FALSE, !.linked = FALSE]
                                       ELSE call[i]]
             /\ Reply([op |-> "delete",
                       outcome |-> IF p \in DOMAIN files \/ st = "memory"
                                   THEN "deleted" ELSE "failed"])
          \/ /\ st # "memory"
             /\ Reply([op |-> "delete", outcome |-> "failed"])
             /\ UNCHANGED <<files, known, call>>

\* Exists looks neither into the file nor at the expiry; an error of os.Stat is its own.
Exists(j, key, ns) ==
  /\ Ready(j)
  /\ IF ~ Accepted(j, store, key) THEN Refused("exists")
     ELSE \/ /\ Reply([op |-> "exists",
                       outcome |-> IF Place(j, store, key, ns) \in DOMAIN files THEN "yes" ELSE "no",
                       believed |-> Known(Address(j, store, key, ns))])
             /\ UNCHANGED <<files, call, known>>
          \/ store # "memory" /\ Refused("exists")

-----------------------------------------------------------------------------
(* The step of a workflow run, the commands.                               *)

Run(j) ==
  /\ KindOf[j] = "run"
  /\ \E key \in Key, ns \in Namespace :
       \/ \E v \in Value, ttl \in TTL : Store(j, key, ns, v, ttl, FALSE)
       \/ \E fallback \in BOOLEAN : Load(j, key, ns, fallback, FALSE)
       \/ Delete(j, key, ns, FALSE)
       \/ Exists(j, key, ns)

\* What comes from the command line is a string, no map.
SetCommand(j) ==
  /\ KindOf[j] = "command"
  /\ \E key \in Key, ns \in Namespace, v \in Value \ Lookalike, ttl \in TTL, late \in BOOLEAN :
       Store(j, key, ns, v, ttl, late)

GetCommand(j) ==
  /\ KindOf[j] = "command"
  /\ \E key \in Key, ns \in Namespace, default, late \in BOOLEAN : Load(j, key, ns, default, late)

DeleteCommand(j) ==
  /\ KindOf[j] = "command"
  /\ \E key \in Key, ns \in Namespace, late \in BOOLEAN : Delete(j, key, ns, late)

ListCommand(j) ==
  /\ KindOf[j] = "command"
  /\ Ready(j)
  /\ Refused("list")

\* A process ends between two operations or is killed in one.
Die(j) ==
  /\ \/ call[j].pc # "idle"
     \/ \E p \in DOMAIN files : p.at = j
  /\ call' = [call EXCEPT ![j] = Idle]
  /\ files' = Forget(files, j)
  /\ known' = Forget(known, j)
  /\ answer' = None
  /\ UNCHANGED <<pipelineOf, store, clock, ops>>

Next ==
  \/ Tick
  \/ \E j \in Job :
       \/ Run(j)
       \/ SetCommand(j) \/ GetCommand(j) \/ DeleteCommand(j) \/ ListCommand(j)
       \/ Write(j)
       \/ Judge(j)
       \/ Die(j)

Spec == Init /\ [][Next]_vars

-----------------------------------------------------------------------------
(* Properties.                                                             *)

\* A load or an exists that answers at an address where the last operation was
\* acknowledged, and overlapped no other, answers for that operation: whatever other jobs
\* do at other addresses, in other pipelines, or did and were killed.  An address is what
\* namespace, pipeline and key read as: those that read the same share their values.  A
\* value may be called missing when reading it failed, or expired up to a second early;
\* exists is also `yes' for a value that has expired; and a map with a _ttl of its own comes
\* back as nil.  (data.go loadData, existsData, buildKey; the stores' Save and Load.)
AnswersAreCurrent ==
  LET b == answer.believed IN
  (answer.op \in {"load", "exists"} /\ b # Unsure) =>
    IF b = Nothing THEN answer.outcome \in {"missing", "fallback", "no"}
    ELSE \/ answer.outcome = "yes"
         \/ answer.outcome \in {"missing", "fallback"} /\ answer.failed
         \/ /\ answer.outcome = "value"
            /\ answer.value = IF b.kind = "plain" /\ b.data \in Lookalike THEN Nil ELSE b.data
         \/ answer.outcome = "expired" /\ b.kind = "envelope" /\ answer.at > b.due - Second

\* However long it lies and however slowly it is read, a value is never handed out after
\* the end of the time to live it was stored with.  (data.go:74, :161)
NothingOutlivesItsTTL ==
  (answer.op = "load" /\ answer.outcome = "value") => answer.at <= answer.due
=============================================================================
