--------------------------- MODULE ReviewComments ---------------------------
(***************************************************************************)
(* The gitlab and github modules: steps that comment on a merge request    *)
(* (a pull request), with the requests their clients send and the          *)
(* executor's retries around them.  The server, the network and the people *)
(* who comment on the same merge request are external: a request is        *)
(* carried out and answered, refused, or carried out and its answer lost;  *)
(* and a server may fall silent, so that requests wait.  The clients have  *)
(* no timeout of their own: only the deadline of the step, where it has    *)
(* one, cuts off a request that waits.                                     *)
(*                                                                         *)
(* Atomicity: one action per request.  A comment is its file, line and     *)
(* text; Inside says which of these strings are substrings of which, and   *)
(* is all that is kept of the texts.                                       *)
(***************************************************************************)
EXTENDS Integers, Sequences, FiniteSets

Reads == {"get_user_info", "get_commit_info", "get_files_changed", "get_diff"}

CONSTANTS
  Job,          \* jobs of the pipelines of one merge request
  Settings,     \* step configurations and environments a behaviour may have
  Batches,      \* what an AI step may hand over: sequences of items
  Inside,       \* string -> the strings it contains, itself among them
  Placeable,    \* comments that the platform can attach to the diff
  Stranger,     \* comments that other people write
  PageSize,     \* entries in the first page of a list, the only one that is read
  MaxAttempts,  \* attempts of a step, from its retry configuration
  MaxLaunches, MaxFaults, MaxStrangers  \* bounds

ASSUME ReviewConstants ==
  /\ \A b \in Batches :
       /\ b \in Seq([file : STRING, line : STRING, text : STRING, quoted : BOOLEAN])
       /\ \A n \in 1..Len(b) : \A s \in {b[n].file, b[n].line, b[n].text, "0"} : s \in Inside[s]
  /\ \A place \in Placeable : place.file # ""
  /\ Stranger \subseteq [file : STRING, line : STRING, text : STRING] /\ "stranger" \notin Job
  /\ PageSize \in Nat \ {0} /\ MaxAttempts \in Nat \ {0}
  /\ MaxLaunches \in Nat /\ MaxFaults \in Nat /\ MaxStrangers \in Nat
  /\ \A s \in Settings :
       /\ s.platform \in {"gitlab", "github"} /\ s.dedup \in BOOLEAN
       /\ s.api \in {"discussions", "notes"} /\ s.form \in {"text", "jsonString", "jsonList", "other"}
       /\ s.timeout \in BOOLEAN  \* a "timeout" above zero, for all attempts together
       /\ s.op \in {"inline", "comment", "unknown"} \cup Reads

VARIABLES
  setting,    \* the configuration of the step and the job's environment
  mr,         \* the comments on the merge request, in the order they came
  job,        \* per job: where its step is
  silent,     \* the server leaves all requests unanswered from now on
  launches, faults, strangers,  \* counts, for the bounds
  overlapped  \* history: two jobs were at work on the merge request at once

vars == <<setting, mr, job, silent, launches, faults, strangers, overlapped>>
counts == <<launches, faults, strangers>>

Idle == [pc |-> "idle", batch |-> <<>>, attempt |-> 0, comments |-> <<>>, existing |-> {},
         next |-> 1, posted |-> 0, skipped |-> 0, before |-> 0, late |-> FALSE]
Active(j) == job[j].pc \in {"run", "post"}

TypeOK ==
  /\ setting \in Settings
  /\ \A n \in 1..Len(mr) : DOMAIN mr[n] = {"file", "line", "text", "body", "path", "by"}
  /\ \A j \in Job :
       /\ job[j].pc \in {"idle", "run", "post", "done", "failed"}
       /\ job[j].batch \in Batches \cup {<<>>}
       /\ job[j].attempt \in 0..MaxAttempts
       /\ job[j].next \in 1..(Len(job[j].comments) + 1)
       /\ Cardinality(job[j].existing) <= PageSize
       /\ job[j].late \in BOOLEAN /\ (job[j].late => setting.timeout)
  /\ silent \in BOOLEAN
  /\ launches \in 0..MaxLaunches /\ faults \in 0..MaxFaults /\ strangers \in 0..MaxStrangers

Init ==
  /\ setting \in Settings
  /\ mr = <<>>
  /\ job = [j \in Job |-> Idle]
  /\ silent = FALSE
  /\ launches = 0 /\ faults = 0 /\ strangers = 0
  /\ overlapped = FALSE

-----------------------------------------------------------------------------
(* What the handlers compute.                                              *)

Contains(body, s) == \E part \in body : s \in Inside[part]

\* The entries of seq at the positions in K, in their order: SelectSeq, in terms that
\* proofs can count with.
Rank(K, i) == Cardinality({k \in K : k <= i})
Chosen(seq, K) == [n \in 1..Cardinality(K) |-> seq[CHOOSE i \in K : Rank(K, i) = n]]

\* What cannot be parsed: no comments, or no JSON that json.Unmarshal reads into Comment,
\* for which a line that was sent as a string is no int.
Malformed(batch) ==
  \/ setting.form = "other"
  \/ setting.form = "jsonString" /\ \E n \in 1..Len(batch) : batch[n].quoted

Complete(item) == item.file # "" /\ item.text # ""
OnlyComplete(batch) == Chosen(batch, {n \in 1..Len(batch) : Complete(batch[n])})

\* A line sent as a string is 0 for the gitlab module, and read as a number by the github
\* module.
getInt(item) == IF item.quoted /\ setting.platform = "gitlab" THEN "0" ELSE item.line

\* Only the list form drops incomplete comments.
parseJSONComments(batch) ==
  LET kept == IF setting.form = "jsonList" THEN OnlyComplete(batch) ELSE batch IN
  [n \in 1..Len(kept) |->
    [file |-> kept[n].file, line |-> getInt(kept[n]), text |-> kept[n].text]]

\* The pattern file:line - text matches whole comments only.
parseTextComments(batch) ==
  LET kept == OnlyComplete(batch) IN
  [n \in 1..Len(kept) |-> [file |-> kept[n].file, line |-> kept[n].line, text |-> kept[n].text]]

Parse(batch) ==
  IF Malformed(batch) THEN <<>> ELSE IF setting.form = "text" THEN parseTextComments(batch)
  ELSE parseJSONComments(batch)

\* Mutant: the text of the comment has to be all of the body.
BugGitLabIsDuplicate(c, existing) == \E e \in existing : e.body = {c.text}

GitLabIsDuplicate(c, existing) ==
  \E e \in existing : Contains(e.body, c.file) /\ Contains(e.body, c.line)

GitHubIsDuplicate(c, existing) ==
  \E e \in existing : e.path = c.file /\ c.text \in Inside[e.text]

\* GITHUB_PR_NUMBER, or what is taken from GITHUB_REF: eleven characters of it are
\* compared with a text of ten.
GetPRNumber(env) ==
  IF env.number # "" THEN env.number
  ELSE IF Len(env.ref) > 11 /\ SubSeq(env.ref, 1, 11) = "refs/pull/"
  THEN SubSeq(env.ref, 12, Len(env.ref)) ELSE ""

\* The project (on GitHub the owner too) and the merge request are known, where needed.
Configured ==
  /\ setting.op # "get_user_info" => setting.env.project
  /\ setting.op \notin {"get_user_info", "get_commit_info"} =>
       IF setting.platform = "gitlab" THEN setting.env.number # ""
       ELSE GetPRNumber(setting.env) # ""

-----------------------------------------------------------------------------
(* The requests.                                                           *)

Entry(j, c, body, path) ==
  [file |-> c.file, line |-> c.line, text |-> c.text, body |-> body, path |-> path, by |-> j]

\* A discussion's body is the text alone; the position goes into other fields.
PostMRDiscussion(j, c) == Entry(j, c, {c.text}, c.file)
PostMRComment(j, c) == Entry(j, c, {c.file, c.line, c.text}, "")
PostPRComment(j, c) == Entry(j, c, {c.text}, "")
\* All comments of a review are one request.
CreateReview(j, comments) ==
  [n \in 1..Len(comments) |-> Entry(j, comments[n], {comments[n].text}, comments[n].file)]

\* Mutant: every page is read.
BugGetMRNotes == {mr[n] : n \in 1..Len(mr)}

\* GitLab lists the latest notes first.
GetMRNotes == {mr[n] : n \in {m \in 1..Len(mr) : m > Len(mr) - PageSize}}
\* GitHub lists the earliest review comments first; other comments are not among them.
GetPRReviewComments ==
  LET reviews == {n \in 1..Len(mr) : mr[n].path # ""} IN
  {mr[n] : n \in {m \in reviews : Rank(reviews, m) <= PageSize}}

Own(j) == Cardinality({n \in 1..Len(mr) : mr[n].by = j})
Overlap == \E i, k \in Job : i # k /\ Active(i) /\ Active(k)
Observe == overlapped' = (overlapped \/ Overlap')

\* An attempt ends without success; `late' when the deadline has passed by now.  Another
\* follows, which knows nothing of it, or the step fails: after the last attempt, or because
\* the wait between two of them sees the deadline.  When the wait is over too, it may take
\* either.
Lose(j, late) ==
  \/ /\ job[j].attempt < MaxAttempts
     /\ job' = [job EXCEPT ![j] = [Idle EXCEPT !.pc = "run", !.batch = job[j].batch,
                                              !.attempt = job[j].attempt + 1, !.late = late]]
  \/ /\ job[j].attempt = MaxAttempts \/ late
     /\ job' = [job EXCEPT ![j].pc = "failed", ![j].late = late]

\* Mutant: the last attempt's error is not the step's.
BugFail(j) ==
  IF job[j].attempt < MaxAttempts THEN Lose(j, job[j].late)
  ELSE job' = [job EXCEPT ![j].pc = "done"]

\* An attempt fails, and the deadline may pass before the next one begins.
Fail(j) == Lose(j, job[j].late) \/ (setting.timeout /\ Lose(j, TRUE))

Succeed(j) == job' = [job EXCEPT ![j].pc = "done"]

\* Mutant: the request is not bound to the context of the step.
BugGet(j, answered) ==
  \/ ~ silent /\ answered /\ UNCHANGED faults
  \/ faults < MaxFaults /\ faults' = faults + 1 /\ Fail(j)

\* A request that changes nothing: it is answered, fails, or is cut off by the deadline,
\* after which no request is sent any more.
Get(j, answered) ==
  \/ ~ silent /\ ~ job[j].late /\ answered /\ UNCHANGED faults
  \/ ~ job[j].late /\ faults < MaxFaults /\ faults' = faults + 1 /\ Fail(j)
  \/ setting.timeout /\ Lose(j, TRUE) /\ UNCHANGED faults

\* Two requests, for the pull request and for the diff it names, that fail alike.
GetDiff(j, answered) == Get(j, answered)

\* A request that adds entries: accepted, refused, or accepted with its answer lost or too
\* late.  The server refuses for good what it cannot attach to the diff.
Post(j, entries, attached, accepted) ==
  LET possible == attached => \A n \in 1..Len(entries) :
                    [file |-> entries[n].file, line |-> entries[n].line] \in Placeable
      Unknown == UNCHANGED mr \/ (possible /\ mr' = mr \o entries) IN
  \/ ~ silent /\ ~ job[j].late /\ possible /\ mr' = mr \o entries /\ accepted /\ UNCHANGED faults
  \/ ~ silent /\ ~ job[j].late /\ ~ possible /\ Fail(j) /\ UNCHANGED <<mr, faults>>
  \/ ~ job[j].late /\ faults < MaxFaults /\ faults' = faults + 1 /\ Unknown /\ Fail(j)
  \/ setting.timeout /\ ~ job[j].late /\ Unknown /\ Lose(j, TRUE) /\ UNCHANGED faults
  \/ job[j].late /\ Lose(j, TRUE) /\ UNCHANGED <<mr, faults>>

-----------------------------------------------------------------------------
(* The handlers.                                                           *)

\* A job's step begins, in a new pipeline or because the job is run again.
Launch(j, batch) ==
  /\ ~ Active(j)
  /\ launches < MaxLaunches
  /\ launches' = launches + 1
  /\ job' = [job EXCEPT ![j] = [Idle EXCEPT !.pc = "run", !.batch = batch, !.attempt = 1]]
  /\ UNCHANGED <<setting, mr, silent, faults, strangers>>

Running(j, platform, ops) ==
  /\ job[j].pc = "run"
  /\ setting.platform = platform /\ setting.op \in ops
  /\ UNCHANGED <<setting, launches, strangers>>

\* An operation that the module does not have, one that lacks an option it needs, or a job
\* that is no merge request's: the attempt fails before any request.
Unsupported(j) ==
  /\ job[j].pc = "run"
  /\ setting.op = "unknown" \/ ~ Configured
  /\ Fail(j)
  /\ UNCHANGED <<setting, mr, counts>>

\* postComment of the gitlab module: nothing is looked for that is there already.
GitLabPostComment(j) ==
  /\ Running(j, "gitlab", {"comment"}) /\ Configured
  /\ LET c == [file |-> "", line |-> "", text |-> "body"] IN
     Post(j, <<PostMRComment(j, c)>>, FALSE, Succeed(j))

GitHubPostComment(j) ==
  /\ Running(j, "github", {"comment"}) /\ Configured
  /\ LET c == [file |-> "", line |-> "", text |-> "body"] IN
     Post(j, <<PostPRComment(j, c)>>, FALSE, Succeed(j))

\* get_commit_info, get_user_info, get_mr_participants, get_files_changed.
GitLabRead(j) ==
  /\ Running(j, "gitlab", Reads) /\ Configured
  /\ Get(j, Succeed(j)) /\ UNCHANGED mr

\* get_diff.
GitHubRead(j) ==
  /\ Running(j, "github", Reads) /\ Configured
  /\ GetDiff(j, Succeed(j)) /\ UNCHANGED mr

\* postInlineComments up to its loop: parse, and ask once what is there.
Prepare(j, list) ==
  LET comments == Parse(job[j].batch)
      Begin(existing) == job' = [job EXCEPT ![j].pc = "post", ![j].comments = comments,
                                            ![j].existing = existing, ![j].before = Own(j)] IN
  /\ UNCHANGED mr
  /\ IF Malformed(job[j].batch) THEN Fail(j) /\ UNCHANGED faults
     ELSE IF comments = <<>> THEN Succeed(j) /\ UNCHANGED faults
     ELSE IF setting.dedup THEN Get(j, Begin(list)) ELSE Begin({}) /\ UNCHANGED faults

GitLabPrepare(j) == Running(j, "gitlab", {"inline"}) /\ Configured /\ Prepare(j, GetMRNotes)
GitHubPrepare(j) ==
  Running(j, "github", {"inline"}) /\ Configured /\ Prepare(j, GetPRReviewComments)

Advance(j, posted, skipped) ==
  job' = [job EXCEPT ![j].next = @ + 1, ![j].posted = @ + posted, ![j].skipped = @ + skipped,
                     ![j].pc = IF job[j].next = Len(job[j].comments) THEN "done" ELSE "post"]

\* One turn of the loop of the gitlab module: each comment is a request of its own, and the
\* first that fails ends the attempt.
GitLabPostNext(j) ==
  LET c == job[j].comments[job[j].next]
      discussion == setting.api = "discussions" IN
  /\ job[j].pc = "post" /\ setting.platform = "gitlab"
  /\ UNCHANGED <<setting, launches, strangers>>
  /\ IF setting.dedup /\ GitLabIsDuplicate(c, job[j].existing)
     THEN Advance(j, 0, 1) /\ UNCHANGED <<mr, faults>>
     ELSE Post(j, <<IF discussion THEN PostMRDiscussion(j, c) ELSE PostMRComment(j, c)>>,
               discussion, Advance(j, 1, 0))

\* The loop of the github module collects the comments, and one request posts them all.
GitHubCreateReview(j) ==
  LET s == job[j]
      New(c) == ~ (setting.dedup /\ GitHubIsDuplicate(c, s.existing))
      new == Chosen(s.comments, {n \in 1..Len(s.comments) : New(s.comments[n])})
      Finish == job' = [job EXCEPT ![j].pc = "done", ![j].posted = Len(new),
                                   ![j].skipped = Len(s.comments) - Len(new)] IN
  /\ s.pc = "post" /\ setting.platform = "github"
  /\ UNCHANGED <<setting, launches, strangers>>
  /\ IF new = <<>> THEN Finish /\ UNCHANGED <<mr, faults>>
     ELSE Post(j, CreateReview(j, new), TRUE, Finish)

-----------------------------------------------------------------------------
(* The environment.                                                        *)

\* Somebody else comments on a line.
Comment(c) ==
  /\ strangers < MaxStrangers
  /\ strangers' = strangers + 1
  /\ mr' = Append(mr, [file |-> c.file, line |-> c.line, text |-> c.text, body |-> {c.text},
                       path |-> c.file, by |-> "stranger"])
  /\ UNCHANGED <<setting, job, silent, launches, faults, overlapped>>

\* A job is cancelled or killed between two requests.
Kill(j) ==
  /\ Active(j)
  /\ faults < MaxFaults
  /\ faults' = faults + 1
  /\ job' = [job EXCEPT ![j] = Idle]
  /\ UNCHANGED <<setting, mr, silent, launches, strangers>>

\* The server stops answering, for good: one that answers again has only been slow.
FallSilent ==
  /\ \E j \in Job : Active(j)
  /\ ~ silent /\ faults < MaxFaults
  /\ silent' = TRUE
  /\ faults' = faults + 1
  /\ UNCHANGED <<setting, mr, job, launches, strangers, overlapped>>

Handle(j) ==
  /\ \/ Unsupported(j)
     \/ GitLabPostComment(j) \/ GitLabRead(j) \/ GitLabPrepare(j) \/ GitLabPostNext(j)
     \/ GitHubPostComment(j) \/ GitHubRead(j) \/ GitHubPrepare(j) \/ GitHubCreateReview(j)
  /\ Observe
  /\ UNCHANGED silent

Next ==
  \/ \E j \in Job :
       \/ Handle(j)
       \/ Kill(j) /\ Observe
       \/ \E batch \in Batches : Launch(j, batch) /\ Observe
  \/ \E c \in Stranger : Comment(c)
  \/ FallSilent

\* A job's process goes on: a request that the server answers returns, one that waits is cut
\* off when the deadline comes.  Nothing is asked of a server that is silent: without a
\* deadline the request then waits, and the process with it.
Spec == Init /\ [][Next]_vars /\ \A j \in Job : WF_vars(Handle(j))

-----------------------------------------------------------------------------
(* Properties.                                                             *)

Line(e) == [file |-> e.file, line |-> e.line, text |-> e.text]
Times(c, seq) == Cardinality({n \in 1..Len(seq) : Line(seq[n]) = c})

\* A step that reports success has posted each of its comments, or has found it on the
\* merge request by the test of isDuplicate when the attempt began; and its counts are
\* those of the comments that this attempt, after all that failed, has added and has
\* passed over.  (gitlab/module.go:319, github/module.go:250)
SuccessAccountsForAll ==
  \A j \in Job : (job[j].pc = "done" /\ job[j].comments # <<>>) =>
    LET s == job[j] IN
    /\ s.posted + s.skipped = Len(s.comments)
    /\ s.posted = Own(j) - s.before
    /\ \A n \in 1..Len(s.comments) :
         \/ \E m \in 1..Len(mr) : mr[m].by = j /\ Line(mr[m]) = s.comments[n]
         \/ /\ setting.dedup
            /\ IF setting.platform = "gitlab" THEN GitLabIsDuplicate(s.comments[n], s.existing)
               ELSE GitHubIsDuplicate(s.comments[n], s.existing)

NoneTooOften ==
  LET ours == {n \in 1..Len(mr) : mr[n].by \in Job} IN
  \A n \in ours : \E batch \in Batches :
    Cardinality({m \in ours : Line(mr[m]) = Line(mr[n])}) <= Times(Line(mr[n]), Parse(batch))

\* The comments of a step can be recognised later: not those of the discussions API, whose
\* bodies name no file and no line.
Recognisable == setting.platform = "github" \/ setting.api = "notes"

\* With dedup, however many attempts fail, answers are lost, jobs are killed and pipelines
\* are started, no comment is posted more often than one batch has it, as long as the
\* jobs come one after another and the comments fit into the page that is read.
\* (gitlab/module.go:306, github/module.go:236)
RetriesDoNotRepeat ==
  (setting.op = "inline" /\ setting.dedup /\ Recognisable /\ ~ overlapped /\ Len(mr) <= PageSize) =>
    NoneTooOften

\* Every step that is launched ends, whatever the server refuses or loses: one without a
\* timeout unless the server has fallen silent, one with a timeout even then.
\* (executor.go:157, gitlab.go:40, github.go:32)
StepsEnd ==
  \A j \in Job : Active(j) ~> (~ Active(j) \/ (silent /\ ~ setting.timeout))

\* README.md:550, "Enable deduplication for `post_inline_comments` (default: `true`)": what
\* RetriesDoNotRepeat says, for every platform and the discussions that are GitLab's
\* default.
DedupWorks ==
  (setting.op = "inline" /\ setting.dedup /\ ~ overlapped /\ Len(mr) <= PageSize) =>
    NoneTooOften
=============================================================================
