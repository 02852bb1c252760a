------------------------------- MODULE Retry -------------------------------
(***************************************************************************)
(* executeStep's timeout and executeWithRetry (internal/runtime/           *)
(* executor.go): the attempts of one step, the waits between them, and     *)
(* the one context deadline that covers them all.                          *)
(*                                                                         *)
(* Time is counted in ticks: the nanoseconds of time.Duration.  Durations  *)
(* are two's complement numbers of a small width (int64 in the code).      *)
(***************************************************************************)
EXTENDS Integers, Sequences

CONSTANTS
  RetryFiles,       \* "retry" objects of workflow files: functions from keys to numbers
  Timeouts,         \* "timeout" of the step in seconds; 0 is none
  Second,           \* ticks in a second
  DefaultMaxDelay,  \* five minutes, in ticks
  MaxDuration,      \* the largest time.Duration, in ticks
  MaxRunTime        \* bound on the ticks that one module.Run takes

ASSUME RetryConstants ==
  /\ Second \in Nat \ {0} /\ MaxRunTime \in Nat /\ MaxDuration \in Nat
  /\ DefaultMaxDelay \in 1..MaxDuration
  /\ Timeouts \subseteq 0..(MaxDuration \div Second)

MinDuration == -(MaxDuration + 1)
Durations == MinDuration..MaxDuration
Wrap(x) == ((x - MinDuration) % (2 * (MaxDuration + 1))) + MinDuration

\* Integers of encoding/json: the keys of RetryConfig that the object has, zero for the
\* others; unknown keys are dropped.  Backoff is a float64, here in halves ("backoff2").
Field(object, key) == IF key \in DOMAIN object THEN object[key] ELSE 0

ASSUME RetryFilesAssumption ==
  \A object \in RetryFiles, key \in {"max_attempts", "delay", "backoff2", "max_delay"} :
    Field(object, key) \in Int

\* What the retry loop starts from, defaults filled in.
Config(object, timeout) ==
  LET max == Field(object, "max_attempts")
      back == Field(object, "backoff2")
      cap == Wrap(Field(object, "max_delay") * Second)
  IN [attempts |-> IF max <= 0 THEN 1 ELSE max,
      delay    |-> Wrap(Field(object, "delay") * Second),
      backoff2 |-> IF back <= 0 THEN 4 ELSE back,
      maxDelay |-> IF cap <= 0 THEN DefaultMaxDelay ELSE cap,
      timeout  |-> timeout * Second]

VARIABLES
  file,     \* the "retry" object of the step
  cfg,      \* its Config
  now,      \* ticks since executeStep made the context
  attempt,  \* number of the attempt
  delay,    \* the next wait
  pc,       \* "run", "wait" or "returned"
  outcome,  \* "none", "output", "error" (after n attempts) or "deadline" (ctx.Err())
  log       \* history: when each attempt started and ended

vars == <<file, cfg, now, attempt, delay, pc, outcome, log>>

TypeOK ==
  /\ file \in RetryFiles
  /\ cfg \in [attempts : Nat \ {0}, delay : Durations, backoff2 : Nat \ {0},
              maxDelay : 1..MaxDuration, timeout : Nat]
  /\ now \in Nat
  /\ attempt \in 1..cfg.attempts
  /\ delay \in Durations
  /\ pc \in {"run", "wait", "returned"}
  /\ outcome \in {"none", "output", "error", "deadline"}
  /\ log \in Seq([start : Nat, end : Nat])

Init ==
  /\ file \in RetryFiles
  /\ cfg \in {Config(file, t) : t \in Timeouts}
  /\ now = 0
  /\ attempt = 1
  /\ delay = cfg.delay
  /\ pc = "run"
  /\ outcome = "none"
  /\ log = <<>>

Expired(t) == cfg.timeout > 0 /\ t >= cfg.timeout

\* Mutants: the bound of the loop off by one, either way.
BugMoreAttempts == attempt <= cfg.attempts
BugFewerAttempts == attempt + 1 < cfg.attempts

MoreAttempts == attempt < cfg.attempts

\* module.Run takes its time, which it may overrun the deadline by, and succeeds or
\* fails.  The context is not looked at before.
Attempt ==
  /\ pc = "run"
  /\ \E d \in 0..MaxRunTime :
       /\ now' = now + d
       /\ log' = Append(log, [start |-> now, end |-> now + d])
  /\ \/ pc' = "returned" /\ outcome' = "output"
     \/ IF MoreAttempts THEN pc' = "wait" /\ UNCHANGED outcome
        ELSE pc' = "returned" /\ outcome' = "error"
  /\ UNCHANGED <<file, cfg, attempt, delay>>

\* When the select of lines 239-243 would take each of its cases.
TimerAt == IF delay > 0 THEN now + delay ELSE now
DeadlineAt == IF cfg.timeout > now THEN cfg.timeout ELSE now

\* The product, rounded towards zero as the conversion of a float does.
Product(d) ==
  IF d < 0 THEN -((-d * cfg.backoff2) \div 2) ELSE (d * cfg.backoff2) \div 2

\* Converting a float that int64 cannot hold gives the smallest number on amd64 and
\* saturates on arm64.
Converted(x) ==
  IF x > MaxDuration THEN {MinDuration, MaxDuration}
  ELSE IF x < MinDuration THEN {MinDuration} ELSE {x}

\* Mutant: the delay is not capped.
BugGrown(d) == Converted(Product(d))

\* delay = time.Duration(float64(delay) * backoff), cut to maxDelay.
Grown(d) == {IF y > cfg.maxDelay THEN cfg.maxDelay ELSE y : y \in Converted(Product(d))}

\* Mutant: the wait is a sleep that the context does not interrupt.
BugTimerFires ==
  /\ pc = "wait"
  /\ now' = TimerAt
  /\ attempt' = attempt + 1
  /\ delay' \in Grown(delay)
  /\ pc' = "run"
  /\ UNCHANGED <<file, cfg, outcome, log>>

\* case <-time.After(delay); when both cases are ready, select takes either.
TimerFires ==
  /\ pc = "wait"
  /\ cfg.timeout = 0 \/ TimerAt <= DeadlineAt
  /\ now' = TimerAt
  /\ attempt' = attempt + 1
  /\ delay' \in Grown(delay)
  /\ pc' = "run"
  /\ UNCHANGED <<file, cfg, outcome, log>>

\* Mutant: the done context is noticed, and the loop goes on waiting.
BugContextDone ==
  /\ pc = "wait"
  /\ cfg.timeout > 0 /\ DeadlineAt <= TimerAt
  /\ now' = DeadlineAt
  /\ UNCHANGED <<file, cfg, attempt, delay, pc, outcome, log>>

\* case <-ctx.Done(): the context's error is returned.
ContextDone ==
  /\ pc = "wait"
  /\ cfg.timeout > 0 /\ DeadlineAt <= TimerAt
  /\ now' = DeadlineAt
  /\ pc' = "returned"
  /\ outcome' = "deadline"
  /\ UNCHANGED <<file, cfg, attempt, delay, log>>

Next == Attempt \/ TimerFires \/ ContextDone

\* Modules return and timers fire.
Spec == Init /\ [][Next]_vars /\ WF_vars(Next)

-----------------------------------------------------------------------------
\* The wait before attempt i + 1.
Gap(i) == log[i + 1].start - log[i].end

\* The configuration that the loop's arithmetic is meant for: a positive first delay,
\* a factor of at least one, and no product beyond the range of time.Duration.
Regular ==
  /\ cfg.delay > 0
  /\ cfg.backoff2 >= 2
  /\ \A d \in {cfg.delay, cfg.maxDelay} : (d * cfg.backoff2) \div 2 <= MaxDuration

\* Backoff: every wait but the first stays within max_delay, also when the product leaves
\* the range of time.Duration; and where the arithmetic is regular every wait is the
\* previous one times the factor, cut to max_delay, so that no wait is shorter than the
\* one before (only the first may be above max_delay).
WaitsBackOff ==
  /\ \A i \in 2..(Len(log) - 1) : Gap(i) <= cfg.maxDelay
  /\ Regular =>
       \A i \in 1..(Len(log) - 2) :
         /\ Gap(i + 1) = cfg.maxDelay \/ Gap(i + 1) = (Gap(i) * cfg.backoff2) \div 2
         /\ Gap(i) <= cfg.maxDelay => Gap(i) <= Gap(i + 1)

\* The timeout covers all attempts together: with a positive delay no retry starts after
\* the deadline, so a step is over at the latest one module run after it.
TimeoutCoversRetries ==
  Regular /\ cfg.timeout > 0 =>
    /\ \A i \in 2..Len(log) : log[i].start <= cfg.timeout
    /\ now <= cfg.timeout + MaxRunTime

\* An outcome says what happened: "after n attempts" that there were n, a context error
\* that the deadline has passed and that attempts were left.
OutcomeIsRight ==
  /\ outcome = "error" => Len(log) = cfg.attempts
  /\ outcome = "deadline" => Expired(now) /\ Len(log) < cfg.attempts

\* The step ends, whatever fails and however the delays overflow.
StepReturns == <>(pc = "returned")
=============================================================================
