----------------------------- MODULE RetryProofs -----------------------------
(***************************************************************************)
(* The retry loop of Retry keeps its promises for every retry object and   *)
(* timeout, and any width of time.Duration.                                *)
(***************************************************************************)
EXTENDS Retry, SequenceTheorems, TLAPS

-----------------------------------------------------------------------------
(* The arithmetic of the delays.                                           *)

LEMMA WrapType ==
  ASSUME NEW x \in Int
  PROVE  Wrap(x) \in Durations
<1> DEFINE m == 2 * (MaxDuration + 1)
           y == x - MinDuration
<1>1. MaxDuration \in Nat /\ MinDuration \in Int /\ MinDuration = -(MaxDuration + 1)
  BY RetryConstants DEF MinDuration
<1>2. m \in Nat \ {0} /\ y \in Int
  BY <1>1
<1> HIDE DEF m, y
<1>3. y % m \in 0..(m - 1)
  BY <1>2
<1>4. Wrap(x) = (y % m) + MinDuration
  BY DEF Wrap, m, y
<1>5. QED
  BY <1>1, <1>3, <1>4 DEF Durations, m

LEMMA ConfigType ==
  ASSUME NEW object \in RetryFiles, NEW timeout \in Timeouts
  PROVE  Config(object, timeout) \in
           [attempts : Nat \ {0}, delay : Durations, backoff2 : Nat \ {0},
            maxDelay : 1..MaxDuration, timeout : Nat]
<1> DEFINE max == Field(object, "max_attempts")
           back == Field(object, "backoff2")
           cap == Wrap(Field(object, "max_delay") * Second)
           first == Wrap(Field(object, "delay") * Second)
<1>1. /\ max \in Int /\ back \in Int
      /\ Field(object, "max_delay") \in Int /\ Field(object, "delay") \in Int
  BY RetryFilesAssumption
<1>2. Second \in Nat /\ MaxDuration \in Nat /\ DefaultMaxDelay \in 1..MaxDuration
  BY RetryConstants
<1>3. timeout \in Nat
  <2>1. Timeouts \subseteq 0..(MaxDuration \div Second) /\ MaxDuration \div Second \in Int
    BY RetryConstants
  <2>2. QED
    BY <2>1
<1>4. cap \in Durations /\ first \in Durations
  BY <1>1, <1>2, WrapType
<1> HIDE DEF max, back, cap, first
<1>5. (IF cap <= 0 THEN DefaultMaxDelay ELSE cap) \in 1..MaxDuration
  BY <1>2, <1>4 DEF Durations, MinDuration
<1>6. timeout * Second \in Nat
  BY <1>2, <1>3
<1>7. (IF max <= 0 THEN 1 ELSE max) \in Nat \ {0} /\ (IF back <= 0 THEN 4 ELSE back) \in Nat \ {0}
  BY <1>1
<1>8. QED
  BY <1>4, <1>5, <1>6, <1>7 DEF Config, max, back, cap, first

\* The delay times the factor, in whole ticks.
Times(d, c) == (d * c.backoff2) \div 2

LEMMA TimesIsMonotone ==
  ASSUME NEW c, c.backoff2 \in Nat, NEW d \in Nat, NEW D \in Nat, d <= D
  PROVE  Times(d, c) \in Nat /\ Times(D, c) \in Nat /\ Times(d, c) <= Times(D, c)
<1> DEFINE p == d * c.backoff2
           P == D * c.backoff2
<1>1. p \in Nat /\ P \in Nat /\ p <= P
  OBVIOUS
<1>2. Times(d, c) = p \div 2 /\ Times(D, c) = P \div 2
  BY DEF Times
<1> HIDE DEF p, P
<1>3. QED
  BY <1>1, <1>2

LEMMA TimesGrows ==
  ASSUME NEW c, c.backoff2 \in Nat, c.backoff2 >= 2, NEW d \in Nat
  PROVE  Times(d, c) \in Nat /\ d <= Times(d, c)
<1> DEFINE p == d * c.backoff2
<1>1. p \in Nat /\ 2 * d <= p
  OBVIOUS
<1>2. Times(d, c) = p \div 2
  BY DEF Times
<1> HIDE DEF p
<1>3. QED
  BY <1>1, <1>2

LEMMA GrownType ==
  ASSUME TypeOK, NEW d \in Durations
  PROVE  Grown(d) \subseteq Durations
<1> DEFINE p == d * cfg.backoff2
           q == -d * cfg.backoff2
<1>1. /\ MaxDuration \in Nat /\ MinDuration = -(MaxDuration + 1)
      /\ Durations = MinDuration..MaxDuration /\ cfg.maxDelay \in 1..MaxDuration /\ cfg.backoff2 \in Nat
  BY RetryConstants DEF MinDuration, Durations, TypeOK
<1>2. d \in Int
  BY <1>1
<1>3. p \in Int /\ q \in Int
  BY <1>1, <1>2
<1>4. Product(d) = IF d < 0 THEN -(q \div 2) ELSE p \div 2
  BY DEF Product
<1> HIDE DEF p, q
<1>5. Product(d) \in Int
  BY <1>2, <1>3, <1>4
<1>6. Converted(Product(d)) \subseteq Durations
  BY <1>1, <1>5 DEF Converted
<1>7. QED
  BY <1>1, <1>6 DEF Grown

LEMMA GrownIsCapped ==
  ASSUME TypeOK, NEW d \in Durations, NEW y \in Grown(d)
  PROVE  y <= cfg.maxDelay
<1>1. cfg.maxDelay \in Nat
  BY RetryConstants DEF TypeOK
<1>2. PICK z \in Converted(Product(d)) : y = IF z > cfg.maxDelay THEN cfg.maxDelay ELSE z
  BY DEF Grown
<1>3. y \in Durations /\ cfg.maxDelay \in Durations
  BY <1>1, GrownType, RetryConstants DEF TypeOK, Durations, MinDuration
<1>4. CASE z > cfg.maxDelay
  BY <1>1, <1>2, <1>4
<1>5. CASE ~ (z > cfg.maxDelay)
  BY <1>1, <1>2, <1>3, <1>5, RetryConstants DEF Durations, MinDuration
<1>6. QED
  BY <1>4, <1>5

\* The longest delay that a regular configuration can come to.
Longest(c) == IF c.delay > c.maxDelay THEN c.delay ELSE c.maxDelay

\* The next delay, when nothing overflows.
NextDelay(d, c) == IF Times(d, c) > c.maxDelay THEN c.maxDelay ELSE Times(d, c)

LEMMA RegularGrowth ==
  ASSUME TypeOK, Regular, NEW d \in 1..Longest(cfg)
  PROVE  /\ Grown(d) = {NextDelay(d, cfg)} /\ NextDelay(d, cfg) \in 1..cfg.maxDelay
         /\ d <= cfg.maxDelay => d <= NextDelay(d, cfg)
<1>1. /\ MaxDuration \in Nat /\ MinDuration = -(MaxDuration + 1)
      /\ cfg.maxDelay \in 1..MaxDuration /\ cfg.backoff2 \in Nat /\ cfg.delay \in Int
  BY RetryConstants DEF MinDuration, Durations, TypeOK
<1>2. /\ cfg.delay > 0 /\ cfg.backoff2 >= 2
      /\ Times(cfg.delay, cfg) <= MaxDuration /\ Times(cfg.maxDelay, cfg) <= MaxDuration
  BY DEF Regular, Times
<1>3. /\ Longest(cfg) \in Nat /\ Times(Longest(cfg), cfg) <= MaxDuration
      /\ d \in Nat /\ d >= 1 /\ d <= Longest(cfg)
  BY <1>1, <1>2 DEF Longest
<1>4. /\ Times(d, cfg) \in Nat /\ Times(Longest(cfg), cfg) \in Nat
      /\ Times(d, cfg) <= Times(Longest(cfg), cfg) /\ d <= Times(d, cfg)
  BY <1>1, <1>2, <1>3, TimesIsMonotone, TimesGrows
<1>5. Product(d) = Times(d, cfg)
  BY <1>3 DEF Product, Times
<1>6. Converted(Times(d, cfg)) = {Times(d, cfg)}
  BY <1>1, <1>3, <1>4 DEF Converted
<1>7. Grown(d) = {NextDelay(d, cfg)}
  BY <1>5, <1>6 DEF Grown, NextDelay
<1>8. QED
  BY <1>1, <1>3, <1>4, <1>7 DEF NextDelay

-----------------------------------------------------------------------------
(* The inductive invariant.                                                *)

\* The log has an entry for every attempt that has ended.
LogInv ==
  /\ pc = "run" => Len(log) = attempt - 1
  /\ pc # "run" => Len(log) = attempt
  /\ pc = "wait" => attempt < cfg.attempts /\ now = log[Len(log)].end
  /\ outcome = "none" <=> pc # "returned"
  /\ OutcomeIsRight

\* The waits between the attempts of a log.
Wait(l, i) == l[i + 1].start - l[i].end

\* The waits of a log are the first delay and what it grows to ...
WaitsOf(l, c) ==
  /\ \A i \in 1..(Len(l) - 1) : Wait(l, i) \in 1..Longest(c)
  /\ \A i \in 1..(Len(l) - 2) : Wait(l, i + 1) = NextDelay(Wait(l, i), c)

\* ... and w is the one that comes after the last attempt.
NextWait(l, c, w) ==
  w \in 1..Longest(c) /\ (Len(l) > 1 => w = NextDelay(Wait(l, Len(l) - 1), c))

\* In a regular configuration the log has such waits, the delay at hand comes next, and
\* when it is over it has been that long, and has grown.
Waited == now - log[Len(log)].end
DelayInv ==
  Regular =>
    /\ delay \in 1..Longest(cfg)
    /\ WaitsOf(log, cfg)
    /\ pc = "wait" => NextWait(log, cfg, delay)
    /\ pc = "run" /\ Len(log) > 0 =>
         NextWait(log, cfg, Waited) /\ delay = NextDelay(Waited, cfg)

\* Regular or not, what was waited for after the first attempt that was retried, and what
\* will be, is within max_delay.
CapInv ==
  /\ attempt > 1 => delay <= cfg.maxDelay
  /\ \A i \in 2..(Len(log) - 1) : Wait(log, i) <= cfg.maxDelay
  /\ pc = "run" /\ Len(log) > 1 => Waited <= cfg.maxDelay

\* With a timeout no attempt starts after it.
DeadlineInv ==
  Regular /\ cfg.timeout > 0 =>
    /\ \A i \in 1..Len(log) : log[i].start <= cfg.timeout
    /\ pc = "run" => now <= cfg.timeout
    /\ now <= cfg.timeout + MaxRunTime

IInv == TypeOK /\ LogInv /\ DelayInv /\ CapInv /\ DeadlineInv

LEMMA InitHolds == Init => IInv
<1> SUFFICES ASSUME Init
             PROVE  IInv
  OBVIOUS
<1>1. PICK t \in Timeouts : cfg = Config(file, t)
  BY DEF Init
<1>2. cfg \in [attempts : Nat \ {0}, delay : Durations, backoff2 : Nat \ {0},
               maxDelay : 1..MaxDuration, timeout : Nat]
  BY <1>1, ConfigType DEF Init
<1>3. /\ log = <<>> /\ Len(log) = 0 /\ now = 0 /\ attempt = 1 /\ delay = cfg.delay
      /\ pc = "run" /\ outcome = "none" /\ file \in RetryFiles /\ MaxRunTime \in Nat
      /\ MaxDuration \in Nat
  BY RetryConstants DEF Init
<1>4. TypeOK
  BY <1>2, <1>3 DEF TypeOK
<1>5. LogInv
  BY <1>3 DEF LogInv, OutcomeIsRight
<1>6. DelayInv
  <2>1. WaitsOf(log, cfg)
    BY <1>3 DEF WaitsOf
  <2>2. Regular => delay \in 1..Longest(cfg)
    BY <1>2, <1>3 DEF Regular, Longest, Durations, MinDuration
  <2>3. QED
    BY <1>3, <2>1, <2>2 DEF DelayInv
<1>7. CapInv
  BY <1>3 DEF CapInv
<1>8. DeadlineInv
  BY <1>2, <1>3 DEF DeadlineInv
<1>9. QED
  BY <1>4, <1>5, <1>6, <1>7, <1>8 DEF IInv

LEMMA AttemptStep == IInv /\ Attempt => IInv'
<1> SUFFICES ASSUME IInv, Attempt
             PROVE  IInv'
  OBVIOUS
<1>1. PICK d \in 0..MaxRunTime :
        now' = now + d /\ log' = Append(log, [start |-> now, end |-> now + d])
  BY DEF Attempt
<1>2. /\ TypeOK /\ now \in Nat /\ now' \in Nat /\ MaxRunTime \in Nat /\ d \in Nat /\ d <= MaxRunTime
      /\ now' = now + d /\ attempt \in Nat \ {0} /\ cfg.attempts \in Nat /\ attempt <= cfg.attempts
      /\ cfg.timeout \in Nat
  BY <1>1, RetryConstants DEF IInv, TypeOK
<1>3. /\ Len(log) \in Nat /\ log' \in Seq([start : Nat, end : Nat])
      /\ Len(log') = Len(log) + 1
      /\ log'[Len(log) + 1].start = now /\ log'[Len(log) + 1].end = now'
      /\ \A i \in 1..Len(log) :
           log'[i] = log[i] /\ log[i].start \in Nat /\ log[i].end \in Nat
  <2> DEFINE r == [start |-> now, end |-> now']
             R == [start : Nat, end : Nat]
             l == log'
  <2>1. r \in R /\ r.start = now /\ r.end = now' /\ log \in Seq(R) /\ l = Append(log, r)
    BY <1>1, <1>2 DEF TypeOK
  <2>2. \A x \in R : x.start \in Nat /\ x.end \in Nat
    OBVIOUS
  <2> HIDE DEF r, R, l
  <2>3. /\ Len(log) \in Nat /\ l \in Seq(R) /\ Len(l) = Len(log) + 1 /\ l[Len(log) + 1] = r
        /\ \A i \in 1..Len(log) : l[i] = log[i]
    BY ONLY <2>1, AppendProperties, LenProperties
  <2>4. \A i \in 1..Len(log) : log[i] \in R
    BY ONLY <2>1, LenProperties, ElementOfSeq
  <2>5. QED
    BY <2>1, <2>2, <2>3, <2>4 DEF R, l
<1>4. /\ pc = "run" /\ Len(log) = attempt - 1 /\ outcome = "none"
      /\ file' = file /\ cfg' = cfg /\ attempt' = attempt /\ delay' = delay
      /\ \/ pc' = "returned" /\ outcome' = "output"
         \/ attempt < cfg.attempts /\ pc' = "wait" /\ outcome' = "none"
         \/ ~ (attempt < cfg.attempts) /\ pc' = "returned" /\ outcome' = "error"
  BY DEF Attempt, IInv, LogInv, MoreAttempts
<1>5. TypeOK'
  BY <1>2, <1>3, <1>4 DEF TypeOK
<1>6. LogInv'
  BY <1>2, <1>3, <1>4 DEF LogInv, OutcomeIsRight
<1>7. DelayInv'
  <2>1. SUFFICES ASSUME Regular'
                 PROVE  /\ delay' \in 1..Longest(cfg) /\ WaitsOf(log', cfg)
                        /\ NextWait(log', cfg, delay')
    BY <1>4 DEF DelayInv
  <2>2. Regular
    <3>1. cfg' = cfg
      BY <1>4
    <3>2. QED
      BY ONLY <2>1, <3>1 DEF Regular
  <2>3. /\ delay' \in 1..Longest(cfg) /\ WaitsOf(log, cfg)
        /\ Len(log) > 0 => NextWait(log, cfg, Waited) /\ delay' = NextDelay(Waited, cfg)
    BY <1>4, <2>2 DEF IInv, DelayInv
  <2>4. ASSUME NEW i \in 1..(Len(log) - 1)
        PROVE  Wait(log', i) = Wait(log, i)
    <3>1. i \in 1..Len(log) /\ i + 1 \in 1..Len(log)
      BY <1>3
    <3>2. log'[i] = log[i] /\ log'[i + 1] = log[i + 1]
      BY <1>3, <3>1
    <3>3. QED
      BY <3>2 DEF Wait
  <2>5. Len(log) > 0 => Wait(log', Len(log)) = Waited
    BY <1>3 DEF Wait, Waited
  <2>6. ASSUME NEW i \in 1..(Len(log') - 1)
        PROVE  Wait(log', i) \in 1..Longest(cfg)
    <3>1. CASE i = Len(log)
      BY <1>3, <2>3, <2>5, <3>1 DEF NextWait
    <3>2. CASE i # Len(log)
      <4>1. i \in 1..(Len(log) - 1)
        BY <1>3, <3>2
      <4>2. QED
        BY <2>3, <2>4, <4>1 DEF WaitsOf
    <3>3. QED
      BY <3>1, <3>2
  <2>7. ASSUME NEW i \in 1..(Len(log') - 2)
        PROVE  Wait(log', i + 1) = NextDelay(Wait(log', i), cfg)
    <3>1. CASE i + 1 = Len(log)
      <4>1. i \in 1..(Len(log) - 1) /\ i = Len(log) - 1
        BY <1>3, <3>1
      <4>2. Wait(log', i + 1) = Waited /\ Wait(log', i) = Wait(log, i)
        BY <2>4, <2>5, <3>1, <4>1
      <4>3. Len(log) > 1
        BY <1>3, <4>1
      <4>4. Waited = NextDelay(Wait(log, Len(log) - 1), cfg)
        BY <1>3, <2>3, <4>3 DEF NextWait
      <4>5. QED
        BY <4>1, <4>2, <4>4
    <3>2. CASE i + 1 # Len(log)
      <4>1. i \in 1..(Len(log) - 2) /\ i \in 1..(Len(log) - 1) /\ i + 1 \in 1..(Len(log) - 1)
        BY <1>3, <3>2
      <4>2. Wait(log', i + 1) = Wait(log, i + 1) /\ Wait(log', i) = Wait(log, i)
        BY <2>4, <4>1
      <4>3. QED
        BY <2>3, <4>1, <4>2 DEF WaitsOf
    <3>3. QED
      BY <3>1, <3>2
  <2>8. NextWait(log', cfg, delay')
    BY <1>3, <2>3, <2>5 DEF NextWait
  <2>9. QED
    BY <2>3, <2>6, <2>7, <2>8 DEF WaitsOf
<1>8. DeadlineInv'
  <2>1. SUFFICES ASSUME Regular', cfg.timeout > 0
                 PROVE  /\ \A i \in 1..Len(log') : log'[i].start <= cfg.timeout
                        /\ now' <= cfg.timeout + MaxRunTime
    BY <1>4 DEF DeadlineInv
  <2>2. /\ \A i \in 1..Len(log) : log[i].start <= cfg.timeout
        /\ now <= cfg.timeout
    BY <1>4, <2>1 DEF IInv, DeadlineInv, Regular
  <2>3. ASSUME NEW i \in 1..Len(log')
        PROVE  log'[i].start <= cfg.timeout
    <3>1. CASE i = Len(log) + 1
      BY <1>3, <2>2, <3>1
    <3>2. CASE i # Len(log) + 1
      <4>1. i \in 1..Len(log)
        BY <1>3, <3>2
      <4>2. QED
        BY <1>3, <2>2, <4>1
    <3>3. QED
      BY <3>1, <3>2
  <2>4. now' <= cfg.timeout + MaxRunTime
    BY <1>2, <2>2
  <2>5. QED
    BY <2>3, <2>4
<1>9. CapInv'
  <2>1. ASSUME NEW i \in 2..(Len(log') - 1)
        PROVE  Wait(log', i) <= cfg.maxDelay
    <3>1. CASE i = Len(log)
      <4>1. Len(log) > 1 /\ Wait(log', i) = Waited
        BY <1>3, <3>1 DEF Wait, Waited
      <4>2. QED
        BY <1>4, <4>1 DEF IInv, CapInv
    <3>2. CASE i # Len(log)
      <4>1. i \in 1..Len(log) /\ i + 1 \in 1..Len(log) /\ i \in 2..(Len(log) - 1)
        BY <1>3, <3>2
      <4>2. Wait(log', i) = Wait(log, i)
        BY <1>3, <4>1 DEF Wait
      <4>3. QED
        BY <4>1, <4>2 DEF IInv, CapInv
    <3>3. QED
      BY <3>1, <3>2
  <2>2. QED
    BY <1>4, <2>1 DEF IInv, CapInv
<1>10. QED
  BY <1>5, <1>6, <1>7, <1>8, <1>9 DEF IInv

LEMMA TimerStep == IInv /\ TimerFires => IInv'
<1> SUFFICES ASSUME IInv, TimerFires
             PROVE  IInv'
  OBVIOUS
<1>1. /\ TypeOK /\ now \in Nat /\ delay \in Durations /\ attempt \in Nat \ {0}
      /\ cfg.attempts \in Nat /\ cfg.timeout \in Nat /\ Len(log) \in Nat
      /\ MaxRunTime \in Nat /\ MaxDuration \in Nat
  BY RetryConstants, LenProperties DEF IInv, TypeOK
<1>2. /\ pc = "wait" /\ pc' = "run" /\ outcome = "none" /\ outcome' = "none"
      /\ file' = file /\ cfg' = cfg /\ log' = log /\ attempt' = attempt + 1
      /\ attempt < cfg.attempts /\ Len(log) = attempt /\ now = log[Len(log)].end
      /\ delay' \in Grown(delay) /\ now' = TimerAt
      /\ cfg.timeout = 0 \/ TimerAt <= DeadlineAt
  BY DEF TimerFires, IInv, LogInv
<1>3. delay \in Int /\ now' \in Nat
  BY <1>1, <1>2 DEF TimerAt, Durations, MinDuration
<1>4. TypeOK'
  <2>1. delay' \in Durations
    BY <1>1, <1>2, GrownType
  <2>2. QED
    BY <1>1, <1>2, <1>3, <2>1 DEF TypeOK
<1>5. LogInv'
  BY <1>1, <1>2 DEF LogInv, OutcomeIsRight
<1>6. ASSUME Regular'
      PROVE  /\ Regular /\ delay \in 1..Longest(cfg) /\ WaitsOf(log, cfg)
             /\ NextWait(log, cfg, delay) /\ now' = now + delay
             /\ Longest(cfg) \in Nat /\ cfg.maxDelay <= Longest(cfg) /\ cfg.maxDelay \in Nat
  <2>1. Regular
    <3>1. cfg' = cfg
      BY <1>2
    <3>2. QED
      BY ONLY <1>6, <3>1 DEF Regular
  <2>2. delay \in 1..Longest(cfg) /\ WaitsOf(log, cfg) /\ NextWait(log, cfg, delay)
    BY <1>2, <2>1 DEF IInv, DelayInv
  <2>3. now' = now + delay
    BY <1>2, <1>3, <2>2 DEF TimerAt
  <2>4. cfg.delay \in Int /\ cfg.maxDelay \in Nat
    BY <1>1 DEF TypeOK, Durations, MinDuration
  <2>5. QED
    BY <2>1, <2>2, <2>3, <2>4 DEF Longest
<1>7. DelayInv'
  <2>1. SUFFICES ASSUME Regular'
                 PROVE  /\ delay' \in 1..Longest(cfg) /\ WaitsOf(log, cfg)
                        /\ NextWait(log, cfg, Waited') /\ delay' = NextDelay(Waited', cfg)
    BY <1>2 DEF DelayInv
  <2>2. Waited' = delay
    BY <1>1, <1>2, <1>3, <1>6, <2>1 DEF Waited
  <2>3. delay' = NextDelay(delay, cfg) /\ NextDelay(delay, cfg) \in 1..cfg.maxDelay
    BY <1>1, <1>2, <1>6, <2>1, RegularGrowth
  <2>4. QED
    BY <1>6, <2>1, <2>2, <2>3
<1>8. DeadlineInv'
  <2>1. SUFFICES ASSUME Regular', cfg.timeout > 0
                 PROVE  /\ \A i \in 1..Len(log) : log[i].start <= cfg.timeout
                        /\ now' <= cfg.timeout
    BY <1>1, <1>2, <1>3 DEF DeadlineInv
  <2>2. \A i \in 1..Len(log) : log[i].start <= cfg.timeout
    BY <1>6, <2>1 DEF IInv, DeadlineInv
  <2>3. now' <= cfg.timeout
    <3>1. now' = now + delay /\ delay >= 1 /\ delay \in Int
      BY <1>3, <1>6, <2>1
    <3>2. now' <= DeadlineAt
      BY <1>2, <2>1
    <3>3. QED
      BY <1>1, <3>1, <3>2 DEF DeadlineAt
  <2>4. QED
    BY <2>2, <2>3
<1>9. CapInv'
  <2>1. delay' <= cfg.maxDelay
    BY <1>1, <1>2, GrownIsCapped
  <2>2. Len(log) > 1 => Waited' <= cfg.maxDelay
    <3>1. Waited' = IF delay > 0 THEN delay ELSE 0
      <4>1. Waited' = TimerAt - now
        BY <1>2 DEF Waited
      <4>2. QED
        BY <1>1, <1>3, <4>1 DEF TimerAt
    <3>2. cfg.maxDelay \in Nat /\ (Len(log) > 1 => delay <= cfg.maxDelay)
      BY <1>1, <1>2 DEF IInv, CapInv, TypeOK
    <3>3. QED
      BY <1>3, <3>1, <3>2
  <2>3. QED
    BY <1>2, <2>1, <2>2 DEF IInv, CapInv
<1>10. QED
  BY <1>4, <1>5, <1>7, <1>8, <1>9 DEF IInv

LEMMA ContextStep == IInv /\ ContextDone => IInv'
<1> SUFFICES ASSUME IInv, ContextDone
             PROVE  IInv'
  OBVIOUS
<1>1. /\ TypeOK /\ now \in Nat /\ attempt \in Nat \ {0} /\ cfg.attempts \in Nat
      /\ cfg.timeout \in Nat /\ Len(log) \in Nat /\ MaxRunTime \in Nat
  BY RetryConstants, LenProperties DEF IInv, TypeOK
<1>2. /\ pc = "wait" /\ pc' = "returned" /\ outcome' = "deadline" /\ file' = file
      /\ cfg' = cfg /\ log' = log /\ attempt' = attempt /\ delay' = delay
      /\ attempt < cfg.attempts /\ Len(log) = attempt /\ now' = DeadlineAt /\ cfg.timeout > 0
  BY DEF ContextDone, IInv, LogInv
<1>3. now' \in Nat /\ Expired(now)' /\ (now' = now \/ now' = cfg.timeout)
  BY <1>1, <1>2 DEF DeadlineAt, Expired
<1>4. TypeOK'
  BY <1>1, <1>2, <1>3 DEF TypeOK
<1>5. LogInv'
  BY <1>1, <1>2, <1>3 DEF LogInv, OutcomeIsRight
<1>6. DelayInv'
  BY <1>2 DEF IInv, DelayInv, Regular
<1>7. DeadlineInv'
  BY <1>1, <1>2, <1>3 DEF IInv, DeadlineInv, Regular
<1>8. CapInv'
  BY <1>2 DEF IInv, CapInv
<1>9. QED
  BY <1>4, <1>5, <1>6, <1>7, <1>8 DEF IInv

LEMMA StepPreserves == IInv /\ [Next]_vars => IInv'
<1> SUFFICES ASSUME IInv, UNCHANGED vars
             PROVE  IInv'
  BY AttemptStep, TimerStep, ContextStep DEF Next
<1>1. /\ file' = file /\ cfg' = cfg /\ now' = now /\ attempt' = attempt /\ delay' = delay
      /\ pc' = pc /\ outcome' = outcome /\ log' = log
  BY DEF vars
<1>2. TypeOK' /\ LogInv'
  BY <1>1 DEF IInv, TypeOK, LogInv, OutcomeIsRight, Expired
<1>3. DelayInv'
  BY <1>1 DEF IInv, DelayInv, Regular, Waited
<1>4. DeadlineInv'
  BY <1>1 DEF IInv, DeadlineInv, Regular
<1>5. CapInv'
  BY <1>1 DEF IInv, CapInv, Waited
<1>6. QED
  BY <1>2, <1>3, <1>4, <1>5 DEF IInv

LEMMA Invariance == Spec => []IInv
<1>1. QED
  BY InitHolds, StepPreserves, PTL DEF Spec

-----------------------------------------------------------------------------
(* What follows.                                                           *)

\* Every variable of the loop keeps its type, however the delays overflow: the attempts
\* never exceed max_attempts. (executor.go:203-254)
THEOREM TypeCorrect == Spec => []TypeOK
<1>1. IInv => TypeOK
  BY DEF IInv
<1>2. QED
  BY <1>1, Invariance, PTL

\* "failed after n attempts" means that there were n, and a context error that the
\* deadline has passed with attempts left. (executor.go:228-254)
THEOREM OutcomeHolds == Spec => []OutcomeIsRight
<1>1. IInv => OutcomeIsRight
  BY DEF IInv, LogInv
<1>2. QED
  BY <1>1, Invariance, PTL

\* In a regular configuration no retry starts after the deadline, and the step is over at
\* the latest one module run after it. (executor.go:156-161, 239-243)
THEOREM DeadlineHolds == Spec => []TimeoutCoversRetries
<1>1. IInv => TimeoutCoversRetries
  BY LenProperties DEF IInv, DeadlineInv, TimeoutCoversRetries, TypeOK
<1>2. QED
  BY <1>1, Invariance, PTL

\* Every wait but the first is within max_delay, whatever overflows; in a regular
\* configuration every wait is the previous one times the factor, cut to max_delay.
\* (executor.go:238-249)
THEOREM BackoffHolds == Spec => []WaitsBackOff
<1>1. IInv => WaitsBackOff
  <2>1. ASSUME IInv, NEW i \in 2..(Len(log) - 1)
        PROVE  Gap(i) <= cfg.maxDelay
    BY <2>1 DEF IInv, CapInv, Wait, Gap
  <2>2. ASSUME IInv, Regular, NEW i \in 1..(Len(log) - 2)
        PROVE  /\ \/ Gap(i + 1) = cfg.maxDelay
                  \/ Gap(i + 1) = (Gap(i) * cfg.backoff2) \div 2
               /\ Gap(i) <= cfg.maxDelay => Gap(i) <= Gap(i + 1)
    <3>1. Len(log) \in Nat /\ i \in 1..(Len(log) - 1)
      BY <2>2, LenProperties DEF IInv, TypeOK
    <3>2. Gap(i) \in 1..Longest(cfg) /\ Gap(i + 1) = NextDelay(Gap(i), cfg)
      BY <2>2, <3>1 DEF IInv, DelayInv, WaitsOf, Wait, Gap
    <3>3. Gap(i) <= cfg.maxDelay => Gap(i) <= NextDelay(Gap(i), cfg)
      BY <2>2, <3>2, RegularGrowth DEF IInv
    <3>4. NextDelay(Gap(i), cfg) = cfg.maxDelay \/ NextDelay(Gap(i), cfg) = Times(Gap(i), cfg)
      BY DEF NextDelay
    <3>5. QED
      BY <3>2, <3>3, <3>4 DEF Times
  <2>3. QED
    BY <2>1, <2>2 DEF WaitsBackOff
<1>2. QED
  BY <1>1, Invariance, PTL
=============================================================================
