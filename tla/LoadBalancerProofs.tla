-------------------------- MODULE LoadBalancerProofs --------------------------
(***************************************************************************)
(* What LoadBalancer promises, for any endpoints, callers, attempts and    *)
(* bounds, and under every interleaving of calls and timers.               *)
(***************************************************************************)
EXTENDS LoadBalancer, FiniteSetTheorems, SequenceTheorems, TLAPS

-----------------------------------------------------------------------------
(* The inductive invariant.                                                *)

InUse(list) == {list[i] : i \in DOMAIN list}

\* A circuit is open only while a timer of its own runs; the count of replaced timers has
\* room for the one whose callback waits.
TimerInv ==
  \A e \in Endpoint :
    /\ circuitOpen[e] => timer[e] \in {"armed", "expired"}
    /\ timer[e] = "expired" => stale[e] < MaxStale

\* F is a record of the call's failed attempts, one endpoint each, all out of rotation: the
\* endpoint at hand is another one, and when it has not answered it is not steady.
Record(c, F) ==
  /\ F \in SUBSET InUse(endpoints)
  /\ Cardinality(F) = call[c].tries
  /\ \A e \in F : ~ InRotation(e)
  /\ call[c].pc \in {"request", "blame", "open"} => call[c].ep \in InUse(endpoints) \ F
  /\ call[c].pc \in {"blame", "open"} => call[c].ep \notin steady[c]
  /\ call[c].pc = "open" => ~ InRotation(call[c].ep)

\* As long as an endpoint is steady, the call has such a record.
CallInv(c) ==
  steady[c] # {} =>
    /\ c \in Busy /\ ~ call[c].cancelled
    /\ \A e \in steady[c] : InRotation(e) /\ e \in up /\ e \in InUse(endpoints)
    /\ \E F : Record(c, F)

IInv == TypeOK /\ TimerInv /\ \A c \in Caller : CallInv(c)

-----------------------------------------------------------------------------
(* Lemmas.                                                                 *)

LEMMA EndpointsType ==
  ASSUME TypeOK
  PROVE  /\ endpoints \in Seq(Endpoint) /\ Len(endpoints) \in Nat \ {0}
         /\ DOMAIN endpoints = 1..Len(endpoints)
         /\ \A i \in DOMAIN endpoints : endpoints[i] \in Endpoint
         /\ endpoints[1] \in Endpoint /\ InUse(endpoints) \subseteq Endpoint
<1>1. endpoints \in Seq(Endpoint) /\ endpoints # <<>>
  BY EndpointsAssumption DEF TypeOK
<1>2. Len(endpoints) \in Nat /\ DOMAIN endpoints = 1..Len(endpoints)
  BY <1>1, LenProperties
<1>3. Len(endpoints) # 0
  BY <1>1, EmptySeq
<1>4. \A i \in DOMAIN endpoints : endpoints[i] \in Endpoint
  BY <1>1, <1>2, ElementOfSeq
<1>5. 1 \in DOMAIN endpoints
  BY <1>2, <1>3
<1>6. QED
  BY <1>1, <1>2, <1>3, <1>4, <1>5 DEF InUse

\* An index moved on any number of places is an index.
LEMMA AfterType ==
  ASSUME TypeOK, NEW k \in Nat
  PROVE  After(current, k) \in 1..Len(endpoints)
<1> DEFINE n == Len(endpoints)
           x == current - 1 + k
<1>1. n \in Nat \ {0}
  BY EndpointsType
<1>2. current \in 1..n
  BY DEF TypeOK
<1>3. x \in Int
  BY <1>1, <1>2
<1>4. After(current, k) = (x % n) + 1
  BY DEF After
<1> HIDE DEF n, x
<1>5. x % n \in 0..(n - 1)
  BY <1>1, <1>3
<1>6. QED
  BY <1>1, <1>4, <1>5 DEF n

LEMMA SmallModulo ==
  ASSUME NEW n \in Nat \ {0}, NEW x \in 0..(n - 1)
  PROVE  x % n = x /\ (x + n) % n = x
OBVIOUS

\* The index reaches every position within one round.
LEMMA RoundTrip ==
  ASSUME TypeOK, NEW i \in 1..Len(endpoints)
  PROVE  \E k \in 0..(Len(endpoints) - 1) : After(current, k) = i
<1> DEFINE n == Len(endpoints)
           x == i - 1
<1>1. n \in Nat \ {0} /\ current \in 1..n
  BY EndpointsType DEF TypeOK
<1>2. x \in 0..(n - 1) /\ i = x + 1
  BY <1>1
<1>3. \A k : After(current, k) = ((current - 1 + k) % n) + 1
  BY DEF After
<1> HIDE DEF n, x
<1>4. x % n = x /\ (x + n) % n = x
  BY <1>1, <1>2, SmallModulo
<1>5. CASE i >= current
  <2>1. i - current \in 0..(n - 1) /\ current - 1 + (i - current) = x
    BY <1>1, <1>2, <1>5
  <2>2. After(current, i - current) = i
    BY <1>2, <1>3, <1>4, <2>1
  <2>3. QED
    BY <2>1, <2>2 DEF n
<1>6. CASE i < current
  <2>1. i - current + n \in 0..(n - 1) /\ current - 1 + (i - current + n) = x + n
    BY <1>1, <1>2, <1>6
  <2>2. After(current, i - current + n) = i
    BY <1>2, <1>3, <1>4, <2>1
  <2>3. QED
    BY <2>1, <2>2 DEF n
<1>7. QED
  BY <1>1, <1>2, <1>5, <1>6

\* A record of as many failures as there may be attempts leaves no endpoint.
LEMMA NoneLeft ==
  ASSUME TypeOK, NEW F, F \in SUBSET InUse(endpoints), Cardinality(F) >= Len(endpoints)
  PROVE  F = InUse(endpoints)
<1> DEFINE n == Len(endpoints)
           E == InUse(endpoints)
<1>1. n \in Nat /\ DOMAIN endpoints = 1..n /\ endpoints \in Seq(Endpoint)
  BY EndpointsType
<1>2. IsFiniteSet(1..n) /\ Cardinality(1..n) = n
  BY <1>1, FS_Interval
<1>3. endpoints \in Surjection(1..n, E)
  BY <1>1 DEF Surjection, InUse
<1>4. IsFiniteSet(E) /\ Cardinality(E) <= n
  BY <1>2, <1>3, FS_Surjection
<1>5. F \subseteq E
  OBVIOUS
<1>6. /\ IsFiniteSet(F) /\ Cardinality(F) <= Cardinality(E)
      /\ Cardinality(F) = Cardinality(E) => F = E
  BY <1>4, <1>5, FS_Subset
<1>7. Cardinality(F) \in Nat /\ Cardinality(E) \in Nat
  BY <1>4, <1>6, FS_CardinalityType
<1>8. QED
  BY <1>1, <1>4, <1>6, <1>7

LEMMA OneMoreFailure ==
  ASSUME TypeOK, NEW F, F \in SUBSET InUse(endpoints), NEW e \in InUse(endpoints) \ F
  PROVE  Cardinality(F \cup {e}) = Cardinality(F) + 1
<1> DEFINE n == Len(endpoints)
           E == InUse(endpoints)
<1>1. n \in Nat /\ DOMAIN endpoints = 1..n
  BY EndpointsType
<1>2. IsFiniteSet(1..n)
  BY <1>1, FS_Interval
<1>3. endpoints \in Surjection(1..n, E)
  BY <1>1, EndpointsType DEF Surjection, InUse
<1>4. IsFiniteSet(E)
  BY <1>2, <1>3, FS_Surjection
<1>5. IsFiniteSet(F)
  BY <1>4, FS_Subset
<1>6. QED
  BY <1>5, FS_AddElement

LEMMA InitHolds == Init => IInv
<1> SUFFICES ASSUME Init
             PROVE  IInv
  OBVIOUS
<1>1. endpoints \in Seq(Endpoint) /\ endpoints # <<>>
  BY EndpointsAssumption DEF Init
<1>2. Len(endpoints) \in Nat /\ Len(endpoints) # 0
  BY <1>1, LenProperties, EmptySeq
<1>3. endpoints[1] \in Endpoint
  BY <1>1, <1>2, ElementOfSeq
<1>4. Idle \in [pc : PC, op : {"execute", "health"}, tries : 0..RetryAttempts,
                ep : Endpoint, cancelled : BOOLEAN]
  BY <1>3, BalancerConstants DEF Idle, PC
<1>5. TypeOK
  BY <1>2, <1>4, BalancerConstants DEF Init, TypeOK
<1>6. TimerInv
  BY DEF Init, TimerInv
<1>7. \A c \in Caller : CallInv(c)
  BY DEF Init, CallInv
<1>8. QED
  BY <1>5, <1>6, <1>7 DEF IInv

-----------------------------------------------------------------------------
(* Steps that leave a call where it is.                                    *)

\* Nothing comes back into rotation for c, and what is steady is in rotation and up.
Undisturbed(c) ==
  /\ steady'[c] \subseteq steady[c]
  /\ steady'[c] # {} => /\ \A e \in Endpoint : InRotation(e)' => InRotation(e)
                        /\ \A e \in steady'[c] : InRotation(e)' /\ e \in up'

LEMMA ObserveMeans ==
  ASSUME TypeOK, Observe, NEW c \in Caller
  PROVE  Undisturbed(c) /\ (steady'[c] # {} => c \in Busy')
BY DEF Observe, Undisturbed, TypeOK

LEMMA SteadyMeans ==
  ASSUME TypeOK, NEW c \in Caller, CallInv(c), UNCHANGED <<healthy, circuitOpen, up, steady>>
  PROVE  Undisturbed(c)
BY DEF CallInv, Undisturbed, InRotation

LEMMA OthersKeep ==
  ASSUME NEW c \in Caller, TypeOK, CallInv(c), Undisturbed(c), call'[c] = call[c],
         endpoints' = endpoints
  PROVE  CallInv(c)'
<1> SUFFICES ASSUME steady'[c] # {}
             PROVE  /\ c \in Busy' /\ ~ call[c].cancelled
                    /\ \A e \in steady'[c] : InRotation(e)' /\ e \in up' /\ e \in InUse(endpoints)
                    /\ \E F : Record(c, F)'
  BY DEF CallInv
<1>1. steady[c] # {} /\ steady'[c] \subseteq steady[c]
  BY DEF Undisturbed
<1>2. /\ c \in Busy /\ ~ call[c].cancelled
      /\ \A e \in steady[c] : e \in InUse(endpoints)
  BY <1>1 DEF CallInv
<1>3. PICK F : Record(c, F)
  BY <1>1 DEF CallInv
<1>4. \A e \in InUse(endpoints) : InRotation(e)' => InRotation(e)
  BY EndpointsType DEF Undisturbed
<1>5. Record(c, F)'
  BY <1>1, <1>3, <1>4 DEF Record
<1>6. c \in Busy'
  BY <1>2 DEF Busy
<1>7. QED
  BY <1>1, <1>2, <1>5, <1>6 DEF Undisturbed

-----------------------------------------------------------------------------
(* The steps.                                                              *)

CallType == [pc : PC, op : {"execute", "health"}, tries : 0..RetryAttempts,
             ep : Endpoint, cancelled : BOOLEAN]

LEMMA IdleType ==
  ASSUME TypeOK
  PROVE  Idle \in CallType /\ Idle.pc = "idle"
BY EndpointsType, BalancerConstants DEF Idle, CallType, PC

\* What a failed attempt leads to.
LEMMA AfterFailureType ==
  ASSUME TypeOK, NEW c \in Caller
  PROVE  /\ AfterFailure(c) \in CallType
         /\ AfterFailure(c).pc # "idle" =>
              /\ AfterFailure(c).pc = "pick" /\ AfterFailure(c).tries = call[c].tries + 1
              /\ AfterFailure(c).cancelled = call[c].cancelled
<1>1. /\ call[c] \in CallType /\ call[c].tries \in 0..RetryAttempts
      /\ endpoints[1] \in Endpoint
  BY EndpointsType DEF TypeOK, CallType
<1>2. RetryAttempts \in Nat
  BY BalancerConstants
<1>3. CASE call[c].tries + 1 < RetryAttempts
  <2>1. AfterFailure(c) = [pc |-> "pick", op |-> call[c].op, tries |-> call[c].tries + 1,
                           ep |-> endpoints[1], cancelled |-> call[c].cancelled]
    BY <1>1, <1>3 DEF AfterFailure, CallType
  <2>2. call[c].tries + 1 \in 0..RetryAttempts
    BY <1>1, <1>2, <1>3
  <2>3. call[c].op \in {"execute", "health"} /\ call[c].cancelled \in BOOLEAN
    BY <1>1 DEF CallType
  <2>4. AfterFailure(c) \in CallType
    BY <1>1, <2>1, <2>2, <2>3 DEF CallType, PC
  <2>5. QED
    BY <2>1, <2>4
<1>4. CASE ~ (call[c].tries + 1 < RetryAttempts)
  BY <1>4, IdleType DEF AfterFailure
<1>5. QED
  BY <1>3, <1>4

LEMMA FlipStep == ASSUME IInv, NEW x \in Endpoint, Flip(x) PROVE IInv'
<1>1. TypeOK' /\ TimerInv'
  <2>1. up' \in SUBSET Endpoint
    BY DEF Flip, IInv, TypeOK
  <2>2. steady' \in [Caller -> SUBSET Endpoint]
    BY DEF Flip, Observe, IInv, TypeOK
  <2>3. QED
    BY <2>1, <2>2 DEF Flip, clientVars, IInv, TypeOK, TimerInv
<1>2. ASSUME NEW c \in Caller
      PROVE  CallInv(c)'
  BY ObserveMeans, OthersKeep DEF Flip, IInv
<1>3. QED
  BY <1>1, <1>2 DEF IInv

LEMMA CancelStep == ASSUME IInv, NEW c \in Caller, Cancel(c) PROVE IInv'
<1>1. TypeOK' /\ TimerInv'
  <2>1. call' \in [Caller -> CallType]
    BY DEF Cancel, IInv, TypeOK, CallType
  <2>2. cancels' \in 0..MaxCancels
    BY BalancerConstants DEF Cancel, IInv, TypeOK
  <2>3. steady' \in [Caller -> SUBSET Endpoint]
    BY DEF Cancel, IInv, TypeOK
  <2>4. QED
    BY <2>1, <2>2, <2>3 DEF Cancel, clientVars, IInv, TypeOK, TimerInv, CallType
<1>2. ASSUME NEW d \in Caller
      PROVE  CallInv(d)'
  <2>1. CASE d = c
    BY <2>1 DEF CallInv, Cancel, IInv, TypeOK
  <2>2. CASE d # c
    <3>1. call'[d] = call[d] /\ steady'[d] = steady[d] /\ endpoints' = endpoints
      BY <2>2 DEF Cancel, IInv, TypeOK
    <3>2. Undisturbed(d)
      BY <3>1 DEF IInv, CallInv, Undisturbed, InRotation, Cancel, clientVars
    <3>3. QED
      BY <3>1, <3>2, OthersKeep DEF IInv
  <2>3. QED
    BY <2>1, <2>2
<1>3. QED
  BY <1>1, <1>2 DEF IInv

LEMMA CallStep ==
  ASSUME IInv, NEW c \in Caller, NEW op \in {"execute", "health"}, Call(c, op)
  PROVE  IInv'
<1> DEFINE r == [Idle EXCEPT !.pc = IF Len(endpoints) = 1 THEN "direct" ELSE "pick", !.op = op]
           s == {e \in up : InRotation(e) /\ \E i \in DOMAIN endpoints : endpoints[i] = e}
<1>1. /\ TypeOK /\ call' = [call EXCEPT ![c] = r] /\ steady' = [steady EXCEPT ![c] = s]
      /\ endpoints' = endpoints /\ up' = up /\ cancels' = cancels /\ current' = current
      /\ healthy' = healthy /\ circuitOpen' = circuitOpen /\ timer' = timer /\ stale' = stale
  BY DEF Call, clientVars, IInv
<1>2. /\ r \in CallType /\ r.pc \in {"direct", "pick"} /\ r.tries = 0 /\ ~ r.cancelled
      /\ s \in SUBSET Endpoint
  <2> DEFINE p == IF Len(endpoints) = 1 THEN "direct" ELSE "pick"
             b == endpoints[1]
  <2>1. r = [pc |-> p, op |-> op, tries |-> 0, ep |-> b, cancelled |-> FALSE]
    <3>1. p \in {"direct", "pick"}
      OBVIOUS
    <3> HIDE DEF p
    <3>2. r = [Idle EXCEPT !.pc = p, !.op = op]
      BY DEF p
    <3>3. Idle = [pc |-> "idle", op |-> "execute", tries |-> 0, ep |-> b, cancelled |-> FALSE]
      BY DEF Idle
    <3> HIDE DEF r, b
    <3>4. QED
      BY ONLY <3>2, <3>3
  <2>2. endpoints[1] \in Endpoint /\ 0 \in 0..RetryAttempts
    BY <1>1, EndpointsType, BalancerConstants
  <2>3. s \in SUBSET Endpoint
    BY <1>1 DEF TypeOK
  <2>4. QED
    BY <2>1, <2>2, <2>3 DEF CallType, PC
<1>3. \A e \in s : InRotation(e) /\ e \in up /\ e \in InUse(endpoints)
  BY DEF InUse
<1> HIDE DEF r, s
<1>4. TypeOK' /\ TimerInv'
  <2>1. call' \in [Caller -> CallType] /\ steady' \in [Caller -> SUBSET Endpoint]
    BY <1>1, <1>2 DEF TypeOK, CallType
  <2>2. QED
    BY <1>1, <2>1 DEF IInv, TypeOK, TimerInv, CallType
<1>5. ASSUME NEW d \in Caller
      PROVE  CallInv(d)'
  <2>1. CASE d = c
    <3>1. call'[d] = r /\ steady'[d] = s
      BY <1>1, <2>1 DEF TypeOK
    <3>2. d \in Busy'
      BY <1>2, <3>1 DEF Busy
    <3>3. Record(d, {})'
      BY <1>2, <3>1, FS_EmptySet DEF Record
    <3>4. \A e \in s : InRotation(e)' /\ e \in up' /\ e \in InUse(endpoints)'
      BY <1>1, <1>3 DEF InRotation
    <3>5. QED
      BY <1>2, <3>1, <3>2, <3>3, <3>4 DEF CallInv
  <2>2. CASE d # c
    <3>1. call'[d] = call[d] /\ steady'[d] = steady[d] /\ endpoints' = endpoints
      BY <1>1, <2>2 DEF TypeOK
    <3>2. Undisturbed(d)
      BY <1>1, <3>1 DEF IInv, CallInv, Undisturbed, InRotation
    <3>3. QED
      BY <3>1, <3>2, OthersKeep DEF IInv
  <2>3. QED
    BY <2>1, <2>2
<1>6. QED
  BY <1>4, <1>5 DEF IInv

\* The end of a call.
LEMMA ReturnKeeps ==
  ASSUME IInv, NEW c \in Caller, call' = [call EXCEPT ![c] = Idle], Observe,
         endpoints' = endpoints, NEW d \in Caller
  PROVE  CallInv(d)'
<1>1. CASE d = c
  <2>1. call'[d].pc = "idle"
    BY <1>1, IdleType DEF IInv, TypeOK
  <2>2. steady'[d] = {}
    BY <2>1, ObserveMeans DEF IInv, Busy
  <2>3. QED
    BY <2>2 DEF CallInv
<1>2. CASE d # c
  <2>1. call'[d] = call[d]
    BY <1>2 DEF IInv, TypeOK
  <2>2. QED
    BY <2>1, ObserveMeans, OthersKeep DEF IInv
<1>3. QED
  BY <1>1, <1>2

\* The variables that Observe and a new value of one call leave well typed.
LEMMA CallsTyped ==
  ASSUME TypeOK, NEW c \in Caller, NEW r \in CallType, call' = [call EXCEPT ![c] = r]
  PROVE  call' \in [Caller -> CallType]
BY DEF TypeOK, CallType

LEMMA SteadyTyped ==
  ASSUME TypeOK, Observe
  PROVE  steady' \in [Caller -> SUBSET Endpoint]
BY DEF TypeOK, Observe

LEMMA DirectStep == ASSUME IInv, NEW c \in Caller, Direct(c) PROVE IInv'
<1>1. TypeOK' /\ TimerInv'
  <2>1. call' \in [Caller -> CallType]
    BY CallsTyped, IdleType DEF Direct, IInv
  <2>2. steady' \in [Caller -> SUBSET Endpoint]
    BY SteadyTyped DEF Direct, IInv
  <2>3. QED
    BY <2>1, <2>2 DEF Direct, clientVars, IInv, TypeOK, TimerInv, CallType
<1>2. \A d \in Caller : CallInv(d)'
  BY ReturnKeeps DEF Direct
<1>3. QED
  BY <1>1, <1>2 DEF IInv

LEMMA PraiseStep == ASSUME IInv, NEW c \in Caller, Praise(c) PROVE IInv'
<1>1. TypeOK'
  <2>1. call' \in [Caller -> CallType]
    BY CallsTyped, IdleType DEF Praise, IInv
  <2>2. steady' \in [Caller -> SUBSET Endpoint]
    BY SteadyTyped DEF Praise, IInv
  <2>3. QED
    BY <2>1, <2>2 DEF Praise, MarkHealthy, IInv, TypeOK, CallType
<1>2. TimerInv'
  BY DEF Praise, MarkHealthy, IInv, TypeOK, TimerInv
<1>3. \A d \in Caller : CallInv(d)'
  BY ReturnKeeps DEF Praise
<1>4. QED
  BY <1>1, <1>2, <1>3 DEF IInv

\* When an endpoint is steady, one that is in rotation is picked.
LEMMA PickFinds ==
  ASSUME TypeOK, NEW e \in InUse(endpoints), InRotation(e)
  PROVE  \E k \in 0..(Len(endpoints) - 1) : InRotation(endpoints[After(current, k)])
<1>1. PICK i \in 1..Len(endpoints) : endpoints[i] = e
  BY EndpointsType DEF InUse
<1>2. PICK k \in 0..(Len(endpoints) - 1) : After(current, k) = i
  BY RoundTrip
<1>3. QED
  BY <1>1, <1>2

LEMMA PickStep == ASSUME IInv, NEW c \in Caller, Pick(c) PROVE IInv'
<1> DEFINE ahead == {k \in 0..(Len(endpoints) - 1) : InRotation(endpoints[After(current, k)])}
<1>1. /\ TypeOK /\ call[c].pc = "pick" /\ endpoints' = endpoints /\ healthy' = healthy
      /\ circuitOpen' = circuitOpen /\ timer' = timer /\ stale' = stale /\ up' = up
      /\ cancels' = cancels /\ steady' = steady
  BY DEF Pick, IInv
<1>2. PICK i \in DOMAIN endpoints :
        /\ call' = [call EXCEPT ![c].pc = "request", ![c].ep = endpoints[i]]
        /\ current' \in 1..Len(endpoints)
        /\ ahead # {} => InRotation(endpoints[i])
  <2>1. CASE ahead = {} /\ current' = current
                       /\ call' = [call EXCEPT ![c].pc = "request", ![c].ep = endpoints[1]]
    <3>1. 1 \in DOMAIN endpoints /\ current \in 1..Len(endpoints)
      BY <1>1, EndpointsType DEF TypeOK
    <3>2. QED
      BY <2>1, <3>1
  <2>2. ASSUME NEW k \in ahead, current' = After(current, k + 1),
               call' = [call EXCEPT ![c].pc = "request", ![c].ep = endpoints[After(current, k)]]
        PROVE  \E i \in DOMAIN endpoints :
                 /\ call' = [call EXCEPT ![c].pc = "request", ![c].ep = endpoints[i]]
                 /\ current' \in 1..Len(endpoints)
                 /\ ahead # {} => InRotation(endpoints[i])
    <3>1. k \in Nat /\ k + 1 \in Nat /\ InRotation(endpoints[After(current, k)])
      BY <1>1, EndpointsType
    <3>2. After(current, k) \in DOMAIN endpoints /\ After(current, k + 1) \in 1..Len(endpoints)
      BY <1>1, <3>1, AfterType, EndpointsType
    <3>3. QED
      BY <2>2, <3>1, <3>2
  <2>3. QED
    BY <2>1, <2>2 DEF Pick
<1>3. endpoints[i] \in Endpoint /\ endpoints[i] \in InUse(endpoints)
  BY <1>1, EndpointsType DEF InUse
<1>4. /\ call' \in [Caller -> CallType] /\ call'[c].pc = "request" /\ call'[c].ep = endpoints[i]
      /\ call'[c].tries = call[c].tries /\ call'[c].cancelled = call[c].cancelled
      /\ \A d \in Caller : d # c => call'[d] = call[d]
  BY <1>1, <1>2, <1>3 DEF TypeOK, CallType, PC
<1>5. TypeOK' /\ TimerInv'
  BY <1>1, <1>2, <1>4 DEF IInv, TypeOK, TimerInv, CallType
<1>6. ASSUME NEW d \in Caller
      PROVE  CallInv(d)'
  <2>1. CASE d = c /\ steady[c] # {}
    <3>1. /\ c \in Busy /\ ~ call[c].cancelled
          /\ \A e \in steady[c] : InRotation(e) /\ e \in up /\ e \in InUse(endpoints)
      BY <2>1 DEF IInv, CallInv
    <3>2. PICK F : Record(c, F)
      BY <2>1 DEF IInv, CallInv
    <3>3. InRotation(endpoints[i])
      BY <1>1, <1>2, <2>1, <3>1, PickFinds
    <3>4. endpoints[i] \notin F
      BY <3>2, <3>3 DEF Record
    <3>5. Record(c, F)'
      BY <1>1, <1>3, <1>4, <3>2, <3>4 DEF Record, InRotation
    <3>6. c \in Busy'
      BY <1>4 DEF Busy
    <3>7. QED
      BY <1>1, <1>4, <2>1, <3>1, <3>5, <3>6 DEF CallInv, InRotation
  <2>2. CASE d = c /\ steady[c] = {}
    BY <1>1, <2>2 DEF CallInv
  <2>3. CASE d # c
    BY <1>1, <1>4, <2>3, SteadyMeans, OthersKeep DEF IInv
  <2>4. QED
    BY <2>1, <2>2, <2>3
<1>7. QED
  BY <1>5, <1>6 DEF IInv

LEMMA RequestStep == ASSUME IInv, NEW c \in Caller, Request(c) PROVE IInv'
<1>1. /\ TypeOK /\ call[c].pc = "request" /\ endpoints' = endpoints /\ current' = current
      /\ healthy' = healthy /\ circuitOpen' = circuitOpen /\ timer' = timer /\ stale' = stale
      /\ up' = up /\ cancels' = cancels /\ steady' = steady
  BY DEF Request, clientVars, IInv
<1>2. /\ call' \in [Caller -> CallType]
      /\ call'[c].pc = IF Answered(c) THEN "praise" ELSE "blame"
      /\ call'[c].ep = call[c].ep
      /\ call'[c].tries = call[c].tries /\ call'[c].cancelled = call[c].cancelled
      /\ \A d \in Caller : d # c => call'[d] = call[d]
  BY <1>1 DEF Request, TypeOK, CallType, PC
<1>3. TypeOK' /\ TimerInv'
  BY <1>1, <1>2 DEF IInv, TypeOK, TimerInv, CallType
<1>4. ASSUME NEW d \in Caller
      PROVE  CallInv(d)'
  <2>1. CASE d = c /\ steady[c] # {}
    <3>1. /\ c \in Busy /\ ~ call[c].cancelled
          /\ \A e \in steady[c] : InRotation(e) /\ e \in up /\ e \in InUse(endpoints)
      BY <2>1 DEF IInv, CallInv
    <3>2. PICK F : Record(c, F)
      BY <2>1 DEF IInv, CallInv
    <3>3. call'[c].pc = "blame" => call[c].ep \notin steady[c]
      BY <1>2, <3>1 DEF Answered
    <3>4. Record(c, F)'
      BY <1>1, <1>2, <3>2, <3>3 DEF Record, InRotation
    <3>5. c \in Busy'
      BY <1>2 DEF Busy
    <3>6. QED
      BY <1>1, <1>2, <2>1, <3>1, <3>4, <3>5 DEF CallInv, InRotation
  <2>2. CASE d = c /\ steady[c] = {}
    BY <1>1, <2>2 DEF CallInv
  <2>3. CASE d # c
    BY <1>1, <1>2, <2>3, SteadyMeans, OthersKeep DEF IInv
  <2>4. QED
    BY <2>1, <2>2, <2>3
<1>5. QED
  BY <1>3, <1>4 DEF IInv

\* A failed attempt is put on record: its endpoint is out of rotation.
LEMMA FailureKeeps ==
  ASSUME IInv, NEW c \in Caller, call[c].pc \in {"blame", "open"},
         call' = [call EXCEPT ![c] = AfterFailure(c)], Observe, endpoints' = endpoints,
         NEW x, x = call[c].ep, ~ InRotation(x)', NEW d \in Caller
  PROVE  CallInv(d)'
<1>1. TypeOK
  BY DEF IInv
<1>2. CASE d = c
  <2>1. SUFFICES ASSUME steady'[c] # {}
                 PROVE  CallInv(c)'
    BY <1>2 DEF CallInv
  <2>2. call'[c] = AfterFailure(c)
    BY <1>1 DEF TypeOK
  <2>3. Undisturbed(c) /\ c \in Busy'
    BY <1>1, <2>1, ObserveMeans
  <2>4. /\ call'[c].pc = "pick" /\ call'[c].tries = call[c].tries + 1
        /\ call'[c].cancelled = call[c].cancelled
    BY <1>1, <2>2, <2>3, AfterFailureType DEF Busy
  <2>5. steady[c] # {} /\ steady'[c] \subseteq steady[c]
    BY <2>1, <2>3 DEF Undisturbed
  <2>6. /\ ~ call[c].cancelled /\ \A e \in steady[c] : e \in InUse(endpoints)
    BY <2>5 DEF IInv, CallInv
  <2>7. PICK F : Record(c, F)
    BY <2>5 DEF IInv, CallInv
  <2> DEFINE G == F \cup {x}
  <2>8. x \in InUse(endpoints) \ F /\ F \in SUBSET InUse(endpoints)
        /\ Cardinality(F) = call[c].tries
    BY <2>7 DEF Record
  <2>9. Cardinality(G) = call[c].tries + 1
    BY <1>1, <2>8, OneMoreFailure
  <2>10. \A e \in InUse(endpoints) : InRotation(e)' => InRotation(e)
    BY <1>1, <2>1, <2>3, EndpointsType DEF Undisturbed
  <2>11. \A e \in G : ~ InRotation(e)'
    BY <2>7, <2>8, <2>10 DEF Record
  <2> HIDE DEF G
  <2>12. G \in SUBSET InUse(endpoints)
    BY <2>8 DEF G
  <2>13. Record(c, G)'
    BY <2>4, <2>9, <2>11, <2>12 DEF Record
  <2>14. \A e \in steady'[c] : InRotation(e)' /\ e \in up' /\ e \in InUse(endpoints)
    BY <2>1, <2>3, <2>5, <2>6 DEF Undisturbed
  <2>15. QED
    BY <2>3, <2>4, <2>6, <2>13, <2>14 DEF CallInv
<1>3. CASE d # c
  <2>1. call'[d] = call[d]
    BY <1>1, <1>3 DEF TypeOK
  <2>2. QED
    BY <1>1, <2>1, ObserveMeans, OthersKeep DEF IInv
<1>4. QED
  BY <1>2, <1>3

LEMMA BlameStep == ASSUME IInv, NEW c \in Caller, Blame(c) PROVE IInv'
<1> DEFINE r == IF call[c].op = "health" THEN AfterFailure(c) ELSE [call[c] EXCEPT !.pc = "open"]
<1>1. /\ TypeOK /\ call[c].pc = "blame" /\ endpoints' = endpoints /\ current' = current
      /\ healthy' = [healthy EXCEPT ![call[c].ep] = FALSE]
      /\ circuitOpen' = circuitOpen /\ timer' = timer /\ stale' = stale
      /\ up' = up /\ cancels' = cancels /\ Observe
  BY DEF Blame, IInv
<1>2. call[c] \in CallType /\ call[c].ep \in Endpoint /\ call \in [Caller -> CallType]
  BY <1>1 DEF TypeOK, CallType
<1>3. call' = [call EXCEPT ![c] = r]
  BY <1>2 DEF Blame
<1>4. r \in CallType
  BY <1>1, <1>2, AfterFailureType DEF CallType, PC
<1>5. TypeOK' /\ TimerInv'
  <2>1. call' \in [Caller -> CallType]
    BY <1>2, <1>3, <1>4
  <2>2. steady' \in [Caller -> SUBSET Endpoint]
    BY <1>1, SteadyTyped
  <2>3. QED
    BY <1>1, <2>1, <2>2 DEF IInv, TypeOK, TimerInv, CallType
<1>6. PICK x : x = call[c].ep
  OBVIOUS
<1>7. ~ InRotation(x)'
  BY <1>1, <1>2, <1>6 DEF TypeOK, InRotation
<1>8. ASSUME NEW d \in Caller
      PROVE  CallInv(d)'
  <2>1. CASE call[c].op = "health"
    BY <1>1, <1>3, <1>6, <1>7, <2>1, FailureKeeps
  <2>2. CASE call[c].op # "health" /\ d = c
    <3>1. SUFFICES ASSUME steady'[c] # {}
                   PROVE  CallInv(c)'
      BY <2>2 DEF CallInv
    <3>2. call'[c] = [call[c] EXCEPT !.pc = "open"]
      BY <1>2, <1>3, <2>2
    <3>3. /\ call'[c].pc = "open" /\ call'[c].ep = x /\ call'[c].tries = call[c].tries
          /\ call'[c].cancelled = call[c].cancelled
      BY <1>2, <1>6, <3>2 DEF CallType
    <3>4. Undisturbed(c) /\ c \in Busy'
      BY <1>1, <3>1, ObserveMeans
    <3>5. steady[c] # {} /\ steady'[c] \subseteq steady[c]
      BY <3>1, <3>4 DEF Undisturbed
    <3>6. /\ ~ call[c].cancelled /\ \A e \in steady[c] : e \in InUse(endpoints)
      BY <3>5 DEF IInv, CallInv
    <3>7. PICK F : Record(c, F)
      BY <3>5 DEF IInv, CallInv
    <3>8. \A e \in InUse(endpoints) : InRotation(e)' => InRotation(e)
      BY <1>1, <3>1, <3>4, EndpointsType DEF Undisturbed
    <3>9. x \in InUse(endpoints) \ F /\ x \notin steady[c]
      BY <1>1, <1>6, <3>7 DEF Record
    <3>10. Record(c, F)'
      BY <1>1, <1>7, <3>3, <3>5, <3>7, <3>8, <3>9 DEF Record
    <3>11. \A e \in steady'[c] : InRotation(e)' /\ e \in up' /\ e \in InUse(endpoints)
      BY <3>1, <3>4, <3>5, <3>6 DEF Undisturbed
    <3>12. QED
      BY <1>1, <3>3, <3>4, <3>6, <3>10, <3>11 DEF CallInv
  <2>3. CASE d # c
    <3>1. call'[d] = call[d]
      BY <1>2, <1>3, <2>3
    <3>2. QED
      BY <1>1, <3>1, ObserveMeans, OthersKeep DEF IInv
  <2>4. QED
    BY <2>1, <2>2, <2>3
<1>9. QED
  BY <1>5, <1>8 DEF IInv

LEMMA OpenCircuitStep == ASSUME IInv, NEW c \in Caller, OpenCircuit(c) PROVE IInv'
<1>1. PICK x : x = call[c].ep
  OBVIOUS
<1>2. /\ TypeOK /\ call[c].pc = "open" /\ endpoints' = endpoints /\ current' = current
      /\ healthy' = healthy /\ circuitOpen' = [circuitOpen EXCEPT ![x] = TRUE]
      /\ stale' = [stale EXCEPT ![x] = IF timer[x] = "expired" THEN @ + 1 ELSE @]
      /\ timer' = [timer EXCEPT ![x] = "armed"] /\ call' = [call EXCEPT ![c] = AfterFailure(c)]
      /\ up' = up /\ cancels' = cancels /\ Observe
  BY <1>1 DEF OpenCircuit, IInv
<1>3. x \in Endpoint
  BY <1>1, <1>2 DEF TypeOK
<1>4. TypeOK'
  <2>1. call' \in [Caller -> CallType]
    BY <1>2, CallsTyped, AfterFailureType
  <2>2. steady' \in [Caller -> SUBSET Endpoint]
    BY <1>2, SteadyTyped
  <2>3. stale' \in [Endpoint -> 0..MaxStale]
    <3>1. timer[x] = "expired" => stale[x] < MaxStale
      BY <1>3 DEF IInv, TimerInv
    <3>2. stale \in [Endpoint -> 0..MaxStale] /\ MaxStale \in Nat
      BY <1>2, BalancerConstants DEF TypeOK
    <3>3. (IF timer[x] = "expired" THEN stale[x] + 1 ELSE stale[x]) \in 0..MaxStale
      BY <1>3, <3>1, <3>2
    <3>4. QED
      BY <1>2, <1>3, <3>2, <3>3
  <2>4. QED
    BY <1>2, <1>3, <2>1, <2>2, <2>3 DEF TypeOK, CallType
<1>5. TimerInv'
  BY <1>2, <1>3 DEF IInv, TypeOK, TimerInv
<1>6. ~ InRotation(x)'
  BY <1>2, <1>3 DEF TypeOK, InRotation
<1>7. \A d \in Caller : CallInv(d)'
  BY <1>1, <1>2, <1>6, FailureKeeps
<1>8. QED
  BY <1>4, <1>5, <1>7 DEF IInv

LEMMA TimerExpiresStep == ASSUME IInv, NEW x \in Endpoint, TimerExpires(x) PROVE IInv'
<1>1. TypeOK' /\ TimerInv'
  BY DEF TimerExpires, IInv, TypeOK, TimerInv
<1>2. ASSUME NEW d \in Caller
      PROVE  CallInv(d)'
  BY SteadyMeans, OthersKeep DEF TimerExpires, IInv
<1>3. QED
  BY <1>1, <1>2 DEF IInv

LEMMA CircuitClosesStep == ASSUME IInv, NEW x \in Endpoint, CircuitCloses(x) PROVE IInv'
<1>1. TypeOK'
  <2>1. steady' \in [Caller -> SUBSET Endpoint]
    BY SteadyTyped DEF CircuitCloses, IInv
  <2>2. QED
    BY <2>1 DEF CircuitCloses, MarkHealthy, IInv, TypeOK
<1>2. TimerInv'
  BY DEF CircuitCloses, MarkHealthy, IInv, TypeOK, TimerInv
<1>3. ASSUME NEW d \in Caller
      PROVE  CallInv(d)'
  BY ObserveMeans, OthersKeep DEF CircuitCloses, IInv
<1>4. QED
  BY <1>1, <1>2, <1>3 DEF IInv

LEMMA StaleCallbackStep == ASSUME IInv, NEW x \in Endpoint, StaleCallback(x) PROVE IInv'
<1>1. /\ TypeOK /\ stale' = [stale EXCEPT ![x] = @ - 1] /\ stale[x] > 0
      /\ stale \in [Endpoint -> 0..MaxStale] /\ MaxStale \in Nat
  BY BalancerConstants DEF StaleCallback, IInv, TypeOK
<1>2. /\ stale' \in [Endpoint -> 0..MaxStale]
      /\ \A e \in Endpoint : stale'[e] <= stale[e] /\ stale'[e] \in Int /\ stale[e] \in Int
  BY <1>1
<1>3. TypeOK'
  <2>1. steady' \in [Caller -> SUBSET Endpoint]
    BY SteadyTyped DEF StaleCallback, IInv
  <2>2. QED
    BY <1>2, <2>1 DEF StaleCallback, MarkHealthy, IInv, TypeOK
<1>4. TimerInv'
  BY <1>1, <1>2 DEF StaleCallback, MarkHealthy, IInv, TypeOK, TimerInv
<1>5. ASSUME NEW d \in Caller
      PROVE  CallInv(d)'
  BY ObserveMeans, OthersKeep DEF StaleCallback, IInv
<1>6. QED
  BY <1>3, <1>4, <1>5 DEF IInv

LEMMA StutterStep == ASSUME IInv, UNCHANGED vars PROVE IInv'
<1>1. TypeOK' /\ TimerInv'
  BY DEF vars, clientVars, IInv, TypeOK, TimerInv
<1>2. ASSUME NEW d \in Caller
      PROVE  CallInv(d)'
  BY SteadyMeans, OthersKeep DEF vars, clientVars, IInv
<1>3. QED
  BY <1>1, <1>2 DEF IInv

LEMMA StepPreserves == IInv /\ [Next]_vars => IInv'
<1> SUFFICES ASSUME IInv, [Next]_vars
             PROVE  IInv'
  OBVIOUS
<1>1. ASSUME NEW c \in Caller, Call(c, "execute") \/ Call(c, "health") \/ Cancel(c) \/ Proceed(c)
      PROVE  IInv'
  BY <1>1, CallStep, CancelStep, DirectStep, PickStep, RequestStep, PraiseStep, BlameStep,
    OpenCircuitStep DEF Proceed
<1>2. ASSUME NEW e \in Endpoint,
             Flip(e) \/ TimerExpires(e) \/ CircuitCloses(e) \/ StaleCallback(e)
      PROVE  IInv'
  BY <1>2, FlipStep, TimerExpiresStep, CircuitClosesStep, StaleCallbackStep
<1>3. QED
  BY <1>1, <1>2, StutterStep DEF Next

LEMMA Invariance == Spec => []IInv
<1>1. QED
  BY InitHolds, StepPreserves, PTL DEF Spec

-----------------------------------------------------------------------------
(* What follows.                                                           *)

\* Every variable of the client keeps its type: openCircuit, which counts the callback of a
\* timer that it stops too late, stays within the bound that TimerExpires keeps.
\* (http_client.go:96-110)
THEOREM TypeCorrect == Spec => []TypeOK
<1>1. IInv => TypeOK
  BY DEF IInv
<1>2. QED
  BY <1>1, Invariance, PTL

\* A circuit that is open has a timer that will close it, whichever callers and callbacks
\* come between. (http_client.go:96-110)
THEOREM TimersHold == Spec => []OpenCircuitsHaveTimers
<1>1. IInv => OpenCircuitsHaveTimers
  BY DEF IInv, TimerInv, OpenCircuitsHaveTimers
<1>2. QED
  BY <1>1, Invariance, PTL

\* Failover, for any number of endpoints that is not above the number of attempts, and any
\* number of callers: each failed attempt of a call has cost another endpoint.
\* (http_client.go:60-79, 112-156)
THEOREM FailoverHolds == Spec => []FailoverFindsLive
<1>1. IInv => FailoverFindsLive
  <2> SUFFICES ASSUME IInv, Len(endpoints) <= RetryAttempts, NEW c \in Caller,
                      call[c].pc \in {"blame", "open"}, call[c].tries + 1 = RetryAttempts,
                      steady[c] # {}
               PROVE  FALSE
    BY DEF FailoverFindsLive
  <2>1. TypeOK
    BY DEF IInv
  <2>2. PICK F : Record(c, F)
    BY DEF IInv, CallInv
  <2>3. PICK e \in steady[c] : InRotation(e) /\ e \in InUse(endpoints)
    BY DEF IInv, CallInv
  <2> DEFINE G == F \cup {call[c].ep}
  <2>4. /\ call[c].ep \in InUse(endpoints) \ F /\ F \in SUBSET InUse(endpoints)
        /\ Cardinality(F) = call[c].tries /\ e \notin F /\ e # call[c].ep
    BY <2>2, <2>3 DEF Record
  <2>5. Cardinality(G) = RetryAttempts /\ G \in SUBSET InUse(endpoints)
    BY <2>1, <2>4, OneMoreFailure
  <2>6. e \notin G
    BY <2>4
  <2> HIDE DEF G
  <2>7. Cardinality(G) >= Len(endpoints)
    BY <2>5, <2>1, EndpointsType, BalancerConstants
  <2>8. G = InUse(endpoints)
    BY <2>1, <2>5, <2>7, NoneLeft
  <2>9. QED
    BY <2>3, <2>6, <2>8
<1>2. QED
  BY <1>1, Invariance, PTL
=============================================================================
