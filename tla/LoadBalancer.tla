---------------------------- MODULE LoadBalancer ----------------------------
(***************************************************************************)
(* LoadBalancedClient of internal/modules/http_client.go: several          *)
(* goroutines call one HTTP module that runs on several endpoints.         *)
(*                                                                         *)
(* Atomicity: one action per critical section of c.mu, and one for the     *)
(* answer of an HTTP request, which is sent without the lock.  Between any *)
(* two of them other callers, and the callbacks of circuit timers, may     *)
(* come.  Time is not modelled: an armed timer may expire at any moment.   *)
(***************************************************************************)
EXTENDS Integers, Sequences, FiniteSets

CONSTANTS
  Endpoint,       \* URLs
  EndpointLists,  \* the endpoint lists a client is made with
  Flaky,          \* those that may stop answering and come back
  Prober,         \* the callers that also check the module's health
  Caller,         \* goroutines that share the client
  RetryAttempts,  \* attempts of one call (3 in the code)
  MaxCancels,     \* bound on the contexts that are cancelled
  MaxStale        \* bound on callbacks of replaced timers that wait for the lock

ASSUME EndpointsAssumption ==
  \A list \in EndpointLists : list \in Seq(Endpoint) /\ list # <<>>
ASSUME BalancerConstants ==
  RetryAttempts \in Nat \ {0} /\ MaxCancels \in Nat /\ MaxStale \in Nat

VARIABLES
  endpoints,    \* c.endpoints
  current,      \* c.currentIndex, counted from 1
  healthy,      \* c.healthy
  circuitOpen,  \* c.circuitOpen
  timer,        \* c.circuitTimer: no entry, armed, expired (its callback is started), over
  stale,        \* callbacks of earlier timers that were started and not stopped
  up,           \* the endpoints that answer (the network, the module's processes)
  cancels,      \* contexts cancelled so far
  call,         \* per caller: what it is doing
  steady        \* history: endpoints up and in rotation since the call began; none once
                \* it is cancelled or another endpoint has come back into rotation

clientVars == <<current, healthy, circuitOpen, timer, stale>>
vars == <<endpoints, current, healthy, circuitOpen, timer, stale, up, cancels,
          call, steady>>

PC == {"idle", "direct", "pick", "request", "praise", "blame", "open"}
Idle == [pc |-> "idle", op |-> "execute", tries |-> 0, ep |-> endpoints[1], cancelled |-> FALSE]
Busy == {c \in Caller : call[c].pc # "idle"}

TypeOK ==
  /\ endpoints \in EndpointLists
  /\ current \in 1..Len(endpoints)
  /\ healthy \in [Endpoint -> BOOLEAN] /\ circuitOpen \in [Endpoint -> BOOLEAN]
  /\ timer \in [Endpoint -> {"none", "armed", "expired", "over"}]
  /\ stale \in [Endpoint -> 0..MaxStale]
  /\ up \in SUBSET Endpoint
  /\ cancels \in 0..MaxCancels
  /\ call \in [Caller -> [pc : PC, op : {"execute", "health"}, tries : 0..RetryAttempts,
                          ep : Endpoint, cancelled : BOOLEAN]]
  /\ steady \in [Caller -> SUBSET Endpoint]

Init ==
  /\ endpoints \in EndpointLists
  /\ current = 1
  /\ healthy = [e \in Endpoint |-> TRUE]
  /\ circuitOpen = [e \in Endpoint |-> FALSE]
  /\ timer = [e \in Endpoint |-> "none"]
  /\ stale = [e \in Endpoint |-> 0]
  /\ up = Endpoint
  /\ cancels = 0
  /\ call = [c \in Caller |-> Idle]
  /\ steady = [c \in Caller |-> {}]

\* Mutant: an endpoint is out of rotation only when both maps say so.
BugInRotation(e) == healthy[e] \/ ~ circuitOpen[e]

InRotation(e) == healthy[e] /\ ~ circuitOpen[e]

\* The history variable after a step that may have changed the rotation or `up'.
Observe ==
  steady' = [c \in Caller |->
    IF c \in Busy' /\ \A e \in Endpoint : InRotation(e)' => InRotation(e)
    THEN {e \in steady[c] : InRotation(e)' /\ e \in up'} ELSE {}]

-----------------------------------------------------------------------------
(* The environment.                                                        *)

Flip(e) ==
  /\ e \in Flaky
  /\ up' = IF e \in up THEN up \ {e} ELSE up \cup {e}
  /\ UNCHANGED <<endpoints, clientVars, cancels, call>>
  /\ Observe

\* The context of a call is cancelled, or its deadline passes.
Cancel(c) ==
  /\ c \in Busy
  /\ ~ call[c].cancelled
  /\ cancels < MaxCancels
  /\ cancels' = cancels + 1
  /\ call' = [call EXCEPT ![c].cancelled = TRUE]
  /\ steady' = [steady EXCEPT ![c] = {}]
  /\ UNCHANGED <<endpoints, clientVars, up>>

-----------------------------------------------------------------------------
(* A call: Execute and Metadata are the same but for the request.          *)

\* With a single endpoint the request is sent past all the bookkeeping, and whether it is
\* answered changes nothing.
Call(c, op) ==
  /\ c \notin Busy
  /\ call' = [call EXCEPT ![c] =
       [Idle EXCEPT !.pc = IF Len(endpoints) = 1 THEN "direct" ELSE "pick", !.op = op]]
  /\ steady' = [steady EXCEPT ![c] =
       {e \in up : InRotation(e) /\ \E i \in DOMAIN endpoints : endpoints[i] = e}]
  /\ UNCHANGED <<endpoints, clientVars, up, cancels>>

Answered(c) == call[c].ep \in up /\ ~ call[c].cancelled

Direct(c) ==
  /\ call[c].pc = "direct"
  /\ call' = [call EXCEPT ![c] = Idle]
  /\ UNCHANGED <<endpoints, clientVars, up, cancels>>
  /\ Observe

\* The position that is k places on in the list, round and round.
After(i, k) == ((i - 1 + k) % Len(endpoints)) + 1

\* Mutant: the index is not moved on.
BugPick(c) ==
  /\ call[c].pc = "pick"
  /\ LET ahead == {k \in 0..(Len(endpoints) - 1) : InRotation(endpoints[After(current, k)])}
         k == IF ahead = {} THEN 0 ELSE CHOOSE i \in ahead : \A j \in ahead : i <= j
     IN call' = [call EXCEPT ![c].pc = "request", ![c].ep = endpoints[After(current, k)]]
  /\ UNCHANGED <<endpoints, clientVars, up, cancels, steady>>

\* getNextEndpoint: the next endpoint in rotation; when there is none the first of the
\* list, and the index is back where it was.
Pick(c) ==
  /\ call[c].pc = "pick"
  /\ LET ahead == {k \in 0..(Len(endpoints) - 1) : InRotation(endpoints[After(current, k)])} IN
     \/ /\ ahead = {}
        /\ call' = [call EXCEPT ![c].pc = "request", ![c].ep = endpoints[1]]
        /\ UNCHANGED current
     \/ \E k \in ahead :
          /\ \A j \in ahead : k <= j
          /\ call' = [call EXCEPT ![c].pc = "request", ![c].ep = endpoints[After(current, k)]]
          /\ current' = After(current, k + 1)
  /\ UNCHANGED <<endpoints, healthy, circuitOpen, timer, stale, up, cancels, steady>>

\* The HTTP request is answered with 200 and JSON, or it is not.
Request(c) ==
  /\ call[c].pc = "request"
  /\ call' = [call EXCEPT ![c].pc = IF Answered(c) THEN "praise" ELSE "blame"]
  /\ UNCHANGED <<endpoints, clientVars, up, cancels, steady>>

\* markHealthy.  A timer that is armed stays armed.
MarkHealthy(e) ==
  /\ healthy' = [healthy EXCEPT ![e] = TRUE]
  /\ circuitOpen' = [circuitOpen EXCEPT ![e] = FALSE]

Praise(c) ==
  /\ call[c].pc = "praise"
  /\ MarkHealthy(call[c].ep)
  /\ call' = [call EXCEPT ![c] = Idle]
  /\ UNCHANGED <<endpoints, current, timer, stale, up, cancels>>
  /\ Observe

\* Where a failed attempt leads to: the next one, or the end of the call with an error.
AfterFailure(c) ==
  IF call[c].tries + 1 < RetryAttempts
  THEN [call[c] EXCEPT !.pc = "pick", !.tries = @ + 1, !.ep = endpoints[1]]
  ELSE Idle

\* markUnhealthy; Health leaves it at that.
Blame(c) ==
  /\ call[c].pc = "blame"
  /\ healthy' = [healthy EXCEPT ![call[c].ep] = FALSE]
  /\ call' = [call EXCEPT ![c] = IF @.op = "health" THEN AfterFailure(c) ELSE [@ EXCEPT !.pc = "open"]]
  /\ UNCHANGED <<endpoints, current, circuitOpen, timer, stale, up, cancels>>
  /\ Observe

\* Mutant: a second failure stops the timer and does not arm a new one.
BugOpenCircuit(c) ==
  /\ call[c].pc = "open"
  /\ LET e == call[c].ep IN
     /\ circuitOpen' = [circuitOpen EXCEPT ![e] = TRUE]
     /\ timer' = [timer EXCEPT ![e] = IF @ = "none" THEN "armed" ELSE "over"]
  /\ call' = [call EXCEPT ![c] = AfterFailure(c)]
  /\ UNCHANGED <<endpoints, current, healthy, stale, up, cancels>>
  /\ Observe

\* Mutant: the old timer is not stopped, its callback will run as well.
BugKeepTimer(c) ==
  /\ call[c].pc = "open"
  /\ LET e == call[c].ep IN
     /\ circuitOpen' = [circuitOpen EXCEPT ![e] = TRUE]
     /\ stale' = [stale EXCEPT ![e] = IF timer[e] \in {"armed", "expired"} THEN @ + 1 ELSE @]
     /\ timer' = [timer EXCEPT ![e] = "armed"]
  /\ call' = [call EXCEPT ![c] = AfterFailure(c)]
  /\ UNCHANGED <<endpoints, current, healthy, up, cancels>>
  /\ Observe

\* openCircuit.  Stop comes too late for a timer whose callback is already started.
OpenCircuit(c) ==
  /\ call[c].pc = "open"
  /\ LET e == call[c].ep IN
     /\ circuitOpen' = [circuitOpen EXCEPT ![e] = TRUE]
     /\ stale' = [stale EXCEPT ![e] = IF timer[e] = "expired" THEN @ + 1 ELSE @]
     /\ timer' = [timer EXCEPT ![e] = "armed"]
  /\ call' = [call EXCEPT ![c] = AfterFailure(c)]
  /\ UNCHANGED <<endpoints, current, healthy, up, cancels>>
  /\ Observe

-----------------------------------------------------------------------------
(* The timers.                                                             *)

\* Thirty seconds are over: the callback's goroutine is started.
TimerExpires(e) ==
  /\ timer[e] = "armed"
  /\ stale[e] < MaxStale
  /\ timer' = [timer EXCEPT ![e] = "expired"]
  /\ UNCHANGED <<endpoints, current, healthy, circuitOpen, stale, up, cancels, call, steady>>

\* The callback gets the lock.
CircuitCloses(e) ==
  /\ timer[e] = "expired"
  /\ timer' = [timer EXCEPT ![e] = "over"]
  /\ MarkHealthy(e)
  /\ UNCHANGED <<endpoints, current, stale, up, cancels, call>>
  /\ Observe

\* The callback of a timer that openCircuit has replaced gets the lock.
StaleCallback(e) ==
  /\ stale[e] > 0
  /\ stale' = [stale EXCEPT ![e] = @ - 1]
  /\ MarkHealthy(e)
  /\ UNCHANGED <<endpoints, current, timer, up, cancels, call>>
  /\ Observe

-----------------------------------------------------------------------------
Proceed(c) ==
  Direct(c) \/ Pick(c) \/ Request(c) \/ Praise(c) \/ Blame(c) \/ OpenCircuit(c)

Next ==
  \/ \E c \in Caller :
       \/ Call(c, "execute")
       \/ c \in Prober /\ Call(c, "health")
       \/ Cancel(c) \/ Proceed(c)
  \/ \E e \in Endpoint :
       Flip(e) \/ TimerExpires(e) \/ CircuitCloses(e) \/ StaleCallback(e)

\* Goroutines are scheduled, requests are answered or time out, timers expire and their
\* callbacks get the lock.  Nobody has to call, and no endpoint has to come back.
Fairness ==
  /\ \A c \in Caller : WF_vars(Proceed(c))
  /\ \A e \in Endpoint :
       WF_vars(TimerExpires(e)) /\ WF_vars(CircuitCloses(e)) /\ WF_vars(StaleCallback(e))

Spec == Init /\ [][Next]_vars /\ Fairness
-----------------------------------------------------------------------------
\* Failover: with no more endpoints than attempts, the last attempt of a call does not
\* fail as long as one endpoint answers and stays in rotation, whatever the other
\* callers do; only an endpoint that comes back into rotation can use up two attempts.
FailoverFindsLive ==
  Len(endpoints) <= RetryAttempts =>
    \A c \in Caller :
      call[c].pc \in {"blame", "open"} /\ call[c].tries + 1 = RetryAttempts
        => steady[c] = {}

\* "Auto-close circuit after 30 seconds": an open circuit always has a timer of its own
\* that is armed, or whose callback is on its way to the lock.
OpenCircuitsHaveTimers ==
  \A e \in Endpoint : circuitOpen[e] => timer[e] \in {"armed", "expired"}

\* Health marks an endpoint unhealthy without opening its circuit.  Such an endpoint is
\* out of rotation and nothing is under way that would bring it back.
Benched(e) ==
  /\ ~ healthy[e]
  /\ timer[e] \notin {"armed", "expired"} /\ stale[e] = 0
  /\ \A c \in Caller : call[c].pc \in {"praise", "open"} => call[c].ep # e

\* The client recovers: as soon as an endpoint answers for good, and unless Health has
\* benched it, requests do not fail for ever without others succeeding.
Recovers ==
  \A e \in Endpoint :
    <>[](e \in up /\ ~ Benched(e))
      => ([]<>(\E c \in Caller : call[c].pc = "blame")
            => []<>(\E c \in Caller : call[c].pc = "praise"))
=============================================================================
