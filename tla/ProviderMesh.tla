----------------------------- MODULE ProviderMesh -----------------------------
(***************************************************************************)
(* The mesh of model endpoints (packages/runtime/src/llm/provider-mesh):   *)
(* calls that overlap, their retries and failover, the circuit of every    *)
(* endpoint and the health checks beside them.                             *)
(*                                                                         *)
(* What follows an await is one step: the outcome of an attempt is         *)
(* recorded, and the next attempt begun, without a pause.  Time is what    *)
(* has passed since an attempt began or a circuit opened.                  *)
(***************************************************************************)
EXTENDS Naturals, Sequences

CONSTANTS
  Endpoints,
  Order,       \* the endpoints as they are declared
  Pingable,    \* those of them with a healthCheckUrl
  Rank,        \* the priority of each, or its cost
  Strategies,  \* the routing strategies to look at
  Calls,       \* bound: the calls at one time
  Retries,     \* maxRetriesPerEndpoint
  Threshold,   \* cbFailureThreshold
  Cooldown,    \* cbCooldownMs, in ticks
  Nowhere      \* no endpoint

ASSUME PolicyAssumption ==
  Retries \in Nat \ {0} /\ Threshold \in Nat \ {0} /\ Cooldown \in Nat
ASSUME StrategyAssumption ==
  Strategies \subseteq {"failover", "cost-first", "weighted", "latency-first"}
ASSUME NowhereAssumption == Nowhere \notin Endpoints
ASSUME OrderAssumption ==
  /\ Order \in Seq(Endpoints) /\ Pingable \in Seq(Endpoints)
  /\ \A e \in Endpoints : Rank[e] \in Nat /\ \E i \in 1 .. Len(Order) : Order[i] = e

VARIABLES
  strategy,   \* the strategy of this mesh
  sound,      \* environment: the endpoints that answer whatever they are sent
  circuit,
  fails,      \* consecutiveFailures, counted up to Threshold
  openFor,    \* how long ago openedAt of an open circuit is, up to Cooldown
  measured,   \* the endpoints with latencies
  stage,      \* how far each call is
  at,         \* the endpoint it is trying
  attempt,    \* the how-many-eth attempt there
  age,        \* how long ago that began, up to Cooldown
  tried,
  timer,      \* is the interval set
  unchecked,  \* what is left of the iterator over the endpoints
  pinging,    \* the endpoints that a pass awaits
  late        \* history: the attempts of each call at each endpoint since it opened

circuitVars == <<circuit, fails, openFor, measured>>
callVars == <<stage, at, attempt, age, tried>>
healthVars == <<timer, unchecked, pinging>>
vars == <<strategy, sound, circuitVars, callVars, healthVars, late>>

Min2(m, n) == IF m < n THEN m ELSE n

Declared(e) == CHOOSE i \in 1 .. Len(Order) : Order[i] = e

First(C) == {e \in C : \A d \in C : Declared(e) <= Declared(d)}

Lowest(C) == First({e \in C : \A d \in C : Rank[e] <= Rank[d]})

\* pickByStrategy.  Weights leave every candidate a chance, latencies every one that
\* has been measured.
Picks(C) ==
  CASE strategy \in {"failover", "cost-first"} -> Lowest(C)
    [] strategy = "weighted" -> C
    [] strategy = "latency-first" -> IF C \cap measured = {} THEN First(C) ELSE C \cap measured

\* isAvailable, of every endpoint: it lets those in whose cooldown is over.
Looked(circ, since) ==
  [e \in Endpoints |-> IF circ[e] = "open" /\ since[e] >= Cooldown THEN "half-open" ELSE circ[e]]

\* Mutant: a circuit is no obstacle.
AvailableAlways(circ) == Endpoints

Available(circ) == {e \in Endpoints : circ[e] # "open"}

\* Mutant: an endpoint is not remembered as tried.
ForgetTried(c, done, e) == tried' = [tried EXCEPT ![c] = done]

Remember(c, done, e) == tried' = [tried EXCEPT ![c] = done \cup {e}]

\* Of the attempts counted those at open circuits, with one more of the call at e.
Counted(c, e, circ, counts) ==
  [d \in Endpoints |-> [x \in Calls |->
    CASE circ[d] # "open"   -> 0
      [] d = e /\ x = c     -> Min2(counts[d][x] + 1, Retries)
      [] OTHER              -> counts[d][x]]]

\* An attempt of the call at e begins.
Begins(c, e, n, circ, counts) ==
  /\ at' = [at EXCEPT ![c] = e]
  /\ attempt' = [attempt EXCEPT ![c] = n]
  /\ age' = [age EXCEPT ![c] = 0]
  /\ late' = Counted(c, e, circ, counts)

Ends(c, st) ==
  /\ stage' = [stage EXCEPT ![c] = st]
  /\ at' = [at EXCEPT ![c] = Nowhere]
  /\ attempt' = [attempt EXCEPT ![c] = 0]
  /\ age' = [age EXCEPT ![c] = 0]
  /\ tried' = [tried EXCEPT ![c] = {}]

\* The head of call's loop, with the circuits as they are by now.
GoesOn(c, done, circ, since, counts) ==
  LET looked     == Looked(circ, since)
      candidates == Available(looked) \ done
  IN  IF done = Endpoints
      THEN Ends(c, "failed") /\ circuit' = circ /\ late' = counts
      ELSE /\ circuit' = looked
           /\ \/ candidates = {} /\ Ends(c, "failed") /\ late' = counts
              \/ \E e \in Picks(candidates) :
                   /\ stage' = [stage EXCEPT ![c] = "calling"]
                   /\ Remember(c, done, e)
                   /\ Begins(c, e, 1, looked, counts)
-----------------------------------------------------------------------------
\* buildMesh, which starts the health checks.
Init ==
  /\ strategy \in Strategies
  /\ sound \in SUBSET Endpoints
  /\ circuit = [e \in Endpoints |-> "closed"]
  /\ fails = [e \in Endpoints |-> 0]
  /\ openFor = [e \in Endpoints |-> 0]
  /\ measured = {}
  /\ stage = [c \in Calls |-> "idle"]
  /\ at = [c \in Calls |-> Nowhere]
  /\ attempt = [c \in Calls |-> 0]
  /\ age = [c \in Calls |-> 0]
  /\ tried = [c \in Calls |-> {}]
  /\ timer = TRUE
  /\ unchecked = Pingable
  /\ pinging = {}
  /\ late = [e \in Endpoints |-> [c \in Calls |-> 0]]

Call(c) ==
  /\ stage[c] # "calling"
  /\ GoesOn(c, {}, circuit, openFor, late)
  /\ UNCHANGED <<strategy, sound, fails, openFor, measured, healthVars>>

\* recordSuccess.
Succeeds(c) ==
  /\ stage[c] = "calling"
  /\ fails' = [fails EXCEPT ![at[c]] = 0]
  /\ measured' = measured \cup {at[c]}
  /\ circuit' = [circuit EXCEPT ![at[c]] = "closed"]
  /\ Ends(c, "idle")
  /\ UNCHANGED <<strategy, sound, openFor, healthVars, late>>

\* recordFailure: does one more failure at e open its circuit?
Trips(e) == circuit[e] = "closed" /\ fails[e] + 1 >= Threshold

TriesAgain(c) == attempt[c] < Retries

\* recordFailure, with the start of the attempt for openedAt; the endpoint is tried
\* again whatever its circuit, and after the last retry another one is picked.
Fails(c) ==
  /\ stage[c] = "calling"
  /\ at[c] \notin sound
  /\ fails' = [fails EXCEPT ![at[c]] = Min2(@ + 1, Threshold)]
  /\ LET e      == at[c]
         circ   == IF Trips(e) THEN [circuit EXCEPT ![e] = "open"] ELSE circuit
         counts == IF Trips(e) THEN [late EXCEPT ![e] = [d \in Calls |-> 0]] ELSE late
     IN  /\ openFor' = IF Trips(e) THEN [openFor EXCEPT ![e] = age[c]] ELSE openFor
         /\ \/ /\ TriesAgain(c)
               /\ Begins(c, e, attempt[c] + 1, circ, counts)
               /\ circuit' = circ
               /\ UNCHANGED <<stage, tried>>
            \/ /\ ~TriesAgain(c)
               /\ GoesOn(c, tried[c], circ, openFor', counts)
  /\ UNCHANGED <<strategy, sound, measured, healthVars>>

\* A pass takes the next endpoint of the iterator, which all passes share.
TakesNext(waiting) ==
  IF unchecked = <<>>
  THEN pinging' = waiting /\ UNCHANGED unchecked
  ELSE pinging' = waiting \cup {Head(unchecked)} /\ unchecked' = Tail(unchecked)

\* The interval fires: a pass begins, whether the one before has ended or not.
Interval ==
  /\ timer
  /\ TakesNext(pinging)
  /\ UNCHANGED <<strategy, sound, circuitVars, callVars, timer, late>>

\* The endpoint answers: an open circuit is half-open before its time.
Pong(e) ==
  /\ e \in pinging
  /\ circuit' = [circuit EXCEPT ![e] = IF @ = "open" THEN "half-open" ELSE @]
  /\ TakesNext(pinging \ {e})
  /\ UNCHANGED <<strategy, sound, fails, openFor, measured, callVars, timer, late>>

\* It does not: that is counted, and opens nothing.
NoPong(e) ==
  /\ e \in pinging
  /\ fails' = [fails EXCEPT ![e] = IF circuit[e] = "closed" THEN Min2(@ + 1, Threshold) ELSE @]
  /\ TakesNext(pinging \ {e})
  /\ UNCHANGED <<strategy, sound, circuit, openFor, measured, callVars, timer, late>>

StartHealthChecks ==
  /\ timer' = TRUE
  /\ UNCHANGED <<strategy, sound, circuitVars, callVars, unchecked, pinging, late>>

StopHealthChecks ==
  /\ timer' = FALSE
  /\ UNCHANGED <<strategy, sound, circuitVars, callVars, unchecked, pinging, late>>

Tick ==
  /\ openFor' = [e \in Endpoints |->
                  IF circuit[e] = "open" THEN Min2(openFor[e] + 1, Cooldown) ELSE 0]
  /\ age' = [c \in Calls |-> IF stage[c] = "calling" THEN Min2(age[c] + 1, Cooldown) ELSE 0]
  /\ UNCHANGED <<strategy, sound, circuit, fails, measured, stage, at, attempt, tried>>
  /\ UNCHANGED <<healthVars, late>>

Next ==
  \/ \E c \in Calls : Call(c) \/ Succeeds(c) \/ Fails(c)
  \/ \E e \in Endpoints : Pong(e) \/ NoPong(e)
  \/ Interval \/ StartHealthChecks \/ StopHealthChecks \/ Tick

Spec == Init /\ [][Next]_vars

\* Every attempt has an outcome, as every request of the HTTP client has.
FairSpec == Spec /\ \A c \in Calls : WF_vars(Succeeds(c) \/ Fails(c))
-----------------------------------------------------------------------------
\* Every variable has its type.
TypeOK ==
  /\ strategy \in Strategies
  /\ sound \in SUBSET Endpoints
  /\ circuit \in [Endpoints -> {"closed", "open", "half-open"}]
  /\ fails \in [Endpoints -> 0 .. Threshold]
  /\ openFor \in [Endpoints -> 0 .. Cooldown]
  /\ measured \in SUBSET Endpoints
  /\ stage \in [Calls -> {"idle", "calling", "failed"}]
  /\ at \in [Calls -> Endpoints \cup {Nowhere}]
  /\ attempt \in [Calls -> 0 .. Retries]
  /\ age \in [Calls -> 0 .. Cooldown]
  /\ tried \in [Calls -> SUBSET Endpoints]
  /\ timer \in BOOLEAN
  /\ unchecked \in Seq(Endpoints)
  /\ pinging \in SUBSET Endpoints
  /\ late \in [Endpoints -> [Calls -> 0 .. Retries]]

\* ProviderMesh.call gives up only if no endpoint would have answered: an endpoint that
\* answers everything is offered to every call, whatever other calls, their failures
\* and the health checks have done to the circuits.
SoundEndpointServes == \A c \in Calls : stage[c] = "failed" => sound = {}

\* An open circuit shields its endpoint: of the calls that were there when it opened
\* each makes at most its remaining retries, and no other call reaches it, for as long
\* as it stays open.
OpenShields ==
  \A e \in Endpoints, c \in Calls : circuit[e] = "open" => late[e][c] < Retries

\* A call ends, however circuits open and close under it.
CallEnds == \A c \in Calls : stage[c] = "calling" ~> stage[c] # "calling"
=============================================================================
