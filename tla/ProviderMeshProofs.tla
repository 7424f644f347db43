-------------------------- MODULE ProviderMeshProofs --------------------------
(***************************************************************************)
(* Theorems about ProviderMesh, for any endpoints, calls and policy: what  *)
(* the failures of one call may do to another, and to an endpoint.         *)
(***************************************************************************)
EXTENDS ProviderMesh, TLAPS

\* A call under way is at an endpoint, in one of its attempts there.
PlaceInv ==
  \A c \in Calls : stage[c] = "calling" =>
    at[c] \in Endpoints /\ attempt[c] \in 1 .. Retries

\* An endpoint that answers everything keeps its circuit closed, and a call that has
\* come to it is still there.
SoundInv ==
  \A e \in sound :
    /\ circuit[e] = "closed"
    /\ \A c \in Calls : e \in tried[c] => stage[c] = "calling" /\ at[c] = e

\* The retries a call has left at an endpoint.
Left(e, c) == IF stage[c] = "calling" /\ at[c] = e THEN Retries - attempt[c] ELSE 0

\* While a circuit is open, what a call has tried there and may still try there is less
\* than what it may try at a closed one.
ShieldInv ==
  \A e \in Endpoints, c \in Calls :
    circuit[e] = "open" => late[e][c] + Left(e, c) < Retries

IInv == TypeOK /\ PlaceInv /\ SoundInv /\ SoundEndpointServes /\ ShieldInv

LEMMA Numbers ==
  /\ Retries \in Nat /\ Retries > 0 /\ Threshold \in Nat /\ Threshold > 0 /\ Cooldown \in Nat
  /\ Pingable \in Seq(Endpoints)
BY PolicyAssumption, OrderAssumption

\* A counter that saturates stays in its range.
LEMMA MinLemma ==
  ASSUME NEW m \in Nat, NEW n \in 0 .. m
  PROVE  /\ Min2(n + 1, m) \in 0 .. m
         /\ Min2(n + 1, m) <= n + 1
BY DEF Min2

\* A strategy picks one of the candidates.
LEMMA PicksLemma ==
  ASSUME TypeOK, NEW C \in SUBSET Endpoints
  PROVE  Picks(C) \subseteq C
<1>1. strategy \in {"failover", "cost-first", "weighted", "latency-first"}
  BY StrategyAssumption DEF TypeOK
<1>2. First(C) \subseteq C /\ Lowest(C) \subseteq C
  BY DEF First, Lowest
<1>3. QED
  BY <1>1, <1>2 DEF Picks

\* Looking at the circuits opens none.
LEMMA LookedLemma ==
  ASSUME NEW circ \in [Endpoints -> {"closed", "open", "half-open"}], NEW since
  PROVE  /\ Looked(circ, since) \in [Endpoints -> {"closed", "open", "half-open"}]
         /\ \A e \in Endpoints :
              /\ Looked(circ, since)[e] = "open" => circ[e] = "open"
              /\ circ[e] = "closed" => Looked(circ, since)[e] = "closed"
BY DEF Looked

\* What is counted of the attempts.
LEMMA CountedLemma ==
  ASSUME NEW c \in Calls, NEW e \in Endpoints, NEW circ,
         NEW counts \in [Endpoints -> [Calls -> 0 .. Retries]]
  PROVE  /\ Counted(c, e, circ, counts) \in [Endpoints -> [Calls -> 0 .. Retries]]
         /\ \A d \in Endpoints, x \in Calls :
              circ[d] = "open" =>
                /\ (d # e \/ x # c) => Counted(c, e, circ, counts)[d][x] = counts[d][x]
                /\ Counted(c, e, circ, counts)[d][x] <= counts[d][x] + 1
<1>1. \A d \in Endpoints, x \in Calls :
        /\ counts[d][x] \in 0 .. Retries
        /\ Min2(counts[d][x] + 1, Retries) \in 0 .. Retries
        /\ Min2(counts[d][x] + 1, Retries) <= counts[d][x] + 1
  BY MinLemma, Numbers
<1> DEFINE Value(d, x) ==
      CASE circ[d] # "open"   -> 0
        [] d = e /\ x = c     -> Min2(counts[d][x] + 1, Retries)
        [] OTHER              -> counts[d][x]
<1>2. Counted(c, e, circ, counts) = [d \in Endpoints |-> [x \in Calls |-> Value(d, x)]]
  BY DEF Counted
<1>3. \A d \in Endpoints, x \in Calls :
        /\ Value(d, x) \in 0 .. Retries
        /\ circ[d] = "open" =>
             /\ (d # e \/ x # c) => Value(d, x) = counts[d][x]
             /\ Value(d, x) <= counts[d][x] + 1
  BY <1>1, Numbers
<1> HIDE DEF Value
<1>4. QED
  BY <1>2, <1>3

\* The circuits and counters a call finds when it goes on are those of the state, but
\* for the endpoint it may just have tripped.
Found(c, circ, counts) ==
  /\ circ \in [Endpoints -> {"closed", "open", "half-open"}]
  /\ counts \in [Endpoints -> [Calls -> 0 .. Retries]]
  /\ \A e \in sound : circ[e] = "closed"
  /\ \A e \in Endpoints, x \in Calls :
       circ[e] = "open" => counts[e][x] + Left(e, x) < Retries

\* What is known of the variables of calls after a call has ended.
LEMMA EndsLemma ==
  ASSUME IInv, NEW c \in Calls, NEW st \in {"idle", "failed"}, Ends(c, st)
  PROVE  /\ stage' \in [Calls -> {"idle", "calling", "failed"}]
         /\ at' \in [Calls -> Endpoints \cup {Nowhere}]
         /\ attempt' \in [Calls -> 0 .. Retries]
         /\ age' \in [Calls -> 0 .. Cooldown]
         /\ tried' \in [Calls -> SUBSET Endpoints]
         /\ stage'[c] = st /\ tried'[c] = {}
         /\ \A x \in Calls \ {c} :
              stage'[x] = stage[x] /\ at'[x] = at[x] /\ attempt'[x] = attempt[x]
              /\ tried'[x] = tried[x]
BY Numbers DEF IInv, TypeOK, Ends

\* A call that ends leaves the invariant to hold, if it fails only in vain.
LEMMA EndsInv ==
  ASSUME IInv, NEW c \in Calls, NEW st \in {"idle", "failed"}, Ends(c, st),
         st = "failed" => sound = {},
         Found(c, circuit', late'),
         fails' \in [Endpoints -> 0 .. Threshold], openFor' \in [Endpoints -> 0 .. Cooldown],
         measured' \in SUBSET Endpoints,
         UNCHANGED <<strategy, sound, healthVars>>
  PROVE  IInv'
<1>1. /\ stage' \in [Calls -> {"idle", "calling", "failed"}]
      /\ at' \in [Calls -> Endpoints \cup {Nowhere}]
      /\ attempt' \in [Calls -> 0 .. Retries]
      /\ age' \in [Calls -> 0 .. Cooldown]
      /\ tried' \in [Calls -> SUBSET Endpoints]
      /\ stage'[c] = st /\ tried'[c] = {}
      /\ \A x \in Calls \ {c} :
           stage'[x] = stage[x] /\ at'[x] = at[x] /\ attempt'[x] = attempt[x]
           /\ tried'[x] = tried[x]
  BY EndsLemma
<1>2. TypeOK'
  BY <1>1 DEF IInv, TypeOK, Found, healthVars
<1>3. PlaceInv'
  BY <1>1 DEF IInv, PlaceInv
<1>4. SoundInv'
  BY <1>1 DEF IInv, SoundInv, Found
<1>5. SoundEndpointServes'
  BY <1>1 DEF IInv, SoundEndpointServes
<1>6. ShieldInv'
  <2> SUFFICES ASSUME NEW e \in Endpoints, NEW x \in Calls, circuit'[e] = "open"
               PROVE  late'[e][x] + Left(e, x)' < Retries
    BY DEF ShieldInv
  <2>1. late'[e][x] + Left(e, x) < Retries /\ late'[e][x] \in Nat
    BY Numbers DEF Found
  <2>2. CASE x = c
    <3>1. Left(e, x)' = 0
      BY <1>1, <2>2 DEF Left
    <3>2. Left(e, x) \in Nat
      BY Numbers DEF Left, IInv, PlaceInv
    <3>3. QED
      BY <2>1, <3>1, <3>2, Numbers
  <2>3. CASE x # c
    <3>1. Left(e, x)' = Left(e, x)
      BY <1>1, <2>3 DEF Left
    <3>2. QED
      BY <2>1, <3>1
  <2>4. QED
    BY <2>2, <2>3
<1>7. QED
  BY <1>2, <1>3, <1>4, <1>5, <1>6 DEF IInv

\* A call that begins an attempt, its first at an endpoint that is not open or one more
\* where it is.
LEMMA BeginsInv ==
  ASSUME IInv, NEW c \in Calls, NEW e \in Endpoints, NEW n \in 1 .. Retries,
         NEW circ, NEW counts, Found(c, circ, counts),
         Begins(c, e, n, circ, counts),
         circuit' = circ,
         \/ circ[e] # "open"
         \/ stage[c] = "calling" /\ at[c] = e /\ n = attempt[c] + 1,
         stage' = [stage EXCEPT ![c] = "calling"],
         tried' \in [Calls -> SUBSET Endpoints],
         \A d \in sound \cap tried'[c] : d = e,
         \A x \in Calls \ {c} : tried'[x] = tried[x],
         fails' \in [Endpoints -> 0 .. Threshold], openFor' \in [Endpoints -> 0 .. Cooldown],
         measured' \in SUBSET Endpoints,
         UNCHANGED <<strategy, sound, healthVars>>
  PROVE  IInv'
<1>1. /\ stage' \in [Calls -> {"idle", "calling", "failed"}]
      /\ at' \in [Calls -> Endpoints \cup {Nowhere}]
      /\ attempt' \in [Calls -> 0 .. Retries]
      /\ age' \in [Calls -> 0 .. Cooldown]
      /\ stage'[c] = "calling" /\ at'[c] = e /\ attempt'[c] = n
      /\ \A x \in Calls \ {c} :
           stage'[x] = stage[x] /\ at'[x] = at[x] /\ attempt'[x] = attempt[x]
  BY Numbers DEF IInv, TypeOK, Begins
<1>2. late' = Counted(c, e, circ, counts)
  BY DEF Begins
<1>3. counts \in [Endpoints -> [Calls -> 0 .. Retries]]
  BY DEF Found
<1>4. /\ late' \in [Endpoints -> [Calls -> 0 .. Retries]]
      /\ \A d \in Endpoints, x \in Calls :
           circ[d] = "open" =>
             /\ (d # e \/ x # c) => late'[d][x] = counts[d][x]
             /\ late'[d][x] <= counts[d][x] + 1
  BY <1>2, <1>3, CountedLemma
<1>5. TypeOK'
  BY <1>1, <1>4 DEF IInv, TypeOK, Found, healthVars
<1>6. PlaceInv'
  BY <1>1 DEF IInv, PlaceInv
<1>7. SoundInv'
  BY <1>1 DEF IInv, SoundInv, Found
<1>8. SoundEndpointServes'
  BY <1>1 DEF IInv, SoundEndpointServes
<1>9. ShieldInv'
  <2> SUFFICES ASSUME NEW d \in Endpoints, NEW x \in Calls, circuit'[d] = "open"
               PROVE  late'[d][x] + Left(d, x)' < Retries
    BY DEF ShieldInv
  <2>1. /\ counts[d][x] + Left(d, x) < Retries
        /\ counts[d][x] \in Nat /\ late'[d][x] \in Nat
        /\ (d # e \/ x # c) => late'[d][x] = counts[d][x]
        /\ late'[d][x] <= counts[d][x] + 1
    BY <1>3, <1>4, Numbers DEF Found
  <2>2. CASE x # c
    <3>1. Left(d, x)' = Left(d, x)
      BY <1>1, <2>2 DEF Left
    <3>2. QED
      BY <2>1, <2>2, <3>1
  <2>3. CASE x = c /\ d # e
    <3>1. Left(d, x)' = 0
      BY <1>1, <2>3 DEF Left
    <3>2. Left(d, x) \in Nat
      BY Numbers DEF Left, IInv, PlaceInv
    <3>3. QED
      BY <2>1, <2>3, <3>1, <3>2, Numbers
  <2>4. CASE x = c /\ d = e
    <3>1. stage[c] = "calling" /\ at[c] = e /\ n = attempt[c] + 1
      BY <2>4
    <3>2. Left(d, x)' = Retries - n /\ Left(d, x) = Retries - attempt[c]
      BY <1>1, <2>4, <3>1 DEF Left
    <3>3. attempt[c] \in Nat /\ n \in Nat /\ n = attempt[c] + 1
      BY <3>1, Numbers DEF IInv, PlaceInv
    <3>4. counts[d][x] + (Retries - attempt[c]) < Retries
      BY <2>1, <3>2
    <3>5. late'[d][x] + (Retries - n) < Retries
      <4>1. late'[d][x] \in Nat /\ counts[d][x] \in Nat /\ late'[d][x] <= counts[d][x] + 1
        BY <2>1
      <4>2. \A i, j, a \in Nat : i <= j + 1 /\ j + (Retries - a) < Retries
                                => i + (Retries - (a + 1)) < Retries
        BY Numbers
      <4>3. QED
        BY <3>3, <3>4, <4>1, <4>2
    <3>6. QED
      BY <3>2, <3>5
  <2>5. QED
    BY <2>2, <2>3, <2>4
<1>10. QED
  BY <1>5, <1>6, <1>7, <1>8, <1>9 DEF IInv

\* A call that goes on to another endpoint, or gives up.
LEMMA GoesOnInv ==
  ASSUME IInv, NEW c \in Calls, NEW done \in SUBSET Endpoints,
         NEW circ, NEW since, NEW counts, Found(c, circ, counts),
         \A d \in sound : d \notin done,
         GoesOn(c, done, circ, since, counts),
         fails' \in [Endpoints -> 0 .. Threshold], openFor' \in [Endpoints -> 0 .. Cooldown],
         measured' \in SUBSET Endpoints,
         UNCHANGED <<strategy, sound, healthVars>>
  PROVE  IInv'
<1> DEFINE looked == Looked(circ, since)
           candidates == Available(looked) \ done
<1>1. /\ looked \in [Endpoints -> {"closed", "open", "half-open"}]
      /\ \A e \in Endpoints : /\ looked[e] = "open" => circ[e] = "open"
                              /\ circ[e] = "closed" => looked[e] = "closed"
  BY LookedLemma DEF Found
<1>2. sound \subseteq Endpoints
  BY DEF IInv, TypeOK
<1>3. Found(c, looked, counts)
  BY <1>1, <1>2 DEF Found
<1>4. sound \subseteq candidates
  BY <1>1, <1>2 DEF Found, Available
<1>5. \/ done = Endpoints /\ Ends(c, "failed") /\ circuit' = circ /\ late' = counts
      \/ /\ circuit' = looked
         /\ candidates = {} /\ Ends(c, "failed") /\ late' = counts
      \/ /\ circuit' = looked
         /\ \E e \in Picks(candidates) :
              /\ stage' = [stage EXCEPT ![c] = "calling"]
              /\ Remember(c, done, e)
              /\ Begins(c, e, 1, looked, counts)
  BY DEF GoesOn
<1>6. \A e \in candidates : e \in Endpoints /\ looked[e] # "open"
  BY DEF Available
<1> HIDE DEF looked, candidates
<1>7. CASE done = Endpoints /\ Ends(c, "failed") /\ circuit' = circ /\ late' = counts
  <2>1. sound = {}
    BY <1>2, <1>7
  <2>2. QED
    BY <1>7, <2>1, EndsInv
<1>8. CASE circuit' = looked /\ candidates = {} /\ Ends(c, "failed") /\ late' = counts
  <2>1. sound = {}
    BY <1>4, <1>8
  <2>2. QED
    BY <1>3, <1>8, <2>1, EndsInv
<1>9. CASE /\ circuit' = looked
           /\ \E e \in Picks(candidates) :
                /\ stage' = [stage EXCEPT ![c] = "calling"]
                /\ Remember(c, done, e)
                /\ Begins(c, e, 1, looked, counts)
  <2>1. PICK e \in Picks(candidates) :
          /\ stage' = [stage EXCEPT ![c] = "calling"]
          /\ Remember(c, done, e)
          /\ Begins(c, e, 1, looked, counts)
    BY <1>9
  <2>2. candidates \subseteq Endpoints
    BY <1>6
  <2>3. e \in Endpoints /\ looked[e] # "open"
    BY <1>6, <2>2, PicksLemma DEF IInv
  <2>4. /\ tried' \in [Calls -> SUBSET Endpoints]
        /\ tried'[c] = done \cup {e}
        /\ \A x \in Calls \ {c} : tried'[x] = tried[x]
    BY <2>1, <2>3 DEF Remember, IInv, TypeOK
  <2>5. 1 \in 1 .. Retries
    BY Numbers
  <2>6. QED
    BY <1>3, <1>9, <2>1, <2>3, <2>4, <2>5, BeginsInv
<1>10. QED
  BY <1>5, <1>7, <1>8, <1>9

\* Initially.
LEMMA InitInv == ASSUME Init PROVE IInv
<1>1. unchecked \in Seq(Endpoints)
  BY Numbers DEF Init
<1>2. TypeOK
  BY <1>1, Numbers DEF Init, TypeOK
<1>3. PlaceInv /\ SoundInv /\ SoundEndpointServes /\ ShieldInv
  BY DEF Init, PlaceInv, SoundInv, SoundEndpointServes, ShieldInv
<1>4. QED
  BY <1>2, <1>3 DEF IInv

\* The state a call of itself finds.
LEMMA FoundNow ==
  ASSUME IInv, NEW c \in Calls
  PROVE  Found(c, circuit, late)
BY DEF IInv, TypeOK, SoundInv, ShieldInv, Found

LEMMA CallInv ==
  ASSUME IInv, NEW c \in Calls, Call(c)
  PROVE  IInv'
<1>1. Found(c, circuit, late)
  BY FoundNow
<1>2. /\ fails' \in [Endpoints -> 0 .. Threshold] /\ openFor' \in [Endpoints -> 0 .. Cooldown]
      /\ measured' \in SUBSET Endpoints
      /\ UNCHANGED <<strategy, sound, healthVars>>
  BY DEF Call, IInv, TypeOK
<1>3. GoesOn(c, {}, circuit, openFor, late)
  BY DEF Call
<1>4. QED
  BY <1>1, <1>2, <1>3, GoesOnInv

LEMMA SucceedsInv ==
  ASSUME IInv, NEW c \in Calls, Succeeds(c)
  PROVE  IInv'
<1>1. stage[c] = "calling" /\ at[c] \in Endpoints /\ TypeOK
  BY DEF Succeeds, IInv, PlaceInv
<1>2. /\ fails' = [fails EXCEPT ![at[c]] = 0]
      /\ measured' = measured \cup {at[c]}
      /\ circuit' = [circuit EXCEPT ![at[c]] = "closed"]
      /\ Ends(c, "idle")
      /\ UNCHANGED <<strategy, sound, openFor, healthVars, late>>
  BY DEF Succeeds
<1>3. /\ fails' \in [Endpoints -> 0 .. Threshold] /\ openFor' \in [Endpoints -> 0 .. Cooldown]
      /\ measured' \in SUBSET Endpoints
  BY <1>1, <1>2, Numbers DEF TypeOK
<1>4. Found(c, circuit, late)
  BY FoundNow
<1>5. Found(c, circuit', late')
  BY <1>1, <1>2, <1>4 DEF Found, TypeOK
<1>6. QED
  BY <1>2, <1>3, <1>5, EndsInv

LEMMA FailsInv ==
  ASSUME IInv, NEW c \in Calls, Fails(c)
  PROVE  IInv'
<1> DEFINE e == at[c]
           circ == IF Trips(e) THEN [circuit EXCEPT ![e] = "open"] ELSE circuit
           counts == IF Trips(e) THEN [late EXCEPT ![e] = [d \in Calls |-> 0]] ELSE late
<1>1. /\ stage[c] = "calling" /\ e \in Endpoints /\ attempt[c] \in 1 .. Retries
      /\ age[c] \in 0 .. Cooldown /\ e \notin sound
      /\ TypeOK
  BY DEF Fails, IInv, PlaceInv, TypeOK
<1>2. /\ fails' = [fails EXCEPT ![e] = Min2(@ + 1, Threshold)]
      /\ openFor' = IF Trips(e) THEN [openFor EXCEPT ![e] = age[c]] ELSE openFor
      /\ UNCHANGED <<strategy, sound, measured, healthVars>>
      /\ \/ /\ TriesAgain(c)
            /\ Begins(c, e, attempt[c] + 1, circ, counts)
            /\ circuit' = circ
            /\ UNCHANGED <<stage, tried>>
         \/ GoesOn(c, tried[c], circ, openFor', counts)
  BY DEF Fails
<1>3. fails[e] \in 0 .. Threshold /\ Min2(fails[e] + 1, Threshold) \in 0 .. Threshold
  BY <1>1, MinLemma, Numbers DEF TypeOK
<1>4. /\ fails' \in [Endpoints -> 0 .. Threshold] /\ openFor' \in [Endpoints -> 0 .. Cooldown]
      /\ measured' \in SUBSET Endpoints
  BY <1>1, <1>2, <1>3 DEF TypeOK
<1>5. Found(c, circ, counts)
  <2>1. Found(c, circuit, late)
    BY FoundNow
  <2>2. \A x \in Calls : Left(e, x) \in Nat /\ Left(e, x) < Retries
    BY Numbers DEF Left, IInv, PlaceInv
  <2>3. /\ circ \in [Endpoints -> {"closed", "open", "half-open"}]
        /\ counts \in [Endpoints -> [Calls -> 0 .. Retries]]
    BY <1>1, Numbers DEF TypeOK
  <2>4. \A d \in sound : circ[d] = "closed"
    BY <1>1, <2>1 DEF Found, TypeOK
  <2>5. \A d \in Endpoints, x \in Calls :
          circ[d] = "open" => counts[d][x] + Left(d, x) < Retries
    <3> SUFFICES ASSUME NEW d \in Endpoints, NEW x \in Calls, circ[d] = "open"
                 PROVE  counts[d][x] + Left(d, x) < Retries
      OBVIOUS
    <3>1. CASE Trips(e) /\ d = e
      <4>1. counts[d][x] = 0
        BY <1>1, <3>1 DEF TypeOK
      <4>2. QED
        BY <2>2, <3>1, <4>1
    <3>2. CASE ~(Trips(e) /\ d = e)
      <4>1. circ[d] = circuit[d] /\ counts[d] = late[d]
        BY <1>1, <3>2 DEF TypeOK
      <4>2. QED
        BY <2>1, <4>1 DEF Found
    <3>3. QED
      BY <3>1, <3>2
  <2>6. QED
    BY <2>3, <2>4, <2>5 DEF Found
<1> HIDE DEF circ, counts
<1>6. CASE /\ TriesAgain(c)
           /\ Begins(c, e, attempt[c] + 1, circ, counts)
           /\ circuit' = circ
           /\ UNCHANGED <<stage, tried>>
  <2>1. attempt[c] + 1 \in 1 .. Retries
    BY <1>1, <1>6, Numbers DEF TriesAgain
  <2>2. stage' = [stage EXCEPT ![c] = "calling"]
    BY <1>1, <1>6 DEF TypeOK
  <2>3. tried' \in [Calls -> SUBSET Endpoints] /\ \A x \in Calls \ {c} : tried'[x] = tried[x]
    BY <1>1, <1>6 DEF TypeOK
  <2>4. \A d \in sound \cap tried'[c] : d = e
    BY <1>6 DEF IInv, SoundInv
  <2>5. QED
    BY <1>1, <1>2, <1>4, <1>5, <1>6, <2>1, <2>2, <2>3, <2>4, BeginsInv
<1>7. CASE GoesOn(c, tried[c], circ, openFor', counts)
  <2>1. tried[c] \in SUBSET Endpoints
    BY <1>1 DEF TypeOK
  <2>2. \A d \in sound : d \notin tried[c]
    BY <1>1 DEF IInv, SoundInv
  <2>3. QED
    BY <1>2, <1>4, <1>5, <1>7, <2>1, <2>2, GoesOnInv
<1>8. QED
  BY <1>2, <1>6, <1>7

\* What a pass takes.
LEMMA TakesNextLemma ==
  ASSUME TypeOK, NEW W \in SUBSET Endpoints, TakesNext(W)
  PROVE  pinging' \in SUBSET Endpoints /\ unchecked' \in Seq(Endpoints)
<1>1. CASE unchecked = <<>>
  BY <1>1 DEF TakesNext, TypeOK
<1>2. CASE unchecked # <<>>
  <2>1. unchecked \in Seq(Endpoints)
    BY DEF TypeOK
  <2>2. Head(unchecked) \in Endpoints /\ Tail(unchecked) \in Seq(Endpoints)
    BY <1>2, <2>1
  <2>3. pinging' = W \cup {Head(unchecked)} /\ unchecked' = Tail(unchecked)
    BY <1>2 DEF TakesNext
  <2>4. QED
    BY <2>2, <2>3
<1>3. QED
  BY <1>1, <1>2

\* A health check, and the clock, neither open a circuit nor move a call.
LEMMA BesideInv ==
  ASSUME IInv,
         TypeOK',
         \A e \in Endpoints : /\ circuit'[e] = "open" => circuit[e] = "open"
                              /\ circuit[e] = "closed" => circuit'[e] = "closed",
         UNCHANGED <<strategy, sound, stage, at, attempt, tried, late>>
  PROVE  IInv'
<1>1. PlaceInv'
  BY DEF IInv, PlaceInv
<1>2. SoundInv'
  BY DEF IInv, SoundInv, TypeOK
<1>3. SoundEndpointServes'
  BY DEF IInv, SoundEndpointServes
<1>4. ShieldInv'
  BY DEF IInv, ShieldInv, Left
<1>5. QED
  BY <1>1, <1>2, <1>3, <1>4 DEF IInv

LEMMA HealthInv ==
  ASSUME IInv,
         \/ \E e \in Endpoints : Pong(e) \/ NoPong(e)
         \/ Interval \/ StartHealthChecks \/ StopHealthChecks
  PROVE  IInv'
<1>1. TypeOK
  BY DEF IInv
<1>2. ASSUME NEW e \in Endpoints, Pong(e) PROVE IInv'
  <2>1. pinging' \in SUBSET Endpoints /\ unchecked' \in Seq(Endpoints)
    BY <1>1, <1>2, TakesNextLemma DEF Pong, TypeOK
  <2>2. circuit' \in [Endpoints -> {"closed", "open", "half-open"}]
    BY <1>1, <1>2 DEF Pong, TypeOK
  <2>3. TypeOK'
    BY <1>1, <1>2, <2>1, <2>2 DEF Pong, TypeOK, callVars
  <2>4. \A d \in Endpoints : /\ circuit'[d] = "open" => circuit[d] = "open"
                             /\ circuit[d] = "closed" => circuit'[d] = "closed"
    BY <1>1, <1>2 DEF Pong, TypeOK
  <2>5. QED
    BY <1>2, <2>3, <2>4, BesideInv DEF Pong, callVars
<1>3. ASSUME NEW e \in Endpoints, NoPong(e) PROVE IInv'
  <2>1. pinging' \in SUBSET Endpoints /\ unchecked' \in Seq(Endpoints)
    BY <1>1, <1>3, TakesNextLemma DEF NoPong, TypeOK
  <2>2. fails[e] \in 0 .. Threshold /\ Min2(fails[e] + 1, Threshold) \in 0 .. Threshold
    BY <1>1, MinLemma, Numbers DEF TypeOK
  <2>3. fails' \in [Endpoints -> 0 .. Threshold]
    BY <1>1, <1>3, <2>2 DEF NoPong, TypeOK
  <2>4. TypeOK'
    BY <1>1, <1>3, <2>1, <2>3 DEF NoPong, TypeOK, callVars
  <2>5. QED
    BY <1>3, <2>4, BesideInv DEF NoPong, callVars
<1>4. CASE Interval
  <2>1. pinging' \in SUBSET Endpoints /\ unchecked' \in Seq(Endpoints)
    BY <1>1, <1>4, TakesNextLemma DEF Interval, TypeOK
  <2>2. TypeOK'
    BY <1>1, <1>4, <2>1 DEF Interval, TypeOK, callVars, circuitVars
  <2>3. QED
    BY <1>4, <2>2, BesideInv DEF Interval, callVars, circuitVars
<1>5. CASE StartHealthChecks \/ StopHealthChecks
  <2>1. TypeOK'
    BY <1>1, <1>5 DEF StartHealthChecks, StopHealthChecks, TypeOK, callVars, circuitVars
  <2>2. QED
    BY <1>5, <2>1, BesideInv DEF StartHealthChecks, StopHealthChecks, callVars, circuitVars
<1>6. QED
  BY <1>2, <1>3, <1>4, <1>5

LEMMA TickInv == ASSUME IInv, Tick PROVE IInv'
<1>1. TypeOK
  BY DEF IInv
<1>2. \A e \in Endpoints : openFor[e] \in 0 .. Cooldown /\ Min2(openFor[e] + 1, Cooldown) \in 0 .. Cooldown
  BY <1>1, MinLemma, Numbers DEF TypeOK
<1>3. \A c \in Calls : age[c] \in 0 .. Cooldown /\ Min2(age[c] + 1, Cooldown) \in 0 .. Cooldown
  BY <1>1, MinLemma, Numbers DEF TypeOK
<1>4. openFor' \in [Endpoints -> 0 .. Cooldown] /\ age' \in [Calls -> 0 .. Cooldown]
  BY <1>2, <1>3, Numbers DEF Tick
<1>5. TypeOK'
  BY <1>1, <1>4 DEF Tick, TypeOK, healthVars
<1>6. QED
  BY <1>5, BesideInv DEF Tick

LEMMA StepInv == ASSUME IInv, [Next]_vars PROVE IInv'
<1>1. CASE UNCHANGED vars
  BY <1>1 DEF vars, circuitVars, callVars, healthVars, IInv, TypeOK, PlaceInv, SoundInv,
       SoundEndpointServes, ShieldInv, Left
<1>2. CASE Next
  BY <1>2, CallInv, SucceedsInv, FailsInv, HealthInv, TickInv DEF Next
<1>3. QED
  BY <1>1, <1>2

THEOREM Invariance == Spec => []IInv
<1>1. Init => IInv
  BY InitInv
<1>2. IInv /\ [Next]_vars => IInv'
  BY StepInv
<1>3. QED
  BY <1>1, <1>2, PTL DEF Spec

\* Every variable keeps its type.
THEOREM TypeCorrect == Spec => []TypeOK
<1>1. IInv => TypeOK
  BY DEF IInv
<1>2. QED
  BY <1>1, Invariance, PTL

\* No call gives up while an endpoint is sound.
THEOREM SoundServes == Spec => []SoundEndpointServes
<1>1. IInv => SoundEndpointServes
  BY DEF IInv
<1>2. QED
  BY <1>1, Invariance, PTL

\* No call makes a full round of attempts at an endpoint while its circuit is open.
THEOREM Shielded == Spec => []OpenShields
<1>1. ASSUME IInv PROVE OpenShields
  <2> SUFFICES ASSUME NEW e \in Endpoints, NEW c \in Calls, circuit[e] = "open"
               PROVE  late[e][c] < Retries
    BY DEF OpenShields
  <2>1. late[e][c] + Left(e, c) < Retries /\ late[e][c] \in Nat
    BY <1>1, Numbers DEF IInv, ShieldInv, TypeOK
  <2>2. Left(e, c) \in Nat
    BY <1>1, Numbers DEF Left, IInv, PlaceInv
  <2>3. QED
    BY <2>1, <2>2, Numbers
<1>2. QED
  BY <1>1, Invariance, PTL
=============================================================================
