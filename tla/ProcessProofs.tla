-------------------------------- MODULE ProcessProofs --------------------------------
(***************************************************************************)
(* Theorems about the process around its turns, for any bounds: each due   *)
(* time fires once (Scheduler), nobody is twice in the catalog of people   *)
(* (Identities), a plan that looks alive is run by somebody (PlanBook),    *)
(* what comes in by a channel is answered once (Mailbox, Streams, Bots),   *)
(* commands reach the agent that runs and a shutdown closes what it can    *)
(* (Gateway), no definition of the service stays behind (Service), a draft *)
(* that was measured is never lost (SkillLoop), and the notes given to a   *)
(* section are kept in it whatever is written elsewhere (Memory).  The     *)
(* parts share no variable, and each has an invariant of its own.          *)
(***************************************************************************)
EXTENDS
  Scheduler, Identities, PlanBook, Channels, Service, SkillLoop, Memory,
  FiniteSetTheorems, SequenceTheorems, TLAPS

(***************************************************************************)
(* The scheduler.                                                          *)
(***************************************************************************)
Active(k) == tick[k].stage # "idle"

\* The times tick k answers for.
InWindowOf(d, k) == tick[k].since <= d /\ d < tick[k].at

\* The windows of two ticks do not overlap, and none reaches beyond the latest tick.
WindowInv ==
  /\ lastTick <= clock
  /\ \A k \in Ticks : Active(k) => tick[k].since <= tick[k].at /\ tick[k].at <= lastTick
  /\ \A j, k \in Ticks :
       j # k /\ Active(j) /\ Active(k) =>
         tick[j].at <= tick[k].since \/ tick[k].at <= tick[j].since

\* What has been fired was due before the latest tick, and of what a tick under way
\* answers for, only it has fired, at a schedule it has passed.
FiredInv ==
  \A f \in fired :
    /\ f.due < lastTick
    /\ \A k \in Ticks : Active(k) /\ InWindowOf(f.due, k) => f.stamp <= tick[k].last

\* A registration that is armed is on, and has been at most since now.
ArmedInv ==
  \A s \in schedules :
    armed[s.stamp] # NotArmed => s.on /\ interval /\ armed[s.stamp] <= clock

SchedulerIInv == SchedulerTypeOK /\ WindowInv /\ FiredInv /\ ArmedInv /\ EachDueOnce
-----------------------------------------------------------------------------
\* A set of numbers up to N has a greatest element.
LEMMA GreatestExists ==
  ASSUME NEW N \in Nat, NEW T, T \subseteq 0 .. N, T # {}
  PROVE  \E x \in T : \A y \in T : y <= x
<1> DEFINE Above == {d .. N : d \in T}
<1>1. IsFiniteSet(0 .. N)
  BY FS_Interval
<1>2. IsWellFoundedOn(StrictSubsetOrdering(0 .. N), SUBSET (0 .. N))
  BY <1>1, FS_StrictSubsetOrderingWellFounded, FS_FiniteSubsetsOfFinite
<1>3. Above \subseteq SUBSET (0 .. N) /\ Above # {}
  <2>1. ASSUME NEW d \in T PROVE d .. N \subseteq 0 .. N
    OBVIOUS
  <2>2. PICK d \in T : TRUE
    OBVIOUS
  <2>3. d .. N \in Above
    OBVIOUS
  <2>4. QED
    BY <2>1, <2>3
<1>4. PICK A \in Above : \A B \in Above : <<B, A>> \notin StrictSubsetOrdering(0 .. N)
  BY <1>2, <1>3, WFMin
<1>5. PICK x \in T : A = x .. N
  BY <1>4
<1>6. ASSUME NEW y \in T, x < y PROVE FALSE
  <2>1. y .. N \subseteq x .. N /\ y .. N # x .. N
    BY <1>6
  <2>2. <<y .. N, A>> \in StrictSubsetOrdering(0 .. N)
    BY <2>1, <1>5, <1>3, <1>4 DEF StrictSubsetOrdering
  <2>3. QED
    BY <2>2, <1>4
<1>7. QED
  BY <1>6

\* And a least one.
LEMMA LeastExists ==
  ASSUME NEW N \in Nat, NEW T, T \subseteq 0 .. N, T # {}
  PROVE  \E x \in T : \A y \in T : x <= y
<1> DEFINE Below == {N - x : x \in T}
<1>1. \A x \in T : x \in Nat /\ N - x \in 0 .. N /\ N - x \in Below
  OBVIOUS
<1>2. Below \subseteq 0 .. N /\ Below # {}
  BY <1>1
<1>3. PICK m \in Below : \A y \in Below : y <= m
  <2> HIDE DEF Below
  <2> QED
    BY <1>2, GreatestExists
<1>4. PICK x \in T : m = N - x
  BY <1>3
<1>5. ASSUME NEW y \in T PROVE x <= y
  <2>1. N - y <= N - x
    BY <1>1, <1>3, <1>4
  <2>2. QED
    BY <2>1, <1>1
<1>6. QED
  BY <1>5

\* prev is the latest due time before the current date.
LEMMA PrevIsLatest ==
  ASSUME NEW n \in Scheduled, NEW t \in Times, Before(n, t) # {}
  PROVE  /\ Prev(n, t) \in Due[n] /\ Prev(n, t) \in Times /\ Prev(n, t) < t
         /\ \A d \in Before(n, t) : d <= Prev(n, t)
<1>1. Before(n, t) \subseteq 0 .. MaxTime
  BY DueAssumption DEF Before, Times
<1>2. \E d \in Before(n, t) : \A e \in Before(n, t) : e <= d
  BY <1>1, BoundAssumption, GreatestExists
<1>3. Prev(n, t) \in Before(n, t) /\ \A e \in Before(n, t) : e <= Prev(n, t)
  BY <1>2 DEF Prev
<1>4. QED
  BY <1>1, <1>3 DEF Before, Times

\* A tick comes to the registrations it has left in the order of their stamps.
LEMMA NextIsFirst ==
  ASSUME SchedulerTypeOK, NEW k \in Ticks, Left(k) # {}
  PROVE  /\ NextOf(k) \in Left(k)
         /\ \A r \in Left(k) : r # NextOf(k) => NextOf(k).stamp < r.stamp
<1>1. stamps \in Nat /\ \A s \in Left(k) : s.stamp \in 0 .. stamps
  BY BoundAssumption DEF SchedulerTypeOK, Left
<1>2. {s.stamp : s \in Left(k)} \subseteq 0 .. stamps /\ {s.stamp : s \in Left(k)} # {}
  BY <1>1
<1>3. PICK x \in {s.stamp : s \in Left(k)} : \A y \in {s.stamp : s \in Left(k)} : x <= y
  BY <1>1, <1>2, LeastExists
<1>4. \E s \in Left(k) : \A r \in Left(k) : s.stamp <= r.stamp
  BY <1>3
<1>5. NextOf(k) \in Left(k) /\ \A r \in Left(k) : NextOf(k).stamp <= r.stamp
  BY <1>4 DEF NextOf
<1>6. \A r \in Left(k) : r.stamp = NextOf(k).stamp => r = NextOf(k)
  BY <1>5 DEF SchedulerTypeOK, Left
<1>7. QED
  BY <1>1, <1>5, <1>6
-----------------------------------------------------------------------------
\* Initially.
LEMMA SchedulerInitInv == ASSUME SchedulerInit PROVE SchedulerIInv
<1>1. 0 \in Times /\ 0 \in 0 .. MaxStamp /\ 0 \in 0 .. stamps
  BY BoundAssumption DEF SchedulerInit, Times
<1>2. SchedulerTypeOK
  BY <1>1 DEF SchedulerInit, SchedulerTypeOK, NoTick
<1>3. WindowInv
  BY <1>1 DEF SchedulerInit, WindowInv, NoTick, Active
<1>4. FiredInv /\ ArmedInv /\ EachDueOnce
  BY DEF SchedulerInit, FiredInv, ArmedInv, EachDueOnce, OncePerDue, NothingMissed
<1>5. QED
  BY <1>2, <1>3, <1>4 DEF SchedulerIInv

\* A step that neither fires nor ticks keeps what is known of ticks and firings.
LEMMA QuietSchedulerStep ==
  ASSUME SchedulerIInv, UNCHANGED <<lastTick, tick, fired, twice, clock>>
  PROVE  WindowInv' /\ FiredInv' /\ OncePerDue'
BY DEF SchedulerIInv, WindowInv, FiredInv, EachDueOnce, OncePerDue, Active, InWindowOf

\* A due time that has passed is answered for.
Covered(s, d) ==
  \/ \E f \in fired : f.stamp = s.stamp /\ f.due >= d
  \/ \E k \in Ticks :
       /\ tick[k].stage # "idle" /\ s \in Left(k)
       /\ ShouldFire(s.name, tick[k].since, tick[k].at)
       /\ Prev(s.name, tick[k].at) >= d

\* It still is after a step that neither fires nor ticks, while its registration stays.
LEMMA StaysCovered ==
  ASSUME UNCHANGED <<tick, fired>>, NEW s, s \in schedules', NEW d, Covered(s, d)
  PROVE  Covered(s, d)'
BY DEF Covered, Left, ShouldFire, InWindow, Prev, Before

LEMMA RegisterInv ==
  ASSUME SchedulerIInv, NEW n \in Scheduled, NEW on \in BOOLEAN, Register(n, on)
  PROVE  SchedulerIInv'
<1> DEFINE new == [name |-> n, on |-> on, stamp |-> stamps + 1]
<1>1. /\ stamps \in Nat /\ stamps + 1 \in 1 .. MaxStamp /\ MaxStamp \in Nat
      /\ armed' \in [1 .. MaxStamp -> Times \cup {NotArmed}]
      /\ armed'[stamps + 1] = IF on /\ interval THEN clock ELSE NotArmed
      /\ \A i \in 1 .. MaxStamp : i # stamps + 1 => armed'[i] = armed[i]
  BY BoundAssumption DEF SchedulerIInv, SchedulerTypeOK, Register
<1>2. \A s \in schedules : s.stamp \in 1 .. stamps /\ s.stamp # stamps + 1 /\ s.name # n
  BY <1>1 DEF SchedulerIInv, SchedulerTypeOK, Register, Registered
<1>3. SchedulerTypeOK'
  <2>1. stamps' \in 0 .. MaxStamp /\ stamps' = stamps + 1
    BY <1>1 DEF Register
  <2>2. 1 .. stamps \subseteq 1 .. stamps' /\ 0 .. stamps \subseteq 0 .. stamps'
    BY <1>1, <2>1
  <2>3. new \in [name : Scheduled, on : BOOLEAN, stamp : 1 .. stamps']
    BY <1>1, <2>1
  <2>4. schedules' \subseteq [name : Scheduled, on : BOOLEAN, stamp : 1 .. stamps']
    BY <2>2, <2>3 DEF SchedulerIInv, SchedulerTypeOK, Register
  <2>5. \A r, s \in schedules' : r.name = s.name \/ r.stamp = s.stamp => r = s
    BY <1>2 DEF SchedulerIInv, SchedulerTypeOK, Register
  <2>6. tick' \in [Ticks -> [stage : {"idle", "visiting", "firing"}, since : Times,
                             at : Times, last : 0 .. stamps']]
    BY <2>2 DEF SchedulerIInv, SchedulerTypeOK, Register
  <2>7. fired' \subseteq [stamp : 1 .. stamps', due : Times]
    BY <2>2 DEF SchedulerIInv, SchedulerTypeOK, Register
  <2>8. {interval, twice}' \subseteq BOOLEAN /\ {lastTick, clock}' \subseteq Times
    BY DEF SchedulerIInv, SchedulerTypeOK, Register
  <2>9. QED
    BY <1>1, <2>1, <2>4, <2>5, <2>6, <2>7, <2>8 DEF SchedulerTypeOK
<1>4. WindowInv' /\ FiredInv' /\ OncePerDue'
  BY QuietSchedulerStep DEF Register
<1>5. ArmedInv'
  <2>1. clock \in Nat
    BY DEF SchedulerIInv, SchedulerTypeOK, Times
  <2>2. QED
    BY <1>1, <1>2, <2>1 DEF SchedulerIInv, ArmedInv, Register
<1>6. NothingMissed'
  <2> SUFFICES ASSUME NEW s \in schedules', NEW d \in Due[s.name],
                      armed'[s.stamp] <= d, d < lastTick
               PROVE  Covered(s, d)'
    BY DEF NothingMissed, Covered, Register
  <2>1. d \in Times /\ lastTick \in Times /\ clock \in Times /\ lastTick <= clock
    BY <1>3, DueAssumption DEF SchedulerIInv, SchedulerTypeOK, WindowInv, Register
  <2>2. s # new
    BY <1>1, <2>1, BoundAssumption DEF NotArmed, Times
  <2>3. Covered(s, d)
    BY <1>1, <1>2, <2>2 DEF SchedulerIInv, EachDueOnce, NothingMissed, Covered, Register
  <2>4. QED
    BY <2>3, StaysCovered DEF Register
<1>7. QED
  BY <1>3, <1>4, <1>5, <1>6 DEF SchedulerIInv, EachDueOnce

LEMMA UnregisterInv ==
  ASSUME SchedulerIInv, NEW s \in schedules, Unregister(s)
  PROVE  SchedulerIInv'
<1>1. /\ schedules' \subseteq schedules
      /\ \A r \in schedules : r.stamp \in 1 .. MaxStamp
      /\ \A r \in schedules' : r.stamp # s.stamp /\ armed'[r.stamp] = armed[r.stamp]
      /\ armed' \in [1 .. MaxStamp -> Times \cup {NotArmed}]
  BY BoundAssumption DEF SchedulerIInv, SchedulerTypeOK, Unregister
<1>2. SchedulerTypeOK'
  BY <1>1 DEF SchedulerIInv, SchedulerTypeOK, Unregister
<1>3. WindowInv' /\ FiredInv' /\ OncePerDue'
  BY QuietSchedulerStep DEF Unregister
<1>4. ArmedInv'
  BY <1>1 DEF SchedulerIInv, ArmedInv, Unregister
<1>5. NothingMissed'
  <2> SUFFICES ASSUME NEW r \in schedules', NEW d \in Due[r.name],
                      armed'[r.stamp] <= d, d < lastTick
               PROVE  Covered(r, d)'
    BY DEF NothingMissed, Covered, Unregister
  <2>1. Covered(r, d)
    BY <1>1 DEF SchedulerIInv, EachDueOnce, NothingMissed, Covered
  <2>2. QED
    BY <2>1, StaysCovered DEF Unregister
<1>6. QED
  BY <1>2, <1>3, <1>4, <1>5 DEF SchedulerIInv, EachDueOnce

LEMMA SetEnabledInv ==
  ASSUME SchedulerIInv, NEW s \in schedules, NEW on \in BOOLEAN, SetEnabled(s, on)
  PROVE  SchedulerIInv'
<1> DEFINE new == [s EXCEPT !.on = on]
<1>1. /\ new \in [name : Scheduled, on : BOOLEAN, stamp : 1 .. stamps]
      /\ new.name = s.name /\ new.stamp = s.stamp /\ new.on = on
      /\ schedules' = (schedules \ {s}) \cup {new}
  BY DEF SchedulerIInv, SchedulerTypeOK, SetEnabled
<1>2. /\ \A r \in schedules : r.stamp \in 1 .. MaxStamp
      /\ \A r \in schedules' : r = new \/ (r \in schedules /\ r.stamp # s.stamp)
      /\ \A r \in schedules' : r # new => armed'[r.stamp] = armed[r.stamp]
      /\ armed'[s.stamp] = IF on /\ interval THEN clock ELSE NotArmed
      /\ armed' \in [1 .. MaxStamp -> Times \cup {NotArmed}]
  BY <1>1, BoundAssumption DEF SchedulerIInv, SchedulerTypeOK, SetEnabled
<1>3. SchedulerTypeOK'
  <2>1. \A r, q \in schedules' : r.name = q.name \/ r.stamp = q.stamp => r = q
    <3>1. \A r, q \in schedules : r.name = q.name \/ r.stamp = q.stamp => r = q
      BY DEF SchedulerIInv, SchedulerTypeOK
    <3>2. \A r \in schedules' : r # new => r \in schedules /\ r # s
      BY <1>1
    <3> HIDE DEF new
    <3>3. QED
      BY <1>1, <3>1, <3>2
  <2>2. QED
    BY <1>1, <1>2, <2>1 DEF SchedulerIInv, SchedulerTypeOK, SetEnabled
<1>4. WindowInv' /\ FiredInv' /\ OncePerDue'
  BY QuietSchedulerStep DEF SetEnabled
<1>5. ArmedInv'
  <2>1. clock \in Nat
    BY DEF SchedulerIInv, SchedulerTypeOK, Times
  <2>2. QED
    BY <1>1, <1>2, <2>1 DEF SchedulerIInv, ArmedInv, SetEnabled
<1>6. NothingMissed'
  <2> SUFFICES ASSUME NEW r \in schedules', NEW d \in Due[r.name],
                      armed'[r.stamp] <= d, d < lastTick
               PROVE  Covered(r, d)'
    BY DEF NothingMissed, Covered, SetEnabled
  <2>1. d \in Times /\ lastTick \in Times /\ clock \in Times /\ lastTick <= clock
    BY <1>3, DueAssumption DEF SchedulerIInv, SchedulerTypeOK, WindowInv, SetEnabled
  <2>2. r # new
    BY <1>1, <1>2, <2>1, BoundAssumption DEF NotArmed, Times
  <2>3. Covered(r, d)
    BY <1>2, <2>2 DEF SchedulerIInv, EachDueOnce, NothingMissed, Covered
  <2>4. QED
    BY <2>3, StaysCovered DEF SetEnabled
<1>7. QED
  BY <1>3, <1>4, <1>5, <1>6 DEF SchedulerIInv, EachDueOnce

\* The loop starts: what was due before is not asked for.
LEMMA StartInv == ASSUME SchedulerIInv, Start PROVE SchedulerIInv'
<1>1. /\ clock \in Times /\ Times \subseteq Nat
      /\ \A s \in schedules : s.stamp \in 1 .. MaxStamp
      /\ \A s \in schedules : armed'[s.stamp] = IF s.on THEN clock ELSE NotArmed
      /\ armed' \in [1 .. MaxStamp -> Times \cup {NotArmed}]
  BY BoundAssumption DEF SchedulerIInv, SchedulerTypeOK, Start, Times
<1>2. SchedulerTypeOK'
  BY <1>1 DEF SchedulerIInv, SchedulerTypeOK, Start
<1>3. WindowInv'
  <2>1. \A k \in Ticks : Active(k) => tick[k].at <= clock
    BY <1>1 DEF SchedulerIInv, WindowInv, SchedulerTypeOK, Times
  <2>2. QED
    BY <1>1, <2>1 DEF SchedulerIInv, WindowInv, Start, Active
<1>4. FiredInv'
  <2>1. \A f \in fired : f.due < clock
    BY <1>1 DEF SchedulerIInv, WindowInv, FiredInv, SchedulerTypeOK, Times
  <2>2. QED
    BY <2>1 DEF SchedulerIInv, FiredInv, Start, Active, InWindowOf
<1>5. ArmedInv'
  BY <1>1 DEF ArmedInv, Start
<1>6. NothingMissed'
  <2> SUFFICES ASSUME NEW s \in schedules, NEW d \in Due[s.name],
                      armed'[s.stamp] <= d, d < clock
               PROVE  FALSE
    BY DEF NothingMissed, Start
  <2>1. d \in Times
    BY DueAssumption DEF SchedulerIInv, SchedulerTypeOK
  <2>2. QED
    BY <1>1, <2>1, BoundAssumption DEF NotArmed, Times
<1>7. QED
  BY <1>2, <1>3, <1>4, <1>5, <1>6 DEF SchedulerIInv, EachDueOnce, OncePerDue, Start

LEMMA StopInv == ASSUME SchedulerIInv, Stop PROVE SchedulerIInv'
<1>1. /\ \A s \in schedules : s.stamp \in 1 .. MaxStamp
      /\ \A s \in schedules : armed'[s.stamp] = NotArmed
      /\ armed' \in [1 .. MaxStamp -> Times \cup {NotArmed}]
  BY BoundAssumption DEF SchedulerIInv, SchedulerTypeOK, Stop
<1>2. SchedulerTypeOK'
  BY <1>1 DEF SchedulerIInv, SchedulerTypeOK, Stop
<1>3. WindowInv' /\ FiredInv' /\ OncePerDue'
  BY QuietSchedulerStep DEF Stop
<1>4. ArmedInv'
  BY <1>1 DEF ArmedInv, Stop, NotArmed
<1>5. NothingMissed'
  <2> SUFFICES ASSUME NEW s \in schedules, NEW d \in Due[s.name], armed'[s.stamp] <= d
               PROVE  FALSE
    BY DEF NothingMissed, Stop
  <2>1. d \in Times
    BY DueAssumption DEF SchedulerIInv, SchedulerTypeOK
  <2>2. QED
    BY <1>1, <2>1, BoundAssumption DEF NotArmed, Times
<1>6. QED
  BY <1>2, <1>3, <1>4, <1>5 DEF SchedulerIInv, EachDueOnce

LEMMA ClockTickInv == ASSUME SchedulerIInv, ClockTick PROVE SchedulerIInv'
<1>1. clock \in Nat /\ clock' = clock + 1 /\ clock' \in Times
  BY BoundAssumption DEF SchedulerIInv, SchedulerTypeOK, ClockTick, Times
<1>2. SchedulerTypeOK'
  BY <1>1 DEF SchedulerIInv, SchedulerTypeOK, ClockTick
<1>3. WindowInv'
  <2>1. lastTick \in Nat
    BY DEF SchedulerIInv, SchedulerTypeOK, Times
  <2>2. QED
    BY <1>1, <2>1 DEF SchedulerIInv, WindowInv, ClockTick, Active
<1>4. ArmedInv'
  <2>1. \A s \in schedules : armed[s.stamp] \in Nat
    BY BoundAssumption DEF SchedulerIInv, SchedulerTypeOK, Times, NotArmed
  <2>2. QED
    BY <1>1, <2>1 DEF SchedulerIInv, ArmedInv, ClockTick
<1>5. FiredInv' /\ EachDueOnce'
  <2>1. UNCHANGED <<schedules, lastTick, tick, fired, twice, armed>>
    BY DEF ClockTick
  <2>2. FiredInv'
    BY <2>1 DEF SchedulerIInv, FiredInv, Active, InWindowOf
  <2>3. \A k \in Ticks : Left(k)' = Left(k)
    BY <2>1 DEF Left
  <2>4. \A s \in schedules : \A k \in Ticks :
          ShouldFire(s.name, tick[k].since, tick[k].at)' <=>
            ShouldFire(s.name, tick[k].since, tick[k].at)
    BY <2>1 DEF ShouldFire, InWindow, Prev, Before
  <2>5. QED
    BY <2>1, <2>2, <2>3, <2>4 DEF SchedulerIInv, EachDueOnce, OncePerDue, NothingMissed
<1>6. QED
  BY <1>2, <1>3, <1>4, <1>5 DEF SchedulerIInv
-----------------------------------------------------------------------------
\* A tick starts: it answers for the times since the latest one.
LEMMA TickInv == ASSUME SchedulerIInv, NEW k \in Ticks, Tick(k) PROVE SchedulerIInv'
<1> DEFINE new == [stage |-> "visiting", since |-> lastTick, at |-> clock, last |-> 0]
<1>1. /\ tick'[k] = new /\ \A j \in Ticks \ {k} : tick'[j] = tick[j]
      /\ ~Active(k)
  BY DEF SchedulerIInv, SchedulerTypeOK, Tick, Active
<1>2. /\ lastTick \in Nat /\ clock \in Nat /\ lastTick <= clock /\ stamps \in Nat
      /\ lastTick \in Times /\ clock \in Times /\ lastTick' = clock
      /\ \A j \in Ticks : tick[j].at \in Nat /\ tick[j].since \in Nat
      /\ \A f \in fired : f.due \in Nat
  BY BoundAssumption DEF SchedulerIInv, SchedulerTypeOK, WindowInv, Times, Tick
<1>3. SchedulerTypeOK'
  <2>1. new \in [stage : {"idle", "visiting", "firing"}, since : Times, at : Times,
                 last : 0 .. stamps]
    BY <1>2
  <2>2. QED
    BY <1>2, <2>1 DEF SchedulerIInv, SchedulerTypeOK, Tick
<1>4. WindowInv'
  BY <1>1, <1>2 DEF SchedulerIInv, WindowInv, Tick, Active
<1>5. FiredInv'
  <2> SUFFICES ASSUME NEW f \in fired
               PROVE  /\ f.due < clock
                      /\ \A j \in Ticks : Active(j)' /\ InWindowOf(f.due, j)' =>
                           f.stamp <= tick'[j].last
    BY DEF FiredInv, Tick
  <2>1. f.due < lastTick
    BY DEF SchedulerIInv, FiredInv
  <2>2. ~InWindowOf(f.due, k)'
    BY <1>1, <1>2, <2>1 DEF InWindowOf
  <2>3. QED
    BY <1>1, <1>2, <2>1, <2>2 DEF SchedulerIInv, FiredInv, Active, InWindowOf
<1>6. ArmedInv'
  BY DEF SchedulerIInv, ArmedInv, Tick
<1>7. NothingMissed'
  <2> SUFFICES ASSUME NEW s \in schedules, NEW d \in Due[s.name],
                      armed[s.stamp] <= d, d < clock
               PROVE  Covered(s, d)'
    BY DEF NothingMissed, Covered, Tick
  <2>1. s.name \in Scheduled /\ s.stamp \in Nat /\ 0 < s.stamp /\ d \in Nat
    BY <1>2, DueAssumption DEF SchedulerIInv, SchedulerTypeOK, Times
  <2>2. CASE d < lastTick
    <3>1. Covered(s, d)
      BY <2>2 DEF SchedulerIInv, EachDueOnce, NothingMissed, Covered
    <3>2. QED
      BY <1>1, <3>1 DEF Covered, Tick, Left, ShouldFire, InWindow, Prev, Before, Active
  <2>3. CASE lastTick <= d
    <3>1. d \in Before(s.name, clock)
      BY DEF Before
    <3>2. d <= Prev(s.name, clock) /\ Prev(s.name, clock) \in Nat
      BY <1>2, <2>1, <3>1, PrevIsLatest DEF Times
    <3>3. ShouldFire(s.name, lastTick, clock) /\ Prev(s.name, clock) >= d
      BY <1>2, <2>1, <2>3, <3>1, <3>2 DEF ShouldFire, InWindow
    <3>4. s \in Left(k)'
      BY <1>1, <2>1 DEF Left, Tick
    <3>5. ShouldFire(s.name, tick[k].since, tick[k].at)'
          /\ (Prev(s.name, tick[k].at) >= d)'
      BY <1>1, <3>3 DEF ShouldFire, InWindow, Prev, Before
    <3>6. QED
      BY <1>1, <3>4, <3>5 DEF Covered
  <2>4. QED
    BY <1>2, <2>1, <2>2, <2>3
<1>8. QED
  BY <1>3, <1>4, <1>5, <1>6, <1>7 DEF SchedulerIInv, EachDueOnce, OncePerDue, Tick

\* A tick under way changes its stage and how far it has come, and not its window.
Moves(k, to, last) ==
  /\ tick' = [tick EXCEPT ![k] = [stage |-> to, since |-> tick[k].since,
                                  at |-> tick[k].at, last |-> last]]
  /\ UNCHANGED <<schedules, stamps, interval, lastTick, armed, clock>>

LEMMA MovesFacts ==
  ASSUME SchedulerIInv, NEW k \in Ticks, Active(k), NEW to \in {"visiting", "firing"},
         NEW last \in tick[k].last .. stamps, Moves(k, to, last)
  PROVE  /\ tick'[k].stage = to /\ tick'[k].last = last
         /\ \A j \in Ticks \ {k} : tick'[j] = tick[j]
         /\ \A j \in Ticks : /\ tick'[j].since = tick[j].since /\ tick'[j].at = tick[j].at
                             /\ Active(j)' <=> Active(j)
                             /\ tick[j].last <= tick'[j].last
         /\ tick' \in [Ticks -> [stage : {"idle", "visiting", "firing"}, since : Times,
                                 at : Times, last : 0 .. stamps]]
         /\ WindowInv' /\ ArmedInv'
<1> DEFINE new == [stage |-> to, since |-> tick[k].since, at |-> tick[k].at, last |-> last]
<1>1. /\ tick'[k] = new /\ \A j \in Ticks \ {k} : tick'[j] = tick[j]
      /\ tick[k].last \in Nat /\ stamps \in Nat
      /\ \A j \in Ticks : tick[j].last \in Nat
  BY BoundAssumption DEF SchedulerIInv, SchedulerTypeOK, Moves
<1>2. new \in [stage : {"idle", "visiting", "firing"}, since : Times, at : Times,
               last : 0 .. stamps]
  BY <1>1 DEF SchedulerIInv, SchedulerTypeOK
<1>3. tick' \in [Ticks -> [stage : {"idle", "visiting", "firing"}, since : Times,
                           at : Times, last : 0 .. stamps]]
  BY <1>2 DEF SchedulerIInv, SchedulerTypeOK, Moves
<1>4. \A j \in Ticks : /\ tick'[j].since = tick[j].since /\ tick'[j].at = tick[j].at
                       /\ Active(j)' <=> Active(j)
                       /\ tick[j].last <= tick'[j].last
  BY <1>1 DEF Active
<1>5. WindowInv'
  BY <1>4 DEF SchedulerIInv, WindowInv, Moves
<1>6. ArmedInv'
  BY DEF SchedulerIInv, ArmedInv, Moves
<1>7. QED
  BY <1>1, <1>3, <1>4, <1>5, <1>6

\* What a tick under way has passed was off or not due, or it is fired.
LEMMA PassedIsCovered ==
  ASSUME SchedulerIInv, NEW k \in Ticks, Active(k), Left(k) # {},
         NEW to \in {"visiting", "firing"},
         Moves(k, to, NextOf(k).stamp), fired \subseteq fired',
         \/ ~(NextOf(k).on /\ ShouldFire(NextOf(k).name, tick[k].since, tick[k].at))
         \/ [stamp |-> NextOf(k).stamp, due |-> Prev(NextOf(k).name, tick[k].at)] \in fired',
         NextOf(k).stamp \in tick[k].last .. stamps
  PROVE  NothingMissed'
<1>1. /\ tick'[k].stage = to /\ tick'[k].last = NextOf(k).stamp
      /\ \A j \in Ticks \ {k} : tick'[j] = tick[j]
      /\ tick'[k].since = tick[k].since /\ tick'[k].at = tick[k].at
  BY MovesFacts
<1> SUFFICES ASSUME NEW s \in schedules, NEW d \in Due[s.name],
                    armed[s.stamp] <= d, d < lastTick
             PROVE  Covered(s, d)'
  BY DEF NothingMissed, Covered, Moves
<1>2. Covered(s, d)
  BY DEF SchedulerIInv, EachDueOnce, NothingMissed, Covered
<1>3. CASE \E f \in fired : f.stamp = s.stamp /\ f.due >= d
  BY <1>3 DEF Covered
<1>4. ASSUME NEW j \in Ticks, tick[j].stage # "idle", s \in Left(j),
             ShouldFire(s.name, tick[j].since, tick[j].at), Prev(s.name, tick[j].at) >= d
      PROVE  Covered(s, d)'
  <2>1. CASE j # k
    <3>1. tick'[j] = tick[j]
      BY <1>1, <2>1
    <3>2. QED
      BY <1>4, <3>1 DEF Covered, Left, Moves, ShouldFire, InWindow, Prev, Before
  <2>2. CASE j = k /\ s # NextOf(k)
    <3>1. NextOf(k).stamp < s.stamp
      BY <1>4, <2>2, NextIsFirst DEF SchedulerIInv
    <3>2. s \in Left(k)'
      BY <1>1, <3>1 DEF Left, Moves
    <3>3. QED
      BY <1>1, <1>4, <2>2, <3>2 DEF Covered, ShouldFire, InWindow, Prev, Before
  <2>3. CASE j = k /\ s = NextOf(k)
    <3>1. d \in Times /\ armed[s.stamp] # NotArmed
      BY BoundAssumption, DueAssumption DEF SchedulerIInv, SchedulerTypeOK, Times, NotArmed
    <3>2. s.on
      BY <3>1 DEF SchedulerIInv, ArmedInv
    <3>3. QED
      BY <1>4, <2>3, <3>2 DEF Covered
  <2>4. QED
    BY <2>1, <2>2, <2>3
<1>5. QED
  BY <1>2, <1>3, <1>4 DEF Covered

\* The stamp of the next registration lies ahead.
LEMMA NextLiesAhead ==
  ASSUME SchedulerIInv, NEW k \in Ticks, Left(k) # {}
  PROVE  /\ NextOf(k) \in schedules /\ NextOf(k).name \in Scheduled
         /\ NextOf(k).stamp \in 1 .. stamps
         /\ tick[k].last < NextOf(k).stamp /\ NextOf(k).stamp \in tick[k].last .. stamps
<1>1. NextOf(k) \in Left(k)
  BY NextIsFirst DEF SchedulerIInv
<1>2. stamps \in Nat /\ tick[k].last \in Nat
  BY BoundAssumption DEF SchedulerIInv, SchedulerTypeOK
<1>3. QED
  BY <1>1, <1>2 DEF SchedulerIInv, SchedulerTypeOK, Left

LEMMA SkipInv == ASSUME SchedulerIInv, NEW k \in Ticks, Skip(k) PROVE SchedulerIInv'
<1>1. Left(k) # {} /\ Active(k) /\ tick[k].stage = "visiting"
  BY DEF Skip, Active
<1>2. NextOf(k).stamp \in tick[k].last .. stamps
  BY <1>1, NextLiesAhead
<1>3. Moves(k, "visiting", NextOf(k).stamp)
  <2>1. tick[k] \in [stage : {"idle", "visiting", "firing"}, since : Times, at : Times,
                     last : 0 .. stamps]
    BY DEF SchedulerIInv, SchedulerTypeOK
  <2>2. [tick[k] EXCEPT !.last = NextOf(k).stamp]
          = [stage |-> "visiting", since |-> tick[k].since, at |-> tick[k].at,
             last |-> NextOf(k).stamp]
    BY <1>1, <2>1
  <2>3. QED
    BY <2>2 DEF Skip, Moves
<1>4. /\ \A j \in Ticks : /\ tick'[j].since = tick[j].since /\ tick'[j].at = tick[j].at
                          /\ Active(j)' <=> Active(j)
                          /\ tick[j].last <= tick'[j].last
      /\ tick' \in [Ticks -> [stage : {"idle", "visiting", "firing"}, since : Times,
                              at : Times, last : 0 .. stamps]]
      /\ WindowInv' /\ ArmedInv'
  BY <1>1, <1>2, <1>3, MovesFacts
<1>5. SchedulerTypeOK'
  BY <1>4 DEF SchedulerIInv, SchedulerTypeOK, Skip
<1>6. FiredInv'
  <2>1. \A f \in fired : f.stamp \in Nat
    BY BoundAssumption DEF SchedulerIInv, SchedulerTypeOK
  <2>2. \A j \in Ticks : tick[j].last \in Nat /\ tick'[j].last \in Nat
    BY <1>4 DEF SchedulerIInv, SchedulerTypeOK
  <2>3. QED
    BY <1>4, <2>1, <2>2 DEF SchedulerIInv, FiredInv, InWindowOf, Skip
<1>7. NothingMissed'
  BY <1>1, <1>2, <1>3, PassedIsCovered DEF Skip
<1>8. QED
  BY <1>4, <1>5, <1>6, <1>7 DEF SchedulerIInv, EachDueOnce, OncePerDue, Skip

\* Two firings for one due time would be two ticks that answer for it, or one that comes
\* to a registration a second time.
LEMMA FireInv == ASSUME SchedulerIInv, NEW k \in Ticks, Fire(k) PROVE SchedulerIInv'
<1> DEFINE s == NextOf(k)
           f == [stamp |-> s.stamp, due |-> Prev(s.name, tick[k].at)]
<1>1. /\ Left(k) # {} /\ Active(k) /\ tick[k].stage = "visiting"
      /\ ShouldFire(s.name, tick[k].since, tick[k].at)
      /\ twice' = (twice \/ f \in fired) /\ fired' = fired \cup {f}
  BY DEF Fire, Active
<1>2. /\ s.stamp \in tick[k].last .. stamps /\ tick[k].last < s.stamp
      /\ s.name \in Scheduled /\ s.stamp \in 1 .. stamps
  BY <1>1, NextLiesAhead
<1>3. Moves(k, "firing", s.stamp)
  <2> DEFINE v == s.stamp
  <2>1. /\ tick \in [Ticks -> [stage : {"idle", "visiting", "firing"}, since : Times,
                              at : Times, last : 0 .. stamps]]
        /\ tick' = [tick EXCEPT ![k].last = v, ![k].stage = "firing"]
    BY DEF Fire, SchedulerIInv, SchedulerTypeOK
  <2> HIDE DEF v
  <2>2. tick'[k] = [stage |-> "firing", since |-> tick[k].since, at |-> tick[k].at,
                    last |-> v]
    BY <2>1
  <2>3. DOMAIN tick' = Ticks /\ \A j \in Ticks : j # k => tick'[j] = tick[j]
    BY <2>1
  <2>4. tick' = [j \in Ticks |-> tick'[j]]
    BY <2>1
  <2>5. tick' = [tick EXCEPT ![k] = [stage |-> "firing", since |-> tick[k].since,
                                     at |-> tick[k].at, last |-> v]]
    BY <2>1, <2>2, <2>3, <2>4
  <2>6. UNCHANGED <<schedules, stamps, interval, lastTick, armed, clock>>
    BY DEF Fire
  <2> QED
    BY <2>5, <2>6 DEF Moves, v
<1>4. /\ \A j \in Ticks : /\ tick'[j].since = tick[j].since /\ tick'[j].at = tick[j].at
                          /\ Active(j)' <=> Active(j)
                          /\ tick[j].last <= tick'[j].last
      /\ tick'[k].last = s.stamp
      /\ tick' \in [Ticks -> [stage : {"idle", "visiting", "firing"}, since : Times,
                              at : Times, last : 0 .. stamps]]
      /\ WindowInv' /\ ArmedInv'
  <2> HIDE DEF s
  <2> QED
    BY <1>1, <1>2, <1>3, MovesFacts
<1>5. InWindowOf(f.due, k) /\ f.due \in Times
  <2>1. tick[k].at \in Times
    BY DEF SchedulerIInv, SchedulerTypeOK
  <2>2. Prev(s.name, tick[k].at) \in Times /\ Prev(s.name, tick[k].at) < tick[k].at
    BY <1>1, <1>2, <2>1, PrevIsLatest DEF ShouldFire
  <2>3. Prev(s.name, tick[k].at) >= tick[k].since
    BY <1>1 DEF ShouldFire, InWindow
  <2>4. QED
    BY <2>1, <2>2, <2>3 DEF InWindowOf, SchedulerIInv, SchedulerTypeOK, Times
<1>6. SchedulerTypeOK'
  <2>1. f \in [stamp : 1 .. stamps, due : Times]
    BY <1>2, <1>5
  <2>2. twice' \in BOOLEAN
    BY <1>1 DEF SchedulerIInv, SchedulerTypeOK
  <2> HIDE DEF f
  <2>3. QED
    BY <1>1, <1>4, <2>1, <2>2 DEF SchedulerIInv, SchedulerTypeOK, Fire
<1>7. f \notin fired
  <2> SUFFICES ASSUME f \in fired PROVE FALSE
    OBVIOUS
  <2>1. f.stamp <= tick[k].last
    BY <1>1, <1>5 DEF SchedulerIInv, FiredInv
  <2>2. tick[k].last \in Nat /\ s.stamp \in Nat
    BY BoundAssumption DEF SchedulerIInv, SchedulerTypeOK, Left
  <2>3. QED
    BY <1>2, <2>1, <2>2
<1>8. FiredInv'
  <2>1. \A j \in Ticks : /\ tick[j].last \in Nat /\ tick'[j].last \in Nat
                         /\ tick[j].since \in Nat /\ tick[j].at \in Nat
    BY <1>4 DEF SchedulerIInv, SchedulerTypeOK, Times
  <2>2. ASSUME NEW g \in fired
        PROVE  /\ g.due < lastTick'
               /\ \A j \in Ticks : Active(j)' /\ InWindowOf(g.due, j)' =>
                    g.stamp <= tick'[j].last
    <3>1. g.stamp \in Nat
      BY BoundAssumption DEF SchedulerIInv, SchedulerTypeOK
    <3>2. QED
      BY <1>4, <2>1, <3>1 DEF SchedulerIInv, FiredInv, InWindowOf, Fire
  <2>3. /\ f.due < lastTick'
        /\ \A j \in Ticks :
             Active(j)' /\ tick'[j].since <= f.due /\ f.due < tick'[j].at =>
               f.stamp <= tick'[j].last
    <3>1. tick[k].at <= lastTick /\ lastTick' = lastTick /\ lastTick \in Nat /\ f.due \in Nat
      BY <1>1, <1>5 DEF SchedulerIInv, WindowInv, SchedulerTypeOK, Times, Fire
    <3>2. f.due < lastTick'
      BY <1>5, <2>1, <3>1 DEF InWindowOf
    <3>3. ASSUME NEW j \in Ticks, Active(j)', tick'[j].since <= f.due, f.due < tick'[j].at
          PROVE  f.stamp <= tick'[j].last
      <4>1. Active(j) /\ InWindowOf(f.due, j)
        BY <1>4, <3>3 DEF InWindowOf
      <4>2. tick[j].since <= f.due /\ f.due < tick[j].at
            /\ tick[k].since <= f.due /\ f.due < tick[k].at
        BY <4>1, <1>5 DEF InWindowOf
      <4>3. j # k => tick[j].at <= tick[k].since \/ tick[k].at <= tick[j].since
        BY <1>1, <4>1 DEF SchedulerIInv, WindowInv
      <4>4. j = k
        BY <2>1, <3>1, <4>2, <4>3
      <4>5. QED
        BY <1>4, <2>1, <4>4
    <3>4. QED
      BY <3>2, <3>3
  <2>4. ASSUME NEW g \in fired'
        PROVE  /\ g.due < lastTick'
               /\ \A j \in Ticks : Active(j)' /\ InWindowOf(g.due, j)' =>
                    g.stamp <= tick'[j].last
    <3>1. CASE g \in fired
      BY <3>1, <2>2
    <3>2. CASE g = f
      BY <3>2, <2>3 DEF InWindowOf
    <3>3. QED
      BY <1>1, <3>1, <3>2
  <2>5. QED
    BY <2>4 DEF FiredInv
<1>9. NothingMissed'
  BY <1>1, <1>2, <1>3, PassedIsCovered
<1>10. OncePerDue'
  BY <1>1, <1>7 DEF SchedulerIInv, EachDueOnce, OncePerDue
<1>11. QED
  BY <1>4, <1>6, <1>8, <1>9, <1>10 DEF SchedulerIInv, EachDueOnce

LEMMA HookReturnsInv == ASSUME SchedulerIInv, NEW k \in Ticks, HookReturns(k) PROVE SchedulerIInv'
<1>1. Active(k) /\ tick[k].last \in tick[k].last .. stamps
  BY BoundAssumption DEF SchedulerIInv, SchedulerTypeOK, HookReturns, Active
<1>2. Moves(k, "visiting", tick[k].last)
  <2>1. tick[k] \in [stage : {"idle", "visiting", "firing"}, since : Times, at : Times,
                     last : 0 .. stamps]
    BY DEF SchedulerIInv, SchedulerTypeOK
  <2>2. [tick[k] EXCEPT !.stage = "visiting"]
          = [stage |-> "visiting", since |-> tick[k].since, at |-> tick[k].at,
             last |-> tick[k].last]
    BY <2>1
  <2>3. QED
    BY <2>2 DEF HookReturns, Moves
<1>3. /\ \A j \in Ticks : /\ tick'[j].since = tick[j].since /\ tick'[j].at = tick[j].at
                          /\ Active(j)' <=> Active(j)
      /\ \A j \in Ticks : tick'[j].last = tick[j].last
      /\ tick' \in [Ticks -> [stage : {"idle", "visiting", "firing"}, since : Times,
                              at : Times, last : 0 .. stamps]]
      /\ WindowInv' /\ ArmedInv'
  BY <1>1, <1>2, MovesFacts
<1>4. SchedulerTypeOK'
  BY <1>3 DEF SchedulerIInv, SchedulerTypeOK, HookReturns
<1>5. FiredInv'
  BY <1>3 DEF SchedulerIInv, FiredInv, InWindowOf, HookReturns
<1>6. NothingMissed'
  <2> SUFFICES ASSUME NEW s \in schedules, NEW d \in Due[s.name],
                      armed[s.stamp] <= d, d < lastTick
               PROVE  Covered(s, d)'
    BY DEF NothingMissed, Covered, HookReturns
  <2>1. Covered(s, d)
    BY DEF SchedulerIInv, EachDueOnce, NothingMissed, Covered
  <2>2. QED
    BY <1>3, <2>1 DEF Covered, HookReturns, Left, Active, ShouldFire, InWindow, Prev, Before
<1>7. QED
  BY <1>3, <1>4, <1>5, <1>6 DEF SchedulerIInv, EachDueOnce, OncePerDue, HookReturns

\* A tick ends only when it has left no registration.
LEMMA TickEndsInv == ASSUME SchedulerIInv, NEW k \in Ticks, TickEnds(k) PROVE SchedulerIInv'
<1>1. /\ tick'[k] = NoTick /\ \A j \in Ticks \ {k} : tick'[j] = tick[j]
      /\ ~Active(k)' /\ \A j \in Ticks : Active(j)' => j # k /\ Active(j)
  BY DEF SchedulerIInv, SchedulerTypeOK, TickEnds, Active, NoTick
<1>2. SchedulerTypeOK'
  <2>1. NoTick \in [stage : {"idle", "visiting", "firing"}, since : Times, at : Times,
                    last : 0 .. stamps]
    BY BoundAssumption DEF SchedulerIInv, SchedulerTypeOK, NoTick, Times
  <2>2. QED
    BY <2>1 DEF SchedulerIInv, SchedulerTypeOK, TickEnds
<1>3. WindowInv'
  BY <1>1 DEF SchedulerIInv, WindowInv, TickEnds
<1>4. FiredInv'
  BY <1>1 DEF SchedulerIInv, FiredInv, InWindowOf, TickEnds
<1>5. ArmedInv'
  BY DEF SchedulerIInv, ArmedInv, TickEnds
<1>6. NothingMissed'
  <2> SUFFICES ASSUME NEW s \in schedules, NEW d \in Due[s.name],
                      armed[s.stamp] <= d, d < lastTick
               PROVE  Covered(s, d)'
    BY DEF NothingMissed, Covered, TickEnds
  <2>1. Covered(s, d)
    BY DEF SchedulerIInv, EachDueOnce, NothingMissed, Covered
  <2>2. QED
    BY <1>1, <2>1 DEF Covered, TickEnds, Left, ShouldFire, InWindow, Prev, Before
<1>7. QED
  BY <1>2, <1>3, <1>4, <1>5, <1>6 DEF SchedulerIInv, EachDueOnce, OncePerDue, TickEnds
-----------------------------------------------------------------------------
\* Every action of the scheduler preserves the invariant.
LEMMA SchedulerStep == ASSUME SchedulerIInv, [SchedulerNext]_schedulerVars PROVE SchedulerIInv'
<1>1. ASSUME NEW n \in Scheduled, NEW on \in BOOLEAN, Register(n, on) PROVE SchedulerIInv'
  BY <1>1, RegisterInv
<1>2. ASSUME NEW s \in schedules, Unregister(s) PROVE SchedulerIInv'
  BY <1>2, UnregisterInv
<1>3. ASSUME NEW s \in schedules, NEW on \in BOOLEAN, SetEnabled(s, on) PROVE SchedulerIInv'
  BY <1>3, SetEnabledInv
<1>4. CASE Start
  BY <1>4, StartInv
<1>5. CASE Stop
  BY <1>5, StopInv
<1>6. CASE ClockTick
  BY <1>6, ClockTickInv
<1>7. ASSUME NEW k \in Ticks, Tick(k) PROVE SchedulerIInv'
  BY <1>7, TickInv
<1>8. ASSUME NEW k \in Ticks, Skip(k) PROVE SchedulerIInv'
  BY <1>8, SkipInv
<1>9. ASSUME NEW k \in Ticks, Fire(k) PROVE SchedulerIInv'
  BY <1>9, FireInv
<1>10. ASSUME NEW k \in Ticks, HookReturns(k) PROVE SchedulerIInv'
  BY <1>10, HookReturnsInv
<1>11. ASSUME NEW k \in Ticks, TickEnds(k) PROVE SchedulerIInv'
  BY <1>11, TickEndsInv
<1>12. CASE UNCHANGED schedulerVars
  <2>1. WindowInv' /\ FiredInv' /\ OncePerDue'
    BY <1>12, QuietSchedulerStep DEF schedulerVars
  <2>2. SchedulerTypeOK' /\ ArmedInv'
    BY <1>12 DEF SchedulerIInv, SchedulerTypeOK, ArmedInv, schedulerVars
  <2>3. NothingMissed'
    <3> SUFFICES ASSUME NEW s \in schedules, NEW d \in Due[s.name],
                        armed[s.stamp] <= d, d < lastTick
                 PROVE  Covered(s, d)'
      BY <1>12 DEF NothingMissed, Covered, schedulerVars
    <3>1. Covered(s, d)
      BY DEF SchedulerIInv, EachDueOnce, NothingMissed, Covered
    <3>2. QED
      BY <1>12, <3>1, StaysCovered DEF schedulerVars
  <2>4. QED
    BY <2>1, <2>2, <2>3 DEF SchedulerIInv, EachDueOnce
<1>13. QED
  BY <1>1, <1>2, <1>3, <1>4, <1>5, <1>6, <1>7, <1>8, <1>9, <1>10, <1>11, <1>12
  DEF SchedulerNext

\* A schedule that is on fires once for each time it is due, or once for several that
\* passed between two ticks, however the ticks overlap while schedules come and go and
\* the loop stops and starts (tick and shouldFireSince).
THEOREM EachDueTimeFiresOnce == SchedulerSpec => []SchedulerInv
<1>1. SchedulerIInv => SchedulerInv
  BY DEF SchedulerIInv, SchedulerInv
<1>2. QED
  BY <1>1, SchedulerInitInv, SchedulerStep, PTL DEF SchedulerSpec

(***************************************************************************)
(* Identities.                                                             *)
(***************************************************************************)
\* What a call needs of the step before: an identity in the table, a subject to act on.
CallsKnown ==
  \A c \in Callers :
    /\ call[c].step \in {"touch", "findLink", "insert", "read", "delete", "answered"} =>
         call[c].id \in identities
    /\ call[c].step \in {"find", "touch", "create", "refind", "findLink", "insert", "read",
                         "delete"} =>
         call[c].subject \in Subjects

IdentitiesIInv == IdentityInv /\ CallsKnown

\* The call of one process changes: the others stay, and it has its new step and identity.
LEMMA GoToCall ==
  ASSUME IdentitiesTypeOK, NEW c \in Callers, NEW step \in Steps, NEW i \in Ids \cup {NoId},
         GoTo(c, step, i)
  PROVE  /\ call' \in [Callers -> Call]
         /\ call'[c].step = step /\ call'[c].id = i
         /\ call'[c].subject = call[c].subject
         /\ \A d \in Callers \ {c} : call'[d] = call[d]
<1>1. call \in [Callers -> Call] /\ call[c] \in Call
  BY DEF IdentitiesTypeOK
<1>2. call' = [d \in Callers |-> IF d = c
                 THEN [step |-> step, id |-> i, subject |-> call[c].subject] ELSE call[d]]
  BY <1>1 DEF GoTo
<1>3. [step |-> step, id |-> i, subject |-> call[c].subject] \in Call
  BY <1>1 DEF Call
<1>4. QED
  BY <1>1, <1>2, <1>3

\* A step that writes nothing keeps the invariant when its call keeps what calls promise.
LEMMA QuietCallStep ==
  ASSUME IdentitiesIInv, NoWrite, NEW c \in Callers, call' \in [Callers -> Call],
         \A d \in Callers \ {c} : call'[d] = call[d],
         call'[c].step \in {"touch", "answered"} =>
           <<call'[c].id, call'[c].subject>> \in subjects \cup unlinked,
         call'[c].step \in {"touch", "findLink", "insert", "read", "delete", "answered"} =>
           call'[c].id \in identities,
         call'[c].step \in {"find", "touch", "create", "refind", "findLink", "insert",
                            "read", "delete"} => call'[c].subject \in Subjects
  PROVE  IdentitiesIInv'
<1>1. IdentitiesTypeOK'
  BY DEF IdentitiesIInv, IdentityInv, IdentitiesTypeOK, NoWrite
<1>2. OneIdentityPerSubject' /\ NoneHalfMade'
  BY DEF IdentitiesIInv, IdentityInv, OneIdentityPerSubject, NoneHalfMade, NoWrite
<1>3. AnswersHold'
  BY DEF IdentitiesIInv, IdentityInv, AnswersHold, NoWrite
<1>4. CallsKnown'
  BY DEF IdentitiesIInv, CallsKnown, NoWrite
<1>5. QED
  BY <1>1, <1>2, <1>3, <1>4 DEF IdentitiesIInv, IdentityInv

\* Initially.
LEMMA IdentitiesInitInv == ASSUME IdentitiesInit PROVE IdentitiesIInv
<1>1. NoCall \in Call
  BY DEF NoCall, Call, Steps
<1>2. IdentitiesTypeOK
  BY <1>1 DEF IdentitiesInit, IdentitiesTypeOK
<1>3. OneIdentityPerSubject /\ NoneHalfMade
  BY DEF IdentitiesInit, OneIdentityPerSubject, NoneHalfMade
<1>4. AnswersHold /\ CallsKnown
  BY DEF IdentitiesInit, AnswersHold, CallsKnown, NoCall
<1>5. QED
  BY <1>2, <1>3, <1>4 DEF IdentitiesIInv, IdentityInv

\* A new call.
LEMMA NewCallInv ==
  ASSUME IdentitiesIInv, NoWrite, NEW c \in Callers,
         NEW step \in {"find", "findLink", "read", "merge"},
         NEW i \in identities \cup {NoId}, NEW s \in Subjects \cup {NoSubject},
         step \in {"findLink", "read"} => i \in identities,
         step # "merge" => s \in Subjects,
         call' = [call EXCEPT ![c] = [step |-> step, id |-> i, subject |-> s]]
  PROVE  IdentitiesIInv'
<1>1. call \in [Callers -> Call] /\ identities \subseteq Ids
  BY DEF IdentitiesIInv, IdentityInv, IdentitiesTypeOK
<1>2. [step |-> step, id |-> i, subject |-> s] \in Call
  BY <1>1 DEF Call, Steps
<1>3. /\ call' \in [Callers -> Call]
      /\ call'[c] = [step |-> step, id |-> i, subject |-> s]
      /\ \A d \in Callers \ {c} : call'[d] = call[d]
  BY <1>1, <1>2
<1>4. QED
  BY <1>3, QuietCallStep

\* The steps that write nothing.
LEMMA FindInv == ASSUME IdentitiesIInv, NEW c \in Callers, Find(c) PROVE IdentitiesIInv'
<1>1. IdentitiesTypeOK /\ NoWrite /\ call[c].subject \in Subjects
  BY DEF IdentitiesIInv, IdentityInv, CallsKnown, Find
<1>2. CASE \E i \in Found(call[c].subject) : GoTo(c, "touch", i)
  <2>1. PICK i \in Found(call[c].subject) : GoTo(c, "touch", i)
    BY <1>2
  <2>2. i \in identities /\ i \in Ids /\ <<i, call[c].subject>> \in subjects
    BY <1>1, <2>1 DEF Found, IdentitiesTypeOK
  <2>3. "touch" \in Steps
    BY DEF Steps
  <2>4. QED
    BY <1>1, <2>1, <2>2, <2>3, GoToCall, QuietCallStep
<1>3. CASE GoTo(c, "create", NoId)
  <2>1. "create" \in Steps
    BY DEF Steps
  <2>2. QED
    BY <1>1, <1>3, <2>1, GoToCall, QuietCallStep
<1>4. QED
  BY <1>2, <1>3 DEF Find

LEMMA RefindInv == ASSUME IdentitiesIInv, NEW c \in Callers, Refind(c) PROVE IdentitiesIInv'
<1>1. IdentitiesTypeOK /\ NoWrite /\ call[c].subject \in Subjects
  BY DEF IdentitiesIInv, IdentityInv, CallsKnown, Refind
<1>2. CASE \E i \in Found(call[c].subject) : GoTo(c, "answered", i)
  <2>1. PICK i \in Found(call[c].subject) : GoTo(c, "answered", i)
    BY <1>2
  <2>2. i \in identities /\ i \in Ids /\ <<i, call[c].subject>> \in subjects
    BY <1>1, <2>1 DEF Found, IdentitiesTypeOK
  <2>3. "answered" \in Steps
    BY DEF Steps
  <2>4. QED
    BY <1>1, <2>1, <2>2, <2>3, GoToCall, QuietCallStep
<1>3. CASE GoTo(c, "threw", NoId)
  <2>1. "threw" \in Steps
    BY DEF Steps
  <2>2. QED
    BY <1>1, <1>3, <2>1, GoToCall, QuietCallStep
<1>4. QED
  BY <1>2, <1>3 DEF Refind

\* A call that goes on, without a write, to a step that promises nothing new.
LEMMA OnwardInv ==
  ASSUME IdentitiesIInv, NoWrite, NEW c \in Callers,
         NEW step \in Steps \ {"touch", "answered", "find"},
         step \in {"create", "refind", "insert", "delete", "findLink", "read"} =>
           call[c].step \in {"findLink", "read"},
         GoTo(c, step, call[c].id)
  PROVE  IdentitiesIInv'
<1>1. IdentitiesTypeOK /\ call[c].id \in Ids \cup {NoId}
  BY DEF IdentitiesIInv, IdentityInv, IdentitiesTypeOK, Call
<1>2. /\ call' \in [Callers -> Call]
      /\ call'[c].step = step /\ call'[c].id = call[c].id
      /\ call'[c].subject = call[c].subject
      /\ \A d \in Callers \ {c} : call'[d] = call[d]
  BY <1>1, GoToCall
<1>3. step \in {"create", "refind", "insert", "delete", "findLink", "read"} =>
        call[c].id \in identities /\ call[c].subject \in Subjects
  BY DEF IdentitiesIInv, CallsKnown
<1>4. QED
  BY <1>2, <1>3, QuietCallStep

\* Found identifiers aside, the steps that only decide.
LEMMA FindLinkInv == ASSUME IdentitiesIInv, NEW c \in Callers, FindLink(c) PROVE IdentitiesIInv'
<1>1. NoWrite /\ call[c].step = "findLink"
  BY DEF FindLink
<1>2. PICK step \in {"insert", "ended", "threw"} : GoTo(c, step, call[c].id)
  BY DEF FindLink
<1>3. step \in Steps \ {"touch", "answered", "find"}
  BY DEF Steps
<1>4. QED
  BY <1>1, <1>2, <1>3, OnwardInv

LEMMA ReadInv == ASSUME IdentitiesIInv, NEW c \in Callers, Read(c) PROVE IdentitiesIInv'
<1>1. NoWrite /\ call[c].step = "read"
  BY DEF Read
<1>2. PICK step \in {"ended", "threw", "delete"} : GoTo(c, step, call[c].id)
  BY DEF Read
<1>3. step \in Steps \ {"touch", "answered", "find"}
  BY DEF Steps
<1>4. QED
  BY <1>1, <1>2, <1>3, OnwardInv

LEMMA MergeInv == ASSUME IdentitiesIInv, NEW c \in Callers, Merge(c) PROVE IdentitiesIInv'
<1>1. NoWrite /\ GoTo(c, "threw", call[c].id)
  BY DEF Merge
<1>2. "threw" \in Steps \ {"touch", "answered", "find"}
  BY DEF Steps
<1>3. QED
  BY <1>1, <1>2, OnwardInv

LEMMA TouchInv == ASSUME IdentitiesIInv, NEW c \in Callers, Touch(c) PROVE IdentitiesIInv'
<1>1. IdentitiesTypeOK /\ NoWrite /\ call[c].step = "touch"
      /\ GoTo(c, "answered", call[c].id)
  BY DEF IdentitiesIInv, IdentityInv, Touch
<1>2. /\ call[c].id \in identities /\ call[c].id \in Ids
      /\ <<call[c].id, call[c].subject>> \in subjects \cup unlinked
  BY <1>1 DEF IdentitiesIInv, IdentityInv, CallsKnown, AnswersHold, IdentitiesTypeOK
<1>3. "answered" \in Steps
  BY DEF Steps
<1>4. QED
  BY <1>1, <1>2, <1>3, GoToCall, QuietCallStep

LEMMA CrashInv == ASSUME IdentitiesIInv, NEW c \in Callers, Crash(c) PROVE IdentitiesIInv'
<1>1. call \in [Callers -> Call] /\ NoCall \in Call /\ NoCall.step = "idle"
  BY DEF IdentitiesIInv, IdentityInv, IdentitiesTypeOK, NoCall, Call, Steps
<1>2. /\ call' \in [Callers -> Call] /\ call'[c] = NoCall
      /\ \A d \in Callers \ {c} : call'[d] = call[d]
  BY <1>1 DEF Crash
<1>3. NoWrite
  BY DEF Crash
<1>4. QED
  BY <1>1, <1>2, <1>3, QuietCallStep

\* The transaction of create.
LEMMA CreateInv == ASSUME IdentitiesIInv, NEW c \in Callers, Create(c) PROVE IdentitiesIInv'
<1> DEFINE s == call[c].subject
<1>1. IdentitiesTypeOK /\ s \in Subjects
  BY DEF IdentitiesIInv, IdentityInv, CallsKnown, Create
<1>2. CASE Collides(s)
  <2>1. NoWrite /\ GoTo(c, "refind", NoId)
    BY <1>2 DEF Create
  <2>2. "refind" \in Steps
    BY DEF Steps
  <2>3. QED
    BY <1>1, <2>1, <2>2, GoToCall, QuietCallStep
<1>3. CASE ~Collides(s)
  <2>1. PICK i \in Ids \ identities :
          /\ GoTo(c, "answered", i)
          /\ identities' = identities \cup {i}
          /\ subjects' = subjects \cup {<<i, s>>}
          /\ unlinked' = unlinked
    BY <1>3 DEF Create
  <2>2. "answered" \in Steps
    BY DEF Steps
  <2>3. /\ call' \in [Callers -> Call]
        /\ call'[c].step = "answered" /\ call'[c].id = i /\ call'[c].subject = s
        /\ \A d \in Callers \ {c} : call'[d] = call[d]
    BY <1>1, <2>1, <2>2, GoToCall
  <2>4. IdentitiesTypeOK'
    BY <1>1, <2>1, <2>3 DEF IdentitiesTypeOK
  <2>5. OneIdentityPerSubject'
    BY <1>1, <1>3, <2>1
       DEF IdentitiesIInv, IdentityInv, OneIdentityPerSubject, Collides, IdentitiesTypeOK
  <2>6. AnswersHold'
    BY <1>1, <2>1, <2>3 DEF IdentitiesIInv, IdentityInv, AnswersHold
  <2>7. NoneHalfMade'
    BY <1>1, <2>1 DEF IdentitiesIInv, IdentityInv, NoneHalfMade
  <2>8. CallsKnown'
    BY <1>1, <2>1, <2>3 DEF IdentitiesIInv, CallsKnown
  <2>9. QED
    BY <2>4, <2>5, <2>6, <2>7, <2>8 DEF IdentitiesIInv, IdentityInv
<1>4. QED
  BY <1>2, <1>3

\* The INSERT OR IGNORE of linkSubject.
LEMMA InsertInv == ASSUME IdentitiesIInv, NEW c \in Callers, Insert(c) PROVE IdentitiesIInv'
<1> DEFINE pair == <<call[c].id, call[c].subject>>
<1>1. /\ IdentitiesTypeOK /\ call[c].subject \in Subjects
      /\ call[c].id \in identities /\ call[c].id \in Ids
  BY DEF IdentitiesIInv, IdentityInv, CallsKnown, Insert, IdentitiesTypeOK
<1>2. "ended" \in Steps /\ GoTo(c, "ended", call[c].id)
  BY DEF Steps, Insert
<1>3. /\ call' \in [Callers -> Call] /\ call'[c].step = "ended"
      /\ \A d \in Callers \ {c} : call'[d] = call[d]
  BY <1>1, <1>2, GoToCall
<1>4. /\ identities' = identities /\ unlinked' = unlinked
      /\ subjects \subseteq subjects'
      /\ \/ subjects' = subjects
         \/ subjects' = subjects \cup {pair} /\ ~Collides(call[c].subject)
  BY DEF Insert
<1>5. IdentitiesTypeOK'
  BY <1>1, <1>3, <1>4 DEF IdentitiesTypeOK
<1>6. OneIdentityPerSubject'
  BY <1>1, <1>4 DEF IdentitiesIInv, IdentityInv, OneIdentityPerSubject, Collides, IdentitiesTypeOK
<1>7. AnswersHold'
  BY <1>3, <1>4 DEF IdentitiesIInv, IdentityInv, AnswersHold
<1>8. NoneHalfMade'
  BY <1>4 DEF IdentitiesIInv, IdentityInv, NoneHalfMade
<1>9. CallsKnown'
  BY <1>3, <1>4 DEF IdentitiesIInv, CallsKnown
<1>10. QED
  BY <1>5, <1>6, <1>7, <1>8, <1>9 DEF IdentitiesIInv, IdentityInv

\* The DELETE of unlinkSubject.
LEMMA DeleteInv == ASSUME IdentitiesIInv, NEW c \in Callers, Delete(c) PROVE IdentitiesIInv'
<1> DEFINE pair == <<call[c].id, call[c].subject>>
<1>1. IdentitiesTypeOK /\ call[c].id \in Ids
  BY DEF IdentitiesIInv, IdentityInv, CallsKnown, Delete, IdentitiesTypeOK
<1>2. "ended" \in Steps /\ GoTo(c, "ended", call[c].id)
  BY DEF Steps, Delete
<1>3. /\ call' \in [Callers -> Call] /\ call'[c].step = "ended"
      /\ \A d \in Callers \ {c} : call'[d] = call[d]
  BY <1>1, <1>2, GoToCall
<1>4. /\ identities' = identities /\ subjects' = subjects \ {pair}
      /\ unlinked' = unlinked \cup ({pair} \cap subjects)
  BY DEF Delete
<1>5. subjects' \cup unlinked' = subjects \cup unlinked /\ subjects' \subseteq subjects
  BY <1>4
<1>6. IdentitiesTypeOK'
  BY <1>1, <1>3, <1>4 DEF IdentitiesTypeOK
<1>7. OneIdentityPerSubject'
  BY <1>5 DEF IdentitiesIInv, IdentityInv, OneIdentityPerSubject
<1>8. AnswersHold'
  BY <1>3, <1>5 DEF IdentitiesIInv, IdentityInv, AnswersHold
<1>9. NoneHalfMade'
  BY <1>4, <1>5 DEF IdentitiesIInv, IdentityInv, NoneHalfMade
<1>10. CallsKnown'
  BY <1>3, <1>4 DEF IdentitiesIInv, CallsKnown
<1>11. QED
  BY <1>6, <1>7, <1>8, <1>9, <1>10 DEF IdentitiesIInv, IdentityInv

LEMMA IdentityStepInv == ASSUME IdentitiesIInv, [IdentitiesNext]_identityVars PROVE IdentitiesIInv'
<1>1. CASE UNCHANGED identityVars
  BY <1>1 DEF identityVars, IdentitiesIInv, IdentityInv, IdentitiesTypeOK, OneIdentityPerSubject,
              AnswersHold, NoneHalfMade, CallsKnown
<1>2. CASE IdentitiesNext
  <2>1. PICK c \in Callers :
          \/ IdentityStep(c)
          \/ \E s \in Subjects : CallGetOrCreate(c, s)
          \/ \E i \in identities, s \in Subjects, step \in {"findLink", "read"} :
               CallOn(c, step, i, s)
          \/ \E i \in identities : CallOn(c, "merge", i, NoSubject)
    BY <1>2 DEF IdentitiesNext
  <2>2. CASE IdentityStep(c)
    BY <2>2, FindInv, TouchInv, CreateInv, RefindInv, FindLinkInv, InsertInv, ReadInv,
       DeleteInv, MergeInv, CrashInv DEF IdentityStep
  <2>3. CASE \E s \in Subjects : CallGetOrCreate(c, s)
    BY <2>3, NewCallInv DEF CallGetOrCreate
  <2>4. CASE \E i \in identities, s \in Subjects, step \in {"findLink", "read"} :
               CallOn(c, step, i, s)
    BY <2>4, NewCallInv DEF CallOn
  <2>5. CASE \E i \in identities : CallOn(c, "merge", i, NoSubject)
    BY <2>5, NewCallInv DEF CallOn
  <2>6. QED
    BY <2>1, <2>2, <2>3, <2>4, <2>5
<1>3. QED
  BY <1>1, <1>2

\* The catalog of people is well formed, a subject has one identity, an answered call
\* holds, and no identity is half made, for any number of processes (session-identity.ts).
THEOREM IdentitiesCorrect == IdentitiesSpec => []IdentityInv
<1>1. IdentitiesInit => IdentitiesIInv
  BY IdentitiesInitInv
<1>2. IdentitiesIInv /\ [IdentitiesNext]_identityVars => IdentitiesIInv'
  BY IdentityStepInv
<1>3. IdentitiesIInv => IdentityInv
  BY DEF IdentitiesIInv
<1>4. QED
  BY <1>1, <1>2, <1>3, PTL DEF IdentitiesSpec

(***************************************************************************)
(* The plan book.                                                          *)
(***************************************************************************)

\* Who runs a plan lives; no row is of a later time; and unless the home is shared one
\* process lives at most.
BookIInv ==
  /\ BookInv
  /\ \A p \in Processes, n \in Book : runs[p][n] > 0 => p \in alive
  /\ \A n \in Book : row[n].at <= time
  /\ ~shared => \A p, q \in alive : p = q

LEMMA BookInitInv == ASSUME BookInit PROVE BookIInv
<1>1. 0 \in 0 .. MaxClock /\ 0 \in 0 .. MaxRuns /\ NoRow \in Rows
  BY BookAssumption DEF Rows
<1>2. BookTypeOK
  BY <1>1 DEF BookInit, BookTypeOK
<1>3. QED
  BY <1>2, BookAssumption DEF BookInit, BookIInv, BookInv, NothingLooksAlive, EveryPlanOffered,
    NoRow

\* What is unfinished and not running is paused.
LEMMA Unfinished ==
  ASSUME BookTypeOK', NothingLooksAlive'
  PROVE  EveryPlanOffered'
<1>1. \A n \in Stored' : row'[n].status \in {"running", "paused", "completed", "failed"}
  BY DEF BookTypeOK, Rows, Stored
<1>2. QED
  BY <1>1 DEF NothingLooksAlive, EveryPlanOffered, PausedPlans, Final

\* One row is saved, while the calls that run the plan stay or the plan is run no longer.
LEMMA SaveRowInv ==
  ASSUME BookIInv, NEW n \in Book, NEW st \in {"running", "paused", "completed", "failed"},
         SaveRow(n, st), UNCHANGED <<time, alive, shared>>,
         runs' \in [Processes -> [Book -> 0 .. MaxRuns]],
         \A p \in Processes, m \in Book : runs'[p][m] > 0 => p \in alive,
         \A p \in Processes, m \in Book \ {n} : runs'[p][m] = runs[p][m],
         st = "running" => \E p \in Processes : runs'[p][n] > 0
  PROVE  BookIInv'
<1>1. /\ row'[n] = [status |-> st, at |-> time]
      /\ \A m \in Book \ {n} : row'[m] = row[m]
      /\ row' \in [Book -> Rows] /\ time \in Nat
  BY BookAssumption DEF BookIInv, BookInv, BookTypeOK, SaveRow, Rows
<1>2. BookTypeOK'
  BY <1>1 DEF BookIInv, BookInv, BookTypeOK
<1>3. NothingLooksAlive'
  <2> SUFFICES ASSUME alive # {}, ~shared, NEW m \in Stored', row'[m].status = "running"
               PROVE  \E p \in Processes : runs'[p][m] > 0
    BY DEF NothingLooksAlive, RunByAny, RunBy, Stored
  <2>1. CASE m = n
    BY <1>1, <2>1
  <2>2. CASE m # n
    <3>1. m \in Stored /\ row[m].status = "running"
      BY <1>1, <2>2 DEF Stored
    <3>2. \E p \in Processes : runs[p][m] > 0
      BY <3>1 DEF BookIInv, BookInv, NothingLooksAlive, RunByAny, RunBy
    <3>3. QED
      BY <2>2, <3>1, <3>2 DEF Stored
  <2>3. QED
    BY <2>1, <2>2
<1>4. EveryPlanOffered'
  BY <1>2, <1>3, Unfinished
<1>5. \A m \in Book : row'[m].at <= time'
  BY <1>1 DEF BookIInv
<1>6. QED
  BY <1>2, <1>3, <1>4, <1>5 DEF BookIInv, BookInv

\* A call of runPlan begins.
LEMMA RunInv == ASSUME BookIInv, NEW p \in alive, NEW n \in Book, Run(p, n) PROVE BookIInv'
<1>1. p \in Processes /\ runs \in [Processes -> [Book -> 0 .. MaxRuns]]
  BY DEF BookIInv, BookInv, BookTypeOK
<1>2. runs[p][n] + 1 \in 0 .. MaxRuns /\ runs[p][n] + 1 > 0
  BY <1>1, BookAssumption DEF Run
<1>3. runs' = [runs EXCEPT ![p] = [runs[p] EXCEPT ![n] = runs[p][n] + 1]]
  BY DEF Run
<1>4. runs' \in [Processes -> [Book -> 0 .. MaxRuns]] /\ runs'[p][n] > 0
      /\ \A q \in Processes, m \in Book : q # p \/ m # n => runs'[q][m] = runs[q][m]
  BY <1>1, <1>2, <1>3
<1>5. \A q \in Processes, m \in Book : runs'[q][m] > 0 => q \in alive
  BY <1>4 DEF BookIInv
<1>6. QED
  BY <1>1, <1>4, <1>5, SaveRowInv DEF Run

LEMMA FinishRunInv ==
  ASSUME BookIInv, NEW p \in alive, NEW n \in Book,
         NEW st \in {"completed", "failed", "paused"}, FinishRun(p, n, st)
  PROVE  BookIInv'
<1>1. p \in Processes /\ runs \in [Processes -> [Book -> 0 .. MaxRuns]] /\ runs[p][n] > 0
  BY DEF BookIInv, BookInv, BookTypeOK, FinishRun, RunBy
<1>2. runs[p][n] - 1 \in 0 .. MaxRuns
  BY <1>1, BookAssumption
<1>3. runs' = [runs EXCEPT ![p] = [runs[p] EXCEPT ![n] = runs[p][n] - 1]]
  BY DEF FinishRun
<1>4. runs' \in [Processes -> [Book -> 0 .. MaxRuns]]
      /\ \A q \in Processes, m \in Book : q # p \/ m # n => runs'[q][m] = runs[q][m]
  BY <1>1, <1>2, <1>3
<1>5. \A q \in Processes, m \in Book : runs'[q][m] > 0 => q \in alive
  BY <1>4 DEF BookIInv
<1>6. QED
  BY <1>4, <1>5, SaveRowInv DEF FinishRun

\* A step of a plan is over, or a person pauses, cancels, abandons or retries one.
LEMMA OnlyRowInv ==
  ASSUME BookIInv, NEW n \in Book, NEW st \in {"running", "paused", "completed", "failed"},
         SaveRow(n, st), UNCHANGED <<time, runs, alive, shared>>,
         st = "running" => \E p \in Processes : n \in RunBy(p)
  PROVE  BookIInv'
BY SaveRowInv DEF BookIInv, BookInv, BookTypeOK, RunBy

LEMMA DieInv == ASSUME BookIInv, NEW p \in Processes, Die(p) PROVE BookIInv'
<1>1. runs' \in [Processes -> [Book -> 0 .. MaxRuns]]
      /\ \A n \in Book : runs'[p][n] = 0
      /\ \A q \in Processes \ {p} : runs'[q] = runs[q]
  <2>1. [n \in Book |-> 0] \in [Book -> 0 .. MaxRuns]
    BY BookAssumption
  <2>2. QED
    BY <2>1 DEF BookIInv, BookInv, BookTypeOK, Die
<1>2. BookTypeOK'
  BY <1>1 DEF BookIInv, BookInv, BookTypeOK, Die
<1>3. ~shared => alive' = {}
  BY DEF BookIInv, Die
<1>4. NothingLooksAlive' /\ EveryPlanOffered'
  BY <1>3 DEF NothingLooksAlive, EveryPlanOffered, Die
<1>5. \A q \in Processes, n \in Book : runs'[q][n] > 0 => q \in alive'
  BY <1>1 DEF BookIInv, Die
<1>6. QED
  BY <1>2, <1>4, <1>5 DEF BookIInv, BookInv, Die

\* A process that starts alone finds no plan that runs, and pauses what looks alive.
LEMMA StartProcessInv == ASSUME BookIInv, NEW p \in Processes, StartProcess(p) PROVE BookIInv'
<1>1. time \in Nat /\ time' = time + 1 /\ time' \in 0 .. MaxClock
  BY BookAssumption DEF BookIInv, BookInv, BookTypeOK, StartProcess
<1>2. \A n \in Book : row[n] \in Rows /\ row[n].at \in Nat /\ row[n].at <= time
  BY BookAssumption DEF BookIInv, BookInv, BookTypeOK, Rows, NoRow
<1>3. \A n \in Book : row'[n] = IF n \in Interrupted(time')
                                THEN [status |-> "paused", at |-> time'] ELSE row[n]
  BY DEF StartProcess
<1>4. row' \in [Book -> Rows] /\ \A n \in Book : row'[n].at <= time'
  <2>1. [status |-> "paused", at |-> time'] \in Rows
    BY <1>1 DEF Rows
  <2>2. row' \in [Book -> Rows]
    BY <1>2, <2>1 DEF StartProcess
  <2>3. QED
    BY <1>1, <1>2, <1>3, <2>2
<1>5. BookTypeOK'
  BY <1>1, <1>4 DEF BookIInv, BookInv, BookTypeOK, StartProcess
<1>6. \A n \in Book : row'[n].status # "running" \/ row'[n] = NoRow
  BY <1>1, <1>2, <1>3 DEF Interrupted, Stored
<1>7. NothingLooksAlive'
  BY <1>6 DEF NothingLooksAlive, Stored
<1>8. EveryPlanOffered'
  BY <1>5, <1>7, Unfinished
<1>9. (\A q \in Processes, n \in Book : runs[q][n] > 0 => q \in alive)'
  BY DEF BookIInv, StartProcess
<1>10. (~shared => \A q, r \in alive : q = r)'
  BY DEF StartProcess
<1>11. QED
  BY <1>4, <1>5, <1>7, <1>8, <1>9, <1>10 DEF BookIInv, BookInv

LEMMA TimePassesInv == ASSUME BookIInv, TimePasses PROVE BookIInv'
<1>1. time' \in 0 .. MaxClock /\ \A n \in Book : row[n].at <= time'
  <2>1. time \in Nat /\ \A n \in Book : row[n].at \in Nat
    BY BookAssumption DEF BookIInv, BookInv, BookTypeOK, Rows, NoRow
  <2>2. QED
    BY <2>1, BookAssumption DEF BookIInv, TimePasses
<1>2. BookInv'
  BY <1>1 DEF BookIInv, BookInv, BookTypeOK, NothingLooksAlive, EveryPlanOffered, TimePasses,
    Stored, RunByAny, RunBy, PausedPlans
<1>3. QED
  BY <1>1, <1>2 DEF BookIInv, TimePasses

LEMMA BookStep == ASSUME BookIInv, [BookNext]_bookVars PROVE BookIInv'
<1>1. CASE TimePasses
  BY <1>1, TimePassesInv
<1>2. ASSUME NEW p \in Processes, StartProcess(p) \/ Die(p) PROVE BookIInv'
  BY <1>2, StartProcessInv, DieInv
<1>3. ASSUME NEW p \in alive, NEW n \in Book,
             NewPlan(p, n) \/ RunById(p, n) \/ ResumeActive(p, n)
      PROVE  BookIInv'
  BY <1>3, RunInv DEF NewPlan, RunById, ResumeActive
<1>4. ASSUME NEW p \in alive, NEW n \in Book, Progress(p, n) PROVE BookIInv'
  BY <1>4, OnlyRowInv DEF Progress, BookIInv, BookInv, BookTypeOK
<1>5. ASSUME NEW p \in alive, NEW n \in Book, NEW st \in {"completed", "failed", "paused"},
             FinishRun(p, n, st)
      PROVE  BookIInv'
  BY <1>5, FinishRunInv
<1>6. ASSUME NEW n \in Book,
             PauseActive(n) \/ CancelActive(n) \/ AbandonById(n) \/ RetryStepOf(n)
      PROVE  BookIInv'
  BY <1>6, OnlyRowInv DEF PauseActive, CancelActive, AbandonById, RetryStepOf
<1>7. CASE UNCHANGED bookVars
  BY <1>7 DEF bookVars, BookIInv, BookInv, BookTypeOK, NothingLooksAlive, EveryPlanOffered,
    Stored, RunByAny, RunBy, PausedPlans
<1>8. QED
  BY <1>1, <1>2, <1>3, <1>4, <1>5, <1>6, <1>7 DEF BookNext

\* While a process has the home to itself, a plan that looks alive is one that it runs, and
\* every other unfinished plan can be resumed (reconcileInterruptedPlans and the controls).
THEOREM BookTellsPlansApart == BookSpec => []BookInv
<1>1. BookIInv => BookInv
  BY DEF BookIInv
<1>2. QED
  BY <1>1, BookInitInv, BookStep, PTL DEF BookSpec

(***************************************************************************)
(* The channels: the mailbox.                                              *)
(***************************************************************************)

\* The mails poll p still holds.
Holds(p) == poll[p].parsing \cup InBatch(p)

\* A mail that has been answered or dropped, or will be by a poll that is past its fetch.
Dealt(u) ==
  \/ turns[u] > 0
  \/ u \in unread
  \/ \E p \in Polls : poll[p].stage \in {"reading", "turn"} /\ u \in Holds(p)

\* What was answered has been seen, polls hold mails there are, and what lies below a mail
\* that a poll holds is dealt with or held by the same poll.
MailIInv ==
  /\ MailboxInv
  /\ \A u \in Uids : turns[u] = IF u \in seenUids THEN 1 ELSE 0
  /\ \A p \in Polls : Holds(p) \subseteq 1 .. box
  /\ \A u \in 1 .. lastUid : Dealt(u)
  /\ \A p \in Polls : \A v \in Holds(p) : \A u \in 1 .. v : Dealt(u) \/ u \in Holds(p)

PollType ==
  [stage : {"idle", "fetching", "reading", "turn"}, parsing : SUBSET Uids, batch : Seq(Uids)]

Elements(q) == {q[i] : i \in DOMAIN q}

\* The elements of a sequence without its head, and with another at its end.
LEMMA ElementsOfTail ==
  ASSUME NEW S, NEW q \in Seq(S), q # <<>>
  PROVE  Elements(q) = Elements(Tail(q)) \cup {Head(q)}
<1>1. /\ Head(q) = q[1] /\ Len(q) \in Nat \ {0} /\ DOMAIN q = 1 .. Len(q)
      /\ Tail(q) \in Seq(S) /\ Len(Tail(q)) = Len(q) - 1
      /\ \A i \in 1 .. Len(Tail(q)) : Tail(q)[i] = q[i + 1]
  BY HeadTailProperties
<1>2. DOMAIN Tail(q) = 1 .. Len(q) - 1
  BY <1>1
<1>3. ASSUME NEW i \in DOMAIN q PROVE q[i] \in Elements(Tail(q)) \cup {Head(q)}
  <2>1. CASE i = 1
    BY <1>1, <2>1
  <2>2. CASE i # 1
    <3>1. i - 1 \in DOMAIN Tail(q) /\ Tail(q)[i - 1] = q[i]
      BY <1>1, <1>2, <2>2
    <3>2. QED
      BY <3>1 DEF Elements
  <2>3. QED
    BY <2>1, <2>2
<1>4. ASSUME NEW i \in DOMAIN Tail(q) PROVE Tail(q)[i] \in Elements(q)
  <2>1. i + 1 \in DOMAIN q /\ Tail(q)[i] = q[i + 1]
    BY <1>1, <1>2
  <2>2. QED
    BY <2>1 DEF Elements
<1>5. Head(q) \in Elements(q)
  BY <1>1 DEF Elements
<1>6. QED
  BY <1>3, <1>4, <1>5 DEF Elements

LEMMA ElementsOfAppend ==
  ASSUME NEW S, NEW q \in Seq(S), NEW e \in S
  PROVE  Elements(Append(q, e)) = Elements(q) \cup {e}
<1>1. /\ Append(q, e) \in Seq(S) /\ Len(Append(q, e)) = Len(q) + 1
      /\ \A i \in 1 .. Len(q) : Append(q, e)[i] = q[i]
      /\ Append(q, e)[Len(q) + 1] = e
  BY AppendProperties
<1>2. DOMAIN q = 1 .. Len(q) /\ DOMAIN Append(q, e) = 1 .. Len(q) + 1 /\ Len(q) \in Nat
  BY <1>1
<1>3. ASSUME NEW i \in DOMAIN Append(q, e) PROVE Append(q, e)[i] \in Elements(q) \cup {e}
  <2>1. CASE i = Len(q) + 1
    BY <1>1, <2>1
  <2>2. CASE i # Len(q) + 1
    <3>1. i \in DOMAIN q /\ Append(q, e)[i] = q[i]
      BY <1>1, <1>2, <2>2
    <3>2. QED
      BY <3>1 DEF Elements
  <2>3. QED
    BY <2>1, <2>2
<1>4. ASSUME NEW i \in DOMAIN q PROVE q[i] \in Elements(Append(q, e))
  <2>1. i \in DOMAIN Append(q, e) /\ Append(q, e)[i] = q[i]
    BY <1>1, <1>2
  <2>2. QED
    BY <2>1 DEF Elements
<1>5. e \in Elements(Append(q, e))
  BY <1>1, <1>2 DEF Elements
<1>6. QED
  BY <1>3, <1>4, <1>5 DEF Elements

\* Initially no poll holds a mail.
LEMMA MailInitInv == ASSUME MailboxInit PROVE MailIInv
<1>1. 0 \in 0 .. MaxUid /\ 0 \in 0 .. MaxRestarts /\ NoPoll \in PollType /\ 0 \in Nat
  BY MailboxAssumption DEF PollType, NoPoll
<1>2. \A p \in Polls : Holds(p) = {}
  BY DEF Holds, InBatch, MailboxInit, NoPoll
<1>3. MailboxTypeOK
  BY <1>1 DEF MailboxInit, MailboxTypeOK, PollType
<1>4. lastUid = 0 /\ 1 .. lastUid = {} /\ \A u \in Uids : turns[u] = 0
  BY DEF MailboxInit
<1>5. QED
  BY <1>2, <1>3, <1>4 DEF MailIInv, MailboxInv, EachMailOnce, OneTurnEach, NoMailSkipped,
    MailboxInit

\* What the strengthened parts say is what each mail being answered once takes.
LEMMA MailOnce ==
  ASSUME \A u \in Uids : turns'[u] = IF u \in seenUids' THEN 1 ELSE 0,
         \A u \in 1 .. lastUid' : Dealt(u)'
  PROVE  EachMailOnce'
<1>1. OneTurnEach'
  BY DEF OneTurnEach, Uids
<1>2. NoMailSkipped'
  BY DEF NoMailSkipped, Dealt, Holds
<1>3. QED
  BY <1>1, <1>2 DEF EachMailOnce

\* A poll goes on, and what it no longer holds is dropped or answered, or it fails in its
\* fetch.
LEMMA PollGoesOn ==
  ASSUME MailIInv, NEW p \in Polls, MailboxTypeOK',
         \A q \in Polls \ {p} : poll'[q] = poll[q],
         UNCHANGED <<box, lastUid, turns, seenUids>>, unread \subseteq unread',
         Holds(p)' \subseteq Holds(p),
         poll[p].stage \in {"reading", "turn"} =>
           \A u \in Holds(p) :
             \/ u \in unread' \/ turns[u] > 0
             \/ u \in Holds(p)' /\ poll'[p].stage \in {"reading", "turn"},
         \/ Holds(p)' = {}
         \/ \A u \in Holds(p) : u \in Holds(p)' \/ u \in unread' \/ turns[u] > 0
  PROVE  MailIInv'
<1>1. \A q \in Polls \ {p} : Holds(q)' = Holds(q)
  BY DEF Holds, InBatch
<1>2. ASSUME NEW u, Dealt(u) PROVE Dealt(u)'
  <2>1. CASE turns[u] > 0 \/ u \in unread
    BY <2>1 DEF Dealt
  <2>2. ASSUME NEW q \in Polls, poll[q].stage \in {"reading", "turn"}, u \in Holds(q)
        PROVE  Dealt(u)'
    BY <1>1, <2>2 DEF Dealt
  <2>3. QED
    BY <1>2, <2>1, <2>2 DEF Dealt
<1>3. \A u \in 1 .. lastUid' : Dealt(u)'
  BY <1>2 DEF MailIInv
<1>4. \A q \in Polls : Holds(q)' \subseteq 1 .. box'
  BY <1>1 DEF MailIInv
<1>5. ASSUME NEW q \in Polls, NEW v \in Holds(q)', NEW u \in 1 .. v
      PROVE  Dealt(u)' \/ u \in Holds(q)'
  <2>1. Dealt(u) \/ u \in Holds(q)
    BY <1>1 DEF MailIInv
  <2>2. QED
    BY <1>1, <1>2, <2>1 DEF Dealt
<1>6. EachMailOnce'
  BY <1>3, MailOnce DEF MailIInv
<1>7. QED
  BY <1>3, <1>4, <1>5, <1>6 DEF MailIInv, MailboxInv

\* A poll has three parts.
LEMMA PollParts ==
  ASSUME NEW r \in PollType
  PROVE  /\ \A P, B : [r EXCEPT !.parsing = P, !.batch = B]
                        = [stage |-> r.stage, parsing |-> P, batch |-> B]
         /\ \A P : [r EXCEPT !.parsing = P]
                     = [stage |-> r.stage, parsing |-> P, batch |-> r.batch]
         /\ \A B : [r EXCEPT !.batch = B]
                     = [stage |-> r.stage, parsing |-> r.parsing, batch |-> B]
         /\ \A st, B : [r EXCEPT !.stage = st, !.batch = B]
                         = [stage |-> st, parsing |-> r.parsing, batch |-> B]
<1> SUFFICES ASSUME NEW P, NEW B, NEW st
             PROVE  /\ [r EXCEPT !.parsing = P, !.batch = B]
                         = [stage |-> r.stage, parsing |-> P, batch |-> B]
                    /\ [r EXCEPT !.parsing = P]
                         = [stage |-> r.stage, parsing |-> P, batch |-> r.batch]
                    /\ [r EXCEPT !.batch = B]
                         = [stage |-> r.stage, parsing |-> r.parsing, batch |-> B]
                    /\ [r EXCEPT !.stage = st, !.batch = B]
                         = [stage |-> st, parsing |-> r.parsing, batch |-> B]
  OBVIOUS
<1>1. ASSUME NEW S, NEW T, NEW Q, NEW a \in [stage : S, parsing : T, batch : Q]
      PROVE  [a EXCEPT !.parsing = P] = [stage |-> a.stage, parsing |-> P, batch |-> a.batch]
  OBVIOUS
<1>2. ASSUME NEW S, NEW T, NEW Q, NEW a \in [stage : S, parsing : T, batch : Q]
      PROVE  [a EXCEPT !.batch = B] = [stage |-> a.stage, parsing |-> a.parsing, batch |-> B]
  OBVIOUS
<1>3. ASSUME NEW S, NEW T, NEW Q, NEW a \in [stage : S, parsing : T, batch : Q]
      PROVE  [a EXCEPT !.stage = st] = [stage |-> st, parsing |-> a.parsing, batch |-> a.batch]
  OBVIOUS
<1> DEFINE c == [stage |-> r.stage, parsing |-> P, batch |-> r.batch]
           d == [stage |-> st, parsing |-> r.parsing, batch |-> r.batch]
<1>4. [r EXCEPT !.parsing = P] = c /\ [r EXCEPT !.stage = st] = d
  BY <1>1, <1>3 DEF PollType
<1>5. /\ [r EXCEPT !.parsing = P, !.batch = B] = [c EXCEPT !.batch = B]
      /\ [r EXCEPT !.stage = st, !.batch = B] = [d EXCEPT !.batch = B]
  BY <1>4
<1>6. /\ c \in [stage : {r.stage}, parsing : {P}, batch : {r.batch}]
      /\ d \in [stage : {st}, parsing : {r.parsing}, batch : {r.batch}]
  OBVIOUS
<1>7. /\ [c EXCEPT !.batch = B] = [stage |-> c.stage, parsing |-> c.parsing, batch |-> B]
      /\ [d EXCEPT !.batch = B] = [stage |-> d.stage, parsing |-> d.parsing, batch |-> B]
  <2> HIDE DEF c, d
  <2> QED
    BY <1>2, <1>6
<1>8. [r EXCEPT !.batch = B] = [stage |-> r.stage, parsing |-> r.parsing, batch |-> B]
  BY <1>2 DEF PollType
<1>9. QED
  BY <1>4, <1>5, <1>7, <1>8

\* The types of a poll that changes.
LEMMA PollTyped ==
  ASSUME MailIInv, NEW p \in Polls, NEW new \in PollType, poll' = [poll EXCEPT ![p] = new]
  PROVE  /\ poll' \in [Polls -> PollType] /\ poll'[p] = new
         /\ \A q \in Polls \ {p} : poll'[q] = poll[q]
BY DEF MailIInv, MailboxInv, MailboxTypeOK, PollType

LEMMA PollHas ==
  ASSUME MailIInv, NEW p \in Polls
  PROVE  /\ poll[p] \in PollType /\ poll[p].parsing \subseteq Uids
         /\ poll[p].batch \in Seq(Uids) /\ poll[p].stage \in {"idle", "fetching", "reading", "turn"}
         /\ Holds(p) = poll[p].parsing \cup Elements(poll[p].batch)
BY DEF MailIInv, MailboxInv, MailboxTypeOK, PollType, Holds, InBatch, Elements

LEMMA ParsedInv ==
  ASSUME MailIInv, NEW p \in Polls, NEW u \in Uids, Parsed(p, u)
  PROVE  MailIInv'
<1> DEFINE new == [stage |-> poll[p].stage, parsing |-> poll[p].parsing \ {u},
                   batch |-> Append(poll[p].batch, u)]
<1>1. new \in PollType
  BY PollHas, AppendProperties DEF PollType
<1>2. poll' = [poll EXCEPT ![p] = new]
  <2>1. poll \in [Polls -> PollType]
    BY DEF MailIInv, MailboxInv, MailboxTypeOK, PollType
  <2>2. poll' = [poll EXCEPT ![p] = [poll[p] EXCEPT
                   !.parsing = poll[p].parsing \ {u}, !.batch = Append(poll[p].batch, u)]]
    BY <2>1 DEF Parsed
  <2>3. [poll[p] EXCEPT !.parsing = poll[p].parsing \ {u}, !.batch = Append(poll[p].batch, u)]
          = new
    BY PollHas, PollParts
  <2>4. QED
    BY <2>2, <2>3
<1>3. /\ poll' \in [Polls -> PollType] /\ poll'[p] = new
      /\ \A q \in Polls \ {p} : poll'[q] = poll[q]
  BY <1>1, <1>2, PollTyped
<1>4. Holds(p)' = Holds(p)
  <2>1. Holds(p)' = new.parsing \cup Elements(new.batch)
    BY <1>3 DEF Holds, InBatch, Elements
  <2>2. Elements(new.batch) = Elements(poll[p].batch) \cup {u}
    BY PollHas, ElementsOfAppend
  <2>3. QED
    BY <2>1, <2>2, PollHas DEF Parsed
<1>5. MailboxTypeOK'
  BY <1>3 DEF MailIInv, MailboxInv, MailboxTypeOK, PollType, Parsed
<1>6. QED
  BY <1>3, <1>4, <1>5, PollGoesOn DEF Parsed

LEMMA ParseFailsInv ==
  ASSUME MailIInv, NEW p \in Polls, NEW u \in Uids, ParseFails(p, u)
  PROVE  MailIInv'
<1> DEFINE new == [stage |-> poll[p].stage, parsing |-> poll[p].parsing \ {u},
                   batch |-> poll[p].batch]
<1>1. new \in PollType
  BY PollHas DEF PollType
<1>2. poll' = [poll EXCEPT ![p] = new]
  <2>1. poll \in [Polls -> PollType]
    BY DEF MailIInv, MailboxInv, MailboxTypeOK, PollType
  <2>2. poll' = [poll EXCEPT ![p] = [poll[p] EXCEPT
                   !.parsing = poll[p].parsing \ {u}]]
    BY <2>1 DEF ParseFails
  <2>3. [poll[p] EXCEPT !.parsing = poll[p].parsing \ {u}]
          = new
    BY PollHas, PollParts
  <2>4. QED
    BY <2>2, <2>3
<1>3. /\ poll' \in [Polls -> PollType] /\ poll'[p] = new
      /\ \A q \in Polls \ {p} : poll'[q] = poll[q]
  BY <1>1, <1>2, PollTyped
<1>4. Holds(p)' \subseteq Holds(p) /\ Holds(p) \subseteq Holds(p)' \cup {u} /\ u \in Holds(p)
  <2>1. Holds(p)' = new.parsing \cup Elements(new.batch)
    BY <1>3 DEF Holds, InBatch, Elements
  <2>2. QED
    BY <2>1, PollHas DEF ParseFails
<1>5. MailboxTypeOK'
  <2>1. u \in 1 .. box
    BY <1>4 DEF MailIInv
  <2>2. QED
    BY <1>3, <2>1 DEF MailIInv, MailboxInv, MailboxTypeOK, PollType, ParseFails
<1>6. QED
  BY <1>3, <1>4, <1>5, PollGoesOn DEF ParseFails

\* The fetch or a turn is over: the poll reads on.
LEMMA ReadsOnInv ==
  ASSUME MailIInv, NEW p \in Polls, FetchEnds(p) \/ TurnEnds(p)
  PROVE  MailIInv'
<1> DEFINE new == [stage |-> "reading", parsing |-> poll[p].parsing, batch |-> poll[p].batch]
<1>1. new \in PollType
  BY PollHas DEF PollType
<1>2. poll' = [poll EXCEPT ![p] = new]
  BY PollHas DEF FetchEnds, TurnEnds, PollType
<1>3. /\ poll' \in [Polls -> PollType] /\ poll'[p] = new
      /\ \A q \in Polls \ {p} : poll'[q] = poll[q]
  BY <1>1, <1>2, PollTyped
<1>4. Holds(p)' = Holds(p)
  BY <1>3, PollHas DEF Holds, InBatch, Elements
<1>5. MailboxTypeOK'
  BY <1>3 DEF MailIInv, MailboxInv, MailboxTypeOK, PollType, FetchEnds, TurnEnds
<1>6. QED
  BY <1>3, <1>4, <1>5, PollGoesOn DEF FetchEnds, TurnEnds

\* A poll is over: it failed in its fetch, or drops what is still being parsed.
LEMMA PollOverInv ==
  ASSUME MailIInv, NEW p \in Polls, FetchFails(p) \/ PollEnds(p)
  PROVE  MailIInv'
<1>1. NoPoll \in PollType /\ poll' = [poll EXCEPT ![p] = NoPoll]
  BY DEF NoPoll, PollType, FetchFails, PollEnds
<1>2. /\ poll' \in [Polls -> PollType] /\ poll'[p] = NoPoll
      /\ \A q \in Polls \ {p} : poll'[q] = poll[q]
  BY <1>1, PollTyped
<1>3. Holds(p)' = {}
  BY <1>2 DEF Holds, InBatch, NoPoll
<1>4. poll[p].stage \in {"reading", "turn"} => Holds(p) \subseteq unread'
  <2>1. PollEnds(p) => Elements(poll[p].batch) = {}
    BY DEF PollEnds, Elements
  <2>2. QED
    BY <2>1, PollHas DEF FetchFails, PollEnds
<1>5. unread \subseteq unread' /\ unread' \subseteq unread \cup Holds(p)
  BY DEF FetchFails, PollEnds, Holds
<1>6. unread' \subseteq 1 .. box /\ timer' \in {"none", "set", "cleared"}
  BY <1>5 DEF MailIInv, MailboxInv, MailboxTypeOK, FetchFails, PollEnds, SetsTimer
<1>7. MailboxTypeOK'
  BY <1>2, <1>6 DEF MailIInv, MailboxInv, MailboxTypeOK, PollType, FetchFails, PollEnds
<1>8. QED
  BY <1>2, <1>3, <1>4, <1>5, <1>7, PollGoesOn DEF FetchFails, PollEnds

\* A poll starts: it holds every mail above the highest uid answered.
LEMMA StartPollInv == ASSUME MailIInv, NEW p \in Polls, StartPoll(p) PROVE MailIInv'
<1> DEFINE new == [stage |-> "fetching", parsing |-> Search(lastUid), batch |-> <<>>]
<1>1. /\ lastUid \in Nat /\ box \in Nat /\ MaxUid \in Nat /\ box <= MaxUid
      /\ Search(lastUid) \subseteq 1 .. box
      /\ \A v \in Search(lastUid) : \A u \in 1 .. v : u <= lastUid \/ u \in Search(lastUid)
  BY MailboxAssumption DEF MailIInv, MailboxInv, MailboxTypeOK, Search
<1>2. new \in PollType /\ poll' = [poll EXCEPT ![p] = new]
  BY <1>1 DEF PollType, StartPoll, Uids
<1>3. /\ poll' \in [Polls -> PollType] /\ poll'[p] = new
      /\ \A q \in Polls \ {p} : poll'[q] = poll[q]
  <2> HIDE DEF new
  <2> QED
    BY <1>2, PollTyped
<1>4. Holds(p)' = Search(lastUid) /\ \A q \in Polls \ {p} : Holds(q)' = Holds(q)
  BY <1>3 DEF Holds, InBatch
<1>5. MailboxTypeOK'
  BY <1>3 DEF MailIInv, MailboxInv, MailboxTypeOK, PollType, StartPoll
<1>6. ASSUME NEW u, Dealt(u) PROVE Dealt(u)'
  <2>1. ASSUME NEW q \in Polls, poll[q].stage \in {"reading", "turn"}, u \in Holds(q)
        PROVE  Dealt(u)'
    BY <1>3, <1>4, <2>1 DEF Dealt, StartPoll
  <2>2. QED
    BY <1>6, <2>1 DEF Dealt, StartPoll
<1>7. \A u \in 1 .. lastUid' : Dealt(u)'
  BY <1>6 DEF MailIInv, StartPoll
<1>8. \A q \in Polls : Holds(q)' \subseteq 1 .. box'
  BY <1>1, <1>4 DEF MailIInv, StartPoll
<1>9. ASSUME NEW q \in Polls, NEW v \in Holds(q)', NEW u \in 1 .. v
      PROVE  Dealt(u)' \/ u \in Holds(q)'
  <2>1. CASE q = p
    <3>1. u <= lastUid \/ u \in Search(lastUid)
      BY <1>1, <1>4, <1>9, <2>1
    <3>2. u \in 1 .. lastUid \/ u \in Holds(p)'
      BY <1>1, <1>4, <3>1
    <3>3. QED
      BY <1>6, <2>1, <3>2 DEF MailIInv
  <2>2. CASE q # p
    BY <1>4, <1>6, <2>2 DEF MailIInv
  <2>3. QED
    BY <2>1, <2>2
<1>10. EachMailOnce'
  BY <1>7, MailOnce DEF MailIInv, StartPoll
<1>11. QED
  BY <1>5, <1>7, <1>8, <1>9, <1>10 DEF MailIInv, MailboxInv, StartPoll

\* The loop comes to a message that has been seen.
LEMMA VisitOldInv ==
  ASSUME MailIInv, NEW p \in Polls, Visit(p), ~IsNew(Head(poll[p].batch))
  PROVE  MailIInv'
<1> DEFINE u == Head(poll[p].batch)
           new == [stage |-> poll[p].stage, parsing |-> poll[p].parsing,
                   batch |-> Tail(poll[p].batch)]
<1>1. poll[p].batch # <<>> /\ u \in Uids /\ new \in PollType
  BY PollHas, HeadTailProperties DEF PollType, Visit
<1>2. poll' = [poll EXCEPT ![p] = new]
  <2>1. poll' = [poll EXCEPT ![p] = [poll[p] EXCEPT !.batch = Tail(poll[p].batch)]]
    BY DEF Visit, MailIInv, MailboxInv, MailboxTypeOK
  <2>2. [poll[p] EXCEPT !.batch = Tail(poll[p].batch)] = new
    BY PollHas, PollParts
  <2>3. QED
    BY <2>1, <2>2
<1>3. /\ poll' \in [Polls -> PollType] /\ poll'[p] = new
      /\ \A q \in Polls \ {p} : poll'[q] = poll[q]
  <2> HIDE DEF new
  <2> QED
    BY <1>1, <1>2, PollTyped
<1>4. Holds(p)' \subseteq Holds(p) /\ Holds(p) \subseteq Holds(p)' \cup {u}
  <2>1. Holds(p)' = new.parsing \cup Elements(new.batch)
    BY <1>3 DEF Holds, InBatch, Elements
  <2>2. Elements(poll[p].batch) = Elements(new.batch) \cup {u}
    BY <1>1, PollHas, ElementsOfTail
  <2>3. QED
    BY <2>1, <2>2, PollHas
<1>5. turns[u] > 0
  BY <1>1 DEF MailIInv, IsNew
<1>6. UNCHANGED <<box, lastUid, turns, seenUids, unread, timer, closed, restarts>>
  BY DEF Visit
<1>7. MailboxTypeOK'
  BY <1>3, <1>6 DEF MailIInv, MailboxInv, MailboxTypeOK, PollType
<1>8. poll'[p].stage = poll[p].stage
  BY <1>3
<1> HIDE DEF u, new
<1>9. QED
  BY <1>3, <1>4, <1>5, <1>6, <1>7, <1>8, PollGoesOn

\* It comes to a new one, and begins its turn: what lies below has been dealt with.
LEMMA VisitNewInv ==
  ASSUME MailIInv, NEW p \in Polls, Visit(p), IsNew(Head(poll[p].batch))
  PROVE  MailIInv'
<1> DEFINE u == Head(poll[p].batch)
           new == [stage |-> "turn", parsing |-> poll[p].parsing,
                   batch |-> Tail(poll[p].batch)]
<1>1. /\ poll[p].batch # <<>> /\ poll[p].stage = "reading"
      /\ u \in Uids /\ new \in PollType
      /\ UNCHANGED <<box, timer, closed, unread, restarts>>
      /\ seenUids' = seenUids \cup {u} /\ lastUid' = Max2(lastUid, u)
      /\ turns' = [turns EXCEPT ![u] = @ + 1]
  BY PollHas, HeadTailProperties DEF PollType, Visit
<1>2. poll' = [poll EXCEPT ![p] = new]
  <2>1. poll' = [poll EXCEPT ![p] = [poll[p] EXCEPT !.stage = "turn",
                                                  !.batch = Tail(poll[p].batch)]]
    BY DEF Visit, MailIInv, MailboxInv, MailboxTypeOK
  <2>2. [poll[p] EXCEPT !.stage = "turn", !.batch = Tail(poll[p].batch)] = new
    <3>1. poll[p] \in PollType
      BY PollHas
    <3>2. \A st, B : [poll[p] EXCEPT !.stage = st, !.batch = B]
                      = [stage |-> st, parsing |-> poll[p].parsing, batch |-> B]
      BY <3>1, PollParts
    <3>3. QED
      BY <3>2
  <2>3. QED
    BY <2>1, <2>2
<1>3. /\ poll' \in [Polls -> PollType] /\ poll'[p] = new
      /\ \A q \in Polls \ {p} : poll'[q] = poll[q]
  <2> HIDE DEF new
  <2> QED
    BY <1>1, <1>2, PollTyped
<1>4. /\ Holds(p)' \subseteq Holds(p) /\ Holds(p) \subseteq Holds(p)' \cup {u} /\ u \in Holds(p)
      /\ \A q \in Polls \ {p} : Holds(q)' = Holds(q)
  <2>1. Holds(p)' = new.parsing \cup Elements(new.batch)
    BY <1>3 DEF Holds, InBatch, Elements
  <2>2. Elements(poll[p].batch) = Elements(new.batch) \cup {u}
    BY <1>1, PollHas, ElementsOfTail
  <2>3. \A q \in Polls \ {p} : Holds(q)' = Holds(q)
    BY <1>3 DEF Holds, InBatch
  <2>4. QED
    BY <2>1, <2>2, <2>3, PollHas
<1>5. /\ turns' \in [Uids -> Nat] /\ turns'[u] = 1
      /\ \A w \in Uids \ {u} : turns'[w] = turns[w]
      /\ turns[u] = 0
  BY <1>1 DEF MailIInv, MailboxInv, MailboxTypeOK, IsNew
<1>6. \A w \in Uids : turns'[w] = IF w \in seenUids' THEN 1 ELSE 0
  BY <1>1, <1>5 DEF MailIInv
<1>7. u \in 1 .. box /\ box \in Nat /\ lastUid \in Nat /\ box <= MaxUid /\ MaxUid \in Nat
      /\ lastUid <= MaxUid
  BY <1>4, MailboxAssumption DEF MailIInv, MailboxInv, MailboxTypeOK
<1>8. MailboxTypeOK'
  <2>1. lastUid' \in 0 .. MaxUid
    BY <1>1, <1>7 DEF Max2
  <2>2. QED
    BY <1>1, <1>3, <1>5, <1>7, <2>1 DEF MailIInv, MailboxInv, MailboxTypeOK, PollType
<1>9. poll'[p].stage = "turn"
  BY <1>3
<1> HIDE DEF u, new
<1>10. ASSUME NEW w \in Uids, Dealt(w) \/ w \in Holds(p) PROVE Dealt(w)'
  <2>1. CASE w = u
    BY <1>5, <2>1 DEF Dealt
  <2>2. CASE w # u /\ w \in Holds(p)
    BY <1>4, <1>9, <2>2 DEF Dealt
  <2>3. CASE w # u /\ (turns[w] > 0 \/ w \in unread)
    BY <1>1, <1>5, <2>3 DEF Dealt
  <2>4. ASSUME NEW q \in Polls \ {p}, poll[q].stage \in {"reading", "turn"}, w \in Holds(q)
        PROVE  Dealt(w)'
    BY <1>3, <1>4, <2>4 DEF Dealt
  <2>5. QED
    BY <1>10, <2>1, <2>2, <2>3, <2>4 DEF Dealt
<1>11. \A w \in 1 .. lastUid' : Dealt(w)'
  <2> SUFFICES ASSUME NEW w \in 1 .. lastUid' PROVE Dealt(w)'
    OBVIOUS
  <2>1. w \in Uids /\ (w \in 1 .. lastUid \/ w \in 1 .. u)
    BY <1>1, <1>7 DEF Max2, Uids
  <2>2. Dealt(w) \/ w \in Holds(p)
    BY <1>4, <2>1 DEF MailIInv
  <2>3. QED
    BY <1>10, <2>1, <2>2
<1>12. \A q \in Polls : Holds(q)' \subseteq 1 .. box'
  BY <1>1, <1>4 DEF MailIInv
<1>13. ASSUME NEW q \in Polls, NEW v \in Holds(q)', NEW w \in 1 .. v
       PROVE  Dealt(w)' \/ w \in Holds(q)'
  <2>1. v \in Holds(q) /\ v \in 1 .. box
    BY <1>4 DEF MailIInv
  <2>2. w \in Uids
    BY <1>7, <2>1 DEF Uids
  <2>3. Dealt(w) \/ w \in Holds(q)
    BY <2>1 DEF MailIInv
  <2>4. QED
    BY <1>4, <1>10, <2>2, <2>3
<1>14. EachMailOnce'
  BY <1>6, <1>11, MailOnce
<1>15. QED
  BY <1>6, <1>8, <1>11, <1>12, <1>13, <1>14 DEF MailIInv, MailboxInv

\* A mail arrives, the channel closes, or a new process starts.
LEMMA ArriveInv == ASSUME MailIInv, Arrive \/ Close PROVE MailIInv'
<1>1. box \in Nat /\ box' \in 0 .. MaxUid /\ 1 .. box \subseteq 1 .. box'
  BY MailboxAssumption DEF MailIInv, MailboxInv, MailboxTypeOK, Arrive, Close
<1>2. MailboxTypeOK'
  BY <1>1 DEF MailIInv, MailboxInv, MailboxTypeOK, Arrive, Close
<1>3. UNCHANGED <<seenUids, lastUid, poll, turns, unread>>
  BY DEF Arrive, Close
<1>4. EachMailOnce'
  BY <1>3 DEF MailIInv, MailboxInv, EachMailOnce, OneTurnEach, NoMailSkipped, InBatch
<1>5. \A p \in Polls : Holds(p)' = Holds(p)
  BY <1>3 DEF Holds, InBatch
<1>6. \A u : Dealt(u)' <=> Dealt(u)
  BY <1>3, <1>5 DEF Dealt
<1>7. (\A p \in Polls : \A v \in Holds(p) : \A u \in 1 .. v : Dealt(u) \/ u \in Holds(p))'
  BY <1>5, <1>6 DEF MailIInv
<1>8. QED
  BY <1>1, <1>2, <1>3, <1>4, <1>5, <1>6, <1>7 DEF MailIInv, MailboxInv

LEMMA RestartInv == ASSUME MailIInv, Restart PROVE MailIInv'
<1>1. restarts' \in 0 .. MaxRestarts /\ 0 \in 0 .. MaxUid /\ NoPoll \in PollType /\ 0 \in Nat
  BY MailboxAssumption DEF MailIInv, MailboxInv, MailboxTypeOK, Restart, PollType, NoPoll
<1>2. \A p \in Polls : Holds(p)' = {}
  BY DEF Holds, InBatch, Restart, NoPoll
<1>3. MailboxTypeOK'
  BY <1>1 DEF MailIInv, MailboxInv, MailboxTypeOK, Restart, PollType
<1>4. lastUid' = 0 /\ 1 .. lastUid' = {} /\ \A u \in Uids : turns'[u] = 0
  BY DEF Restart
<1>5. seenUids' = {}
  BY DEF Restart
<1>6. EachMailOnce'
  BY <1>4, <1>5, MailOnce
<1>7. QED
  BY <1>2, <1>3, <1>4, <1>5, <1>6 DEF MailIInv, MailboxInv

LEMMA MailStep == ASSUME MailIInv, [MailboxNext]_mailboxVars PROVE MailIInv'
<1>1. CASE Arrive \/ Close
  BY <1>1, ArriveInv
<1>2. CASE Restart
  BY <1>2, RestartInv
<1>3. ASSUME NEW p \in Polls, StartPoll(p) PROVE MailIInv'
  BY <1>3, StartPollInv
<1>4. ASSUME NEW p \in Polls, FetchEnds(p) \/ TurnEnds(p) PROVE MailIInv'
  BY <1>4, ReadsOnInv
<1>5. ASSUME NEW p \in Polls, FetchFails(p) \/ PollEnds(p) PROVE MailIInv'
  BY <1>5, PollOverInv
<1>6. ASSUME NEW p \in Polls, Visit(p) PROVE MailIInv'
  BY <1>6, VisitOldInv, VisitNewInv
<1>7. ASSUME NEW p \in Polls, NEW u \in Uids, Parsed(p, u) \/ ParseFails(p, u) PROVE MailIInv'
  BY <1>7, ParsedInv, ParseFailsInv
<1>8. CASE UNCHANGED mailboxVars
  BY <1>8 DEF mailboxVars, MailIInv, MailboxInv, MailboxTypeOK, EachMailOnce, OneTurnEach,
    NoMailSkipped, InBatch, Holds, Dealt
<1>9. QED
  BY <1>1, <1>2, <1>3, <1>4, <1>5, <1>6, <1>7, <1>8 DEF MailboxNext

\* Each mail the channel has gone past is answered, and once, though polls overlap and
\* parse in any order (pollOnce).
THEOREM MailAnsweredOnce == MailboxSpec => []MailboxInv
<1>1. MailIInv => MailboxInv
  BY DEF MailIInv
<1>2. QED
  BY <1>1, MailInitInv, MailStep, PTL DEF MailboxSpec

(***************************************************************************)
(* The channels: the connections that stay open.                           *)
(***************************************************************************)

\* An open stream is the one registered for its client, a stream that was ever opened has
\* a client, and one that is registered has the client it is registered for.
StreamsIInv ==
  /\ StreamsTypeOK
  /\ \A s \in Streams : stream[s].state = "open" => responses[stream[s].of] = s
  /\ \A s \in Streams : stream[s].state # "none" => stream[s].of \in Clients
  /\ \A c \in Clients : responses[c] # Nobody => stream[responses[c]].of = c

\* Then the newest stream of a client is the one served.
LEMMA NewestIsServed == ASSUME StreamsIInv PROVE StreamsInv
<1>1. ASSUME NEW c \in Clients
      PROVE  OpenStreams(c) = IF CanWrite(c) THEN {responses[c]} ELSE {}
  <2>1. \A s \in OpenStreams(c) : s = responses[c] /\ s # Nobody
    BY StreamsAssumption DEF StreamsIInv, OpenStreams
  <2>2. CanWrite(c) => responses[c] \in OpenStreams(c)
    BY DEF StreamsIInv, StreamsTypeOK, CanWrite, OpenStreams
  <2>3. ~CanWrite(c) => OpenStreams(c) = {}
    BY <2>1 DEF CanWrite, OpenStreams
  <2>4. QED
    BY <2>1, <2>2, <2>3
<1>2. QED
  BY <1>1 DEF StreamsIInv, StreamsInv, NewestStreamServed

LEMMA StreamsInitInv == ASSUME StreamsInit PROVE StreamsIInv
BY DEF StreamsInit, StreamsIInv, StreamsTypeOK, Fresh, NoTurn

\* Steps that leave the event streams alone.
LEMMA QuietStream ==
  ASSUME StreamsIInv, UNCHANGED <<stream, responses>>, StreamsTypeOK'
  PROVE  StreamsIInv'
BY DEF StreamsIInv

\* The type of a turn that begins, or is over.
LEMMA TurnTyped ==
  ASSUME StreamsIInv, NEW t \in Turns, NEW to \in Clients \cup Sockets \cup {Nobody},
         NEW via \in {"none", "sse", "websocket"}, NEW i \in Sessions \cup {Nobody},
         turn' = [turn EXCEPT ![t] = [to |-> to, via |-> via, session |-> i]],
         UNCHANGED <<stream, responses, sockets, asked, overrides, status, shut>>
  PROVE  StreamsIInv'
<1>1. StreamsTypeOK'
  BY DEF StreamsIInv, StreamsTypeOK
<1>2. QED
  BY <1>1, QuietStream

LEMMA OpenStreamInv ==
  ASSUME StreamsIInv, NEW c \in Clients, NEW s \in Streams, OpenStream(c, s)
  PROVE  StreamsIInv'
<1>1. /\ stream \in [Streams -> [of : Clients \cup {Nobody},
                                 state : {"none", "open", "ended", "gone"}]]
      /\ responses \in [Clients -> Streams \cup {Nobody}]
      /\ Nobody \notin Clients
  BY StreamsAssumption DEF StreamsIInv, StreamsTypeOK
<1>2. /\ stream'[s] = [of |-> c, state |-> "open"]
      /\ \A r \in Streams \ {s} :
           /\ stream'[r].of = stream[r].of
           /\ stream'[r].state = IF r = responses[c] /\ stream[r].state = "open"
                                 THEN "ended" ELSE stream[r].state
      /\ stream[s] = Fresh
  BY <1>1 DEF OpenStream
<1>3. responses' = [responses EXCEPT ![c] = s]
  BY DEF OpenStream, EntryFor
<1>4. /\ responses' \in [Clients -> Streams \cup {Nobody}]
      /\ responses'[c] = s /\ \A d \in Clients \ {c} : responses'[d] = responses[d]
  BY <1>1, <1>3
<1>5. stream' \in [Streams -> [of : Clients \cup {Nobody},
                               state : {"none", "open", "ended", "gone"}]]
  BY <1>1 DEF OpenStream
<1>6. StreamsTypeOK'
  BY <1>4, <1>5 DEF StreamsIInv, StreamsTypeOK, OpenStream
<1>7. (\A r \in Streams : stream[r].state # "none" => stream[r].of \in Clients)'
  BY <1>2 DEF StreamsIInv
<1>8. (\A r \in Streams : stream[r].state = "open" => responses[stream[r].of] = r)'
  <2> SUFFICES ASSUME NEW r \in Streams, stream'[r].state = "open"
               PROVE  responses'[stream'[r].of] = r
    OBVIOUS
  <2>1. CASE r = s
    BY <1>2, <1>4, <2>1
  <2>2. CASE r # s
    <3>1. stream[r].state = "open" /\ r # responses[c] /\ stream'[r].of = stream[r].of
      BY <1>2, <2>2
    <3>2. responses[stream[r].of] = r /\ stream[r].of \in Clients
      BY <3>1 DEF StreamsIInv
    <3>3. stream[r].of # c
      BY <3>1, <3>2
    <3>4. QED
      BY <1>4, <3>1, <3>2, <3>3
  <2>3. QED
    BY <2>1, <2>2
<1>9. (\A d \in Clients : responses[d] # Nobody => stream[responses[d]].of = d)'
  <2> SUFFICES ASSUME NEW d \in Clients, responses'[d] # Nobody
               PROVE  stream'[responses'[d]].of = d
    OBVIOUS
  <2>1. CASE d = c
    BY <1>2, <1>4, <2>1
  <2>2. CASE d # c
    <3>1. responses'[d] = responses[d] /\ responses[d] \in Streams
      BY <1>1, <1>4, <2>2
    <3>2. stream[responses[d]].of = d
      BY <3>1 DEF StreamsIInv
    <3>3. responses[d] # s
      BY <1>1, <1>2, <3>2 DEF Fresh
    <3>4. QED
      BY <1>2, <3>1, <3>2, <3>3
  <2>3. QED
    BY <2>1, <2>2
<1>10. QED
  BY <1>6, <1>7, <1>8, <1>9 DEF StreamsIInv

\* A close event takes the entry of its own stream only.
LEMMA StreamClosesInv ==
  ASSUME StreamsIInv, NEW s \in Streams, StreamCloses(s)
  PROVE  StreamsIInv'
<1> DEFINE c == stream[s].of
<1>1. /\ stream \in [Streams -> [of : Clients \cup {Nobody},
                                 state : {"none", "open", "ended", "gone"}]]
      /\ responses \in [Clients -> Streams \cup {Nobody}]
      /\ c \in Clients
  BY DEF StreamsIInv, StreamsTypeOK, StreamCloses
<1>2. /\ stream'[s].of = c /\ stream'[s].state = "gone"
      /\ \A r \in Streams \ {s} : stream'[r] = stream[r]
      /\ stream' \in [Streams -> [of : Clients \cup {Nobody},
                                  state : {"none", "open", "ended", "gone"}]]
  BY <1>1 DEF StreamCloses
<1>3. /\ responses' \in [Clients -> Streams \cup {Nobody}]
      /\ \A d \in Clients : \/ responses'[d] = responses[d]
                            \/ responses'[d] = Nobody /\ responses[d] = s
  BY <1>1 DEF StreamCloses, IsRegistered
<1>4. StreamsTypeOK'
  BY <1>2, <1>3 DEF StreamsIInv, StreamsTypeOK, StreamCloses
<1> HIDE DEF c
<1>5. (\A r \in Streams : stream[r].state # "none" => stream[r].of \in Clients)'
  BY <1>1, <1>2 DEF StreamsIInv
<1>6. (\A r \in Streams : stream[r].state = "open" => responses[stream[r].of] = r)'
  <2> SUFFICES ASSUME NEW r \in Streams, stream'[r].state = "open"
               PROVE  responses'[stream'[r].of] = r
    OBVIOUS
  <2>1. r # s /\ stream'[r] = stream[r]
    BY <1>2
  <2>2. responses[stream[r].of] = r /\ stream[r].of \in Clients
    BY <2>1 DEF StreamsIInv
  <2>3. QED
    BY <1>3, <2>1, <2>2
<1>7. (\A d \in Clients : responses[d] # Nobody => stream[responses[d]].of = d)'
  <2> SUFFICES ASSUME NEW d \in Clients, responses'[d] # Nobody
               PROVE  stream'[responses'[d]].of = d
    OBVIOUS
  <2>1. responses'[d] = responses[d] /\ responses[d] \in Streams
    BY <1>1, <1>3
  <2>2. stream[responses[d]].of = d
    BY <2>1 DEF StreamsIInv
  <2>3. stream'[responses[d]].of = stream[responses[d]].of
    <3> DEFINE r == responses[d]
    <3>1. r = s \/ r \in Streams \ {s}
      BY <2>1
    <3>2. QED
      BY <1>2, <3>1 DEF c
  <2>4. QED
    BY <2>1, <2>2, <2>3
<1>8. QED
  BY <1>4, <1>5, <1>6, <1>7 DEF StreamsIInv

\* Closing the channels ends every stream that is open.
LEMMA CloseChannelsInv == ASSUME StreamsIInv, CloseChannels PROVE StreamsIInv'
<1>1. stream \in [Streams -> [of : Clients \cup {Nobody},
                              state : {"none", "open", "ended", "gone"}]]
  BY DEF StreamsIInv, StreamsTypeOK
<1>2. /\ stream' \in [Streams -> [of : Clients \cup {Nobody},
                                  state : {"none", "open", "ended", "gone"}]]
      /\ \A s \in Streams :
           /\ stream'[s].of = stream[s].of
           /\ stream'[s].state = stream[s].state \/ stream'[s].state = "ended"
           /\ stream'[s].state = "none" <=> stream[s].state = "none"
  BY <1>1 DEF CloseChannels, CanWrite
<1>3. \A s \in Streams : stream'[s].state # "open"
  <2> SUFFICES ASSUME NEW s \in Streams, stream[s].state = "open"
               PROVE  stream'[s].state # "open"
    BY <1>2
  <2>1. responses[stream[s].of] = s /\ stream[s].of \in Clients /\ s # Nobody
    BY StreamsAssumption DEF StreamsIInv
  <2>2. CanWrite(stream[s].of)
    BY <2>1 DEF CanWrite
  <2>3. QED
    BY <1>1, <2>1, <2>2 DEF CloseChannels
<1>4. StreamsTypeOK'
  BY <1>2 DEF StreamsIInv, StreamsTypeOK, CloseChannels
<1>5. QED
  BY <1>2, <1>3, <1>4 DEF StreamsIInv, CloseChannels

LEMMA StreamsStep == ASSUME StreamsIInv, [StreamsNext]_streamVars PROVE StreamsIInv'
<1>1. ASSUME NEW c \in Clients, NEW s \in Streams, OpenStream(c, s) PROVE StreamsIInv'
  BY <1>1, OpenStreamInv
<1>2. ASSUME NEW c \in Clients, NEW t \in Turns, Post(c, t) PROVE StreamsIInv'
  BY <1>2, TurnTyped DEF Post
<1>3. ASSUME NEW s \in Streams, StreamCloses(s) PROVE StreamsIInv'
  BY <1>3, StreamClosesInv
<1>4. ASSUME NEW k \in Sockets, Connect(k) \/ Disconnect(k) PROVE StreamsIInv'
  <2>1. StreamsTypeOK' /\ UNCHANGED <<stream, responses>>
    BY <1>4 DEF Connect, Disconnect, StreamsIInv, StreamsTypeOK
  <2>2. QED
    BY <2>1, QuietStream
<1>5. ASSUME NEW k \in Sockets, NEW i \in Sessions, NewSession(k, i) \/ UseSession(k, i)
      PROVE  StreamsIInv'
  <2>1. StreamsTypeOK' /\ UNCHANGED <<stream, responses>>
    BY <1>5 DEF NewSession, UseSession, StreamsIInv, StreamsTypeOK
  <2>2. QED
    BY <2>1, QuietStream
<1>6. ASSUME NEW k \in Sockets, NEW t \in Turns, Say(k, t) PROVE StreamsIInv'
  <2>1. overrides[k] \in Sessions \cup {Nobody}
    BY DEF StreamsIInv, StreamsTypeOK
  <2>2. QED
    BY <1>6, <2>1, TurnTyped DEF Say
<1>7. ASSUME NEW i \in Sessions, CloseSession(i) PROVE StreamsIInv'
  <2>1. StreamsTypeOK' /\ UNCHANGED <<stream, responses>>
    BY <1>7 DEF CloseSession, StreamsIInv, StreamsTypeOK
  <2>2. QED
    BY <2>1, QuietStream
<1>8. ASSUME NEW t \in Turns, Answer(t) PROVE StreamsIInv'
  BY <1>8, TurnTyped DEF Answer, NoTurn
<1>9. CASE CloseChannels
  BY <1>9, CloseChannelsInv
<1>10. CASE UNCHANGED streamVars
  BY <1>10 DEF streamVars, StreamsIInv, StreamsTypeOK
<1>11. QED
  BY <1>1, <1>2, <1>3, <1>4, <1>5, <1>6, <1>7, <1>8, <1>9, <1>10 DEF StreamsNext

\* The stream a client opened last is the one its answers go to, whenever the close events
\* of the older ones come (handleRequest and send of sse.ts).
THEOREM NewestStreamWins == StreamsSpec => []StreamsInv
BY StreamsInitInv, StreamsStep, NewestIsServed, PTL DEF StreamsSpec

(***************************************************************************)
(* The channels: the chats.                                                *)
(***************************************************************************)

\* A turn that got past its send has something posted or failed to; only Slack asks who
\* the bot is and reports the bot's own messages.
BotsIInv ==
  /\ BotsInv
  /\ \A i \in Inbound : handling[i] = "sent" => posted[i] # {} \/ i \in unsent
  /\ \A i \in Inbound : handling[i] = "auth" => kind = "slack"

LEMMA BotsInitInv == ASSUME BotsInit PROVE BotsIInv
<1>1. BotsTypeOK
  BY DEF BotsInit, BotsTypeOK, Over
<1>2. QED
  BY <1>1 DEF BotsInit, BotsIInv, BotsInv, EveryTurnAnswers, NoEcho, Over

\* The handler of a message goes on to where step tells, having posted what it could.
LEMMA HandlerGoesOn ==
  ASSUME BotsIInv, NEW i \in Inbound, NEW step \in {"sent", "done", "error", "turn", "ignored"},
         handling' = [handling EXCEPT ![i] = step],
         UNCHANGED <<kind, allowedUsers, allowedChats, app, closed_, message>>,
         posted' \in [Inbound -> SUBSET {"reply", "error"}],
         unsent \subseteq unsent', unsent' \subseteq Inbound,
         unfiltered \subseteq unfiltered', unfiltered' \subseteq Inbound,
         \A j \in Inbound : posted[j] \subseteq posted'[j],
         step \in {"sent", "done"} => posted'[i] # {} \/ i \in unsent',
         message[i].from = Bot /\ step # "ignored" => i \in unfiltered'
  PROVE  BotsIInv'
<1>1. handling'[i] = step /\ \A j \in Inbound \ {i} : handling'[j] = handling[j]
  BY DEF BotsIInv, BotsInv, BotsTypeOK
<1>2. BotsTypeOK'
  BY DEF BotsIInv, BotsInv, BotsTypeOK, Over
<1>3. EveryTurnAnswers' /\ NoEcho'
  BY <1>1 DEF BotsIInv, BotsInv, EveryTurnAnswers, NoEcho
<1>4. QED
  BY <1>1, <1>2, <1>3 DEF BotsIInv, BotsInv

LEMMA ServiceSteps ==
  ASSUME BotsIInv, ListenBot \/ StartBot \/ CloseBot \/ \E ok \in BOOLEAN : BotStopped(ok)
  PROVE  BotsIInv'
<1>1. UNCHANGED <<kind, allowedUsers, allowedChats, message, handling, posted, unsent, unfiltered>>
      /\ (closed_ => closed_')
  BY DEF ListenBot, StartBot, CloseBot, BotStopped, NoHandler
<1>2. app' \in {"none", "created", "started", "stopping", "gone"} /\ closed_' \in BOOLEAN
  BY DEF BotsIInv, BotsInv, BotsTypeOK, ListenBot, StartBot, CloseBot, BotStopped
<1>3. QED
  BY <1>1, <1>2 DEF BotsIInv, BotsInv, BotsTypeOK, EveryTurnAnswers, NoEcho

LEMMA ArriveMessageInv ==
  ASSUME BotsIInv, NEW i \in Inbound, NEW m \in Message, ArriveMessage(i, m)
  PROVE  BotsIInv'
<1>1. /\ handling'[i] \in {"auth", "turn", "ignored"} /\ message'[i] = m
      /\ \A j \in Inbound \ {i} : handling'[j] = handling[j] /\ message'[j] = message[j]
      /\ handling'[i] = "auth" => kind = "slack"
      /\ handling'[i] = "turn" => m.from # Bot
  BY DEF BotsIInv, BotsInv, BotsTypeOK, ArriveMessage
<1>2. BotsTypeOK'
  BY DEF BotsIInv, BotsInv, BotsTypeOK, ArriveMessage, Over
<1>3. EveryTurnAnswers' /\ NoEcho'
  BY <1>1 DEF BotsIInv, BotsInv, EveryTurnAnswers, NoEcho, ArriveMessage
<1>4. QED
  BY <1>1, <1>2, <1>3 DEF BotsIInv, BotsInv, ArriveMessage

LEMMA HandlerSteps ==
  ASSUME BotsIInv, NEW i \in Inbound,
         \/ TurnReturns(i) \/ TurnThrows(i)
         \/ \E ok \in BOOLEAN : Authenticated(i, ok) \/ SendReply(i, ok) \/ PostError(i, ok)
  PROVE  BotsIInv'
<1>1. /\ posted \in [Inbound -> SUBSET {"reply", "error"}] /\ unsent \subseteq Inbound
      /\ unfiltered \subseteq Inbound
      /\ handling[i] \notin {"none", "auth", "ignored"} /\ message[i].from = Bot => i \in unfiltered
      /\ handling[i] = "sent" => posted[i] # {} \/ i \in unsent
  BY DEF BotsIInv, BotsInv, BotsTypeOK, NoEcho
<1>2. CASE TurnReturns(i)
  BY <1>1, <1>2, HandlerGoesOn DEF TurnReturns
<1>3. CASE TurnThrows(i)
  BY <1>1, <1>3, HandlerGoesOn DEF TurnThrows
<1>4. ASSUME NEW ok \in BOOLEAN, Authenticated(i, ok) PROVE BotsIInv'
  <2>1. PICK step \in {"turn", "ignored"} :
          /\ handling' = [handling EXCEPT ![i] = step]
          /\ step = "turn" => (ok => message[i].from # Bot)
    BY <1>4 DEF Authenticated, IsOwn
  <2>2. unfiltered \subseteq unfiltered' /\ unfiltered' \subseteq Inbound
        /\ (~ok => i \in unfiltered')
    BY <1>1, <1>4 DEF Authenticated
  <2>3. QED
    BY <1>1, <1>4, <2>1, <2>2, HandlerGoesOn DEF Authenticated
<1>5. ASSUME NEW ok \in BOOLEAN, SendReply(i, ok) \/ PostError(i, ok) PROVE BotsIInv'
  <2>1. /\ posted' \in [Inbound -> SUBSET {"reply", "error"}]
        /\ \A j \in Inbound : posted[j] \subseteq posted'[j]
        /\ unsent \subseteq unsent' /\ unsent' \subseteq Inbound
        /\ posted'[i] # {} \/ i \in unsent'
    BY <1>1, <1>5 DEF SendReply, PostError
  <2>2. PICK step \in {"sent", "done"} : handling' = [handling EXCEPT ![i] = step]
    BY <1>5 DEF SendReply, PostError
  <2>3. QED
    BY <1>1, <1>5, <2>1, <2>2, HandlerGoesOn DEF SendReply, PostError
<1>6. QED
  BY <1>2, <1>3, <1>4, <1>5

\* The terminal's input ends: what was under way is killed, and nothing but the end of that
\* input kills a handler.
LEMMA CloseLinesInv == ASSUME BotsIInv, CloseLines PROVE BotsIInv'
<1>1. /\ \A i \in Inbound :
           handling'[i] = IF handling[i] \in Over THEN handling[i] ELSE "killed"
      /\ \A i \in Inbound : handling[i] # "auth"
  BY DEF CloseLines, BotsIInv
<1>2. BotsTypeOK'
  BY DEF BotsIInv, BotsInv, BotsTypeOK, CloseLines, Over
<1>3. EveryTurnAnswers' /\ NoEcho'
  BY <1>1 DEF BotsIInv, BotsInv, EveryTurnAnswers, NoEcho, CloseLines, Over
<1>4. QED
  BY <1>1, <1>2, <1>3 DEF BotsIInv, BotsInv, CloseLines, Over

LEMMA BotsStep == ASSUME BotsIInv, [BotsNext]_botVars PROVE BotsIInv'
<1>1. CASE ListenBot \/ StartBot \/ CloseBot \/ \E ok \in BOOLEAN : BotStopped(ok)
  BY <1>1, ServiceSteps
<1>2. CASE CloseLines
  BY <1>2, CloseLinesInv
<1>3. ASSUME NEW i \in Inbound, NEW m \in Message, ArriveMessage(i, m) PROVE BotsIInv'
  BY <1>3, ArriveMessageInv
<1>4. ASSUME NEW i \in Inbound,
             \/ TurnReturns(i) \/ TurnThrows(i)
             \/ \E ok \in BOOLEAN : Authenticated(i, ok) \/ SendReply(i, ok) \/ PostError(i, ok)
      PROVE  BotsIInv'
  BY <1>4, HandlerSteps
<1>5. CASE UNCHANGED botVars
  BY <1>5 DEF botVars, BotsIInv, BotsInv, BotsTypeOK, EveryTurnAnswers, NoEcho
<1>6. QED
  BY <1>1, <1>2, <1>3, <1>4, <1>5 DEF BotsNext

\* A message that got a turn is answered, and the bot does not answer itself, however the
\* handlers overlap with each other and with close (slack.ts, telegram.ts, cli.ts).
THEOREM EveryoneIsAnswered == BotsSpec => []BotsInv
<1>1. BotsIInv => BotsInv
  BY DEF BotsIInv
<1>2. QED
  BY <1>1, BotsInitInv, BotsStep, PTL DEF BotsSpec

\* What comes in by a channel is answered, once, and where it came from (email.ts, sse.ts,
\* websocket.ts, slack.ts, telegram.ts, cli.ts).
THEOREM ChannelsAnswer == ChannelsSpec => []ChannelsInv
BY MailAnsweredOnce, NewestStreamWins, EveryoneIsAnswered, PTL DEF ChannelsSpec, ChannelsInv
-----------------------------------------------------------------------------
(***************************************************************************)
(* The gateway's process.                                                  *)
(***************************************************************************)
\* A set of numbers has a k-th, for each k up to its size.
LEMMA NthExists ==
  ASSUME NEW N \in Nat, NEW S, S \subseteq 1 .. N, NEW k \in 1 .. Cardinality(S)
  PROVE  Nth(S, k) \in S
<1> DEFINE Below(i) == {j \in S : j < i}
           Low == {i \in S : Cardinality(Below(i)) <= k - 1}
<1>1. /\ IsFiniteSet(S) /\ Cardinality(S) \in Nat
      /\ \A T \in SUBSET S : IsFiniteSet(T) /\ Cardinality(T) \in Nat
  <2>1. IsFiniteSet(1 .. N)
    BY FS_Interval
  <2>2. QED
    BY <2>1, FS_Subset, FS_CardinalityType
<1>2. S \subseteq 0 .. N /\ S # {}
  BY <1>1, FS_EmptySet
<1>3. PICK i \in S : \A j \in S : i <= j
  BY <1>2, LeastExists
<1>4. i \in Low
  <2>1. Below(i) = {}
    <3>1. ASSUME NEW j \in S PROVE ~(j < i)
      <4>1. j \in 0 .. N /\ i \in 0 .. N /\ i <= j
        BY <1>2, <1>3
      <4>2. QED
        BY <4>1
    <3>2. QED
      BY <3>1
  <2>2. QED
    BY <2>1, FS_EmptySet
<1>5. PICK m \in Low : \A j \in Low : j <= m
  <2>1. Low \subseteq 0 .. N /\ Low # {}
    BY <1>2, <1>4
  <2>2. QED
    BY <2>1, GreatestExists
<1>6. m \in S /\ m \in 1 .. N /\ Cardinality(Below(m)) \in Nat /\ Cardinality(Below(m)) <= k - 1
  BY <1>1
<1>7. ASSUME Cardinality(Below(m)) < k - 1 PROVE FALSE
  <2> DEFINE Above == {j \in S : j > m}
             upTo == Below(m) \cup {m}
  <2>1. /\ upTo \subseteq S
        /\ Cardinality(upTo) = Cardinality(Below(m)) + 1
    <3>1. m \notin Below(m) /\ IsFiniteSet(Below(m))
      BY <1>1, <1>6
    <3>2. QED
      BY <1>6, <3>1, FS_AddElement
  <2>2. Above # {}
    <3>1. ASSUME Above = {} PROVE FALSE
      <4>1. S \subseteq upTo
        <5>1. ASSUME NEW j \in S PROVE j < m \/ j = m
          BY <1>6, <3>1
        <5>2. QED
          BY <5>1
      <4>2. S = upTo
        BY <2>1, <4>1
      <4>3. QED
        BY <1>1, <1>6, <1>7, <2>1, <4>2
    <3>2. QED
      BY <3>1
  <2>3. Above \subseteq 0 .. N
    BY <1>2
  <2>4. PICK a \in Above : \A b \in Above : a <= b
    BY <2>2, <2>3, LeastExists
  <2>5. a \in S /\ a \in 1 .. N /\ a > m
    OBVIOUS
  <2>6. Below(a) = upTo
    <3>1. ASSUME NEW j \in S PROVE j < a <=> (j < m \/ j = m)
      <4>1. j \in 1 .. N
        OBVIOUS
      <4>2. j > m => a <= j
        BY <2>4
      <4>3. QED
        BY <1>6, <2>5, <4>1, <4>2
    <3>2. QED
      BY <1>6, <3>1
  <2>7. a \in Low
    BY <1>6, <1>7, <2>1, <2>5, <2>6
  <2>8. QED
    BY <1>5, <1>6, <2>5, <2>7
<1>8. Cardinality({j \in S : j < m}) = k - 1
  BY <1>6, <1>7
<1>9. QED
  BY <1>6, <1>8 DEF Nth

LEMMA AtIsSeq ==
  ASSUME NEW X, NEW s \in Seq(X), NEW S, S \subseteq DOMAIN s
  PROVE  At(s, S) \in Seq(X)
<1>1. S \subseteq 1 .. Len(s) /\ Len(s) \in Nat
  OBVIOUS
<1>2. IsFiniteSet(S) /\ Cardinality(S) \in Nat
  <2>1. IsFiniteSet(1 .. Len(s))
    BY <1>1, FS_Interval
  <2>2. QED
    BY <1>1, <2>1, FS_Subset, FS_CardinalityType
<1>3. \A k \in 1 .. Cardinality(S) : s[Nth(S, k)] \in X
  BY <1>1, NthExists
<1>4. QED
  BY <1>2, <1>3 DEF At

LEMMA ListsAreSeqs == ASSUME NEW q \in Lists PROVE q \in Seq(Names)
<1>1. CASE q = <<>>
  BY <1>1
<1>2. ASSUME NEW n \in Names, q = <<n>> PROVE q \in Seq(Names)
  BY <1>2
<1>3. ASSUME NEW n \in Names, NEW m \in Names, q = <<n, m>> PROVE q \in Seq(Names)
  BY <1>3
<1>4. QED
  BY <1>1, <1>2, <1>3 DEF Lists

\* What collectChannels makes of the sources.
LEMMA CollectedAreChannels ==
  ASSUME NEW cli \in From("cli", Lists), NEW config \in From("config", Lists),
         NEW plugin \in From("plugin", Lists)
  PROVE  FirstOfName(InOrder(cli, config, plugin)) \in Seq(Channel)
<1>1. ASSUME NEW source \in {"cli", "config", "plugin"}, NEW s \in From(source, Lists)
      PROVE  s \in Seq(Channel)
  <2>1. PICK q \in Lists : s = [k \in DOMAIN q |-> [name |-> q[k], from |-> source]]
    BY DEF From
  <2>2. q \in Seq(Names)
    BY ListsAreSeqs
  <2>3. DOMAIN q = 1 .. Len(q) /\ Len(q) \in Nat /\ \A k \in 1 .. Len(q) : q[k] \in Names
    BY <2>2
  <2>4. QED
    BY <2>1, <2>3 DEF Channel
<1>2. cli \in Seq(Channel) /\ config \in Seq(Channel) /\ plugin \in Seq(Channel)
  BY <1>1
<1>3. InOrder(cli, config, plugin) \in Seq(Channel)
  BY <1>2, AtIsSeq DEF InOrder
<1>4. QED
  BY <1>3, AtIsSeq DEF FirstOfName

\* Before the gateway opens its channels there are none, and while it closes them those
\* that still listen are among the last that are left.
ChannelsLeft ==
  /\ stage \in {"start", "drained", "throwaway", "parsed", "created"} => listening = {}
  /\ stage = "closing" =>
       /\ ~ticking
       /\ \A c \in listening :
            \E i \in 1 .. Len(channels) : i > Len(channels) - left /\ channels[i] = c

GatewayIInv == GatewayInv /\ ChannelsLeft

LEMMA GatewayStep == ASSUME GatewayIInv, [GatewayNext]_gatewayVars PROVE GatewayIInv'
<1> USE DEF GatewayIInv, GatewayInv, GatewayTypeOK, CommandsReachAgent, ChannelsLeft, Stages
<1>1. CASE DrainQueue
  BY <1>1 DEF DrainQueue
<1>2. CASE CreateThrowaway
  BY <1>2 DEF CreateThrowaway, Created, Agents
<1>3. CASE SkipThrowaway
  BY <1>3 DEF SkipThrowaway
<1>4. CASE InitThrowaway
  BY <1>4 DEF InitThrowaway, Initialised, Builtins, Agents
<1>5. CASE NoAgent
  BY <1>5 DEF NoAgent
<1>6. CASE CreateAgent
  BY <1>6 DEF CreateAgent, Created, Agents
<1>7. CASE Collect
  <2>1. channels' \in Seq(Channel) /\ left' = Len(channels') /\ listening' = {}
    <3>1. PICK cli \in From("cli", {q \in Lists : \A i, j \in DOMAIN q : q[i] = q[j] => i = j}),
               config \in From("config", Lists), plugin \in From("plugin", Lists) :
            channels' = FirstOfName(InOrder(cli, config, plugin)) /\ left' = Len(channels')
      BY <1>7 DEF Collect
    <3>2. cli \in From("cli", Lists)
      BY DEF From
    <3>3. listening' = {}
      BY <1>7 DEF Collect
    <3>4. QED
      BY <3>1, <3>2, <3>3, CollectedAreChannels
  <2>2. left' \in 0 .. Len(channels')
    BY <2>1
  <2>3. QED
    BY <1>7, <2>1, <2>2 DEF Collect
<1>8. CASE Listen
  <2>1. channels[Len(channels) - left + 1] \in Range(channels)
    BY <1>8 DEF Listen, Range
  <2>2. QED
    BY <1>8, <2>1 DEF Listen
<1>9. CASE ListenFails
  BY <1>9 DEF ListenFails
<1>10. CASE GoLive
  BY <1>10 DEF GoLive, Initialised, Builtins, Agents
<1>11. CASE KilledEarly
  BY <1>11 DEF KilledEarly
<1>12. CASE Signal
  <2>1. \A c \in listening : \E i \in 1 .. Len(channels) : i > 0 /\ channels[i] = c
    BY DEF Range
  <2>2. /\ left' = Len(channels) /\ channels' = channels /\ listening' = listening
        /\ Len(channels) \in Nat /\ stage' = "closing" /\ ticking' = FALSE
        /\ UNCHANGED <<services, registry, queue, late, live>>
    BY <1>12 DEF Signal, AllOf
  <2>3. Len(channels') - left' = 0 /\ left' \in 0 .. Len(channels')
    BY <2>2
  <2>4. QED
    BY <2>1, <2>2, <2>3
<1>13. ASSUME NEW ok \in BOOLEAN, CloseNext(ok) PROVE GatewayIInv'
  <2>1. stage' = "closing" /\ left' = left - 1 /\ left' \in 0 .. Len(channels)
    BY <1>13 DEF CloseNext, GoesOn
  <2>2. ASSUME NEW c \in listening'
        PROVE  \E i \in 1 .. Len(channels) : i > Len(channels) - left' /\ channels[i] = c
    <3>1. c \in listening /\ c # channels[Len(channels) - left + 1]
      BY <1>13 DEF CloseNext
    <3>2. PICK i \in 1 .. Len(channels) : i > Len(channels) - left /\ channels[i] = c
      BY <1>13, <3>1 DEF CloseNext
    <3>3. i # Len(channels) - left + 1
      BY <3>1, <3>2
    <3>4. i > Len(channels) - left'
      BY <2>1, <3>2, <3>3
    <3>5. QED
      BY <3>2, <3>4
  <2>3. QED
    BY <1>13, <2>1, <2>2 DEF CloseNext
<1>14. CASE Exit
  BY <1>14 DEF Exit
<1>15. ASSUME NEW a \in Agents, NEW p \in Plugins, RegisterLate(a, p) PROVE GatewayIInv'
  BY <1>15 DEF RegisterLate
<1>16. CASE UNCHANGED gatewayVars
  BY <1>16 DEF gatewayVars
<1>17. QED
  BY <1>1, <1>2, <1>3, <1>4, <1>5, <1>6, <1>7, <1>8, <1>9, <1>10, <1>11, <1>12, <1>13,
     <1>14, <1>15, <1>16
  DEF GatewayNext

LEMMA GatewayInitInv == ASSUME GatewayInit PROVE GatewayIInv
<1>1. <<>> \in Seq(Channel) /\ 0 \in 0 .. Len(<<>>)
  OBVIOUS
<1>2. NoRegistry \in [agent : Agents \cup {"none"}, commands : SUBSET ({"builtin"} \cup Plugins)]
  BY DEF NoRegistry
<1>3. channels \in Seq(Channel) /\ left \in 0 .. Len(channels)
  BY <1>1 DEF GatewayInit
<1>4. QED
  BY <1>2, <1>3 DEF GatewayInit, GatewayIInv, GatewayInv, GatewayTypeOK, CommandsReachAgent, ChannelsLeft,
    Stages, NoRegistry, Agents, Range

\* Internal commands act on the agent initialised last, however many channels and plugins
\* there are and whenever these register (initInternalCommands).
THEOREM CommandsReachTheAgent == GatewaySpec => []GatewayInv
<1>1. GatewayIInv => GatewayInv
  BY DEF GatewayIInv
<1>2. QED
  BY <1>1, GatewayInitInv, GatewayStep, PTL DEF GatewaySpec

\* A shutdown closes every channel, stops the scheduler and disposes the agent before the
\* process exits, whichever closes throw (shutdown, dispose).
THEOREM ShutdownIsComplete == GatewaySpec => ShutdownReleases
<1>1. ASSUME GatewayIInv, [GatewayNext]_gatewayVars, ~UNCHANGED gatewayVars,
             stage = "closing", stage' # "closing", late' = late
      PROVE  stage' = "exited" /\ listening = {} /\ ~ticking /\ "gateway" \notin live'
  <2>1. Exit
    <3>1. \A a \in Agents, p \in Plugins : ~RegisterLate(a, p)
      BY <1>1 DEF RegisterLate
    <3>2. \A ok \in BOOLEAN : ~CloseNext(ok)
      BY <1>1 DEF CloseNext, GoesOn
    <3>3. QED
      BY <1>1, <3>1, <3>2
      DEF GatewayNext, DrainQueue, CreateThrowaway, SkipThrowaway, InitThrowaway, NoAgent,
        CreateAgent, Collect, Listen, ListenFails, GoLive, KilledEarly, Signal
  <2>2. listening = {}
    BY <1>1, <2>1 DEF Exit, GatewayIInv, GatewayInv, GatewayTypeOK, ChannelsLeft
  <2>3. QED
    BY <1>1, <2>1, <2>2 DEF Exit, GatewayIInv, ChannelsLeft
<1>2. GatewayIInv /\ [GatewayNext]_gatewayVars =>
        [stage = "closing" /\ stage' # "closing" /\ late' = late =>
           stage' = "exited" /\ listening = {} /\ ~ticking /\ "gateway" \notin live']_gatewayVars
  BY <1>1
<1>3. QED
  BY <1>2, GatewayInitInv, GatewayStep, PTL DEF GatewaySpec, ShutdownReleases
-----------------------------------------------------------------------------
(***************************************************************************)
(* The manager of the gateway's service.                                   *)
(***************************************************************************)
\* What can be left of a command.
Remainders ==
  IF Systemd
  THEN {<<>>, <<"write", "reload">>, <<"reload">>, <<"tryStop", "remove", "reload">>,
        <<"remove", "reload">>, <<"start">>, <<"stop">>, <<"restart">>}
  ELSE {<<>>, <<"write">>, <<"tryStop", "remove">>, <<"remove">>, <<"start">>, <<"stop">>,
        <<"stop", "start">>}

\* What is uninstalled was stopped, or the stop failed, before its file is removed.
StoppedFirst == serving = NoDefinition \/ orphaned

ServiceIInv ==
  /\ ServiceTypeOK /\ ManagerKnows
  /\ todo \in Remainders
  /\ serviceFile = NoDefinition => StoppedFirst \/ stale
  /\ todo \in {<<"remove", "reload">>, <<"remove">>} => StoppedFirst
  /\ todo = <<"reload">> /\ serviceFile = NoDefinition => StoppedFirst
  /\ ~Systemd => ~stale /\ (serving # NoDefinition => known # NoDefinition)

LEMMA Tails ==
  /\ Tail(<<"write", "reload">>) = <<"reload">> /\ Tail(<<"write">>) = <<>>
  /\ Tail(<<"reload">>) = <<>> /\ Tail(<<"remove">>) = <<>> /\ Tail(<<"start">>) = <<>>
  /\ Tail(<<"stop">>) = <<>> /\ Tail(<<"restart">>) = <<>>
  /\ Tail(<<"tryStop", "remove">>) = <<"remove">>
  /\ Tail(<<"remove", "reload">>) = <<"reload">>
  /\ Tail(<<"tryStop", "remove", "reload">>) = <<"remove", "reload">>
  /\ Tail(<<"stop", "start">>) = <<"start">>
OBVIOUS

LEMMA Heads ==
  /\ Head(<<"write", "reload">>) = "write" /\ Head(<<"write">>) = "write"
  /\ Head(<<"reload">>) = "reload" /\ Head(<<"remove">>) = "remove"
  /\ Head(<<"start">>) = "start" /\ Head(<<"stop">>) = "stop"
  /\ Head(<<"restart">>) = "restart" /\ Head(<<"tryStop", "remove">>) = "tryStop"
  /\ Head(<<"remove", "reload">>) = "remove"
  /\ Head(<<"tryStop", "remove", "reload">>) = "tryStop"
  /\ Head(<<"stop", "start">>) = "stop"
OBVIOUS

LEMMA Differ ==
  /\ <<>> # <<"reload">> /\ <<>> # <<"remove">> /\ <<>> # <<"remove", "reload">>
  /\ <<"reload">> # <<"remove">> /\ <<"reload">> # <<"remove", "reload">>
  /\ <<"start">> # <<"remove">> /\ <<"start">> # <<"remove", "reload">>
  /\ <<"start">> # <<"reload">> /\ <<"remove", "reload">> # <<"reload">>
  /\ <<"remove">> # <<"reload">>
OBVIOUS

\* What a step leaves of its command.
LEMMA WhatIsLeft ==
  ASSUME todo \in Remainders, NEW step, Next_(step)
  PROVE  /\ todo' \in Remainders' /\ supervisor' = supervisor
         /\ \/ step = "write" /\ todo' = (IF Systemd THEN <<"reload">> ELSE <<>>)
            \/ step = "reload" /\ todo = <<"reload">> /\ todo' = <<>> /\ Systemd
            \/ step = "tryStop" /\ todo' = (IF Systemd THEN <<"remove", "reload">> ELSE <<"remove">>)
            \/ /\ step = "remove"
               /\ todo = (IF Systemd THEN <<"remove", "reload">> ELSE <<"remove">>)
               /\ todo' = (IF Systemd THEN <<"reload">> ELSE <<>>)
            \/ step \in {"start", "stop", "restart"} /\ todo' \in {<<>>, <<"start">>}
<1>1. /\ supervisor' = supervisor /\ todo # <<>> /\ Head(todo) = step /\ todo' = Tail(todo)
      /\ Systemd' = Systemd
  BY DEF Next_, Systemd
<1>2. CASE Systemd
  <2>1. CASE todo = <<"write", "reload">>
    BY <1>1, <1>2, <2>1, Tails, Heads, Zenon DEF Remainders
  <2>2. CASE todo = <<"tryStop", "remove", "reload">>
    BY <1>1, <1>2, <2>2, Tails, Heads, Zenon DEF Remainders
  <2>3. CASE todo = <<"remove", "reload">>
    BY <1>1, <1>2, <2>3, Tails, Heads, Zenon DEF Remainders
  <2>4. CASE todo = <<"reload">>
    BY <1>1, <1>2, <2>4, Tails, Heads, Zenon DEF Remainders
  <2>5. CASE todo \in {<<"start">>, <<"stop">>, <<"restart">>}
    BY <1>1, <1>2, <2>5, Tails, Heads, Zenon DEF Remainders
  <2>6. QED
    BY <1>1, <1>2, <2>1, <2>2, <2>3, <2>4, <2>5, Zenon DEF Remainders
<1>3. CASE ~Systemd
  <2>1. CASE todo = <<"write">>
    BY <1>1, <1>3, <2>1, Tails, Heads, Zenon DEF Remainders
  <2>2. CASE todo = <<"tryStop", "remove">>
    BY <1>1, <1>3, <2>2, Tails, Heads, Zenon DEF Remainders
  <2>3. CASE todo = <<"remove">>
    BY <1>1, <1>3, <2>3, Tails, Heads, Zenon DEF Remainders
  <2>4. CASE todo \in {<<"start">>, <<"stop">>}
    BY <1>1, <1>3, <2>4, Tails, Heads, Zenon DEF Remainders
  <2>5. CASE todo = <<"stop", "start">>
    BY <1>1, <1>3, <2>5, Tails, Heads, Zenon DEF Remainders
  <2>6. QED
    BY <1>1, <1>3, <2>1, <2>2, <2>3, <2>4, <2>5, Zenon DEF Remainders
<1>4. QED
  BY <1>2, <1>3

LEMMA Lengths ==
  /\ Len(<<>>) = 0 /\ Len(<<"write", "reload">>) = 2 /\ Len(<<"write">>) = 1
  /\ Len(<<"reload">>) = 1 /\ Len(<<"remove">>) = 1 /\ Len(<<"start">>) = 1
  /\ Len(<<"stop">>) = 1 /\ Len(<<"restart">>) = 1 /\ Len(<<"tryStop", "remove">>) = 2
  /\ Len(<<"remove", "reload">>) = 2 /\ Len(<<"tryStop", "remove", "reload">>) = 3
  /\ Len(<<"stop", "start">>) = 2
OBVIOUS

LEMMA RemaindersAreShort == ASSUME NEW q \in Remainders PROVE Len(q) <= 3
<1>1. Len(q) \in {0, 1, 2, 3}
  BY Lengths, Zenon DEF Remainders
<1>2. \A n \in {0, 1, 2, 3} : n <= 3
  OBVIOUS
<1>3. QED
  BY <1>1, <1>2, Zenon

\* A new command.
LEMMA BeginInv ==
  ASSUME ServiceIInv, NEW command \in Commands, Begin(command) PROVE ServiceIInv'
<1>1. /\ UNCHANGED <<supervisor, serviceFile, known, serving, stale, orphaned>>
      /\ todo' = command /\ Systemd' = Systemd
  BY DEF Begin, Systemd
<1>2. todo' \in Remainders'
  BY <1>1, Zenon DEF Commands, InstallSteps, UninstallSteps, RestartSteps, Remainders
<1>3. todo' \notin {<<"remove", "reload">>, <<"remove">>, <<"reload">>}
  BY <1>1 DEF Commands, InstallSteps, UninstallSteps, RestartSteps
<1>4. Len(todo') <= 3
  BY <1>1, <1>2, RemaindersAreShort DEF Remainders
<1>5. QED
  BY <1>1, <1>2, <1>3, <1>4 DEF ServiceIInv, ServiceTypeOK, ManagerKnows, StoppedFirst

\* A step of a command.
LEMMA StepsInv ==
  ASSUME ServiceIInv,
         \/ \E d \in Definitions : WriteFile(d)
         \/ RemoveFile \/ DaemonReload \/ StopService("stop") \/ StopService("tryStop")
         \/ StartService \/ RestartService \/ TryFails
  PROVE  ServiceIInv'
<1> USE ServiceAssumption DEF ServiceIInv, ServiceTypeOK, ManagerKnows, StoppedFirst
<1>0. Systemd \in BOOLEAN
  BY DEF Systemd
<1>1. ASSUME NEW step, Next_(step)
      PROVE  Systemd' = Systemd /\ todo' \in Remainders' /\ Len(todo') <= 3
  <2>1. todo' \in Remainders' /\ Systemd' = Systemd
    BY <1>1, WhatIsLeft DEF Systemd
  <2>2. QED
    BY <2>1, RemaindersAreShort DEF Remainders
<1>2. ASSUME NEW d \in Definitions, WriteFile(d) PROVE ServiceIInv'
  <2>1. Next_("write")
    BY <1>2 DEF WriteFile
  <2>2. todo' \notin {<<"remove", "reload">>, <<"remove">>}
    <3>1. todo' \in {<<"reload">>, <<>>}
      BY <2>1, WhatIsLeft
    <3>2. QED
      BY <3>1, Differ, Zenon
  <2>3. QED
    BY <1>1, <1>2, <2>1, <2>2, <1>0 DEF WriteFile, Next_
<1>3. CASE RemoveFile
  <2>1. Next_("remove")
    BY <1>3 DEF RemoveFile
  <2>2. /\ todo \in {<<"remove", "reload">>, <<"remove">>}
        /\ todo' \notin {<<"remove", "reload">>, <<"remove">>}
        /\ ~Systemd => todo' = <<>>
    BY <2>1, WhatIsLeft, Differ
  <2>3. QED
    BY <1>0, <1>1, <1>3, <2>1, <2>2 DEF RemoveFile, Next_
<1>4. CASE DaemonReload
  <2>1. Next_("reload")
    BY <1>4 DEF DaemonReload
  <2>2. Systemd /\ todo = <<"reload">> /\ todo' = <<>>
    BY <2>1, WhatIsLeft
  <2>3. todo' \notin {<<"remove", "reload">>, <<"remove">>, <<"reload">>}
    BY <2>2, Differ
  <2>4. QED
    BY <1>1, <1>4, <2>1, <2>2, <2>3 DEF DaemonReload, Next_
<1>5. ASSUME NEW step \in {"stop", "tryStop"}, StopService(step) PROVE ServiceIInv'
  <2>1. Next_(step)
    BY <1>5 DEF StopService
  <2>2. QED
    BY <1>1, <1>5, <2>1 DEF StopService, Next_
<1>6. ASSUME NEW step \in {"start", "restart"}, Next_(step)
      PROVE  todo' \notin {<<"remove", "reload">>, <<"remove">>, <<"reload">>}
  BY <1>6, WhatIsLeft, Differ
<1>7. CASE StartService
  <2>1. Next_("start")
    BY <1>7 DEF StartService
  <2>2. QED
    BY <1>1, <1>6, <1>7, <2>1 DEF StartService, CanStart, Next_
<1>8. CASE RestartService
  <2>1. Next_("restart")
    BY <1>8 DEF RestartService
  <2>2. Systemd
    BY <2>1, Heads DEF Remainders, Next_
  <2>3. QED
    BY <1>1, <1>6, <1>8, <2>1, <2>2 DEF RestartService, CanStart, Next_
<1>9. CASE TryFails
  <2>1. Next_("tryStop")
    BY <1>9 DEF TryFails
  <2>2. QED
    BY <1>1, <1>9, <2>1 DEF TryFails, CanStop, Next_
<1>10. QED
  BY <1>2, <1>3, <1>4, <1>5, <1>7, <1>8, <1>9

LEMMA ServiceStep == ASSUME ServiceIInv, [ServiceNext]_serviceVars PROVE ServiceIInv'
<1>1. CASE \E command \in Commands : Begin(command)
  BY <1>1, BeginInv
<1>2. CASE CommandEnds \/ \E failed \in BOOLEAN : GatewayEnds(failed)
  <2>1. UNCHANGED <<supervisor, serviceFile, known, stale, orphaned>> /\ Systemd' = Systemd
    BY <1>2 DEF CommandEnds, GatewayEnds, Systemd
  <2>2. CASE CommandEnds
    <3>1. todo' = <<>> /\ <<>> \in Remainders /\ Remainders' = Remainders /\ Len(<<>>) <= 3
      BY <2>1, <2>2 DEF CommandEnds, Remainders
    <3>2. QED
      BY <2>1, <2>2, <3>1, Differ
      DEF CommandEnds, ServiceIInv, ServiceTypeOK, ManagerKnows, StoppedFirst
  <2>3. ASSUME NEW failed \in BOOLEAN, GatewayEnds(failed) PROVE ServiceIInv'
    <3>1. todo' = todo /\ Remainders' = Remainders
      BY <2>1, <2>3 DEF GatewayEnds, Remainders
    <3>2. QED
      BY <2>1, <2>3, <3>1
      DEF GatewayEnds, ServiceIInv, ServiceTypeOK, ManagerKnows, StoppedFirst
  <2>4. QED
    BY <1>2, <2>2, <2>3
<1>3. CASE UNCHANGED serviceVars
  BY <1>3 DEF serviceVars, ServiceIInv, ServiceTypeOK, ManagerKnows, StoppedFirst, Remainders,
    Systemd
<1>4. QED
  BY <1>1, <1>2, <1>3, StepsInv DEF ServiceNext

\* The manager knows what the service file says, and what is not installed does not run,
\* whichever steps of the commands fail or are cut off (gateway-daemon.ts).
THEOREM NoServiceLeftBehind == ServiceSpec => []ServiceInv
<1>1. ServiceInit => ServiceIInv
  <2>1. ServiceInit => todo \in Remainders /\ todo = <<>>
    BY DEF ServiceInit, Remainders
  <2>2. ServiceInit => Len(todo) <= 3
    BY <2>1, RemaindersAreShort
  <2>3. QED
    BY <2>1, <2>2, Differ
    DEF ServiceInit, ServiceIInv, ServiceTypeOK, ManagerKnows, StoppedFirst, Systemd
<1>2. ServiceIInv => ServiceInv
  BY DEF ServiceIInv, ServiceInv, NothingLeftRunning, statusService, StoppedFirst
<1>3. QED
  BY <1>1, <1>2, ServiceStep, PTL DEF ServiceSpec

\* The gateway's process and its manager together (gateway.ts, gateway-daemon.ts).
THEOREM DaemonIsSound == DaemonSpec => []DaemonInv
BY CommandsReachTheAgent, NoServiceLeftBehind, PTL DEF DaemonSpec, DaemonInv
-----------------------------------------------------------------------------
(***************************************************************************)
(* Skills and drafts.                                                      *)
(***************************************************************************)
OnDisk == [body : Bodies, origin : Origins]
Served == [at : Depths, body : Bodies]
Trial == [name : SkillNames, body : Bodies, backup : Depths, before : OnDisk \cup {None},
          metrics : Metrics \cup {None}]

\* The types in full.
SkillShape ==
  /\ dirs \in [SkillNames -> [Depths -> OnDisk \cup {None}]]
  /\ skills \in [SkillNames -> Served \cup {None}]
  /\ draft \in [SkillNames -> Bodies \cup {None}]
  /\ baseline \in [SkillNames -> Metrics \cup {None}]
  /\ outcomes \in [SkillNames -> SUBSET {"baseline", "pending", "improved", "failed"}]
  /\ trial \in [Validators -> Trial \cup {NoTrial}]
  /\ review \in [SkillNames ->
                   [body : Bodies, approval : {"none", "written"}] \cup {None}]
  /\ archived \subseteq SkillNames /\ backedUp \subseteq SkillNames
  /\ plans \in 0 .. MaxPlans /\ writes \in 0 .. MaxSkillWrites /\ crashes \in 0 .. MaxCrashes

\* A name that was tried or measured is somewhere, and what holds it is not what a trial
\* takes away when it improves.
Somewhere(n) ==
  writes = 0 /\ (outcomes[n] # {} \/ Tried(n)) =>
    draft[n] # None \/ n \in archived \/ dirs[n][0] # None

\* While no skill of the name is ever in the way of a trial, it has one directory, the
\* registry serves what is there of a draft, and that is tried or has been.
InTheOpen(n) ==
  n \notin backedUp /\ crashes = 0 =>
    /\ \A k \in Depths \ {0} : dirs[n][k] = None
    /\ skills[n] # None => skills[n].at = 0
    /\ \A s \in Validators : trial[s].name = n => trial[s].backup = 0
    /\ dirs[n][0] # None /\ dirs[n][0].origin = "draft" =>
         skills[n] # None /\ (Tried(n) \/ promoted(n))

SkillIInv == SkillShape /\ \A n \in SkillNames : Somewhere(n) /\ InTheOpen(n)
-----------------------------------------------------------------------------
\* What discover finds.
LEMMA DiscoverFinds ==
  ASSUME NEW d \in [SkillNames -> [Depths -> OnDisk \cup {None}]]
  PROVE  /\ discover(d) \in [SkillNames -> Served \cup {None}]
         /\ \A n \in SkillNames :
              /\ discover(d)[n] # None => discover(d)[n].at \in Held(d, n)
              /\ Held(d, n) # {} => discover(d)[n] # None
<1>1. ASSUME NEW n \in SkillNames, Held(d, n) # {}
      PROVE  /\ Max(Held(d, n)) \in Held(d, n)
             /\ ReadSkill(d, n) \in Served /\ ReadSkill(d, n) # None
             /\ ReadSkill(d, n).at = Max(Held(d, n))
  <2>1. Held(d, n) \subseteq 0 .. MaxCrashes + 1 /\ MaxCrashes + 1 \in Nat
    BY SkillBoundsAreNatural DEF Held, Depths
  <2>2. PICK x \in Held(d, n) : \A y \in Held(d, n) : y <= x
    BY <1>1, <2>1, GreatestExists
  <2>3. \A y \in Held(d, n) : x >= y
    BY <2>1, <2>2
  <2>4. Max(Held(d, n)) \in Held(d, n)
    BY <2>3 DEF Max
  <2>5. d[n][Max(Held(d, n))] \in OnDisk /\ Max(Held(d, n)) \in Depths
    BY <2>4 DEF Held
  <2>6. ReadSkill(d, n) = [at |-> Max(Held(d, n)), body |-> d[n][Max(Held(d, n))].body]
    BY <1>1 DEF ReadSkill
  <2>7. d[n][Max(Held(d, n))].body \in Bodies
    BY <2>5 DEF OnDisk
  <2>8. QED
    BY <2>4, <2>5, <2>6, <2>7, NoneIsNothing DEF Served
<1>2. \A n \in SkillNames : Held(d, n) = {} => ReadSkill(d, n) = None
  BY DEF ReadSkill
<1>3. QED
  BY <1>1, <1>2 DEF discover

\* A skill put into its own directory.
Placed(d, n, b, o) == [d EXCEPT ![n][0] = Skill(b, o)]

LEMMA PutInPlace ==
  ASSUME NEW d \in [SkillNames -> [Depths -> OnDisk \cup {None}]],
         NEW n \in SkillNames, NEW b \in Bodies, NEW o \in Origins
  PROVE  /\ Placed(d, n, b, o) \in [SkillNames -> [Depths -> OnDisk \cup {None}]]
         /\ Placed(d, n, b, o)[n][0] # None /\ Placed(d, n, b, o)[n][0].origin = o
         /\ \A k \in Depths \ {0} : Placed(d, n, b, o)[n][k] = d[n][k]
         /\ \A m \in SkillNames \ {n} : Placed(d, n, b, o)[m] = d[m]
<1>1. 0 \in Depths
  BY SkillBoundsAreNatural DEF Depths
<1>2. Skill(b, o) \in OnDisk /\ Skill(b, o).origin = o
  BY DEF Skill, OnDisk
<1>3. QED
  BY <1>1, <1>2, NoneIsNothing DEF Placed

\* What discover finds of names in the open.
LEMMA DiscoverInTheOpen ==
  ASSUME NEW d \in [SkillNames -> [Depths -> OnDisk \cup {None}]], NEW n \in SkillNames,
         \A k \in Depths \ {0} : d[n][k] = None
  PROVE  /\ discover(d)[n] # None => discover(d)[n].at = 0
         /\ d[n][0] # None => discover(d)[n] # None
<1>1. 0 \in Depths
  BY SkillBoundsAreNatural DEF Depths
<1>2. Held(d, n) \subseteq {0} /\ (d[n][0] # None => 0 \in Held(d, n))
  BY <1>1 DEF Held
<1>3. QED
  BY <1>2, DiscoverFinds

\* A name none of whose state changes but by the registry's reading it again.
LEMMA OtherName ==
  ASSUME SkillIInv, NEW n \in SkillNames, SkillShape',
         dirs'[n] = dirs[n], skills'[n] = skills[n] \/ skills' = discover(dirs'),
         draft'[n] = draft[n], n \in archived => n \in archived',
         outcomes'[n] = outcomes[n], Tried(n)' <=> Tried(n),
         \A s \in Validators : trial'[s].name = n =>
           trial[s].name = n /\ trial'[s].backup = trial[s].backup,
         n \in backedUp => n \in backedUp',
         writes <= writes', crashes <= crashes'
  PROVE  Somewhere(n)' /\ InTheOpen(n)'
<1>1. writes' = 0 => writes = 0
  BY DEF SkillIInv, SkillShape
<1>2. crashes' = 0 => crashes = 0
  BY DEF SkillIInv, SkillShape
<1>3. Somewhere(n)'
  BY <1>1 DEF SkillIInv, Somewhere
<1>4. ASSUME n \notin backedUp', crashes' = 0 PROVE InTheOpen(n)'
  <2>1. /\ \A k \in Depths \ {0} : dirs'[n][k] = None
        /\ skills[n] # None => skills[n].at = 0
        /\ \A s \in Validators : trial[s].name = n => trial[s].backup = 0
        /\ dirs[n][0] # None /\ dirs[n][0].origin = "draft" =>
             skills[n] # None /\ (Tried(n) \/ promoted(n))
    BY <1>2, <1>4 DEF SkillIInv, InTheOpen
  <2>2. skills' = discover(dirs') =>
          /\ skills'[n] # None => skills'[n].at = 0
          /\ dirs'[n][0] # None => skills'[n] # None
    BY <2>1, DiscoverInTheOpen DEF SkillShape
  <2>3. promoted(n)' <=> promoted(n)
    BY DEF promoted
  <2>4. QED
    BY <2>1, <2>2, <2>3 DEF InTheOpen
<1>5. QED
  BY <1>3, <1>4 DEF InTheOpen
-----------------------------------------------------------------------------
\* A person's steps, and the tool's.
LEMMA WriteInv ==
  ASSUME SkillIInv, NEW n \in SkillNames, NEW b \in Bodies, WriteSkill(n, b)
  PROVE  SkillIInv'
<1>1. "written" \in Origins
  BY DEF Origins
<1>2. /\ dirs' \in [SkillNames -> [Depths -> OnDisk \cup {None}]]
      /\ dirs'[n][0].origin = "written" /\ \A k \in Depths \ {0} : dirs'[n][k] = dirs[n][k]
      /\ \A m \in SkillNames \ {n} : dirs'[m] = dirs[m]
  <2>1. dirs' = Placed(dirs, n, b, "written")
    BY DEF WriteSkill, Placed
  <2>2. dirs \in [SkillNames -> [Depths -> OnDisk \cup {None}]]
    BY DEF SkillIInv, SkillShape
  <2>3. QED
    BY <1>1, <2>1, <2>2, PutInPlace
<1>3. writes' \in 0 .. MaxSkillWrites /\ writes' # 0 /\ writes <= writes'
  BY SkillBoundsAreNatural DEF SkillIInv, SkillShape, WriteSkill
<1>4. SkillShape'
  BY <1>2, <1>3, DiscoverFinds DEF SkillIInv, SkillShape, WriteSkill
<1>5. \A m \in SkillNames : Tried(m)' <=> Tried(m)
  BY DEF WriteSkill, Tried
<1>6. \A m \in SkillNames \ {n} : Somewhere(m)' /\ InTheOpen(m)'
  <2>1. /\ UNCHANGED <<archived, outcomes, trial, crashes, backedUp>>
        /\ \A m \in SkillNames \ {n} : draft'[m] = draft[m]
        /\ writes <= writes' /\ crashes <= crashes'
    BY <1>2, <1>3, <1>4, <1>5 DEF WriteSkill, SkillIInv, SkillShape
  <2>2. skills' = discover(dirs') \/ \A m \in SkillNames \ {n} : skills'[m] = skills[m]
    BY <1>2, <1>3, <1>4, <1>5 DEF WriteSkill
  <2>3. QED
    BY <1>2, <1>3, <1>4, <1>5, <2>1, <2>2, OtherName
<1>7. Somewhere(n)'
  BY <1>3 DEF Somewhere
<1>8. InTheOpen(n)'
  BY <1>2, DiscoverInTheOpen DEF SkillIInv, InTheOpen, WriteSkill
<1>9. QED
  BY <1>4, <1>6, <1>7, <1>8 DEF SkillIInv

LEMMA WithoutSkillFacts ==
  ASSUME SkillShape, NEW n \in SkillNames
  PROVE  /\ WithoutSkill(dirs, n) \in [SkillNames -> [Depths -> OnDisk \cup {None}]]
         /\ \A m \in SkillNames \ {n} : WithoutSkill(dirs, n)[m] = dirs[m]
         /\ \A k \in Depths : WithoutSkill(dirs, n)[n][k] =
              IF skills[n] # None /\ k = skills[n].at THEN None ELSE dirs[n][k]
<1>1. skills[n] # None => skills[n].at \in Depths
  BY DEF SkillShape, Served
<1>2. QED
  BY <1>1 DEF WithoutSkill, SkillShape

LEMMA DeleteSkillInv == ASSUME SkillIInv, NEW n \in SkillNames, DeleteSkill(n) PROVE SkillIInv'
<1>1. /\ dirs' \in [SkillNames -> [Depths -> OnDisk \cup {None}]]
      /\ \A m \in SkillNames \ {n} : dirs'[m] = dirs[m]
      /\ \A k \in Depths : dirs'[n][k] =
           IF skills[n] # None /\ k = skills[n].at THEN None ELSE dirs[n][k]
  BY WithoutSkillFacts DEF DeleteSkill, SkillIInv
<1>2. /\ skills' \in [SkillNames -> Served \cup {None}] /\ skills'[n] = None
      /\ \A m \in SkillNames \ {n} : skills'[m] = skills[m]
  BY DEF DeleteSkill, SkillIInv, SkillShape
<1>3. writes' \in 0 .. MaxSkillWrites /\ writes' # 0 /\ writes <= writes'
  BY SkillBoundsAreNatural DEF SkillIInv, SkillShape, DeleteSkill
<1>4. SkillShape'
  BY <1>1, <1>2, <1>3 DEF SkillIInv, SkillShape, DeleteSkill
<1>5. \A m \in SkillNames : Tried(m)' <=> Tried(m)
  BY DEF DeleteSkill, Tried
<1>6. \A m \in SkillNames \ {n} : Somewhere(m)' /\ InTheOpen(m)'
  <2>1. /\ UNCHANGED <<archived, outcomes, trial, crashes, backedUp>>
        /\ \A m \in SkillNames \ {n} : draft'[m] = draft[m]
        /\ writes <= writes' /\ crashes <= crashes'
    BY <1>1, <1>2, <1>3, <1>4, <1>5 DEF DeleteSkill, SkillIInv, SkillShape
  <2>2. skills' = discover(dirs') \/ \A m \in SkillNames \ {n} : skills'[m] = skills[m]
    BY <1>1, <1>2, <1>3, <1>4, <1>5 DEF DeleteSkill
  <2>3. QED
    BY <1>1, <1>2, <1>3, <1>4, <1>5, <2>1, <2>2, OtherName
<1>7. Somewhere(n)'
  BY <1>3 DEF Somewhere
<1>8. InTheOpen(n)'
  <2>1. 0 \in Depths
    BY SkillBoundsAreNatural DEF Depths
  <2>2. QED
    BY <1>1, <1>2, <2>1 DEF SkillIInv, InTheOpen, DeleteSkill
<1>9. QED
  BY <1>4, <1>6, <1>7, <1>8 DEF SkillIInv

LEMMA PromoteInv == ASSUME SkillIInv, NEW n \in SkillNames, PromoteByHand(n) PROVE SkillIInv'
<1>1. "approved" \in Origins /\ draft[n] \in Bodies
  BY DEF Origins, SkillIInv, SkillShape, PromoteByHand
<1>2. /\ dirs' \in [SkillNames -> [Depths -> OnDisk \cup {None}]]
      /\ dirs'[n][0] # None
      /\ dirs'[n][0].origin = "approved" /\ \A k \in Depths \ {0} : dirs'[n][k] = dirs[n][k]
      /\ \A m \in SkillNames \ {n} : dirs'[m] = dirs[m]
  <2>1. dirs' = Placed(dirs, n, draft[n], "approved")
    BY DEF PromoteByHand, Placed
  <2>2. dirs \in [SkillNames -> [Depths -> OnDisk \cup {None}]]
    BY DEF SkillIInv, SkillShape
  <2>3. QED
    BY <1>1, <2>1, <2>2, PutInPlace
<1>3. SkillShape' /\ \A m \in SkillNames \ {n} : draft'[m] = draft[m]
  BY <1>2, DiscoverFinds DEF SkillIInv, SkillShape, PromoteByHand
<1>4. \A m \in SkillNames : Tried(m)' <=> Tried(m)
  BY DEF PromoteByHand, Tried
<1>5. \A m \in SkillNames \ {n} : Somewhere(m)' /\ InTheOpen(m)'
  <2>1. /\ UNCHANGED <<archived, outcomes, trial, crashes, backedUp>>
        /\ \A m \in SkillNames \ {n} : draft'[m] = draft[m]
        /\ writes <= writes' /\ crashes <= crashes'
    BY <1>2, <1>3, <1>4 DEF PromoteByHand, SkillIInv, SkillShape
  <2>2. skills' = discover(dirs') \/ \A m \in SkillNames \ {n} : skills'[m] = skills[m]
    BY <1>2, <1>3, <1>4 DEF PromoteByHand
  <2>3. QED
    BY <1>2, <1>3, <1>4, <2>1, <2>2, OtherName
<1>6. Somewhere(n)'
  BY <1>2 DEF Somewhere
<1>7. InTheOpen(n)'
  BY <1>2, DiscoverInTheOpen DEF SkillIInv, InTheOpen, PromoteByHand
<1>8. QED
  BY <1>3, <1>5, <1>6, <1>7 DEF SkillIInv

LEMMA ArchiveInv == ASSUME SkillIInv, NEW n \in SkillNames, ArchiveByHand(n) PROVE SkillIInv'
<1>1. SkillShape' /\ \A m \in SkillNames \ {n} : draft'[m] = draft[m]
  BY DEF SkillIInv, SkillShape, ArchiveByHand
<1>2. \A m \in SkillNames : Tried(m)' <=> Tried(m)
  BY DEF ArchiveByHand, Tried
<1>3. \A m \in SkillNames \ {n} : Somewhere(m)' /\ InTheOpen(m)'
  BY <1>1, <1>2, OtherName DEF ArchiveByHand, SkillIInv, SkillShape
<1>4. Somewhere(n)' /\ InTheOpen(n)'
  BY <1>2 DEF ArchiveByHand, Somewhere, SkillIInv, InTheOpen, promoted
<1>5. QED
  BY <1>1, <1>3, <1>4 DEF SkillIInv

LEMMA ApproveInv == ASSUME SkillIInv, NEW n \in SkillNames, Approve(n) PROVE SkillIInv'
<1>1. "approved" \in Origins /\ review[n].body \in Bodies
  BY DEF Origins, SkillIInv, SkillShape, Approve
<1>2. /\ dirs' \in [SkillNames -> [Depths -> OnDisk \cup {None}]]
      /\ dirs'[n][0] # None
      /\ dirs'[n][0].origin = "approved" /\ \A k \in Depths \ {0} : dirs'[n][k] = dirs[n][k]
      /\ \A m \in SkillNames \ {n} : dirs'[m] = dirs[m]
  <2>1. dirs' = Placed(dirs, n, review[n].body, "approved")
    BY DEF Approve, Placed
  <2>2. dirs \in [SkillNames -> [Depths -> OnDisk \cup {None}]]
    BY DEF SkillIInv, SkillShape
  <2>3. QED
    BY <1>1, <2>1, <2>2, PutInPlace
<1>3. SkillShape'
  BY <1>2 DEF SkillIInv, SkillShape, Approve
<1>4. \A m \in SkillNames : Tried(m)' <=> Tried(m)
  BY DEF Approve, Tried
<1>5. \A m \in SkillNames \ {n} : Somewhere(m)' /\ InTheOpen(m)'
  BY <1>2, <1>3, <1>4, OtherName DEF Approve, SkillIInv, SkillShape
<1>6. Somewhere(n)'
  BY <1>2 DEF Somewhere
<1>7. InTheOpen(n)'
  BY <1>2 DEF SkillIInv, InTheOpen, Approve
<1>8. QED
  BY <1>3, <1>5, <1>6, <1>7 DEF SkillIInv

\* Steps that change the reviewed drafts, what the registry has read, or the crashes only.
LEMMA AsideInv ==
  ASSUME SkillIInv, SkillShape',
         UNCHANGED <<dirs, draft, archived, outcomes, backedUp>>,
         skills' = skills \/ skills' = discover(dirs'),
         writes <= writes', (trial' = trial /\ crashes' = crashes) \/ crashes' # 0,
         \A s \in Validators : trial'[s] = trial[s] \/ trial'[s] = NoTrial
  PROVE  SkillIInv'
<1>1. writes' = 0 => writes = 0
  BY DEF SkillIInv, SkillShape
<1>2. NoTrial.name = None
  BY DEF NoTrial
<1>3. ASSUME NEW n \in SkillNames PROVE Somewhere(n)'
  <2>1. Tried(n)' => Tried(n)
    BY <1>2, NoneIsNothing DEF Tried
  <2>2. QED
    BY <1>1, <2>1 DEF SkillIInv, Somewhere
<1>4. ASSUME NEW n \in SkillNames PROVE InTheOpen(n)'
  <2>1. CASE crashes' # 0
    BY <2>1 DEF InTheOpen
  <2>2. CASE trial' = trial /\ crashes' = crashes
    <3>1. Tried(n)' <=> Tried(n)
      BY <2>2 DEF Tried
    <3>2. crashes <= crashes'
      BY <2>2 DEF SkillIInv, SkillShape
    <3>3. QED
      BY <2>2, <3>1, <3>2, OtherName
  <2>3. QED
    BY <2>1, <2>2
<1>5. QED
  BY <1>3, <1>4 DEF SkillIInv
-----------------------------------------------------------------------------
\* What an answer suggests.
LEMMA Suggests ==
  ASSUME NEW a \in Answers
  PROVE  Reflection(a).suggested # None =>
           /\ Reflection(a).suggested[1] \in SkillNames
           /\ Reflection(a).suggested[2] \in Bodies
<1>1. a.skill = None \/ a.skill \in SkillNames \X Bodies
  BY DEF Answers
<1>2. QED
  BY <1>1 DEF Reflection

\* What is learned from a plan, whether it was a trial or not.
LEMMA LearnInv ==
  ASSUME SkillIInv, NEW m \in Metrics, NEW a \in Answers \cup {None}, Learn(m, a),
         UNCHANGED <<review, writes, crashes, backedUp>>, plans' \in 0 .. MaxPlans,
         trial' \in [Validators -> Trial \cup {NoTrial}],
         \A s \in Validators : trial'[s].name = trial[s].name /\ trial'[s].backup = trial[s].backup
  PROVE  SkillIInv'
<1>1. /\ \A n \in SkillNames : Tried(n)' <=> Tried(n)
      /\ writes <= writes' /\ crashes <= crashes'
  BY DEF Tried, SkillIInv, SkillShape
<1>2. CASE UNCHANGED <<dirs, skills, draft, archived, baseline, outcomes>>
  <2>1. SkillShape'
    BY <1>2 DEF SkillIInv, SkillShape
  <2>2. QED
    BY <1>1, <1>2, <2>1, OtherName DEF SkillIInv
<1>3. ASSUME NEW n \in SkillNames, NEW b \in Bodies,
             \A k \in SkillNames \ {n} : /\ dirs'[k] = dirs[k] /\ draft'[k] = draft[k]
                                        /\ outcomes'[k] = outcomes[k],
             archived \subseteq archived', SkillShape',
             skills' = skills \/ skills' = discover(dirs'),
             \/ /\ UNCHANGED <<dirs, skills>> /\ outcomes[n] \subseteq outcomes'[n]
                /\ draft'[n] # None \/ n \in archived'
             \/ /\ dirs' = Placed(dirs, n, b, "draft") /\ skills' = discover(dirs')
                /\ "improved" \in outcomes'[n]
      PROVE  SkillIInv'
  <2>1. \A k \in SkillNames \ {n} : Somewhere(k)' /\ InTheOpen(k)'
    BY <1>1, <1>3, OtherName
  <2>2. CASE UNCHANGED <<dirs, skills>> /\ outcomes[n] \subseteq outcomes'[n]
             /\ (draft'[n] # None \/ n \in archived')
    <3>1. Somewhere(n)'
      BY <2>2 DEF Somewhere
    <3>2. promoted(n) => promoted(n)'
      BY <2>2 DEF promoted
    <3>3. InTheOpen(n)'
      BY <1>1, <2>2, <3>2 DEF SkillIInv, InTheOpen
    <3>4. QED
      BY <1>3, <2>1, <3>1, <3>3 DEF SkillIInv
  <2>3. CASE /\ dirs' = Placed(dirs, n, b, "draft") /\ skills' = discover(dirs')
             /\ "improved" \in outcomes'[n]
    <3>1. "draft" \in Origins
      BY DEF Origins
    <3>2. dirs'[n][0] # None /\ \A k \in Depths \ {0} : dirs'[n][k] = dirs[n][k]
      BY <2>3, <3>1, PutInPlace DEF SkillIInv, SkillShape
    <3>3. Somewhere(n)'
      BY <3>2 DEF Somewhere
    <3>4. promoted(n)'
      BY <2>3 DEF promoted
    <3>5. dirs' \in [SkillNames -> [Depths -> OnDisk \cup {None}]]
      BY <1>3 DEF SkillShape
    <3>6. InTheOpen(n)'
      BY <1>1, <2>3, <3>2, <3>4, <3>5, DiscoverInTheOpen DEF SkillIInv, InTheOpen
    <3>7. QED
      BY <1>3, <2>1, <3>3, <3>6 DEF SkillIInv
  <2>4. QED
    BY <1>3, <2>2, <2>3
<1>4. ASSUME a # None, LearnFromFailure(m, Reflection(a)) PROVE SkillIInv'
  <2> DEFINE n == Reflection(a).suggested[1]
  <2>1. n \in SkillNames /\ Reflection(a).suggested[2] \in Bodies
    BY <1>4, Suggests DEF LearnFromFailure
  <2>2. /\ UNCHANGED <<dirs, skills, baseline, outcomes>>
        /\ draft' = [draft EXCEPT ![n] = None] /\ archived' = archived \cup {n}
    BY <1>4 DEF LearnFromFailure
  <2> HIDE DEF n
  <2>3. SkillShape' /\ \A k \in SkillNames \ {n} : draft'[k] = draft[k]
    BY <2>1, <2>2 DEF SkillIInv, SkillShape
  <2>4. QED
    BY <1>3, <2>1, <2>2, <2>3
<1>5. ASSUME a # None, LearnFromSuccess(m, Reflection(a)) PROVE SkillIInv'
  <2> DEFINE n == Reflection(a).suggested[1]
             b == Reflection(a).suggested[2]
             outcome == Judged(n, m)
  <2>1. n \in SkillNames /\ b \in Bodies
    BY <1>5, Suggests DEF LearnFromSuccess
  <2>2. outcome \in {"baseline", "improved", "failed"}
    BY DEF Judged
  <2>3. /\ outcomes' = [outcomes EXCEPT ![n] = @ \cup {outcome}]
        /\ baseline' = IF outcome = "failed" THEN baseline ELSE [baseline EXCEPT ![n] = m]
        /\ draft' = [draft EXCEPT ![n] = IF outcome = "baseline" THEN b ELSE None]
        /\ archived' = IF outcome = "failed" THEN archived \cup {n} ELSE archived
        /\ dirs' = IF outcome = "improved" THEN Placed(dirs, n, b, "draft") ELSE dirs
        /\ skills' = IF outcome = "improved" THEN discover(dirs') ELSE skills
    BY <1>5 DEF LearnFromSuccess, Promoted, Placed
  <2> HIDE DEF n, b, outcome
  <2>4. b # None
    BY <2>1, NoneIsNothing
  <2>5. /\ dirs' \in [SkillNames -> [Depths -> OnDisk \cup {None}]]
        /\ \A k \in SkillNames \ {n} : dirs'[k] = dirs[k]
    <3>1. "draft" \in Origins
      BY DEF Origins
    <3>2. dirs \in [SkillNames -> [Depths -> OnDisk \cup {None}]]
      BY DEF SkillIInv, SkillShape
    <3>3. QED
      BY <2>1, <2>3, <3>1, <3>2, PutInPlace
  <2>6. skills' \in [SkillNames -> Served \cup {None}]
    BY <2>3, <2>5, DiscoverFinds DEF SkillIInv, SkillShape
  <2>7. SkillShape'
    BY <2>1, <2>2, <2>3, <2>5, <2>6 DEF SkillIInv, SkillShape
  <2>8. /\ \A k \in SkillNames \ {n} : draft'[k] = draft[k] /\ outcomes'[k] = outcomes[k]
        /\ outcomes'[n] = outcomes[n] \cup {outcome}
        /\ draft'[n] = IF outcome = "baseline" THEN b ELSE None
    BY <2>1, <2>3 DEF SkillIInv, SkillShape
  <2>9. CASE outcome = "improved"
    BY <1>3, <2>1, <2>3, <2>5, <2>7, <2>8, <2>9
  <2>10. CASE outcome # "improved"
    BY <1>3, <2>1, <2>2, <2>3, <2>4, <2>5, <2>7, <2>8, <2>10
  <2>11. QED
    BY <2>9, <2>10
<1>6. QED
  BY <1>2, <1>4, <1>5 DEF Learn, LearnProcedure

\* A trial starts.
LEMMA StartTrialInv ==
  ASSUME SkillIInv, NEW s \in Validators, NEW n \in SkillNames, StartTrial(s, n)
  PROVE  SkillIInv'
<1> DEFINE from == skills[n].at
           aside == IF skills[n] = None THEN dirs
                    ELSE [dirs EXCEPT ![n] = [@ EXCEPT ![from + 1] = dirs[n][from],
                                                       ![from] = None]]
           new == [name |-> n, body |-> draft[n],
                   backup |-> IF skills[n] = None THEN 0 ELSE from + 1,
                   before |-> dirs[n][0], metrics |-> None]
<1>1. /\ plans < MaxPlans /\ plans' = plans + 1 /\ trial[s] = NoTrial /\ draft[n] # None
      /\ skills[n] # None => dirs[n][from] # None /\ from + 1 \in Depths
      /\ dirs' = Placed(aside, n, draft[n], "draft") /\ skills' = discover(dirs')
      /\ draft' = [draft EXCEPT ![n] = None] /\ trial' = [trial EXCEPT ![s] = new]
      /\ backedUp' = IF skills[n] = None THEN backedUp ELSE backedUp \cup {n}
      /\ UNCHANGED <<archived, baseline, outcomes, review, writes, crashes>>
  BY DEF StartTrial, Promoted, Placed
<1>2. /\ skills[n] # None => from \in Depths
      /\ draft[n] \in Bodies /\ 0 \in Depths /\ "draft" \in Origins
      /\ dirs \in [SkillNames -> [Depths -> OnDisk \cup {None}]]
      /\ dirs[n] \in [Depths -> OnDisk \cup {None}]
  BY <1>1, SkillBoundsAreNatural DEF SkillIInv, SkillShape, Served, Depths, Origins
<1>3. /\ aside \in [SkillNames -> [Depths -> OnDisk \cup {None}]]
      /\ \A m \in SkillNames \ {n} : aside[m] = dirs[m]
  <2>1. CASE skills[n] = None
    BY <1>2, <2>1
  <2>2. CASE skills[n] # None
    <3>1. [dirs[n] EXCEPT ![from + 1] = dirs[n][from], ![from] = None]
            \in [Depths -> OnDisk \cup {None}]
      BY <1>1, <1>2, <2>2
    <3>2. QED
      BY <1>2, <2>2, <3>1
  <2>3. QED
    BY <2>1, <2>2
<1>4. new \in Trial /\ new.name = n
  BY <1>1, <1>2 DEF Trial
<1> HIDE DEF new, aside
<1>5. /\ dirs' \in [SkillNames -> [Depths -> OnDisk \cup {None}]]
      /\ dirs'[n][0] # None /\ \A k \in Depths \ {0} : dirs'[n][k] = aside[n][k]
      /\ \A m \in SkillNames \ {n} : dirs'[m] = dirs[m]
  <2>1. dirs' = Placed(aside, n, draft[n], "draft")
    BY <1>1
  <2>2. draft[n] \in Bodies /\ "draft" \in Origins
    BY <1>2
  <2>3. QED
    BY <1>3, <2>1, <2>2, PutInPlace
<1>6. /\ skills' \in [SkillNames -> Served \cup {None}]
      /\ trial' \in [Validators -> Trial \cup {NoTrial}]
      /\ trial'[s].name = n /\ \A v \in Validators \ {s} : trial'[v] = trial[v]
      /\ plans' \in 0 .. MaxPlans
      /\ \A m \in SkillNames \ {n} : draft'[m] = draft[m]
      /\ draft' \in [SkillNames -> Bodies \cup {None}]
  BY <1>1, <1>4, <1>5, DiscoverFinds, SkillBoundsAreNatural DEF SkillIInv, SkillShape
<1>7. SkillShape'
  BY <1>1, <1>5, <1>6 DEF SkillIInv, SkillShape
<1>8. Tried(n)'
  BY <1>6 DEF Tried
<1>9. \A m \in SkillNames \ {n} : Tried(m)' <=> Tried(m)
  BY <1>1, <1>6, NoneIsNothing DEF Tried, NoTrial
<1>10. \A m \in SkillNames \ {n} : Somewhere(m)' /\ InTheOpen(m)'
  <2>1. writes <= writes' /\ crashes <= crashes'
    BY <1>1 DEF SkillIInv, SkillShape
  <2>2. \A m \in SkillNames \ {n} : m \in backedUp => m \in backedUp'
    BY <1>1
  <2>3. QED
    BY <1>1, <1>5, <1>6, <1>7, <1>9, <2>1, <2>2, OtherName
<1>11. Somewhere(n)'
  BY <1>5 DEF Somewhere
<1>12. InTheOpen(n)'
  <2>1. CASE skills[n] # None
    BY <1>1, <2>1 DEF InTheOpen
  <2>2. CASE skills[n] = None
    <3>1. new.backup = 0 /\ aside = dirs /\ backedUp' = backedUp
      BY <1>1, <2>2 DEF new, aside
    <3>2. trial'[s] = new
      BY <1>1 DEF SkillIInv, SkillShape
    <3>3. ASSUME n \notin backedUp', crashes' = 0
          PROVE  /\ \A k \in Depths \ {0} : dirs'[n][k] = None
                 /\ \A v \in Validators : trial'[v].name = n => trial'[v].backup = 0
      BY <1>1, <1>5, <1>6, <3>1, <3>2, <3>3 DEF SkillIInv, InTheOpen
    <3>4. QED
      BY <1>1, <1>5, <1>8, <3>3, DiscoverInTheOpen DEF InTheOpen
  <2>3. QED
    BY <2>1, <2>2
<1>13. QED
  BY <1>7, <1>10, <1>11, <1>12 DEF SkillIInv

\* A trial under way is one.
LEMMA TrialIsReal ==
  ASSUME SkillIInv, NEW s \in Validators, trial[s] # NoTrial \/ trial[s].metrics # None
  PROVE  trial[s] \in Trial /\ trial[s].name \in SkillNames
BY DEF SkillIInv, SkillShape, Trial, NoTrial

\* A trial ends with its draft a draft again.
LEMMA DemoteInv ==
  ASSUME SkillIInv, NEW s \in Validators, trial[s] \in Trial, demoteDraft(trial[s]),
         TrialOver(s), archived' \in {archived, archived \cup {trial[s].name}},
         baseline' \in [SkillNames -> Metrics \cup {None}],
         outcomes' \in [SkillNames -> SUBSET {"baseline", "pending", "improved", "failed"}],
         \A m \in SkillNames \ {trial[s].name} : outcomes'[m] = outcomes[m],
         UNCHANGED <<review, plans, writes, crashes, backedUp>>
  PROVE  SkillIInv'
<1>0. PICK n \in SkillNames : n = trial[s].name
  BY DEF Trial
<1> DEFINE t == trial[s]
           without == WithoutSkill(dirs, n)
<1>1. n \in SkillNames /\ t.name = n /\ t.body \in Bodies /\ t.backup \in Depths /\ 0 \in Depths
  BY <1>0, SkillBoundsAreNatural DEF Trial, Depths
<1>2. /\ draft' = [draft EXCEPT ![n] = t.body]
      /\ dirs' = RestoreBackup(without, t)
      /\ skills' = IF dirs' # without THEN discover(dirs') ELSE [skills EXCEPT ![n] = None]
      /\ trial' = [trial EXCEPT ![s] = NoTrial]
  BY <1>0 DEF demoteDraft, TrialOver
<1>3. /\ without \in [SkillNames -> [Depths -> OnDisk \cup {None}]]
      /\ \A m \in SkillNames \ {n} : without[m] = dirs[m]
      /\ \A k \in Depths : without[n][k] =
           IF skills[n] # None /\ k = skills[n].at THEN None ELSE dirs[n][k]
  BY <1>1, WithoutSkillFacts DEF SkillIInv
<1> HIDE DEF without, t
<1>4. /\ dirs' \in [SkillNames -> [Depths -> OnDisk \cup {None}]]
      /\ \A m \in SkillNames \ {n} : dirs'[m] = dirs[m]
      /\ t.backup = 0 => dirs' = without
  <2>1. CASE t.backup = 0 \/ without[n][t.backup] = None
    BY <1>1, <1>2, <1>3, <2>1 DEF RestoreBackup
  <2>2. CASE ~(t.backup = 0 \/ without[n][t.backup] = None)
    <3>1. [without[n] EXCEPT ![0] = without[n][t.backup], ![t.backup] = None]
            \in [Depths -> OnDisk \cup {None}]
      BY <1>1, <1>3
    <3>2. dirs' = [without EXCEPT ![n] = [without[n] EXCEPT ![0] = without[n][t.backup],
                                                          ![t.backup] = None]]
      BY <1>1, <1>2, <1>3, <2>2 DEF RestoreBackup
    <3>3. QED
      BY <1>1, <1>3, <2>2, <3>1, <3>2
  <2>3. QED
    BY <2>1, <2>2
<1>5. /\ skills' \in [SkillNames -> Served \cup {None}]
      /\ skills' = discover(dirs') \/ \A m \in SkillNames \ {n} : skills'[m] = skills[m]
      /\ dirs' = without => skills'[n] = None
  BY <1>1, <1>2, <1>4, DiscoverFinds DEF SkillIInv, SkillShape
<1>6. /\ draft' \in [SkillNames -> Bodies \cup {None}] /\ draft'[n] # None
      /\ \A m \in SkillNames \ {n} : draft'[m] = draft[m] /\ outcomes'[m] = outcomes[m]
      /\ outcomes' \in [SkillNames -> SUBSET {"baseline", "pending", "improved", "failed"}]
      /\ trial' \in [Validators -> Trial \cup {NoTrial}]
      /\ trial'[s] = NoTrial /\ \A v \in Validators \ {s} : trial'[v] = trial[v]
      /\ archived' \subseteq SkillNames /\ archived \subseteq archived'
  BY <1>0, <1>1, <1>2, NoneIsNothing DEF SkillIInv, SkillShape, t
<1>7. SkillShape'
  BY <1>4, <1>5, <1>6 DEF SkillIInv, SkillShape
<1>8. \A m \in SkillNames \ {n} : Tried(m)' <=> Tried(m)
  BY <1>0, <1>6, NoneIsNothing DEF Tried, NoTrial
<1>9. \A m \in SkillNames \ {n} : Somewhere(m)' /\ InTheOpen(m)'
  <2>1. writes <= writes' /\ crashes <= crashes'
    BY DEF SkillIInv, SkillShape
  <2>2. \A m \in SkillNames : \A v \in Validators :
          trial'[v].name = m => trial'[v] = trial[v]
    BY <1>6, NoneIsNothing DEF NoTrial
  <2>3. QED
    BY <1>4, <1>5, <1>6, <1>7, <1>8, <2>1, <2>2, OtherName
<1>10. Somewhere(n)'
  BY <1>6 DEF Somewhere
<1>11. ASSUME n \notin backedUp', crashes' = 0 PROVE InTheOpen(n)'
  <2>1. /\ \A k \in Depths \ {0} : dirs[n][k] = None
        /\ skills[n] # None => skills[n].at = 0
        /\ \A v \in Validators : trial[v].name = n => trial[v].backup = 0
        /\ dirs[n][0] # None /\ dirs[n][0].origin = "draft" => skills[n] # None
    BY <1>1, <1>11 DEF SkillIInv, InTheOpen
  <2>2. dirs' = without /\ skills'[n] = None
    BY <1>0, <1>4, <1>5, <2>1 DEF t
  <2>3. dirs'[n][0] # None => dirs'[n][0].origin # "draft"
    BY <1>1, <1>3, <2>1, <2>2
  <2>4. \A v \in Validators : trial'[v].name = n => trial'[v].backup = 0
    BY <1>1, <1>6, <2>1, NoneIsNothing DEF NoTrial
  <2>5. QED
    BY <1>3, <2>1, <2>2, <2>3, <2>4 DEF InTheOpen
<1>12. QED
  BY <1>7, <1>9, <1>10, <1>11 DEF SkillIInv, InTheOpen

\* A trial that improves keeps its draft as the skill and takes the backup away.
LEMMA ImproveInv == ASSUME SkillIInv, NEW s \in Validators, TrialImproves(s) PROVE SkillIInv'
<1>1. PICK n \in SkillNames : n = trial[s].name
  BY TrialIsReal DEF TrialImproves
<1>2. /\ trial[s] \in Trial /\ trial[s].metrics \in Metrics \cup {None}
      /\ trial[s].metrics # None /\ trial[s].backup \in Depths
  BY TrialIsReal DEF TrialImproves, Trial
<1>3. /\ baseline' = [baseline EXCEPT ![n] = trial[s].metrics]
      /\ outcomes' = [outcomes EXCEPT ![n] = @ \cup {"improved"}]
      /\ dirs' = IF trial[s].backup = 0 THEN dirs
                 ELSE [dirs EXCEPT ![n][trial[s].backup] = None]
      /\ trial' = [trial EXCEPT ![s] = NoTrial]
      /\ UNCHANGED <<skills, draft, archived, review, plans, writes, crashes, backedUp>>
  BY <1>1 DEF TrialImproves, TrialOver
<1>4. /\ dirs' \in [SkillNames -> [Depths -> OnDisk \cup {None}]]
      /\ \A m \in SkillNames \ {n} : dirs'[m] = dirs[m]
      /\ dirs'[n][0] = dirs[n][0]
      /\ \A k \in Depths : dirs'[n][k] \in {dirs[n][k], None}
  <2>1. 0 \in Depths
    BY SkillBoundsAreNatural DEF Depths
  <2>2. QED
    BY <1>2, <1>3, <2>1 DEF SkillIInv, SkillShape
<1>5. /\ \A m \in SkillNames \ {n} : outcomes'[m] = outcomes[m]
      /\ "improved" \in outcomes'[n]
      /\ trial'[s] = NoTrial /\ \A v \in Validators \ {s} : trial'[v] = trial[v]
      /\ writes <= writes' /\ crashes <= crashes'
  BY <1>3 DEF SkillIInv, SkillShape
<1>6. SkillShape'
  BY <1>2, <1>3, <1>4 DEF SkillIInv, SkillShape
<1>7. \A m \in SkillNames \ {n} : Tried(m)' <=> Tried(m)
  BY <1>1, <1>5, NoneIsNothing DEF Tried, NoTrial
<1>8. \A m \in SkillNames \ {n} : Somewhere(m)' /\ InTheOpen(m)'
  <2>1. \A m \in SkillNames : \A v \in Validators :
          trial'[v].name = m => trial'[v] = trial[v]
    BY <1>5, NoneIsNothing DEF NoTrial
  <2>2. QED
    BY <1>3, <1>4, <1>5, <1>6, <1>7, <2>1, OtherName
<1>9. Somewhere(n)'
  <2>1. Tried(n)
    BY <1>1 DEF Tried
  <2>2. QED
    BY <1>3, <1>4, <2>1 DEF SkillIInv, Somewhere
<1>10. InTheOpen(n)'
  <2>1. promoted(n)'
    BY <1>5 DEF promoted
  <2>2. \A v \in Validators : trial'[v].name = n => trial'[v] = trial[v]
    BY <1>5, NoneIsNothing DEF NoTrial
  <2>3. QED
    BY <1>3, <1>4, <2>1, <2>2 DEF SkillIInv, InTheOpen
<1>11. QED
  BY <1>6, <1>8, <1>9, <1>10 DEF SkillIInv

LEMMA SkillStep == ASSUME SkillIInv, [SkillNext]_skillVars PROVE SkillIInv'
<1>1. ASSUME NEW n \in SkillNames, NEW b \in Bodies, LeaveForReview(n, b) PROVE SkillIInv'
  <2>1. SkillShape' /\ writes <= writes'
    BY <1>1, SkillBoundsAreNatural DEF SkillIInv, SkillShape, LeaveForReview
  <2>2. QED
    BY <1>1, <2>1, AsideInv DEF LeaveForReview
<1>2. ASSUME NEW n \in SkillNames, ApproveRemoves(n) \/ Reject(n) PROVE SkillIInv'
  <2>1. SkillShape' /\ writes <= writes'
    BY <1>2 DEF SkillIInv, SkillShape, ApproveRemoves, Reject
  <2>2. QED
    BY <1>2, <2>1, AsideInv DEF ApproveRemoves, Reject
<1>3. CASE Reload
  <2>1. SkillShape' /\ writes <= writes'
    BY <1>3, DiscoverFinds DEF SkillIInv, SkillShape, Reload
  <2>2. QED
    BY <1>3, <2>1, AsideInv DEF Reload
<1>4. CASE CrashInTrial
  <2>1. crashes' \in 0 .. MaxCrashes /\ crashes' # 0 /\ writes <= writes'
    BY <1>4, SkillBoundsAreNatural DEF SkillIInv, SkillShape, CrashInTrial
  <2>2. discover(dirs) \in [SkillNames -> Served \cup {None}]
    BY DiscoverFinds DEF SkillIInv, SkillShape
  <2>3. review' \in [SkillNames ->
                      [body : Bodies, approval : {"none", "written"}] \cup {None}]
    BY <1>4 DEF SkillIInv, SkillShape, CrashInTrial
  <2>4. SkillShape'
    BY <1>4, <2>1, <2>2, <2>3 DEF SkillIInv, SkillShape, CrashInTrial
  <2>5. QED
    BY <1>4, <2>1, <2>4, AsideInv DEF CrashInTrial
<1>5. ASSUME NEW m \in Metrics, NEW a \in Answers \cup {None}, PlanOver(m, a)
      PROVE  SkillIInv'
  <2>1. plans' \in 0 .. MaxPlans
    BY <1>5, SkillBoundsAreNatural DEF PlanOver, SkillIInv, SkillShape
  <2>2. QED
    BY <1>5, <2>1, LearnInv DEF PlanOver, SkillIInv, SkillShape
<1>6. ASSUME NEW m \in Metrics, NEW a \in Answers \cup {None}, NEW s \in Validators,
             TrialPlanEnds(s, m, a)
      PROVE  SkillIInv'
  <2>1. trial[s] \in Trial
    BY <1>6, TrialIsReal DEF TrialPlanEnds
  <2>2. [trial[s] EXCEPT !.metrics = m] \in Trial
    BY <2>1 DEF Trial
  <2>3. /\ trial' \in [Validators -> Trial \cup {NoTrial}]
        /\ \A v \in Validators :
             trial'[v].name = trial[v].name /\ trial'[v].backup = trial[v].backup
    BY <1>6, <2>1, <2>2 DEF TrialPlanEnds, SkillIInv, SkillShape, Trial
  <2>4. QED
    BY <1>6, <2>3, LearnInv DEF TrialPlanEnds, SkillIInv, SkillShape
<1>7. ASSUME NEW s \in Validators, TrialFails(s) PROVE SkillIInv'
  <2>1. trial[s] \in Trial
    BY <1>7, TrialIsReal DEF TrialFails
  <2>2. /\ baseline' \in [SkillNames -> Metrics \cup {None}]
        /\ outcomes' \in [SkillNames -> SUBSET {"baseline", "pending", "improved", "failed"}]
    BY <1>7 DEF TrialFails, SkillIInv, SkillShape
  <2>3. QED
    BY <1>7, <2>1, <2>2, DemoteInv DEF TrialFails
<1>8. ASSUME NEW s \in Validators, TrialPending(s) PROVE SkillIInv'
  <2>1. trial[s] \in Trial /\ trial[s].name \in SkillNames
    BY <1>8, TrialIsReal DEF TrialPending
  <2>2. baseline' \in [SkillNames -> Metrics \cup {None}]
    BY <1>8, <2>1 DEF TrialPending, SkillIInv, SkillShape, Trial
  <2>3. /\ outcomes' \in [SkillNames -> SUBSET {"baseline", "pending", "improved", "failed"}]
        /\ \A m \in SkillNames \ {trial[s].name} : outcomes'[m] = outcomes[m]
    BY <1>8, <2>1 DEF TrialPending, SkillIInv, SkillShape, Trial
  <2>4. archived' \in {archived, archived \cup {trial[s].name}}
    BY <1>8 DEF TrialPending
  <2>5. QED
    BY <1>8, <2>1, <2>2, <2>3, <2>4, DemoteInv DEF TrialPending
<1>9. ASSUME NEW s \in Validators, TrialWorse(s) PROVE SkillIInv'
  <2>1. trial[s] \in Trial
    BY <1>9, TrialIsReal DEF TrialWorse
  <2>2. baseline' \in [SkillNames -> Metrics \cup {None}]
    BY <1>9 DEF TrialWorse, SkillIInv, SkillShape
  <2>3. /\ outcomes' \in [SkillNames -> SUBSET {"baseline", "pending", "improved", "failed"}]
        /\ \A m \in SkillNames \ {trial[s].name} : outcomes'[m] = outcomes[m]
    BY <1>9, <2>1 DEF TrialWorse, SkillIInv, SkillShape, Trial
  <2>4. archived' \in {archived, archived \cup {trial[s].name}}
    BY <1>9 DEF TrialWorse
  <2>5. QED
    BY <1>9, <2>1, <2>2, <2>3, <2>4, DemoteInv DEF TrialWorse
<1>10. CASE UNCHANGED skillVars
  <2>1. SkillShape' /\ writes <= writes'
    BY <1>10 DEF skillVars, SkillIInv, SkillShape
  <2>2. QED
    BY <1>10, <2>1, AsideInv DEF skillVars
<1>11. QED
  BY <1>1, <1>2, <1>3, <1>4, <1>5, <1>6, <1>7, <1>8, <1>9, <1>10, WriteInv, DeleteSkillInv,
     PromoteInv, ArchiveInv, ApproveInv, StartTrialInv, ImproveInv
  DEF SkillNext

LEMMA SkillInitInv == ASSUME SkillInit PROVE SkillIInv
<1>1. SkillShape
  BY SkillBoundsAreNatural DEF SkillInit, SkillShape
<1>2. \A n \in SkillNames : ~Tried(n)
  BY NoneIsNothing DEF SkillInit, Tried, NoTrial
<1>3. 0 \in Depths
  BY SkillBoundsAreNatural DEF Depths
<1>4. QED
  BY <1>1, <1>2, <1>3, NoneIsNothing DEF SkillInit, SkillIInv, Somewhere, InTheOpen, NoTrial

\* No measured draft is lost, and none is a skill outside of a trial before it was measured
\* better than its baseline, where no skill of the name was in the way and nothing crashed.
THEOREM DraftsAreProven == SkillSpec => []SkillInv
<1>1. ASSUME SkillIInv PROVE SkillInv
  <2>1. SkillTypeOK
    BY <1>1 DEF SkillIInv, SkillShape, SkillTypeOK, OnDisk, Served, Trial, NoTrial
  <2>2. DraftSurvives
    <3>1. 0 \in Depths
      BY SkillBoundsAreNatural DEF Depths
    <3>2. QED
      BY <1>1, <3>1 DEF SkillIInv, Somewhere, DraftSurvives, Held
  <2>3. UnprovenStaysDraft
    BY <1>1 DEF SkillIInv, InTheOpen, UnprovenStaysDraft
  <2>4. QED
    BY <2>1, <2>2, <2>3 DEF SkillInv
<1>2. QED
  BY <1>1, SkillInitInv, SkillStep, PTL DEF SkillSpec

\* What a draft is measured against never gets worse.
THEOREM BaselinesImprove == SkillSpec => BaselineImproves
<1> DEFINE Better(n) ==
      baseline[n] # None /\ baseline'[n] # baseline[n] =>
        LET old == baseline[n] new == baseline'[n] IN
        /\ old.completed => new.completed
        /\ old.completed = new.completed =>
             \/ new.failures < old.failures
             \/ new.failures = old.failures /\ new.steps <= old.steps
<1>1. ASSUME SkillIInv, NEW k \in SkillNames, NEW m \in Metrics,
             baseline[k] = None \/ metricsBeat(m, baseline[k]),
             baseline' = [baseline EXCEPT ![k] = m]
      PROVE  \A n \in SkillNames : Better(n)
  <2>1. /\ baseline'[k] = m /\ \A n \in SkillNames \ {k} : baseline'[n] = baseline[n]
        /\ baseline[k] # None => baseline[k] \in Metrics
    BY <1>1 DEF SkillIInv, SkillShape
  <2>2. Better(k)
    BY <1>1, <2>1, MetricsMeasure DEF metricsBeat
  <2>3. QED
    BY <2>1, <2>2
<1>2. ASSUME SkillIInv, NEW m \in Metrics, NEW a \in Answers \cup {None}, Learn(m, a)
      PROVE  \A n \in SkillNames : Better(n)
  <2>1. CASE UNCHANGED baseline
    BY <2>1
  <2>2. ASSUME a # None, LearnFromSuccess(m, Reflection(a)), baseline' # baseline
        PROVE  \A n \in SkillNames : Better(n)
    <3>1. PICK k \in SkillNames : k = Reflection(a).suggested[1]
      BY <2>2, Suggests DEF LearnFromSuccess
    <3>2. /\ Judged(k, m) # "failed" /\ baseline' = [baseline EXCEPT ![k] = m]
      BY <2>2, <3>1 DEF LearnFromSuccess
    <3>3. baseline[k] = None \/ metricsBeat(m, baseline[k])
      BY <3>2 DEF Judged
    <3>4. QED
      BY <1>1, <1>2, <3>2, <3>3
  <2>3. QED
    BY <1>2, <2>1, <2>2 DEF Learn, LearnProcedure, LearnFromFailure
<1>3. ASSUME SkillIInv, NEW s \in Validators, TrialPending(s) \/ TrialImproves(s)
      PROVE  \A n \in SkillNames : Better(n)
  <2>1. trial[s] \in Trial /\ trial[s].metrics # None
    BY <1>3, TrialIsReal DEF TrialPending, TrialImproves
  <2>2. trial[s].name \in SkillNames /\ trial[s].metrics \in Metrics
    BY <2>1 DEF Trial
  <2>3. /\ \/ baseline[trial[s].name] = None
           \/ metricsBeat(trial[s].metrics, baseline[trial[s].name])
        /\ baseline' = [baseline EXCEPT ![trial[s].name] = trial[s].metrics]
    BY <1>3 DEF TrialPending, TrialImproves
  <2>4. QED
    BY <1>1, <1>3, <2>2, <2>3
<1>4. ASSUME SkillIInv, [SkillNext]_skillVars PROVE \A n \in SkillNames : Better(n)
  <2>1. CASE UNCHANGED baseline
    BY <2>1
  <2>2. CASE baseline' # baseline
    BY <1>2, <1>3, <1>4, <2>2
    DEF SkillNext, skillVars, WriteSkill, LeaveForReview, DeleteSkill, PromoteByHand,
      ArchiveByHand, Approve, ApproveRemoves, Reject, PlanOver, TrialPlanEnds, StartTrial,
      TrialFails, TrialWorse, Reload, CrashInTrial
  <2>3. QED
    BY <2>1, <2>2
<1>5. SkillIInv /\ [SkillNext]_skillVars => [\A n \in SkillNames : Better(n)]_skillVars
  BY <1>4
<1>6. QED
  BY <1>5, SkillInitInv, SkillStep, PTL DEF SkillSpec, BaselineImproves

(***************************************************************************)
(* The memory.                                                             *)
(***************************************************************************)
\* What holds of 0 and of each number up to N after the one before it holds of all of them.
LEMMA Climb ==
  ASSUME NEW N \in Nat, NEW T, 0 \in T, \A n \in 1 .. N : n - 1 \in T => n \in T
  PROVE  \A n \in 0 .. N : n \in T
<1> DEFINE Bad == {n \in 0 .. N : n \notin T}
<1>1. SUFFICES ASSUME Bad # {} PROVE FALSE
  OBVIOUS
<1>2. Bad \subseteq 0 .. N
  OBVIOUS
<1>3. PICK n \in Bad : \A m \in Bad : n <= m
  <2> HIDE DEF Bad
  <2> QED
    BY <1>1, <1>2, LeastExists
<1>4. n \in 1 .. N /\ n - 1 \in 0 .. N /\ ~(n <= n - 1)
  BY <1>3
<1>5. n - 1 \in T
  BY <1>3, <1>4
<1> QED
  BY <1>3, <1>4, <1>5

\* A function that goes on from step to step exists.
Iterates(g, n, a, F) == g[0] = a /\ \A i \in 1 .. n : g[i] = F[i][g[i - 1]]

\* Functions applied one after the other, from a, leave a record of what came out each time.
LEMMA Iteration ==
  ASSUME NEW N \in Nat, NEW S, NEW a \in S, NEW F \in [1 .. N -> [S -> S]]
  PROVE  \E g \in [0 .. N -> S] : Iterates(g, N, a, F)
<1> DEFINE Goes(g, n) == Iterates(g, n, a, F)
           T == {n \in 0 .. N : \E g \in [0 .. n -> S] : Goes(g, n)}
<1>1. 0 \in T
  <2> DEFINE g == [i \in 0 .. 0 |-> a]
  <2>1. g \in [0 .. 0 -> S] /\ g[0] = a /\ 1 .. 0 = {}
    OBVIOUS
  <2>2. Goes(g, 0) /\ 0 \in 0 .. N
    BY <2>1 DEF Iterates
  <2> HIDE DEF g, Goes
  <2> QED
    BY <2>1, <2>2
<1>2. ASSUME NEW n \in 1 .. N, n - 1 \in T PROVE n \in T
  <2>1. PICK h \in [0 .. n - 1 -> S] :
          h[0] = a /\ \A i \in 1 .. n - 1 : h[i] = F[i][h[i - 1]]
    BY <1>2 DEF Iterates
  <2> DEFINE g == [i \in 0 .. n |-> IF i = n THEN F[n][h[n - 1]] ELSE h[i]]
  <2>2. h[n - 1] \in S /\ F[n][h[n - 1]] \in S
    OBVIOUS
  <2>3. g \in [0 .. n -> S]
    <3>1. \A i \in 0 .. n : i # n => i \in 0 .. n - 1
      OBVIOUS
    <3> QED
      BY <2>2, <3>1
  <2>4. g[0] = a
    BY <2>1
  <2>5. ASSUME NEW i \in 1 .. n PROVE g[i] = F[i][g[i - 1]]
    <3>1. i - 1 \in 0 .. n /\ i - 1 # n /\ i \in 0 .. n
      OBVIOUS
    <3>2. g[i - 1] = h[i - 1]
      BY <3>1
    <3>3. CASE i = n
      BY <3>1, <3>2, <3>3
    <3>4. CASE i # n
      <4>1. i \in 1 .. n - 1
        BY <3>4
      <4>2. h[i] = F[i][h[i - 1]] /\ g[i] = h[i]
        BY <2>1, <3>1, <3>4, <4>1
      <4> QED
        BY <3>2, <4>2
    <3> QED
      BY <3>3, <3>4
  <2>6. Goes(g, n)
    <3> HIDE DEF g
    <3> QED
      BY <2>4, <2>5 DEF Iterates
  <2>7. n \in 0 .. N
    OBVIOUS
  <2> HIDE DEF g, Goes
  <2> QED
    BY <2>3, <2>6, <2>7
<1>3. N \in T
  <2>1. \A n \in 1 .. N : n - 1 \in T => n \in T
    BY <1>2
  <2>2. N \in 0 .. N
    OBVIOUS
  <2> HIDE DEF T, Goes
  <2>3. \A n \in 0 .. N : n \in T
    BY <1>1, <2>1, Climb
  <2> QED
    BY <2>2, <2>3
<1> QED
  BY <1>3
-----------------------------------------------------------------------------
Sections == [authority : Asserters, body : Seq(Entries)]

\* What a file is read as: each section once, with what is under it.
Parsings ==
  {p \in [headings : Seq(Keys), sections : UNION {[D -> Sections] : D \in SUBSET Keys}] :
     /\ DOMAIN p.sections = Range(p.headings)
     /\ \A i, j \in 1 .. Len(p.headings) : p.headings[i] = p.headings[j] => i = j}

\* A parsing lists each heading once, and has a section for each of them and for no other.
LEMMA ParsingParts ==
  ASSUME NEW p \in Parsings
  PROVE  /\ p.headings \in Seq(Keys) /\ Len(p.headings) \in Nat
         /\ DOMAIN p.headings = 1 .. Len(p.headings)
         /\ DOMAIN p.sections = Range(p.headings) /\ DOMAIN p.sections \subseteq Keys
         /\ p.sections \in [DOMAIN p.sections -> Sections]
         /\ \A i \in 1 .. Len(p.headings) :
              p.headings[i] \in Keys /\ p.headings[i] \in DOMAIN p.sections
         /\ \A i, j \in 1 .. Len(p.headings) : p.headings[i] = p.headings[j] => i = j
         /\ \A k \in DOMAIN p.sections : \E i \in 1 .. Len(p.headings) : p.headings[i] = k
         /\ \A k \in DOMAIN p.sections :
              /\ p.sections[k].authority \in Asserters /\ p.sections[k].body \in Seq(Entries)
              /\ p.sections[k] = [authority |-> p.sections[k].authority,
                                  body |-> p.sections[k].body]
<1>1. /\ p.headings \in Seq(Keys)
      /\ p.sections \in UNION {[D -> Sections] : D \in SUBSET Keys}
      /\ DOMAIN p.sections = Range(p.headings)
      /\ \A i, j \in 1 .. Len(p.headings) : p.headings[i] = p.headings[j] => i = j
  BY DEF Parsings
<1>2. PICK D \in SUBSET Keys : p.sections \in [D -> Sections]
  BY <1>1
<1>3. DOMAIN p.sections = D /\ \A k \in D : p.sections[k] \in Sections
  BY <1>2
<1>4. Len(p.headings) \in Nat /\ DOMAIN p.headings = 1 .. Len(p.headings)
  BY <1>1, LenProperties
<1>5. Range(p.headings) = {p.headings[i] : i \in 1 .. Len(p.headings)}
  BY <1>4 DEF Range
<1>6. \A k \in D :
        /\ p.sections[k].authority \in Asserters /\ p.sections[k].body \in Seq(Entries)
        /\ p.sections[k] = [authority |-> p.sections[k].authority, body |-> p.sections[k].body]
  BY <1>3 DEF Sections
<1>7. \A i \in 1 .. Len(p.headings) : p.headings[i] \in D
  BY <1>1, <1>3, <1>5
<1>8. \A k \in D : \E i \in 1 .. Len(p.headings) : p.headings[i] = k
  BY <1>1, <1>3, <1>5
<1>9. p.sections \in [DOMAIN p.sections -> Sections] /\ DOMAIN p.sections \subseteq Keys
  BY <1>2, <1>3
<1> QED
  BY <1>1, <1>3, <1>4, <1>6, <1>7, <1>8, <1>9

\* And what does is a parsing.
LEMMA IsParsing ==
  ASSUME NEW h \in Seq(Keys), NEW s \in [Range(h) -> Sections],
         \A i, j \in 1 .. Len(h) : h[i] = h[j] => i = j
  PROVE  [headings |-> h, sections |-> s] \in Parsings
<1>1. Range(h) \in SUBSET Keys
  <2>1. DOMAIN h = 1 .. Len(h) /\ \A i \in 1 .. Len(h) : h[i] \in Keys
    BY LenProperties, ElementOfSeq
  <2> QED
    BY <2>1 DEF Range
<1>2. s \in UNION {[D -> Sections] : D \in SUBSET Keys} /\ DOMAIN s = Range(h)
  BY <1>1
<1> QED
  BY <1>2 DEF Parsings

\* A parsing begins with no section.
LEMMA NoSectionsLemma == NoSections \in Parsings /\ DOMAIN NoSections.sections = {}
<1>1. <<>> \in Seq(Keys) /\ Len(<<>>) = 0 /\ 1 .. 0 = {}
  BY EmptySeq
<1>2. Range(<<>>) = {}
  BY DEF Range
<1>3. [k \in {} |-> <<>>] \in [Range(<<>>) -> Sections]
  BY <1>2
<1>4. [headings |-> <<>>, sections |-> [k \in {} |-> <<>>]] \in Parsings
  BY <1>1, <1>3, IsParsing
<1> QED
  BY <1>4 DEF NoSections

\* A section written anew or changed, and the others as they are.
LEMMA WithSectionLemma ==
  ASSUME NEW p \in Parsings, NEW key \in Keys, NEW authority \in Asserters,
         NEW body \in Seq(Entries)
  PROVE  LET q == WithSection(p, key, authority, body) IN
         /\ q \in Parsings
         /\ DOMAIN q.sections = DOMAIN p.sections \cup {key}
         /\ q.sections[key] = [authority |-> authority, body |-> body]
         /\ \A k \in DOMAIN p.sections \ {key} : q.sections[k] = p.sections[k]
<1> DEFINE q == WithSection(p, key, authority, body)
           h == IF Known(p, key) THEN p.headings ELSE Append(p.headings, key)
           s == With(p.sections, key, [authority |-> authority, body |-> body])
           N == Len(p.headings)
<1>1. q = [headings |-> h, sections |-> s]
  BY DEF WithSection
<1>2. /\ p.headings \in Seq(Keys) /\ N \in Nat /\ DOMAIN p.headings = 1 .. N
      /\ DOMAIN p.sections = Range(p.headings)
      /\ \A i \in 1 .. N : p.headings[i] \in DOMAIN p.sections
      /\ \A i, j \in 1 .. N : p.headings[i] = p.headings[j] => i = j
      /\ p.sections \in [DOMAIN p.sections -> Sections]
  BY ParsingParts
<1>3. /\ h \in Seq(Keys) /\ Range(h) = DOMAIN p.sections \cup {key}
      /\ \A i, j \in 1 .. Len(h) : h[i] = h[j] => i = j
  <2>1. CASE Known(p, key)
    <3>1. h = p.headings /\ key \in DOMAIN p.sections
      BY <2>1 DEF Known
    <3>2. DOMAIN p.sections \cup {key} = DOMAIN p.sections
      BY <3>1
    <3> QED
      BY <1>2, <3>1, <3>2
  <2>2. CASE ~Known(p, key)
    <3>1. h = Append(p.headings, key) /\ key \notin DOMAIN p.sections
      BY <2>2 DEF Known
    <3>2. /\ h \in Seq(Keys) /\ Len(h) = N + 1 /\ h[N + 1] = key
          /\ \A i \in 1 .. N : h[i] = p.headings[i]
      BY <1>2, <3>1
    <3>3. DOMAIN h = 1 .. N + 1
      BY <3>2
    <3>4. Range(h) = Range(p.headings) \cup {key}
      <4>1. \A i \in 1 .. N + 1 : i = N + 1 \/ i \in 1 .. N
        BY <1>2
      <4>2. \A i \in 1 .. N : i \in 1 .. N + 1
        BY <1>2
      <4>3. N + 1 \in 1 .. N + 1
        BY <1>2
      <4>4. Range(h) = {h[i] : i \in 1 .. N + 1}
        BY <3>3 DEF Range
      <4>5. Range(p.headings) = {p.headings[i] : i \in 1 .. N}
        BY <1>2 DEF Range
      <4> HIDE DEF h, N
      <4>6. ASSUME NEW x \in Range(h) PROVE x \in Range(p.headings) \cup {key}
        <5>1. PICK i \in 1 .. N + 1 : x = h[i]
          BY <4>4
        <5> QED
          BY <3>2, <4>1, <4>5, <5>1
      <4>7. Range(p.headings) \subseteq Range(h)
        BY <3>2, <4>2, <4>4, <4>5
      <4>8. key \in Range(h)
        BY <3>2, <4>3, <4>4
      <4> QED
        BY <4>6, <4>7, <4>8
    <3>5. ASSUME NEW i \in 1 .. Len(h), NEW j \in 1 .. Len(h), h[i] = h[j] PROVE i = j
      <4>1. (i = N + 1 \/ i \in 1 .. N) /\ (j = N + 1 \/ j \in 1 .. N)
        BY <1>2, <3>2
      <4> HIDE DEF h, N
      <4> QED
        BY <1>2, <3>1, <3>2, <3>5, <4>1
    <3> QED
      BY <1>2, <3>2, <3>4, <3>5
  <2> QED
    BY <2>1, <2>2
<1>4. [authority |-> authority, body |-> body] \in Sections
  BY DEF Sections
<1>5. /\ DOMAIN s = DOMAIN p.sections \cup {key} /\ s \in [DOMAIN s -> Sections]
      /\ s[key] = [authority |-> authority, body |-> body]
      /\ \A k \in DOMAIN p.sections \ {key} : s[k] = p.sections[k]
  BY <1>2, <1>4 DEF With
<1> HIDE DEF h, s, N
<1>6. [headings |-> h, sections |-> s] \in Parsings
  BY <1>3, <1>5, IsParsing
<1>7. q.sections = s
  BY <1>1
<1> QED
  BY <1>1, <1>5, <1>6, <1>7

\* What is under a heading, none where it is unknown, is a sequence of entries.
LEMMA BodyOfLemma ==
  ASSUME NEW p \in Parsings, NEW key \in Keys PROVE BodyOf(p, key) \in Seq(Entries)
BY ParsingParts, EmptySeq DEF BodyOf, Known

-----------------------------------------------------------------------------
\* A file is a head and blocks.
LEMMA FileParts ==
  ASSUME NEW f \in Files
  PROVE  /\ f.head \in Seq(Entries) /\ f.blocks \in Seq(Blocks)
         /\ Len(f.blocks) \in Nat /\ DOMAIN f.blocks = 1 .. Len(f.blocks)
         /\ \A i \in 1 .. Len(f.blocks) :
              /\ f.blocks[i] \in Blocks /\ f.blocks[i].key \in Keys
              /\ f.blocks[i].authority \in Asserters /\ f.blocks[i].body \in Seq(Entries)
         /\ Headings(f) = {f.blocks[i].key : i \in 1 .. Len(f.blocks)}
         /\ \A k : Headed(f, k) = {f.blocks[i].authority :
                                    i \in {j \in 1 .. Len(f.blocks) : f.blocks[j].key = k}}
<1> DEFINE N == Len(f.blocks)
<1>1. f.head \in Seq(Entries) /\ f.blocks \in Seq(Blocks)
  BY DEF Files
<1>2. N \in Nat /\ DOMAIN f.blocks = 1 .. N /\ \A i \in 1 .. N : f.blocks[i] \in Blocks
  BY <1>1, LenProperties, ElementOfSeq
<1>3. \A i \in 1 .. N : /\ f.blocks[i].key \in Keys
                        /\ f.blocks[i].authority \in Asserters
                        /\ f.blocks[i].body \in Seq(Entries)
  BY <1>2 DEF Blocks
<1>4. Range(f.blocks) = {f.blocks[i] : i \in 1 .. N}
  BY <1>2 DEF Range
<1>5. Headings(f) = {f.blocks[i].key : i \in 1 .. N}
  BY <1>4 DEF Headings
<1>6. ASSUME NEW k
      PROVE  Headed(f, k)
               = {f.blocks[i].authority : i \in {j \in 1 .. N : f.blocks[j].key = k}}
  BY <1>4 DEF Headed
<1> QED
  BY <1>1, <1>2, <1>3, <1>5, <1>6

\* Reading what is under a heading block by block.
Reads(f, key, g) ==
  g = [n \in 0 .. Len(f.blocks) |->
         IF n = 0 THEN <<>>
           ELSE IF f.blocks[n].key = key THEN g[n - 1] \o f.blocks[n].body
                  ELSE g[n - 1]]

ReadsOn(f, key, g) ==
  /\ g \in [0 .. Len(f.blocks) -> Seq(Entries)] /\ g[0] = <<>>
  /\ \A n \in 1 .. Len(f.blocks) :
       g[n] = IF f.blocks[n].key = key THEN g[n - 1] \o f.blocks[n].body ELSE g[n - 1]

\* What is under a heading can be read block by block.
LEMMA ReadLemma ==
  ASSUME NEW f \in Files, NEW key
  PROVE  \E g : ReadsOn(f, key, g) /\ Under(f, key) = g[Len(f.blocks)]
<1> DEFINE N == Len(f.blocks)
           F == [i \in 1 .. N |-> [s \in Seq(Entries) |->
                   IF f.blocks[i].key = key THEN s \o f.blocks[i].body ELSE s]]
<1>1. /\ N \in Nat
      /\ \A i \in 1 .. N : f.blocks[i].body \in Seq(Entries)
  BY FileParts
<1>2. <<>> \in Seq(Entries)
  BY EmptySeq
<1>3. F \in [1 .. N -> [Seq(Entries) -> Seq(Entries)]]
  <2>1. ASSUME NEW i \in 1 .. N, NEW s \in Seq(Entries)
        PROVE  s \o f.blocks[i].body \in Seq(Entries)
    BY <1>1, ConcatProperties
  <2> HIDE DEF N
  <2> QED
    BY <2>1
<1>4. \A i \in 1 .. N : \A s \in Seq(Entries) :
        F[i][s] = IF f.blocks[i].key = key THEN s \o f.blocks[i].body ELSE s
  OBVIOUS
<1> HIDE DEF F
<1>5. PICK h \in [0 .. N -> Seq(Entries)] :
        h[0] = <<>> /\ \A n \in 1 .. N : h[n] = F[n][h[n - 1]]
  <2> HIDE DEF N
  <2>1. \E h \in [0 .. N -> Seq(Entries)] : Iterates(h, N, <<>>, F)
    BY <1>1, <1>2, <1>3, Iteration
  <2> QED
    BY <2>1 DEF Iterates
<1>6. Reads(f, key, h)
  <2>1. ASSUME NEW n \in 0 .. N
        PROVE  h[n] = IF n = 0 THEN <<>>
                        ELSE IF f.blocks[n].key = key THEN h[n - 1] \o f.blocks[n].body
                               ELSE h[n - 1]
    <3>1. n # 0 => n \in 1 .. N /\ n - 1 \in 0 .. N
      BY <1>1
    <3> QED
      BY <1>4, <1>5, <3>1
  <2> QED
    BY <2>1 DEF Reads
<1> DEFINE g == CHOOSE r : r = [n \in 0 .. N |->
                              IF n = 0 THEN <<>>
                                ELSE IF f.blocks[n].key = key THEN r[n - 1] \o f.blocks[n].body
                                       ELSE r[n - 1]]
<1>7. Under(f, key) = g[N]
  BY SMTT(40) DEF Under
<1>8. Reads(f, key, g)
  BY <1>6, ZenonT(30) DEF Reads
<1> HIDE DEF g
<1>9. /\ g[0] = <<>> /\ DOMAIN g = 0 .. N /\ g = [n \in 0 .. N |-> g[n]]
      /\ \A n \in 1 .. N :
           g[n] = IF f.blocks[n].key = key THEN g[n - 1] \o f.blocks[n].body ELSE g[n - 1]
  <2>1. 0 \in 0 .. N /\ \A n \in 1 .. N : n \in 0 .. N /\ n # 0
    BY <1>1
  <2>2. g = [n \in 0 .. N |->
               IF n = 0 THEN <<>>
                 ELSE IF f.blocks[n].key = key THEN g[n - 1] \o f.blocks[n].body
                        ELSE g[n - 1]]
    BY <1>8 DEF Reads
  <2>3. DOMAIN g = 0 .. N
    BY <2>2
  <2>4. \A n \in 0 .. N :
          g[n] = IF n = 0 THEN <<>>
                   ELSE IF f.blocks[n].key = key THEN g[n - 1] \o f.blocks[n].body
                          ELSE g[n - 1]
    BY <2>2
  <2>5. g = [n \in 0 .. N |-> g[n]]
    BY <2>2
  <2> HIDE DEF N
  <2> QED
    BY <2>1, <2>3, <2>4, <2>5
<1>10. \A n \in 0 .. N : g[n] \in Seq(Entries)
  <2> DEFINE T == {n \in 0 .. N : g[n] \in Seq(Entries)}
  <2>1. 0 \in T
    BY <1>1, <1>2, <1>9
  <2>2. ASSUME NEW n \in 1 .. N, n - 1 \in T PROVE n \in T
    <3>1. g[n - 1] \in Seq(Entries) /\ f.blocks[n].body \in Seq(Entries) /\ n \in 0 .. N
      BY <1>1, <2>2
    <3>2. g[n - 1] \o f.blocks[n].body \in Seq(Entries)
      BY <3>1, ConcatProperties
    <3>3. g[n] \in Seq(Entries)
      BY <1>9, <3>1, <3>2
    <3> QED
      BY <3>1, <3>3
  <2>3. \A n \in 1 .. N : n - 1 \in T => n \in T
    BY <2>2
  <2>4. \A n \in 0 .. N : n \in T
    <3> HIDE DEF T, N
    <3> QED
      BY <1>1, <2>1, <2>3, Climb
  <2> QED
    BY <2>4
<1>11. g \in [0 .. N -> Seq(Entries)]
  BY <1>9, <1>10
<1>12. ReadsOn(f, key, g)
  BY <1>9, <1>11 DEF ReadsOn
<1> QED
  BY <1>7, <1>12

-----------------------------------------------------------------------------
\* A heading line read, with what is under it.
LEMMA BlockLemma ==
  ASSUME NEW p \in Parsings, NEW b \in Blocks
  PROVE  LET q == WithBlock(p, b) IN
         /\ q \in Parsings
         /\ DOMAIN q.sections = DOMAIN p.sections \cup {b.key}
         /\ BodyOf(q, b.key) = BodyOf(p, b.key) \o b.body
         /\ q.sections[b.key].authority = b.authority
         /\ \A k : k # b.key => BodyOf(q, k) = BodyOf(p, k)
         /\ \A k \in DOMAIN p.sections \ {b.key} : q.sections[k] = p.sections[k]
<1> DEFINE body == BodyOf(p, b.key) \o b.body
           q == WithBlock(p, b)
<1>1. b.key \in Keys /\ b.authority \in Asserters /\ b.body \in Seq(Entries)
  BY DEF Blocks
<1>2. body \in Seq(Entries)
  <2>1. BodyOf(p, b.key) \in Seq(Entries)
    BY <1>1, BodyOfLemma
  <2> QED
    BY <1>1, <2>1, ConcatProperties
<1>3. q = WithSection(p, b.key, b.authority, body)
  BY DEF WithBlock
<1> HIDE DEF body, q
<1>4. /\ q \in Parsings
      /\ DOMAIN q.sections = DOMAIN p.sections \cup {b.key}
      /\ q.sections[b.key] = [authority |-> b.authority, body |-> body]
      /\ \A k \in DOMAIN p.sections \ {b.key} : q.sections[k] = p.sections[k]
  BY <1>1, <1>2, <1>3, WithSectionLemma
<1>5. BodyOf(q, b.key) = body /\ q.sections[b.key].authority = b.authority
  BY <1>4 DEF BodyOf, Known
<1>6. \A k : k # b.key => BodyOf(q, k) = BodyOf(p, k)
  BY <1>4 DEF BodyOf, Known
<1> QED
  BY <1>4, <1>5, <1>6 DEF q, body

\* Reading the file block by block.
Passes(f, P) ==
  /\ P \in [0 .. Len(f.blocks) -> Parsings] /\ P[0] = NoSections
  /\ \A n \in 1 .. Len(f.blocks) : P[n] = WithBlock(P[n - 1], f.blocks[n])

\* splitSections reads the file block by block.
LEMMA PassLemma ==
  ASSUME NEW f \in Files
  PROVE  \E P : Passes(f, P) /\ splitSections(f) = P[Len(f.blocks)]
<1> DEFINE N == Len(f.blocks)
           F == [i \in 1 .. N |-> [p \in Parsings |-> WithBlock(p, f.blocks[i])]]
<1>1. N \in Nat /\ \A i \in 1 .. N : f.blocks[i] \in Blocks
  BY FileParts
<1>2. NoSections \in Parsings
  BY NoSectionsLemma
<1>3. F \in [1 .. N -> [Parsings -> Parsings]]
  <2>1. \A i \in 1 .. N : \A p \in Parsings : WithBlock(p, f.blocks[i]) \in Parsings
    BY <1>1, BlockLemma
  <2> HIDE DEF N
  <2> QED
    BY <2>1
<1>4. \A i \in 1 .. N : \A p \in Parsings : F[i][p] = WithBlock(p, f.blocks[i])
  OBVIOUS
<1> HIDE DEF F
<1>5. PICK h \in [0 .. N -> Parsings] :
        h[0] = NoSections /\ \A n \in 1 .. N : h[n] = F[n][h[n - 1]]
  <2> HIDE DEF N
  <2>1. \E h \in [0 .. N -> Parsings] : Iterates(h, N, NoSections, F)
    BY <1>1, <1>2, <1>3, Iteration
  <2> QED
    BY <2>1 DEF Iterates
<1>6. h = [n \in 0 .. N |-> IF n = 0 THEN NoSections ELSE WithBlock(h[n - 1], f.blocks[n])]
  <2>1. ASSUME NEW n \in 0 .. N
        PROVE  h[n] = IF n = 0 THEN NoSections ELSE WithBlock(h[n - 1], f.blocks[n])
    <3>1. n # 0 => n \in 1 .. N /\ n - 1 \in 0 .. N
      BY <1>1
    <3> QED
      BY <1>4, <1>5, <3>1
  <2> QED
    BY <2>1
<1> DEFINE g == CHOOSE r : r = [n \in 0 .. N |->
                  IF n = 0 THEN NoSections ELSE WithBlock(r[n - 1], f.blocks[n])]
<1>7. splitSections(f) = g[N]
  BY DEF splitSections
<1>8. g = [n \in 0 .. N |-> IF n = 0 THEN NoSections ELSE WithBlock(g[n - 1], f.blocks[n])]
  BY <1>6
<1> HIDE DEF g
<1>9. /\ g[0] = NoSections /\ DOMAIN g = 0 .. N /\ g = [n \in 0 .. N |-> g[n]]
      /\ \A n \in 1 .. N : g[n] = WithBlock(g[n - 1], f.blocks[n])
  <2>1. 0 \in 0 .. N /\ \A n \in 1 .. N : n \in 0 .. N /\ n # 0
    BY <1>1
  <2>2. DOMAIN g = 0 .. N
    BY <1>8
  <2>3. \A n \in 0 .. N :
          g[n] = IF n = 0 THEN NoSections ELSE WithBlock(g[n - 1], f.blocks[n])
    BY <1>8
  <2>4. g = [n \in 0 .. N |-> g[n]]
    BY <1>8
  <2> HIDE DEF N
  <2> QED
    BY <2>1, <2>2, <2>3, <2>4
<1>10. \A n \in 0 .. N : g[n] \in Parsings
  <2> DEFINE T == {n \in 0 .. N : g[n] \in Parsings}
  <2>1. 0 \in T
    BY <1>1, <1>2, <1>9
  <2>2. ASSUME NEW n \in 1 .. N, n - 1 \in T PROVE n \in T
    <3>1. g[n - 1] \in Parsings /\ f.blocks[n] \in Blocks /\ n \in 0 .. N
      BY <1>1, <2>2
    <3>2. WithBlock(g[n - 1], f.blocks[n]) \in Parsings
      BY <3>1, BlockLemma
    <3> QED
      BY <1>9, <3>1, <3>2
  <2>3. \A n \in 1 .. N : n - 1 \in T => n \in T
    BY <2>2
  <2>4. \A n \in 0 .. N : n \in T
    <3> HIDE DEF T, N
    <3> QED
      BY <1>1, <2>1, <2>3, Climb
  <2> QED
    BY <2>4
<1>11. Passes(f, g)
  <2>1. g \in [0 .. N -> Parsings]
    BY <1>9, <1>10
  <2> QED
    BY <1>9, <2>1 DEF Passes
<1> QED
  BY <1>7, <1>11

\* What a file is read as: the headings it has, each with what is under it and an authority
\* that asserts it.
LEMMA ParseLemma ==
  ASSUME NEW f \in Files
  PROVE  LET p == splitSections(f) IN
         /\ p \in Parsings
         /\ DOMAIN p.sections = Headings(f)
         /\ \A k : BodyOf(p, k) = Under(f, k) /\ Under(f, k) \in Seq(Entries)
         /\ \A k \in Headings(f) :
              p.sections[k].body = Under(f, k) /\ p.sections[k].authority \in Headed(f, k)
         /\ \A k : k \notin Headings(f) => Under(f, k) = <<>>
<1> DEFINE N == Len(f.blocks)
           p == splitSections(f)
           B == f.blocks
<1>1. /\ N \in Nat /\ \A i \in 1 .. N : B[i] \in Blocks /\ B[i].key \in Keys
      /\ Headings(f) = {B[i].key : i \in 1 .. N}
      /\ \A k : Headed(f, k) = {B[i].authority : i \in {j \in 1 .. N : B[j].key = k}}
  BY FileParts
<1>2. PICK P : Passes(f, P) /\ p = P[N]
  BY PassLemma
<1>3. /\ P \in [0 .. N -> Parsings] /\ P[0] = NoSections
      /\ \A n \in 1 .. N : P[n] = WithBlock(P[n - 1], B[n])
  BY <1>2 DEF Passes
<1>4. \A n \in 1 .. N : n \in 0 .. N /\ n - 1 \in 0 .. N
  BY <1>1
<1> HIDE DEF N, B, p
<1>5. ASSUME NEW n \in 1 .. N
      PROVE  /\ DOMAIN P[n].sections = DOMAIN P[n - 1].sections \cup {B[n].key}
             /\ BodyOf(P[n], B[n].key) = BodyOf(P[n - 1], B[n].key) \o B[n].body
             /\ P[n].sections[B[n].key].authority = B[n].authority
             /\ \A k : k # B[n].key => BodyOf(P[n], k) = BodyOf(P[n - 1], k)
             /\ \A k \in DOMAIN P[n - 1].sections \ {B[n].key} :
                  P[n].sections[k] = P[n - 1].sections[k]
  <2> DEFINE b == B[n]
             o == P[n - 1]
  <2>1. o \in Parsings /\ b \in Blocks /\ P[n] = WithBlock(o, b)
    BY <1>1, <1>3, <1>4
  <2> HIDE DEF b, o
  <2> DEFINE q == WithBlock(o, b)
  <2>2. /\ DOMAIN q.sections = DOMAIN o.sections \cup {b.key}
        /\ BodyOf(q, b.key) = BodyOf(o, b.key) \o b.body
        /\ q.sections[b.key].authority = b.authority
        /\ \A k : k # b.key => BodyOf(q, k) = BodyOf(o, k)
        /\ \A k \in DOMAIN o.sections \ {b.key} : q.sections[k] = o.sections[k]
    BY <2>1, BlockLemma
  <2>3. P[n] = q
    BY <2>1
  <2> HIDE DEF q
  <2> QED
    BY <2>2, <2>3 DEF b, o
<1> DEFINE Met(n) == {B[i].key : i \in 1 .. n}
           By(n, k) == {B[i].authority : i \in {j \in 1 .. n : B[j].key = k}}
           T == {n \in 0 .. N : /\ DOMAIN P[n].sections = Met(n)
                                /\ \A k \in Met(n) : P[n].sections[k].authority \in By(n, k)}
<1>6. 0 \in T
  <2>1. DOMAIN P[0].sections = {} /\ 1 .. 0 = {} /\ 0 \in 0 .. N
    BY <1>1, <1>3, NoSectionsLemma
  <2> QED
    BY <2>1
<1>7. ASSUME NEW n \in 1 .. N, n - 1 \in T PROVE n \in T
  <2>1. /\ DOMAIN P[n - 1].sections = Met(n - 1)
        /\ \A k \in Met(n - 1) : P[n - 1].sections[k].authority \in By(n - 1, k)
    BY <1>7
  <2>2. \A i : i \in 1 .. n <=> i = n \/ i \in 1 .. n - 1
    BY <1>1
  <2>3. Met(n) = Met(n - 1) \cup {B[n].key}
    BY <2>2
  <2>4. \A k : By(n - 1, k) \subseteq By(n, k)
    BY <2>2
  <2>5. B[n].authority \in By(n, B[n].key)
    BY <2>2
  <2> HIDE DEF Met, By
  <2>6. DOMAIN P[n].sections = Met(n)
    BY <1>5, <2>1, <2>3
  <2>7. ASSUME NEW k \in Met(n) PROVE P[n].sections[k].authority \in By(n, k)
    <3>1. CASE k = B[n].key
      BY <1>5, <2>5, <3>1
    <3>2. CASE k # B[n].key
      <4>1. k \in Met(n - 1)
        BY <2>3, <3>2
      <4>2. P[n].sections[k] = P[n - 1].sections[k]
        BY <1>5, <2>1, <3>2, <4>1
      <4> QED
        BY <2>1, <2>4, <4>1, <4>2
    <3> QED
      BY <3>1, <3>2
  <2> QED
    BY <1>4, <2>6, <2>7
<1>8. N \in T
  <2>1. \A n \in 1 .. N : n - 1 \in T => n \in T
    BY <1>7
  <2>2. N \in 0 .. N
    BY <1>1
  <2> HIDE DEF T
  <2>3. \A n \in 0 .. N : n \in T
    BY <1>1, <1>6, <2>1, Climb
  <2> QED
    BY <2>2, <2>3
<1>9. p \in Parsings
  <2>1. N \in 0 .. N
    BY <1>1
  <2> QED
    BY <1>2, <1>3, <2>1
<1>10. /\ DOMAIN p.sections = Headings(f)
       /\ \A k \in Headings(f) : p.sections[k].authority \in Headed(f, k)
  BY <1>1, <1>2, <1>8
<1>11. ASSUME NEW k PROVE BodyOf(p, k) = Under(f, k) /\ Under(f, k) \in Seq(Entries)
  <2>0. PICK g : ReadsOn(f, k, g) /\ Under(f, k) = g[Len(f.blocks)]
    BY ReadLemma
  <2>1. /\ g \in [0 .. N -> Seq(Entries)] /\ Under(f, k) = g[N] /\ g[0] = <<>>
        /\ \A n \in 1 .. N : g[n] = IF B[n].key = k THEN g[n - 1] \o B[n].body ELSE g[n - 1]
    BY <2>0 DEF N, B, ReadsOn
  <2> DEFINE U == {n \in 0 .. N : BodyOf(P[n], k) = g[n]}
  <2>2. 0 \in U
    <3>1. DOMAIN P[0].sections = {} /\ 0 \in 0 .. N
      BY <1>1, <1>3, NoSectionsLemma
    <3>2. BodyOf(P[0], k) = <<>>
      BY <3>1 DEF BodyOf, Known
    <3> QED
      BY <2>1, <3>1, <3>2
  <2>3. ASSUME NEW n \in 1 .. N, n - 1 \in U PROVE n \in U
    <3>1. BodyOf(P[n - 1], k) = g[n - 1] /\ n \in 0 .. N
      BY <1>4, <2>3
    <3>2. g[n] = IF B[n].key = k THEN g[n - 1] \o B[n].body ELSE g[n - 1]
      BY <2>1
    <3>3. CASE B[n].key = k
      <4>1. BodyOf(P[n], k) = BodyOf(P[n - 1], k) \o B[n].body
        BY <1>5, <3>3
      <4> QED
        BY <3>1, <3>2, <3>3, <4>1
    <3>4. CASE B[n].key # k
      <4>1. BodyOf(P[n], k) = BodyOf(P[n - 1], k)
        BY <1>5, <3>4
      <4> QED
        BY <3>1, <3>2, <3>4, <4>1
    <3> QED
      BY <3>1, <3>3, <3>4
  <2>4. \A n \in 1 .. N : n - 1 \in U => n \in U
    BY <2>3
  <2>5. N \in 0 .. N
    BY <1>1
  <2>6. N \in U
    <3> HIDE DEF U
    <3>1. \A n \in 0 .. N : n \in U
      BY <1>1, <2>2, <2>4, Climb
    <3> QED
      BY <2>5, <3>1
  <2> QED
    BY <1>2, <2>1, <2>5, <2>6
<1>12. \A k \in Headings(f) : p.sections[k].body = Under(f, k)
  BY <1>10, <1>11 DEF BodyOf, Known
<1>13. \A k : k \notin Headings(f) => Under(f, k) = <<>>
  BY <1>10, <1>11 DEF BodyOf, Known
<1> QED
  BY <1>9, <1>10, <1>11, <1>12, <1>13 DEF p

-----------------------------------------------------------------------------
\* A function on the numbers up to n is a sequence of that length.
LEMMA ASeq ==
  ASSUME NEW n \in Nat, NEW S, NEW s \in [1 .. n -> S]
  PROVE  s \in Seq(S) /\ Len(s) = n /\ DOMAIN s = 1 .. n
<1>1. s \in Seq(S)
  BY SeqDef
<1> QED
  BY <1>1, LenProperties

\* Blocks of other headings add nothing.
LEMMA Stretch ==
  ASSUME NEW f \in Files, NEW k, NEW g, ReadsOn(f, k, g),
         NEW m \in 0 .. Len(f.blocks), NEW n \in m .. Len(f.blocks),
         \A j \in m + 1 .. n : f.blocks[j].key # k
  PROVE  g[n] = g[m]
<1> DEFINE N == Len(f.blocks)
           T == {i \in 0 .. n - m : g[m + i] = g[m]}
<1>1. N \in Nat /\ m \in Nat /\ n \in Nat /\ n - m \in Nat /\ m + (n - m) = n
  BY FileParts
<1>2. \A i \in 1 .. N :
        g[i] = IF f.blocks[i].key = k THEN g[i - 1] \o f.blocks[i].body ELSE g[i - 1]
  BY DEF ReadsOn
<1>3. 0 \in T
  BY <1>1
<1>4. ASSUME NEW i \in 1 .. n - m, i - 1 \in T PROVE i \in T
  <2>1. /\ m + i \in 1 .. N /\ m + i \in m + 1 .. n /\ (m + i) - 1 = m + (i - 1)
        /\ i \in 0 .. n - m
    BY <1>1
  <2>2. g[m + i] = g[(m + i) - 1]
    BY <1>2, <2>1
  <2>3. g[m + (i - 1)] = g[m]
    BY <1>4
  <2> QED
    BY <2>1, <2>2, <2>3
<1>5. \A i \in 1 .. n - m : i - 1 \in T => i \in T
  BY <1>4
<1>6. n - m \in 0 .. n - m
  BY <1>1
<1>7. n - m \in T
  <2> HIDE DEF T
  <2>1. \A i \in 0 .. n - m : i \in T
    BY <1>1, <1>3, <1>5, Climb
  <2> QED
    BY <1>6, <2>1
<1> QED
  BY <1>1, <1>7

\* What is under a heading that occurs once.
LEMMA OnceUnder ==
  ASSUME NEW f \in Files, NEW k, NEW i \in 1 .. Len(f.blocks), f.blocks[i].key = k,
         \A j \in 1 .. Len(f.blocks) : j # i => f.blocks[j].key # k
  PROVE  Under(f, k) = f.blocks[i].body
<1> DEFINE N == Len(f.blocks)
<1>1. N \in Nat /\ i \in Nat /\ i > 0 /\ f.blocks[i].body \in Seq(Entries)
  BY FileParts
<1>2. PICK g : ReadsOn(f, k, g) /\ Under(f, k) = g[N]
  BY ReadLemma
<1>3. g[0] = <<>> /\ g[i] = g[i - 1] \o f.blocks[i].body
  BY <1>2 DEF ReadsOn
<1>4. g[i - 1] = g[0]
  <2>1. /\ 0 \in 0 .. N /\ i - 1 \in 0 .. N
        /\ \A j \in 0 + 1 .. i - 1 : j \in 1 .. N /\ j # i
    BY <1>1
  <2>2. \A j \in 0 + 1 .. i - 1 : f.blocks[j].key # k
    BY <2>1
  <2> QED
    BY <1>2, <2>1, <2>2, Stretch
<1>5. g[N] = g[i]
  <2>1. /\ i \in 0 .. N /\ N \in i .. N
        /\ \A j \in i + 1 .. N : j \in 1 .. N /\ j # i
    BY <1>1
  <2>2. \A j \in i + 1 .. N : f.blocks[j].key # k
    BY <2>1
  <2>3. N \in i .. Len(f.blocks)
    BY <2>1
  <2> QED
    BY <1>2, <2>1, <2>2, <2>3, Stretch
<1> QED
  BY <1>1, <1>2, <1>3, <1>4, <1>5, ConcatEmptySeq

\* And under one that occurs twice.
LEMMA TwiceUnder ==
  ASSUME NEW f \in Files, NEW k, NEW i \in 1 .. Len(f.blocks), NEW j \in 1 .. Len(f.blocks),
         i < j, f.blocks[i].key = k, f.blocks[j].key = k,
         \A l \in 1 .. Len(f.blocks) : l # i /\ l # j => f.blocks[l].key # k
  PROVE  Under(f, k) = f.blocks[i].body \o f.blocks[j].body
<1> DEFINE N == Len(f.blocks)
<1>1. N \in Nat /\ i \in Nat /\ i > 0 /\ f.blocks[i].body \in Seq(Entries)
      /\ j \in Nat /\ f.blocks[j].body \in Seq(Entries)
  BY FileParts
<1>2. PICK g : ReadsOn(f, k, g) /\ Under(f, k) = g[N]
  BY ReadLemma
<1>3. /\ g[0] = <<>> /\ g[i] = g[i - 1] \o f.blocks[i].body
      /\ g[j] = g[j - 1] \o f.blocks[j].body
  BY <1>2 DEF ReadsOn
<1>4. g[i - 1] = g[0]
  <2>1. /\ 0 \in 0 .. N /\ i - 1 \in 0 .. N
        /\ \A l \in 0 + 1 .. i - 1 : l \in 1 .. N /\ l # i /\ l # j
    BY <1>1
  <2>2. \A l \in 0 + 1 .. i - 1 : f.blocks[l].key # k
    BY <2>1
  <2> QED
    BY <1>2, <2>1, <2>2, Stretch
<1>5. g[j - 1] = g[i]
  <2>1. /\ i \in 0 .. N /\ j - 1 \in i .. N
        /\ \A l \in i + 1 .. j - 1 : l \in 1 .. N /\ l # i /\ l # j
    BY <1>1
  <2>2. \A l \in i + 1 .. j - 1 : f.blocks[l].key # k
    BY <2>1
  <2> QED
    BY <1>2, <2>1, <2>2, Stretch
<1>6. g[N] = g[j]
  <2>1. /\ j \in 0 .. N /\ N \in j .. N
        /\ \A l \in j + 1 .. N : l \in 1 .. N /\ l # i /\ l # j
    BY <1>1
  <2>2. \A l \in j + 1 .. N : f.blocks[l].key # k
    BY <2>1
  <2> QED
    BY <1>2, <2>1, <2>2, Stretch
<1> QED
  BY <1>1, <1>2, <1>3, <1>4, <1>5, <1>6, ConcatEmptySeq

\* A file as it is written.
LEMMA SerializeLemma ==
  ASSUME NEW f \in Files, NEW p \in Parsings
  PROVE  LET h == serialize(f, p) IN
         /\ h \in Files /\ h.head = f.head
         /\ Len(h.blocks) = Len(p.headings)
         /\ \A i \in 1 .. Len(p.headings) :
              /\ h.blocks[i].key = p.headings[i]
              /\ h.blocks[i].authority = p.sections[p.headings[i]].authority
              /\ h.blocks[i].body = p.sections[p.headings[i]].body
         /\ Headings(h) = DOMAIN p.sections
         /\ \A k \in DOMAIN p.sections :
              /\ Under(h, k) = p.sections[k].body
              /\ Headed(h, k) = {p.sections[k].authority}
<1> DEFINE h == serialize(f, p)
           N == Len(p.headings)
           B == [i \in 1 .. N |->
                   Block(p.headings[i], p.sections[p.headings[i]].authority,
                         p.sections[p.headings[i]].body)]
<1>1. h = [head |-> f.head, blocks |-> B]
  BY DEF serialize
<1>2. /\ N \in Nat
      /\ \A i \in 1 .. N : p.headings[i] \in Keys /\ p.headings[i] \in DOMAIN p.sections
      /\ \A i, j \in 1 .. N : p.headings[i] = p.headings[j] => i = j
      /\ \A k \in DOMAIN p.sections : \E i \in 1 .. N : p.headings[i] = k
      /\ \A k \in DOMAIN p.sections :
           p.sections[k].authority \in Asserters /\ p.sections[k].body \in Seq(Entries)
  BY ParsingParts
<1>3. \A i \in 1 .. N : /\ B[i] \in Blocks
                        /\ B[i].key = p.headings[i]
                        /\ B[i].authority = p.sections[p.headings[i]].authority
                        /\ B[i].body = p.sections[p.headings[i]].body
  BY <1>2 DEF Block, Blocks
<1>4. B \in Seq(Blocks) /\ Len(B) = N
  <2>1. B \in [1 .. N -> Blocks]
    BY <1>3
  <2> HIDE DEF B, N
  <2> QED
    BY <1>2, <2>1, ASeq
<1> HIDE DEF h, B, N
<1>5. f.head \in Seq(Entries)
  BY FileParts
<1>6. h \in Files /\ h.head = f.head /\ h.blocks = B
  BY <1>1, <1>4, <1>5 DEF Files
<1>7. \A i \in 1 .. N : /\ h.blocks[i].key = p.headings[i]
                        /\ h.blocks[i].authority = p.sections[p.headings[i]].authority
                        /\ h.blocks[i].body = p.sections[p.headings[i]].body
  BY <1>3, <1>6
<1>8. Len(h.blocks) = N
  BY <1>4, <1>6
<1>9. /\ Headings(h) = {h.blocks[i].key : i \in 1 .. N}
      /\ \A k : Headed(h, k) = {h.blocks[i].authority :
                                 i \in {j \in 1 .. N : h.blocks[j].key = k}}
  BY <1>6, <1>8, FileParts
<1>10. Headings(h) = DOMAIN p.sections
  BY <1>2, <1>7, <1>9
<1>11. ASSUME NEW k \in DOMAIN p.sections
       PROVE  Under(h, k) = p.sections[k].body /\ Headed(h, k) = {p.sections[k].authority}
  <2>1. PICK i \in 1 .. N : p.headings[i] = k
    BY <1>2
  <2>2. h.blocks[i].key = k /\ \A j \in 1 .. N : j # i => h.blocks[j].key # k
    BY <1>2, <1>7, <2>1
  <2>3. Under(h, k) = h.blocks[i].body
    BY <1>6, <1>8, <2>2, OnceUnder
  <2>4. {j \in 1 .. N : h.blocks[j].key = k} = {i}
    BY <2>2
  <2>5. Headed(h, k) = {h.blocks[i].authority}
    BY <1>9, <2>4
  <2> QED
    BY <1>7, <2>1, <2>3, <2>5
<1> QED
  BY <1>6, <1>7, <1>8, <1>10, <1>11 DEF h, N

-----------------------------------------------------------------------------
\* h is f, but for what is under the headings of S.
Keeps(f, h, S) ==
  /\ h.head = f.head
  /\ \A k : k \notin S => Under(h, k) = Under(f, k)
  /\ \A k \in Headings(f) \ S : Headed(h, k) \subseteq Headed(f, k) /\ Headed(h, k) # {}
  /\ Headings(f) \ S \subseteq Headings(h)

\* What two writes leave alone, both leave alone.
LEMMA KeepsOn ==
  ASSUME NEW f, NEW h, NEW l, NEW S, NEW T, Keeps(f, h, S), Keeps(h, l, T)
  PROVE  Keeps(f, l, S \cup T)
BY DEF Keeps

\* What leaves all but S alone leaves all but more than S alone.
LEMMA KeepsMore ==
  ASSUME NEW f, NEW h, NEW S, NEW T, Keeps(f, h, S), S \subseteq T
  PROVE  Keeps(f, h, T)
BY DEF Keeps

\* An authority that was the only one still is.
LEMMA KeepsHeaded ==
  ASSUME NEW f \in Files, NEW h, NEW S, Keeps(f, h, S), NEW k \in Headings(f) \ S,
         Cardinality(Headed(f, k)) = 1
  PROVE  Headed(h, k) = Headed(f, k)
<1>1. IsFiniteSet(Headed(f, k))
  <2>1. Headed(f, k) = {f.blocks[i].authority :
                         i \in {j \in 1 .. Len(f.blocks) : f.blocks[j].key = k}}
        /\ Len(f.blocks) \in Nat
    BY FileParts
  <2>2. IsFiniteSet(1 .. Len(f.blocks))
    BY <2>1, FS_Interval
  <2>3. IsFiniteSet({j \in 1 .. Len(f.blocks) : f.blocks[j].key = k})
    BY <2>2, FS_Subset
  <2>4. Headed(f, k) \subseteq Asserters
    BY <2>1, FileParts
  <2>5. IsFiniteSet(Asserters)
    <3>1. IsFiniteSet({"user"}) /\ IsFiniteSet({"system"}) /\ IsFiniteSet({"agent"})
          /\ IsFiniteSet({"tape"})
      BY FS_Singleton
    <3>2. IsFiniteSet({"user"} \cup {"system"}) /\ IsFiniteSet({"agent"} \cup {"tape"})
      BY <3>1, FS_Union
    <3>3. IsFiniteSet(({"user"} \cup {"system"}) \cup ({"agent"} \cup {"tape"}))
      BY <3>2, FS_Union
    <3>4. Asserters = ({"user"} \cup {"system"}) \cup ({"agent"} \cup {"tape"})
      BY DEF Asserters
    <3> QED
      BY <3>3, <3>4
  <2> QED
    BY <2>4, <2>5, FS_Subset
<1>2. \E a : Headed(f, k) = {a}
  BY <1>1, FS_Singleton
<1> QED
  BY <1>2 DEF Keeps

\* No two blocks of h have the same heading.
Distinct(h) ==
  \A i, j \in 1 .. Len(h.blocks) : h.blocks[i].key = h.blocks[j].key => i = j

\* h is f with this body for its section key.
Changed(f, h, key, body) ==
  /\ h \in Files /\ Keeps(f, h, {key})
  /\ Headings(h) = Headings(f) \cup {key} /\ Under(h, key) = body
  /\ Distinct(h)

\* One section written, and the file rewritten.
LEMMA ChangeLemma ==
  ASSUME NEW f \in Files, NEW key \in Keys, NEW authority \in Asserters,
         NEW body \in Seq(Entries)
  PROVE  Changed(f, serialize(f, WithSection(splitSections(f), key, authority, body)), key, body)
<1> DEFINE p == splitSections(f)
           q == WithSection(p, key, authority, body)
           h == serialize(f, q)
<1>1. /\ p \in Parsings /\ DOMAIN p.sections = Headings(f)
      /\ \A k \in Headings(f) :
           p.sections[k].body = Under(f, k) /\ p.sections[k].authority \in Headed(f, k)
      /\ \A k : k \notin Headings(f) => Under(f, k) = <<>>
  BY ParseLemma
<1> HIDE DEF p
<1>2. /\ q \in Parsings /\ DOMAIN q.sections = Headings(f) \cup {key}
      /\ q.sections[key] = [authority |-> authority, body |-> body]
      /\ \A k \in Headings(f) \ {key} : q.sections[k] = p.sections[k]
  BY <1>1, WithSectionLemma
<1> HIDE DEF q
<1>3. /\ h \in Files /\ h.head = f.head /\ Len(h.blocks) = Len(q.headings)
      /\ \A i \in 1 .. Len(q.headings) : h.blocks[i].key = q.headings[i]
      /\ Headings(h) = DOMAIN q.sections
      /\ \A k \in DOMAIN q.sections :
           Under(h, k) = q.sections[k].body /\ Headed(h, k) = {q.sections[k].authority}
  BY <1>2, SerializeLemma
<1> HIDE DEF h
<1>4. Distinct(h)
  <2>1. \A i, j \in 1 .. Len(q.headings) : q.headings[i] = q.headings[j] => i = j
    BY <1>2, ParsingParts
  <2> QED
    BY <1>3, <2>1 DEF Distinct
<1>5. Headings(h) = Headings(f) \cup {key} /\ Under(h, key) = body
  BY <1>2, <1>3
<1>6. ASSUME NEW k, k # key PROVE Under(h, k) = Under(f, k)
  <2>1. CASE k \in Headings(f)
    BY <1>1, <1>2, <1>3, <1>6, <2>1
  <2>2. CASE k \notin Headings(f)
    <3>1. k \notin Headings(h)
      BY <1>5, <1>6, <2>2
    <3>2. Under(h, k) = <<>>
      BY <1>3, <3>1, ParseLemma
    <3> QED
      BY <1>1, <2>2, <3>2
  <2> QED
    BY <2>1, <2>2
<1>7. ASSUME NEW k \in Headings(f) \ {key}
      PROVE  Headed(h, k) \subseteq Headed(f, k) /\ Headed(h, k) # {}
  <2>1. p.sections[k].authority \in Headed(f, k) /\ q.sections[k] = p.sections[k]
    BY <1>1, <1>2
  <2>2. k \in DOMAIN q.sections
    BY <1>2
  <2>3. Headed(h, k) = {q.sections[k].authority}
    BY <1>3, <2>2
  <2> QED
    BY <2>1, <2>3
<1>8. Keeps(f, h, {key})
  BY <1>3, <1>5, <1>6, <1>7 DEF Keeps
<1> QED
  BY <1>3, <1>4, <1>5, <1>8 DEF h, q, p, Changed

\* Whoever writes, somebody asserts the section.
LEMMA AssertedLemma ==
  ASSUME NEW p \in Parsings, NEW key, NEW authority \in Asserters \cup {"unsaid"}
  PROVE  Asserted(p, key, authority) \in Asserters
BY ParsingParts DEF Asserted, Asserters, Known

\* A section appended to.
LEMMA AppendedLemma ==
  ASSUME NEW f \in Files, NEW key \in Keys, NEW authority \in Asserters \cup {"unsaid"},
         NEW body \in Seq(Entries)
  PROVE  Changed(f, serialize(f, Appended(splitSections(f), key, body, authority)), key,
                 Under(f, key) \o body)
<1> DEFINE p == splitSections(f)
           a == Asserted(p, key, authority)
           b == BodyOf(p, key) \o body
<1>1. p \in Parsings /\ BodyOf(p, key) = Under(f, key) /\ Under(f, key) \in Seq(Entries)
  BY ParseLemma
<1>2. a \in Asserters
  BY <1>1, AssertedLemma
<1>3. b \in Seq(Entries) /\ b = Under(f, key) \o body
  BY <1>1, ConcatProperties
<1>4. Appended(p, key, body, authority) = WithSection(p, key, a, b)
  BY DEF Appended
<1> HIDE DEF a, b
<1>5. Changed(f, serialize(f, WithSection(p, key, a, b)), key, b)
  BY <1>2, <1>3, ChangeLemma
<1> QED
  BY <1>3, <1>4, <1>5

\* A section replaced.
LEMMA ReplacedLemma ==
  ASSUME NEW f \in Files, NEW key \in Keys, NEW authority \in Asserters \cup {"unsaid"},
         NEW body \in Seq(Entries)
  PROVE  Changed(f, serialize(f, Replaced(splitSections(f), key, body, authority)), key, body)
<1> DEFINE p == splitSections(f)
           a == Asserted(p, key, authority)
<1>1. p \in Parsings
  BY ParseLemma
<1>2. a \in Asserters
  BY <1>1, AssertedLemma
<1>3. Replaced(p, key, body, authority) = WithSection(p, key, a, body)
  BY DEF Replaced
<1> HIDE DEF a
<1>4. Changed(f, serialize(f, WithSection(p, key, a, body)), key, body)
  BY <1>2, ChangeLemma
<1> QED
  BY <1>3, <1>4

\* A section deleted.
LEMMA DeletedLemma ==
  ASSUME NEW f \in Files, NEW key, Known(splitSections(f), key)
  PROVE  LET h == serialize(f, Deleted(splitSections(f), key)) IN
         /\ h \in Files /\ Keeps(f, h, {key}) /\ Under(h, key) = <<>>
<1> DEFINE p == splitSections(f)
           q == Deleted(p, key)
           h == serialize(f, q)
           N == Len(p.headings)
           i == PositionOf(p, key)
           r == RemoveAt(p.headings, i)
           s == [k \in DOMAIN p.sections \ {key} |-> p.sections[k]]
<1>1. /\ p \in Parsings /\ DOMAIN p.sections = Headings(f)
      /\ \A k \in Headings(f) :
           p.sections[k].body = Under(f, k) /\ p.sections[k].authority \in Headed(f, k)
      /\ \A k : k \notin Headings(f) => Under(f, k) = <<>>
  BY ParseLemma
<1>2. key \in DOMAIN p.sections
  BY DEF Known
<1>3. q = [headings |-> r, sections |-> s]
  BY DEF Deleted
<1> HIDE DEF p
<1>4. /\ p.headings \in Seq(Keys) /\ N \in Nat
      /\ DOMAIN p.headings = 1 .. N /\ DOMAIN p.sections = Range(p.headings)
      /\ p.sections \in [DOMAIN p.sections -> Sections]
      /\ \A j \in 1 .. N : p.headings[j] \in Keys /\ p.headings[j] \in DOMAIN p.sections
      /\ \A j, l \in 1 .. N : p.headings[j] = p.headings[l] => j = l
      /\ \A k \in DOMAIN p.sections : \E j \in 1 .. N : p.headings[j] = k
  BY <1>1, ParsingParts
<1>5. i \in 1 .. N /\ p.headings[i] = key
  BY <1>2, <1>4 DEF PositionOf
<1> HIDE DEF i
<1>6. /\ r \in Seq(Keys) /\ Len(r) = N - 1
      /\ \A j \in 1 .. N - 1 : r[j] = IF j < i THEN p.headings[j] ELSE p.headings[j + 1]
  <2> DEFINE before == SubSeq(p.headings, 1, i - 1)
             after == SubSeq(p.headings, i + 1, N)
  <2>1. /\ before \in Seq(Keys) /\ Len(before) = i - 1
        /\ \A j \in 1 .. i - 1 : before[j] = p.headings[j]
    <3>1. /\ 1 \in Int /\ i - 1 \in Int /\ \A j \in 1 .. i - 1 : p.headings[j] \in Keys
          /\ (i - 1) - 1 + 1 = i - 1 /\ ~(1 <= i - 1) => i - 1 = 0
      BY <1>4, <1>5
    <3>2. /\ before \in Seq(Keys)
          /\ Len(before) = IF 1 <= i - 1 THEN (i - 1) - 1 + 1 ELSE 0
          /\ \A j \in 1 .. (i - 1) - 1 + 1 : before[j] = p.headings[1 + j - 1]
      BY <3>1, SubSeqProperties
    <3>3. \A j \in 1 .. i - 1 : 1 + j - 1 = j
      BY <1>5
    <3> HIDE DEF before
    <3>4. Len(before) = i - 1
      BY <1>4, <1>5, <3>2
    <3> QED
      BY <3>1, <3>2, <3>3, <3>4
  <2>2. /\ after \in Seq(Keys) /\ Len(after) = N - i
        /\ \A j \in 1 .. N - i : after[j] = p.headings[i + j]
    <3>1. /\ i + 1 \in Int /\ N \in Int /\ \A j \in i + 1 .. N : p.headings[j] \in Keys
          /\ N - (i + 1) + 1 = N - i
      BY <1>4, <1>5
    <3>2. /\ after \in Seq(Keys)
          /\ Len(after) = IF i + 1 <= N THEN N - (i + 1) + 1 ELSE 0
          /\ \A j \in 1 .. N - (i + 1) + 1 : after[j] = p.headings[(i + 1) + j - 1]
      BY <3>1, SubSeqProperties
    <3>3. \A j \in 1 .. N - i : (i + 1) + j - 1 = i + j
      BY <1>4, <1>5
    <3> HIDE DEF after, N
    <3>4. Len(after) = N - i
      BY <1>4, <1>5, <3>2
    <3> QED
      BY <3>1, <3>2, <3>3, <3>4
  <2>3. r = before \o after
    BY DEF RemoveAt
  <2> HIDE DEF before, after, r
  <2>4. /\ r \in Seq(Keys) /\ Len(r) = Len(before) + Len(after)
        /\ \A j \in 1 .. Len(before) + Len(after) :
             r[j] = IF j <= Len(before) THEN before[j] ELSE after[j - Len(before)]
    BY <2>1, <2>2, <2>3, ConcatProperties
  <2>5. Len(r) = N - 1
    BY <1>4, <1>5, <2>1, <2>2, <2>4
  <2>6. ASSUME NEW j \in 1 .. N - 1
        PROVE  r[j] = IF j < i THEN p.headings[j] ELSE p.headings[j + 1]
    <3> HIDE DEF N
    <3>1. Len(before) = i - 1 /\ Len(after) = N - i /\ N \in Nat /\ i \in 1 .. N
      BY <1>4, <1>5, <2>1, <2>2
    <3>2. j \in 1 .. Len(before) + Len(after)
      BY <3>1
    <3>3. r[j] = IF j <= Len(before) THEN before[j] ELSE after[j - Len(before)]
      BY <2>4, <3>2
    <3>4. CASE j < i
      <4>1. j \in 1 .. i - 1 /\ j <= Len(before)
        BY <3>1, <3>4
      <4> QED
        BY <2>1, <3>3, <3>4, <4>1
    <3>5. CASE ~(j < i)
      <4>1. /\ j - Len(before) \in 1 .. N - i /\ i + (j - Len(before)) = j + 1
            /\ ~(j <= Len(before))
        BY <3>1, <3>5
      <4>2. after[j - Len(before)] = p.headings[i + (j - Len(before))]
        BY <2>2, <4>1
      <4> QED
        BY <3>3, <3>5, <4>1, <4>2
    <3> QED
      BY <3>4, <3>5
  <2> QED
    BY <2>4, <2>5, <2>6
<1> HIDE DEF r, N
<1>7. Range(r) = DOMAIN p.sections \ {key}
  <2>1. Range(r) = {r[j] : j \in 1 .. N - 1}
    <3>1. DOMAIN r = 1 .. N - 1
      BY <1>6, LenProperties
    <3> QED
      BY <3>1 DEF Range
  <2>2. ASSUME NEW j \in 1 .. N - 1 PROVE r[j] \in DOMAIN p.sections \ {key}
    <3>1. j \in 1 .. N /\ j + 1 \in 1 .. N /\ (j < i => j # i) /\ (~(j < i) => j + 1 # i)
      BY <1>4, <1>5
    <3> QED
      BY <1>4, <1>5, <1>6, <3>1
  <2>3. ASSUME NEW k \in DOMAIN p.sections \ {key} PROVE k \in Range(r)
    <3>1. PICK j \in 1 .. N : p.headings[j] = k
      BY <1>4
    <3>2. j # i
      BY <1>5, <3>1
    <3>3. CASE j < i
      <4>1. j \in 1 .. N - 1
        BY <1>4, <1>5, <3>3
      <4> QED
        BY <1>6, <2>1, <3>1, <3>3, <4>1
    <3>4. CASE j > i
      <4>1. j - 1 \in 1 .. N - 1 /\ ~(j - 1 < i) /\ (j - 1) + 1 = j
        BY <1>4, <1>5, <3>4
      <4> QED
        BY <1>6, <2>1, <3>1, <4>1
    <3> QED
      BY <1>4, <1>5, <3>2, <3>3, <3>4
  <2> QED
    BY <2>1, <2>2, <2>3
<1>8. ASSUME NEW j \in 1 .. Len(r), NEW l \in 1 .. Len(r), r[j] = r[l] PROVE j = l
  <2>1. /\ j \in 1 .. N - 1 /\ l \in 1 .. N - 1
        /\ j \in 1 .. N /\ l \in 1 .. N /\ j + 1 \in 1 .. N /\ l + 1 \in 1 .. N
    BY <1>4, <1>6
  <2>2. CASE j < i /\ l < i
    BY <1>4, <1>6, <1>8, <2>1, <2>2
  <2>3. CASE j < i /\ ~(l < i)
    <3>1. j = l + 1
      BY <1>4, <1>6, <1>8, <2>1, <2>3
    <3> QED
      BY <1>5, <2>1, <2>3, <3>1
  <2>4. CASE ~(j < i) /\ l < i
    <3>1. j + 1 = l
      BY <1>4, <1>6, <1>8, <2>1, <2>4
    <3> QED
      BY <1>5, <2>1, <2>4, <3>1
  <2>5. CASE ~(j < i) /\ ~(l < i)
    <3>1. j + 1 = l + 1
      BY <1>4, <1>6, <1>8, <2>1, <2>5
    <3> QED
      BY <2>1, <3>1
  <2> QED
    BY <2>2, <2>3, <2>4, <2>5
<1>9. /\ s \in [Range(r) -> Sections] /\ DOMAIN s = DOMAIN p.sections \ {key}
      /\ \A k \in DOMAIN p.sections \ {key} : s[k] = p.sections[k]
  BY <1>4, <1>7
<1> HIDE DEF s
<1>10. q \in Parsings /\ q.sections = s
  <2>1. r \in Seq(Keys) /\ s \in [Range(r) -> Sections]
    BY <1>6, <1>9
  <2>2. \A j, l \in 1 .. Len(r) : r[j] = r[l] => j = l
    BY <1>8
  <2>3. [headings |-> r, sections |-> s] \in Parsings
    BY <2>1, <2>2, IsParsing
  <2> QED
    BY <1>3, <2>3
<1> HIDE DEF q
<1>11. /\ h \in Files /\ h.head = f.head /\ Headings(h) = DOMAIN q.sections
       /\ \A k \in DOMAIN q.sections :
            Under(h, k) = q.sections[k].body /\ Headed(h, k) = {q.sections[k].authority}
  BY <1>10, SerializeLemma
<1> HIDE DEF h
<1>12. \A k : k \notin Headings(h) => Under(h, k) = <<>>
  BY <1>11, ParseLemma
<1>13. ASSUME NEW k, k # key PROVE Under(h, k) = Under(f, k)
  BY <1>1, <1>9, <1>10, <1>11, <1>12, <1>13
<1>14. ASSUME NEW k \in Headings(f) \ {key}
       PROVE  /\ Headed(h, k) \subseteq Headed(f, k) /\ Headed(h, k) # {}
              /\ k \in Headings(h)
  <2>1. k \in DOMAIN q.sections /\ q.sections[k] = p.sections[k]
    BY <1>1, <1>9, <1>10
  <2>2. Headed(h, k) = {p.sections[k].authority} /\ k \in Headings(h)
    BY <1>11, <2>1
  <2>3. p.sections[k].authority \in Headed(f, k)
    BY <1>1
  <2> QED
    BY <2>2, <2>3
<1>15. Keeps(f, h, {key}) /\ Under(h, key) = <<>>
  BY <1>9, <1>10, <1>11, <1>12, <1>13, <1>14 DEF Keeps
<1> QED
  BY <1>11, <1>15 DEF h, q, p

\* A sequence with an element inserted.
LEMMA InsertAtLemma ==
  ASSUME NEW S, NEW s \in Seq(S), NEW n \in 0 .. Len(s), NEW e \in S
  PROVE  /\ InsertAt(s, n + 1, e) \in Seq(S) /\ Len(InsertAt(s, n + 1, e)) = Len(s) + 1
         /\ InsertAt(s, n + 1, e)[n + 1] = e
         /\ \A j \in 1 .. Len(s) :
              InsertAt(s, n + 1, e)[IF j <= n THEN j ELSE j + 1] = s[j]
<1> DEFINE N == Len(s)
           before == SubSeq(s, 1, n)
           after == SubSeq(s, n + 1, N)
           r == InsertAt(s, n + 1, e)
<1>1. N \in Nat /\ n \in 0 .. N /\ n \in Nat /\ \A j \in 1 .. N : s[j] \in S
  BY LenProperties, ElementOfSeq
<1>2. before \in Seq(S) /\ Len(before) = n /\ \A j \in 1 .. n : before[j] = s[j]
  <2>1. 1 \in Int /\ n \in Int /\ n - 1 + 1 = n /\ (~(1 <= n) => n = 0)
    BY <1>1
  <2>2. \A j \in 1 .. n : s[j] \in S
    BY <1>1
  <2>3. /\ before \in Seq(S) /\ Len(before) = IF 1 <= n THEN n - 1 + 1 ELSE 0
        /\ \A j \in 1 .. n - 1 + 1 : before[j] = s[1 + j - 1]
    BY <2>1, <2>2, SubSeqProperties
  <2>4. \A j \in 1 .. n : 1 + j - 1 = j
    BY <1>1
  <2> HIDE DEF before
  <2> QED
    BY <2>1, <2>3, <2>4
<1>3. /\ after \in Seq(S) /\ Len(after) = N - n
      /\ \A j \in 1 .. N - n : after[j] = s[n + j]
  <2>1. n + 1 \in Int /\ N \in Int /\ N - (n + 1) + 1 = N - n /\ (~(n + 1 <= N) => N - n = 0)
    BY <1>1
  <2>2. \A j \in n + 1 .. N : s[j] \in S
    BY <1>1
  <2> HIDE DEF N
  <2>3. /\ after \in Seq(S) /\ Len(after) = IF n + 1 <= N THEN N - (n + 1) + 1 ELSE 0
        /\ \A j \in 1 .. N - (n + 1) + 1 : after[j] = s[n + 1 + j - 1]
    BY <2>1, <2>2, SubSeqProperties
  <2>4. \A j \in 1 .. N - n : n + 1 + j - 1 = n + j
    BY <1>1
  <2> HIDE DEF after
  <2> QED
    BY <2>1, <2>3, <2>4
<1>4. r = before \o <<e>> \o after
  <2>1. (n + 1) - 1 = n
    BY <1>1
  <2>2. r = SubSeq(s, 1, (n + 1) - 1) \o <<e>> \o SubSeq(s, n + 1, Len(s))
    BY DEF InsertAt
  <2> QED
    BY <2>1, <2>2
<1> HIDE DEF before, after, r
<1>5. <<e>> \in Seq(S) /\ Len(<<e>>) = 1 /\ <<e>>[1] = e
  OBVIOUS
<1>6. /\ before \o <<e>> \in Seq(S) /\ Len(before \o <<e>>) = n + 1
      /\ \A j \in 1 .. n + 1 :
           (before \o <<e>>)[j] = IF j <= n THEN before[j] ELSE <<e>>[j - n]
  BY <1>2, <1>5, ConcatProperties
<1> DEFINE m == before \o <<e>>
<1> HIDE DEF m
<1>7. m \in Seq(S) /\ Len(m) = n + 1 /\ m[n + 1] = e /\ \A j \in 1 .. n : m[j] = s[j]
  <2>1. n + 1 \in 1 .. n + 1 /\ ~(n + 1 <= n) /\ n + 1 - n = 1
    BY <1>1
  <2>2. \A j \in 1 .. n : j \in 1 .. n + 1 /\ j <= n
    BY <1>1
  <2> QED
    BY <1>2, <1>5, <1>6, <2>1, <2>2 DEF m
<1>8. r = m \o after
  BY <1>4 DEF m
<1>9. /\ r \in Seq(S) /\ Len(r) = n + 1 + (N - n)
      /\ \A j \in 1 .. n + 1 + (N - n) :
           r[j] = IF j <= n + 1 THEN m[j] ELSE after[j - (n + 1)]
  <2>1. /\ r \in Seq(S) /\ Len(r) = Len(m) + Len(after)
        /\ \A j \in 1 .. Len(m) + Len(after) :
             r[j] = IF j <= Len(m) THEN m[j] ELSE after[j - Len(m)]
    BY <1>3, <1>7, <1>8, ConcatProperties
  <2>2. Len(m) = n + 1 /\ Len(after) = N - n
    BY <1>3, <1>7
  <2> QED
    BY <2>1, <2>2
<1> HIDE DEF N
<1>10. n + 1 + (N - n) = N + 1 /\ n + 1 \in 1 .. N + 1 /\ n + 1 <= n + 1
  BY <1>1
<1>11. r[n + 1] = e
  BY <1>7, <1>9, <1>10
<1>12. ASSUME NEW j \in 1 .. N PROVE r[IF j <= n THEN j ELSE j + 1] = s[j]
  <2>1. CASE j <= n
    <3>1. j \in 1 .. N + 1 /\ j <= n + 1 /\ j \in 1 .. n
      BY <1>1, <2>1
    <3> QED
      BY <1>7, <1>9, <1>10, <2>1, <3>1
  <2>2. CASE ~(j <= n)
    <3>1. j + 1 \in 1 .. N + 1 /\ ~(j + 1 <= n + 1) /\ j + 1 - (n + 1) \in 1 .. N - n
          /\ n + (j + 1 - (n + 1)) = j
      BY <1>1, <2>2
    <3>2. r[j + 1] = after[j + 1 - (n + 1)]
      BY <1>9, <1>10, <3>1
    <3>3. after[j + 1 - (n + 1)] = s[n + (j + 1 - (n + 1))]
      BY <1>3, <3>1
    <3> QED
      BY <2>2, <3>1, <3>2, <3>3
  <2> QED
    BY <2>1, <2>2
<1> QED
  BY <1>9, <1>10, <1>11, <1>12 DEF N, r

\* h is f with the block b somewhere between its blocks.
Inserted(f, h, b) ==
  /\ h \in Files /\ Keeps(f, h, {b.key})
  /\ Headings(h) = Headings(f) \cup {b.key}
  /\ \/ Under(h, b.key) = Under(f, b.key) \o b.body
     \/ Under(h, b.key) = b.body \o Under(f, b.key)

\* A block that is inserted adds its entries under its own heading, and none elsewhere.
LEMMA InsertedLemma ==
  ASSUME NEW f \in Files, Distinct(f), NEW n \in 0 .. Len(f.blocks), NEW b \in Blocks
  PROVE  Inserted(f, [f EXCEPT !.blocks = InsertAt(@, n + 1, b)], b)
<1> DEFINE N == Len(f.blocks)
           h == [f EXCEPT !.blocks = InsertAt(@, n + 1, b)]
           B == InsertAt(f.blocks, n + 1, b)
           New(j) == IF j <= n THEN j ELSE j + 1
<1>1. /\ f.head \in Seq(Entries) /\ f.blocks \in Seq(Blocks) /\ N \in Nat
      /\ n \in Nat
      /\ \A i \in 1 .. N : f.blocks[i].key \in Keys /\ f.blocks[i].body \in Seq(Entries)
      /\ Headings(f) = {f.blocks[i].key : i \in 1 .. N}
      /\ \A k : Headed(f, k) = {f.blocks[i].authority :
                                 i \in {j \in 1 .. N : f.blocks[j].key = k}}
      /\ f = [head |-> f.head, blocks |-> f.blocks]
  BY FileParts DEF Files
<1>2. /\ B \in Seq(Blocks) /\ Len(B) = N + 1 /\ B[n + 1] = b
      /\ \A j \in 1 .. N : B[New(j)] = f.blocks[j]
  BY <1>1, InsertAtLemma
<1>3. h.head = f.head /\ h.blocks = B /\ h = [head |-> f.head, blocks |-> B]
  BY <1>1
<1> HIDE DEF B, h
<1>4. h \in Files
  BY <1>1, <1>2, <1>3 DEF Files
<1>5. /\ Len(h.blocks) = N + 1
      /\ \A i \in 1 .. N + 1 : h.blocks[i].key \in Keys
      /\ Headings(h) = {h.blocks[i].key : i \in 1 .. N + 1}
      /\ \A k : Headed(h, k) = {h.blocks[i].authority :
                                 i \in {j \in 1 .. N + 1 : h.blocks[j].key = k}}
  BY <1>2, <1>3, <1>4, FileParts
<1> HIDE DEF N
<1>6. /\ n + 1 \in 1 .. N + 1
      /\ \A j \in 1 .. N : New(j) \in 1 .. N + 1 /\ New(j) # n + 1
      /\ \A i, j \in 1 .. N : (i < j <=> New(i) < New(j)) /\ (i # j => New(i) # New(j))
  BY <1>1 DEF N
<1>7. ASSUME NEW l \in 1 .. N + 1, l # n + 1 PROVE \E j \in 1 .. N : New(j) = l
  <2>1. CASE l <= n
    <3>1. l \in 1 .. N
      BY <1>1, <2>1 DEF N
    <3> QED
      BY <2>1, <3>1
  <2>2. CASE ~(l <= n)
    <3>1. l - 1 \in 1 .. N /\ ~(l - 1 <= n) /\ (l - 1) + 1 = l
      BY <1>1, <1>7, <2>2
    <3>2. New(l - 1) = l
      BY <3>1
    <3> QED
      BY <3>1, <3>2
  <2> QED
    BY <2>1, <2>2
<1>8. h.blocks[n + 1] = b /\ \A j \in 1 .. N : h.blocks[New(j)] = f.blocks[j]
  BY <1>2, <1>3
<1> HIDE DEF New
<1>9. Headings(h) = Headings(f) \cup {b.key}
  <2>1. ASSUME NEW l \in 1 .. N + 1 PROVE h.blocks[l].key \in Headings(f) \cup {b.key}
    BY <1>1, <1>7, <1>8
  <2>2. ASSUME NEW j \in 1 .. N PROVE f.blocks[j].key \in Headings(h)
    BY <1>5, <1>6, <1>8
  <2>3. b.key \in Headings(h)
    BY <1>5, <1>6, <1>8
  <2> QED
    BY <1>1, <1>5, <2>1, <2>2, <2>3, ZenonT(40)
<1>10. \A i, j \in 1 .. N : f.blocks[i].key = f.blocks[j].key => i = j
  BY DEF Distinct, N
<1>11. /\ \A k : k \notin Headings(f) => Under(f, k) = <<>>
       /\ \A k : k \notin Headings(h) => Under(h, k) = <<>>
       /\ \A k : Under(f, k) \in Seq(Entries)
  BY <1>4, ParseLemma
<1>12. ASSUME NEW k \in Headings(f) \ {b.key}
       PROVE  Under(h, k) = Under(f, k) /\ Headed(h, k) = Headed(f, k) /\ Headed(f, k) # {}
  <2>1. PICK i \in 1 .. N : f.blocks[i].key = k
    BY <1>1
  <2>2. \A j \in 1 .. N : j # i => f.blocks[j].key # k
    BY <1>10, <2>1
  <2>3. h.blocks[New(i)].key = k /\ h.blocks[New(i)] = f.blocks[i] /\ New(i) \in 1 .. N + 1
    BY <1>6, <1>8, <2>1
  <2>4. ASSUME NEW l \in 1 .. N + 1, l # New(i) PROVE h.blocks[l].key # k
    <3>1. CASE l = n + 1
      BY <1>8, <1>12, <3>1
    <3>2. CASE l # n + 1
      <4>1. PICK j \in 1 .. N : New(j) = l
        BY <1>7, <3>2
      <4> QED
        BY <1>8, <2>2, <2>4, <4>1
    <3> QED
      BY <3>1, <3>2
  <2>5. \A l \in 1 .. N + 1 : l # New(i) => h.blocks[l].key # k
    BY <2>4
  <2>6. Under(h, k) = h.blocks[New(i)].body
    <3>1. /\ New(i) \in 1 .. Len(h.blocks)
          /\ \A l \in 1 .. Len(h.blocks) : l # New(i) => h.blocks[l].key # k
      BY <1>5, <2>3, <2>5
    <3> QED
      BY <1>4, <2>3, <3>1, OnceUnder
  <2>7. Under(f, k) = f.blocks[i].body
    BY <2>1, <2>2, OnceUnder DEF N
  <2>8. {j \in 1 .. N : f.blocks[j].key = k} = {i}
    BY <2>1, <2>2
  <2>9. {j \in 1 .. N + 1 : h.blocks[j].key = k} = {New(i)}
    BY <2>3, <2>5
  <2>10. Headed(f, k) = {f.blocks[i].authority}
    <3>1. Headed(f, k) = {f.blocks[l].authority : l \in {j \in 1 .. N : f.blocks[j].key = k}}
      BY <1>1
    <3> QED
      BY <2>8, <3>1
  <2>11. Headed(h, k) = {h.blocks[New(i)].authority}
    <3>1. Headed(h, k)
            = {h.blocks[l].authority : l \in {j \in 1 .. N + 1 : h.blocks[j].key = k}}
      BY <1>5
    <3> QED
      BY <2>9, <3>1
  <2> QED
    BY <2>3, <2>6, <2>7, <2>10, <2>11
<1>13. \A k : k # b.key => Under(h, k) = Under(f, k)
  BY <1>9, <1>11, <1>12
<1>14. Keeps(f, h, {b.key})
  BY <1>3, <1>9, <1>12, <1>13 DEF Keeps
<1>15. b.body \in Seq(Entries) /\ b.key \in Keys
  BY DEF Blocks
<1>16. \/ Under(h, b.key) = Under(f, b.key) \o b.body
       \/ Under(h, b.key) = b.body \o Under(f, b.key)
  <2>1. CASE b.key \notin Headings(f)
    <3>1. \A j \in 1 .. N : f.blocks[j].key # b.key
      BY <1>1, <2>1
    <3>2. \A l \in 1 .. N + 1 : l # n + 1 => h.blocks[l].key # b.key
      BY <1>7, <1>8, <3>1
    <3>3. /\ n + 1 \in 1 .. Len(h.blocks) /\ h.blocks[n + 1].key = b.key
          /\ \A l \in 1 .. Len(h.blocks) : l # n + 1 => h.blocks[l].key # b.key
      BY <1>5, <1>6, <1>8, <3>2
    <3>4. Under(h, b.key) = b.body
      <4>1. Under(h, b.key) = h.blocks[n + 1].body
        BY <1>4, <3>3, OnceUnder
      <4> QED
        BY <1>8, <4>1
    <3>5. Under(f, b.key) = <<>>
      BY <1>11, <2>1
    <3> QED
      BY <1>15, <3>4, <3>5, ConcatEmptySeq
  <2>2. CASE b.key \in Headings(f)
    <3>1. PICK i \in 1 .. N : f.blocks[i].key = b.key
      BY <1>1, <2>2
    <3>2. \A j \in 1 .. N : j # i => f.blocks[j].key # b.key
      BY <1>10, <3>1
    <3>3. h.blocks[New(i)].key = b.key /\ h.blocks[New(i)] = f.blocks[i] /\ New(i) \in 1 .. N + 1
          /\ New(i) # n + 1
      BY <1>6, <1>8, <3>1
    <3>4. \A l \in 1 .. N + 1 : l # n + 1 /\ l # New(i) => h.blocks[l].key # b.key
      BY <1>7, <1>8, <3>2
    <3>5. Under(f, b.key) = f.blocks[i].body
      BY <3>1, <3>2, OnceUnder DEF N
    <3>6. /\ n + 1 \in 1 .. Len(h.blocks) /\ New(i) \in 1 .. Len(h.blocks)
          /\ h.blocks[n + 1].key = b.key
          /\ \A l \in 1 .. Len(h.blocks) : l # n + 1 /\ l # New(i) => h.blocks[l].key # b.key
          /\ \A l \in 1 .. Len(h.blocks) : l # New(i) /\ l # n + 1 => h.blocks[l].key # b.key
      BY <1>5, <1>6, <1>8, <3>3, <3>4
    <3>7. CASE n + 1 < New(i)
      <4>1. Under(h, b.key) = h.blocks[n + 1].body \o h.blocks[New(i)].body
        BY <1>4, <3>3, <3>6, <3>7, TwiceUnder
      <4> QED
        BY <1>8, <3>3, <3>5, <4>1
    <3>8. CASE New(i) < n + 1
      <4>1. Under(h, b.key) = h.blocks[New(i)].body \o h.blocks[n + 1].body
        BY <1>4, <3>3, <3>6, <3>8, TwiceUnder
      <4> QED
        BY <1>8, <3>3, <3>5, <4>1
    <3>9. n + 1 < New(i) \/ New(i) < n + 1
      BY <1>1, <1>6, <3>3
    <3> QED
      BY <3>7, <3>8, <3>9
  <2> QED
    BY <2>1, <2>2
<1> QED
  BY <1>4, <1>9, <1>14, <1>16 DEF Inserted, h


-----------------------------------------------------------------------------
\* The place of x among S.
Rank(S, x) == Cardinality({y \in S : y < x})

\* Ranks in a set of numbers go from none to its size, without a gap and without a tie.
LEMMA RankLemma ==
  ASSUME NEW N \in Nat, NEW S, S \subseteq 1 .. N
  PROVE  /\ IsFiniteSet(S) /\ Cardinality(S) \in Nat
         /\ \A x \in S : Rank(S, x) \in 0 .. Cardinality(S) - 1
         /\ \A x, y \in S : Rank(S, x) = Rank(S, y) => x = y
         /\ \A i \in 1 .. Cardinality(S) : \E x \in S : Rank(S, x) = i - 1
<1> DEFINE c == Cardinality(S)
           B(x) == {y \in S : y < x}
           r == [x \in S |-> Rank(S, x)]
<1>1. /\ IsFiniteSet(S) /\ c \in Nat
      /\ \A T \in SUBSET S : IsFiniteSet(T) /\ Cardinality(T) \in Nat /\ Cardinality(T) <= c
  <2>1. IsFiniteSet(1 .. N)
    BY FS_Interval
  <2>2. IsFiniteSet(S)
    BY <2>1, FS_Subset
  <2> QED
    BY <2>2, FS_Subset, FS_CardinalityType
<1>2. \A x \in S : Rank(S, x) = Cardinality(B(x)) /\ B(x) \in SUBSET S /\ x \notin B(x)
  BY DEF Rank
<1>3. ASSUME NEW x \in S, NEW y \in S, x < y PROVE Rank(S, x) < Rank(S, y)
  <2>1. B(x) \cup {x} \subseteq B(y)
    <3>1. ASSUME NEW z \in B(x) PROVE z \in B(y)
      <4>1. z \in Nat /\ x \in Nat /\ y \in Nat /\ z < x
        OBVIOUS
      <4> QED
        BY <1>3, <4>1
    <3> QED
      BY <1>3, <3>1
  <2>2. IsFiniteSet(B(x)) /\ x \notin B(x) /\ IsFiniteSet(B(y)) /\ Cardinality(B(x)) \in Nat
        /\ Cardinality(B(y)) \in Nat
    BY <1>1, <1>2
  <2>3. Cardinality(B(x) \cup {x}) = Cardinality(B(x)) + 1
    BY <2>2, FS_AddElement
  <2>4. Cardinality(B(x) \cup {x}) <= Cardinality(B(y))
    BY <2>1, <2>2, FS_Subset
  <2> HIDE DEF B
  <2> QED
    BY <1>2, <2>2, <2>3, <2>4
<1>4. ASSUME NEW x \in S PROVE Rank(S, x) \in 0 .. c - 1
  <2>1. B(x) \cup {x} \in SUBSET S /\ IsFiniteSet(B(x)) /\ Cardinality(B(x)) \in Nat
        /\ x \notin B(x)
    BY <1>1, <1>2
  <2>2. Cardinality(B(x) \cup {x}) = Cardinality(B(x)) + 1
    BY <2>1, FS_AddElement
  <2>3. Cardinality(B(x) \cup {x}) <= c
    BY <1>1, <2>1
  <2> HIDE DEF B, c
  <2> QED
    BY <1>1, <1>2, <2>1, <2>2, <2>3
<1>5. ASSUME NEW x \in S, NEW y \in S, Rank(S, x) = Rank(S, y) PROVE x = y
  <2>1. x \in Nat /\ y \in Nat /\ Rank(S, x) \in Nat
    BY <1>1, <1>4
  <2> QED
    BY <1>3, <1>5, <2>1
<1>6. r \in Injection(S, 0 .. c - 1)
  <2>1. r \in [S -> 0 .. c - 1]
    BY <1>4
  <2>2. \A x, y \in S : r[x] = r[y] => x = y
    BY <1>5
  <2> HIDE DEF r, c
  <2> QED
    BY <2>1, <2>2 DEF Injection, IsInjective
<1>7. IsFiniteSet(0 .. c - 1) /\ Cardinality(0 .. c - 1) = c
  <2>1. 0 \in Int /\ c - 1 \in Int /\ (0 > c - 1 => c = 0) /\ (c - 1) - 0 + 1 = c
    BY <1>1
  <2>2. IsFiniteSet(0 .. c - 1)
        /\ Cardinality(0 .. c - 1) = IF 0 > c - 1 THEN 0 ELSE (c - 1) - 0 + 1
    BY <2>1, FS_Interval
  <2> QED
    BY <2>1, <2>2
<1>8. r \in Surjection(S, 0 .. c - 1)
  <2> HIDE DEF r
  <2> QED
    BY <1>6, <1>7, FS_Injection
<1>9. ASSUME NEW i \in 1 .. c PROVE \E x \in S : Rank(S, x) = i - 1
  <2>1. i - 1 \in 0 .. c - 1
    BY <1>1
  <2>2. \E x \in S : r[x] = i - 1
    <3> HIDE DEF r, c
    <3> QED
      BY <1>8, <2>1 DEF Surjection
  <2> QED
    BY <2>2
<1> QED
  BY <1>1, <1>4, <1>5, <1>9

\* A listing has everything once.
ListsInOrder(l, S, c) ==
  /\ IsFiniteSet(S) /\ c \in Nat /\ Len(l) = c
  /\ \A i \in 1 .. c : l[i] \in S
  /\ \A i, j \in 1 .. c : l[i] = l[j] => i = j
  /\ \A x \in S : \E i \in 1 .. c : l[i] = x

\* A listing has each number of the set once, in order.
LEMMA ListingLemma ==
  ASSUME NEW N \in Nat, NEW S, S \subseteq 1 .. N
  PROVE  ListsInOrder(Listing(S), S, Cardinality(S))
<1> DEFINE c == Cardinality(S)
           l == Listing(S)
<1>1. /\ IsFiniteSet(S) /\ c \in Nat
      /\ \A x \in S : Rank(S, x) \in 0 .. c - 1
      /\ \A x, y \in S : Rank(S, x) = Rank(S, y) => x = y
      /\ \A i \in 1 .. c : \E x \in S : Rank(S, x) = i - 1
  BY RankLemma
<1>2. l = [i \in 1 .. c |-> CHOOSE x \in S : Rank(S, x) = i - 1]
  BY DEF Listing, Rank
<1> HIDE DEF l, c
<1>3. \A i \in 1 .. c : l[i] \in S /\ Rank(S, l[i]) = i - 1
  BY <1>1, <1>2
<1>4. Len(l) = c
  <2>1. l \in [1 .. c -> S]
    BY <1>2, <1>3
  <2> QED
    BY <1>1, <2>1, ASeq
<1>5. ASSUME NEW i \in 1 .. c, NEW j \in 1 .. c, l[i] = l[j] PROVE i = j
  <2>1. i - 1 = j - 1
    BY <1>3, <1>5
  <2> QED
    BY <1>1, <2>1
<1>6. ASSUME NEW x \in S PROVE \E i \in 1 .. c : l[i] = x
  <2>1. Rank(S, x) + 1 \in 1 .. c /\ (Rank(S, x) + 1) - 1 = Rank(S, x)
    BY <1>1
  <2>2. Rank(S, l[Rank(S, x) + 1]) = Rank(S, x) /\ l[Rank(S, x) + 1] \in S
    BY <1>3, <2>1
  <2>3. l[Rank(S, x) + 1] = x
    BY <1>1, <2>2
  <2> QED
    BY <2>1, <2>3
<1>7. ListsInOrder(l, S, c)
  BY <1>1, <1>3, <1>4, <1>5, <1>6 DEF ListsInOrder
<1> QED
  BY <1>7 DEF c, l

\* Everything in a sequence stands somewhere for the first time, and only once so.
LEMMA FirstPlacesLemma ==
  ASSUME NEW s \in Seq(Entries)
  PROVE  /\ FirstPlaces(s) \subseteq 1 .. Len(s)
         /\ \A i, j \in FirstPlaces(s) : s[i] = s[j] => i = j
         /\ \A i \in 1 .. Len(s) : \E j \in FirstPlaces(s) : s[j] = s[i]
<1> DEFINE N == Len(s)
<1>1. N \in Nat /\ DOMAIN s = 1 .. N
  BY LenProperties
<1>2. FirstPlaces(s) = {i \in 1 .. N : \A j \in 1 .. i - 1 : s[j] # s[i]}
  BY <1>1 DEF FirstPlaces
<1> HIDE DEF N
<1>3. ASSUME NEW i \in FirstPlaces(s), NEW j \in FirstPlaces(s), s[i] = s[j] PROVE i = j
  <2>1. i \in 1 .. N /\ j \in 1 .. N
    BY <1>2
  <2>2. CASE i < j
    <3>1. i \in 1 .. j - 1
      BY <1>1, <2>1, <2>2
    <3> QED
      BY <1>2, <1>3, <3>1
  <2>3. CASE j < i
    <3>1. j \in 1 .. i - 1
      BY <1>1, <2>1, <2>3
    <3> QED
      BY <1>2, <1>3, <3>1
  <2> QED
    BY <1>1, <2>1, <2>2, <2>3
<1>4. ASSUME NEW i \in 1 .. N PROVE \E j \in FirstPlaces(s) : s[j] = s[i]
  <2> DEFINE T == {j \in 1 .. N : s[j] = s[i]}
  <2>1. T \subseteq 0 .. N /\ T # {}
    BY <1>1
  <2>2. PICK j \in T : \A l \in T : j <= l
    <3> HIDE DEF T
    <3> QED
      BY <1>1, <2>1, LeastExists
  <2>3. ASSUME NEW l \in 1 .. j - 1 PROVE s[l] # s[j]
    <3>1. j \in 1 .. N /\ l \in 1 .. N /\ ~(j <= l) /\ s[j] = s[i]
      BY <1>1
    <3>2. l \notin T
      BY <2>2, <3>1
    <3> QED
      BY <3>1, <3>2
  <2>4. j \in FirstPlaces(s)
    BY <1>2, <2>3
  <2> QED
    BY <2>4
<1> QED
  BY <1>2, <1>3, <1>4 DEF N


-----------------------------------------------------------------------------
\* What the first lines of the dropped entries are: as many as there is room for, each of
\* an entry of its own, and of every entry where there is room.
Traces(D, s) ==
  /\ s \in Seq(Entries) /\ Len(s) \in Nat /\ Len(s) <= MaxOlder
  /\ \A i \in 1 .. Len(s) : s[i].age > 0
  /\ \A i, j \in 1 .. Len(s) : s[i] = s[j] => i = j
  /\ Len(s) = MaxOlder \/ \A i \in 1 .. Len(D) : \E j \in 1 .. Len(s) : s[j].id = D[i].id
  /\ \A A \in SUBSET Range(D) : Cardinality(A) = MaxOlder /\ IsFiniteSet(A)
                                  => Len(s) = MaxOlder

\* A summary has the first line of each entry dropped, as long as there is room.
LEMMA SummarizeLemma ==
  ASSUME NEW D \in Seq(Entries)
  PROVE  Traces(D, summarizeDropped(D))
<1> DEFINE F == FirstPlaces(D)
           l == Listing(F)
           c == Cardinality(F)
           m == IF c < MaxOlder THEN c ELSE MaxOlder
           s == summarizeDropped(D)
<1>1. /\ Len(D) \in Nat /\ DOMAIN D = 1 .. Len(D) /\ \A i \in 1 .. Len(D) : D[i] \in Entries
      /\ MaxOlder \in Nat
  BY LenProperties, ElementOfSeq, MemoryBoundsAreNatural
<1>2. /\ F \subseteq 1 .. Len(D)
      /\ \A i, j \in F : D[i] = D[j] => i = j
      /\ \A i \in 1 .. Len(D) : \E j \in F : D[j] = D[i]
  BY FirstPlacesLemma
<1> HIDE DEF F
<1>3. /\ IsFiniteSet(F) /\ c \in Nat /\ Len(l) = c
      /\ \A i \in 1 .. c : l[i] \in F
      /\ \A i, j \in 1 .. c : l[i] = l[j] => i = j
      /\ \A x \in F : \E i \in 1 .. c : l[i] = x
  <2>1. ListsInOrder(l, F, c)
    BY <1>1, <1>2, ListingLemma
  <2> HIDE DEF l, c
  <2> QED
    BY <2>1 DEF ListsInOrder
<1>4. s = [i \in 1 .. m |-> Entry(D[l[i]].id, D[l[i]].age + 1)]
  BY <1>3 DEF summarizeDropped, F
<1> HIDE DEF s, l, c
<1>5. m \in Nat /\ m <= MaxOlder /\ \A i \in 1 .. m : i \in 1 .. c
  BY <1>1, <1>3
<1>6. \A i \in 1 .. c : l[i] \in 1 .. Len(D) /\ D[l[i]] \in Entries
                        /\ D[l[i]].id \in Nat /\ D[l[i]].age \in Nat
                        /\ D[l[i]] = [id |-> D[l[i]].id, age |-> D[l[i]].age]
  BY <1>1, <1>2, <1>3 DEF Entries
<1>7. ASSUME NEW i \in 1 .. m
      PROVE  /\ s[i] \in Entries /\ s[i].id = D[l[i]].id /\ s[i].age = D[l[i]].age + 1
             /\ s[i].age > 0
  <2>1. i \in 1 .. c
    BY <1>5
  <2>2. D[l[i]].id \in Nat /\ D[l[i]].age \in Nat
    BY <1>6, <2>1
  <2>3. s[i] = [id |-> D[l[i]].id, age |-> D[l[i]].age + 1]
    BY <1>4 DEF Entry
  <2> QED
    BY <2>2, <2>3 DEF Entries
<1>8. s \in Seq(Entries) /\ Len(s) = m
  <2>1. s \in [1 .. m -> Entries]
    BY <1>4, <1>7
  <2> HIDE DEF m
  <2> QED
    BY <1>5, <2>1, ASeq
<1> HIDE DEF m
<1>9. ASSUME NEW i \in 1 .. m, NEW j \in 1 .. m, s[i] = s[j] PROVE i = j
  <2>1. i \in 1 .. c /\ j \in 1 .. c
    BY <1>5
  <2>2. D[l[i]].id = D[l[j]].id /\ D[l[i]].age + 1 = D[l[j]].age + 1
    BY <1>7, <1>9
  <2>3. D[l[i]].age = D[l[j]].age
    <3>1. D[l[i]].age \in Nat /\ D[l[j]].age \in Nat
      BY <1>6, <2>1
    <3> QED
      BY <2>2, <3>1, SMTT(40)
  <2>4. D[l[i]] = D[l[j]]
    BY <1>6, <2>1, <2>2, <2>3
  <2>5. l[i] = l[j]
    <3>1. l[i] \in F /\ l[j] \in F
      BY <1>3, <2>1
    <3> QED
      BY <1>2, <2>4, <3>1
  <2> QED
    BY <1>3, <2>1, <2>5
<1>10. ASSUME m # MaxOlder, NEW i \in 1 .. Len(D) PROVE \E j \in 1 .. m : s[j].id = D[i].id
  <2>1. m = c
    BY <1>1, <1>3, <1>10 DEF m
  <2>2. PICK x \in F : D[x] = D[i]
    BY <1>2
  <2>3. PICK j \in 1 .. c : l[j] = x
    BY <1>3
  <2> QED
    BY <1>7, <2>1, <2>2, <2>3
<1>11. ASSUME NEW A \in SUBSET Range(D), Cardinality(A) = MaxOlder, IsFiniteSet(A)
       PROVE  m = MaxOlder
  <2> DEFINE g == [x \in F |-> D[x]]
             R == Range(D)
  <2>1. R = {D[i] : i \in 1 .. Len(D)}
    BY <1>1 DEF Range
  <2>2. g \in Surjection(F, R)
    <3>1. g \in [F -> R]
      BY <1>2, <2>1
    <3>2. ASSUME NEW y \in R PROVE \E x \in F : g[x] = y
      <4>1. PICK i \in 1 .. Len(D) : y = D[i]
        BY <2>1
      <4> QED
        BY <1>2, <4>1
    <3> HIDE DEF g, R
    <3> QED
      BY <3>1, <3>2 DEF Surjection
  <2> HIDE DEF g, R
  <2>3. IsFiniteSet(R) /\ Cardinality(R) <= c
    BY <1>3, <2>2, FS_Surjection DEF c
  <2>4. Cardinality(A) <= Cardinality(R) /\ Cardinality(R) \in Nat
    BY <2>3, FS_Subset, FS_CardinalityType DEF R
  <2> QED
    BY <1>1, <1>3, <1>11, <2>3, <2>4 DEF m
<1> HIDE DEF m
<1> QED
  BY <1>5, <1>7, <1>8, <1>9, <1>10, <1>11 DEF Traces, s

\* The latest entries have not been compacted.
UnagedLast(B) == \A i \in 1 .. Len(B) : B[i].age > 0 => i + KeepLast <= Len(B)

\* The latest notes of g are the last of B.
Latest(B, g) ==
  \A d \in Nat : d < Len(g) /\ d < KeepLast =>
    d < Len(B) /\ B[Len(B) - d] = Entry(g[Len(g) - d], 0)

\* Every note of g is in B, or B has as many first lines as there is room for.
Traced(B, g) ==
  \/ \A i \in 1 .. Len(g) : \E j \in 1 .. Len(B) : B[j].id = g[i]
  \/ Cardinality(Aged(B)) = MaxOlder


\* What a heading's body owes to the notes given to it.
Records(B, g) ==
  /\ B \in Seq(Entries) /\ g \in Seq(Nat)
  /\ UnagedLast(B) /\ Latest(B, g) /\ Traced(B, g)

\* A body is a sequence of entries.
LEMMA BodyParts ==
  ASSUME NEW B \in Seq(Entries)
  PROVE  /\ Len(B) \in Nat /\ DOMAIN B = 1 .. Len(B)
         /\ \A i \in 1 .. Len(B) : B[i] \in Entries /\ B[i].id \in Nat /\ B[i].age \in Nat
         /\ Range(B) = {B[i] : i \in 1 .. Len(B)}
<1>1. Len(B) \in Nat /\ DOMAIN B = 1 .. Len(B) /\ \A i \in 1 .. Len(B) : B[i] \in Entries
  BY LenProperties, ElementOfSeq
<1>2. \A i \in 1 .. Len(B) : B[i].id \in Nat /\ B[i].age \in Nat
  BY <1>1 DEF Entries
<1>3. Range(B) = {B[i] : i \in 1 .. Len(B)}
  BY <1>1 DEF Range
<1> QED
  BY <1>1, <1>2, <1>3

\* A body of which nothing is on record.
LEMMA FreshRecords ==
  ASSUME NEW B \in Seq(Entries), UnagedLast(B)
  PROVE  Records(B, <<>>)
<1>1. <<>> \in Seq(Nat) /\ Len(<<>>) = 0 /\ 1 .. 0 = {} /\ \A d \in Nat : ~(d < 0)
  BY EmptySeq
<1>2. Latest(B, <<>>)
  BY <1>1 DEF Latest
<1>3. Traced(B, <<>>)
  BY <1>1 DEF Traced
<1> QED
  BY <1>1, <1>2, <1>3 DEF Records

\* Where nothing was given, nothing is owed.
LEMMA NoneRecords == Records(<<>>, <<>>)
<1>1. <<>> \in Seq(Entries) /\ Len(<<>>) = 0 /\ 1 .. 0 = {}
  BY EmptySeq
<1>2. UnagedLast(<<>>)
  BY <1>1 DEF UnagedLast
<1> QED
  BY <1>1, <1>2, FreshRecords

\* The n notes after the number w.
Notes(w, n) == [i \in 1 .. n |-> Entry(w + i, 0)]
Numbers(w, n) == [i \in 1 .. n |-> w + i]

\* New notes are entries.
LEMMA NotesLemma ==
  ASSUME NEW w \in Nat, NEW n \in Nat PROVE Notes(w, n) \in Seq(Entries)
<1>1. \A i \in 1 .. n : w + i \in Nat
  OBVIOUS
<1>2. \A i \in 1 .. n : Entry(w + i, 0) \in Entries
  BY <1>1 DEF Entry, Entries
<1>3. Notes(w, n) \in [1 .. n -> Entries]
  BY <1>2 DEF Notes
<1> QED
  BY <1>3, ASeq

\* Notes appended.
LEMMA AppendRecords ==
  ASSUME NEW B, NEW g, Records(B, g), NEW n \in Nat, NEW w \in Nat
  PROVE  Records(B \o Notes(w, n), g \o Numbers(w, n))
<1> DEFINE e == [i \in 1 .. n |-> Entry(w + i, 0)]
           x == [i \in 1 .. n |-> w + i]
           C == B \o e
           h == g \o x
           b == Len(B)
           l == Len(g)
<1>1. /\ B \in Seq(Entries) /\ g \in Seq(Nat)
      /\ UnagedLast(B) /\ Latest(B, g) /\ Traced(B, g)
  BY DEF Records
<1>2. b \in Nat /\ l \in Nat /\ KeepLast \in Nat
  BY <1>1, LenProperties, MemoryBoundsAreNatural
<1>3. e \in Seq(Entries) /\ Len(e) = n /\ \A i \in 1 .. n : e[i] = Entry(w + i, 0)
  <2>1. \A i \in 1 .. n : w + i \in Nat
    OBVIOUS
  <2>2. \A i \in 1 .. n : Entry(w + i, 0) \in Entries
    BY <2>1 DEF Entry, Entries
  <2>3. e \in [1 .. n -> Entries]
    BY <2>2
  <2>4. \A i \in 1 .. n : e[i] = Entry(w + i, 0)
    OBVIOUS
  <2> HIDE DEF e
  <2> QED
    BY <2>3, <2>4, ASeq
<1>4. x \in Seq(Nat) /\ Len(x) = n /\ \A i \in 1 .. n : x[i] = w + i
  <2>1. x \in [1 .. n -> Nat]
    OBVIOUS
  <2>2. \A i \in 1 .. n : x[i] = w + i
    OBVIOUS
  <2> HIDE DEF x
  <2> QED
    BY <2>1, <2>2, ASeq
<1> HIDE DEF e, x
<1>5. /\ C \in Seq(Entries) /\ Len(C) = b + n
      /\ \A i \in 1 .. b + n : C[i] = IF i <= b THEN B[i] ELSE e[i - b]
  BY <1>1, <1>3, ConcatProperties
<1>6. /\ h \in Seq(Nat) /\ Len(h) = l + n
      /\ \A i \in 1 .. l + n : h[i] = IF i <= l THEN g[i] ELSE x[i - l]
  BY <1>1, <1>4, ConcatProperties
<1> HIDE DEF C, h, b, l
<1>7. /\ \A i \in 1 .. b : C[i] = B[i]
      /\ \A i \in 1 .. n : C[b + i] = Entry(w + i, 0)
  <2>1. \A i \in 1 .. b : i \in 1 .. b + n /\ i <= b
    BY <1>2
  <2>2. \A i \in 1 .. n : b + i \in 1 .. b + n /\ ~(b + i <= b) /\ b + i - b = i
    BY <1>2
  <2>3. \A i \in 1 .. n : (b + i) - b = i
    BY <1>2
  <2>4. ASSUME NEW i \in 1 .. n PROVE C[b + i] = Entry(w + i, 0)
    <3>1. C[b + i] = e[(b + i) - b]
      BY <1>5, <2>2
    <3> QED
      BY <1>3, <2>3, <3>1
  <2> QED
    BY <1>5, <2>1, <2>4
<1>8. /\ \A i \in 1 .. l : h[i] = g[i]
      /\ \A i \in 1 .. n : h[l + i] = w + i
  <2>1. \A i \in 1 .. l : i \in 1 .. l + n /\ i <= l
    BY <1>2
  <2>2. \A i \in 1 .. n : l + i \in 1 .. l + n /\ ~(l + i <= l) /\ (l + i) - l = i
    BY <1>2
  <2>3. ASSUME NEW i \in 1 .. n PROVE h[l + i] = w + i
    <3>1. h[l + i] = x[(l + i) - l]
      BY <1>6, <2>2
    <3> QED
      BY <1>4, <2>2, <3>1
  <2> QED
    BY <1>6, <2>1, <2>3
<1>9. \A i \in 1 .. b + n : i \in 1 .. b \/ \E j \in 1 .. n : i = b + j
  <2>1. ASSUME NEW i \in 1 .. b + n, i \notin 1 .. b PROVE \E j \in 1 .. n : i = b + j
    <3>1. i - b \in 1 .. n /\ i = b + (i - b)
      BY <1>2, <2>1
    <3> QED
      BY <3>1
  <2> QED
    BY <2>1
<1>10. \A i \in 1 .. n : Entry(w + i, 0).age = 0 /\ Entry(w + i, 0).id = w + i
  BY DEF Entry
<1>11. UnagedLast(C)
  <2>1. ASSUME NEW i \in 1 .. b + n, C[i].age > 0 PROVE i + KeepLast <= b + n
    <3>1. i \in 1 .. b
      BY <1>7, <1>9, <1>10, <2>1
    <3>2. i + KeepLast <= b
      BY <1>1, <1>7, <2>1, <3>1 DEF UnagedLast, b
    <3> QED
      BY <1>2, <3>2
  <2> QED
    BY <1>5, <2>1 DEF UnagedLast
<1>12. Aged(C) = Aged(B)
  <2>1. /\ Range(C) = {C[i] : i \in 1 .. b + n} /\ Range(B) = {B[i] : i \in 1 .. b}
    BY <1>1, <1>5, BodyParts DEF b
  <2>2. ASSUME NEW y \in Aged(C) PROVE y \in Aged(B)
    <3>1. PICK i \in 1 .. b + n : y = C[i] /\ y.age > 0
      BY <2>1 DEF Aged
    <3>2. i \in 1 .. b
      BY <1>7, <1>9, <1>10, <3>1
    <3> QED
      BY <1>7, <2>1, <3>1, <3>2 DEF Aged
  <2>3. ASSUME NEW y \in Aged(B) PROVE y \in Aged(C)
    <3>1. PICK i \in 1 .. b : y = B[i] /\ y.age > 0
      BY <2>1 DEF Aged
    <3>2. i \in 1 .. b + n
      BY <1>2
    <3> QED
      BY <1>7, <2>1, <3>1, <3>2 DEF Aged
  <2> QED
    BY <2>2, <2>3
<1>13. Latest(C, h)
  <2>1. ASSUME NEW d \in Nat, d < l + n, d < KeepLast
        PROVE  d < b + n /\ C[(b + n) - d] = Entry(h[(l + n) - d], 0)
    <3>1. CASE d < n
      <4>1. /\ n - d \in 1 .. n /\ b + (n - d) = (b + n) - d /\ l + (n - d) = (l + n) - d
            /\ d < b + n
        BY <1>2, <3>1
      <4>2. C[b + (n - d)] = Entry(w + (n - d), 0) /\ h[l + (n - d)] = w + (n - d)
        BY <1>7, <1>8, <4>1
      <4> QED
        BY <4>1, <4>2
    <3>2. CASE ~(d < n)
      <4>1. /\ d - n \in Nat /\ d - n < l /\ d - n < KeepLast
            /\ l - (d - n) \in 1 .. l /\ l - (d - n) = (l + n) - d
        BY <1>2, <2>1, <3>2
      <4>2. d - n < b /\ B[b - (d - n)] = Entry(g[l - (d - n)], 0)
        BY <1>1, <4>1 DEF Latest, b, l
      <4>3. b - (d - n) \in 1 .. b /\ b - (d - n) = (b + n) - d /\ d < b + n
        BY <1>2, <3>2, <4>1, <4>2
      <4>4. C[b - (d - n)] = B[b - (d - n)] /\ h[l - (d - n)] = g[l - (d - n)]
        BY <1>7, <1>8, <4>1, <4>3
      <4> QED
        BY <4>1, <4>2, <4>3, <4>4
    <3> QED
      BY <3>1, <3>2
  <2> QED
    BY <1>5, <1>6, <2>1 DEF Latest
<1>14. Traced(C, h)
  <2>1. CASE Cardinality(Aged(B)) = MaxOlder
    BY <1>12, <2>1 DEF Traced
  <2>2. CASE \A i \in 1 .. l : \E j \in 1 .. b : B[j].id = g[i]
    <3>1. ASSUME NEW i \in 1 .. l + n PROVE \E j \in 1 .. b + n : C[j].id = h[i]
      <4>1. CASE i \in 1 .. l
        <5>1. PICK j \in 1 .. b : B[j].id = g[i]
          BY <2>2, <4>1
        <5>2. j \in 1 .. b + n
          BY <1>2
        <5> QED
          BY <1>7, <1>8, <4>1, <5>1, <5>2
      <4>2. CASE i \notin 1 .. l
        <5>1. i - l \in 1 .. n /\ l + (i - l) = i /\ b + (i - l) \in 1 .. b + n
          BY <1>2, <4>2
        <5>2. C[b + (i - l)] = Entry(w + (i - l), 0) /\ h[i] = w + (i - l)
          BY <1>7, <1>8, <5>1
        <5>3. C[b + (i - l)].id = h[i]
          BY <1>10, <5>1, <5>2
        <5> QED
          BY <5>1, <5>3
      <4> QED
        BY <4>1, <4>2
    <3> QED
      BY <1>5, <1>6, <3>1 DEF Traced
  <2> QED
    BY <1>1, <2>1, <2>2 DEF Traced, b, l
<1> QED
  BY <1>5, <1>6, <1>11, <1>13, <1>14 DEF Records, C, h, e, x, Notes, Numbers


\* A section replaced by one note.
LEMMA OneRecords ==
  ASSUME NEW w \in Nat
  PROVE  Records(<<Entry(w + 1, 0)>>, <<w + 1>>)
<1>1. Records(<<>> \o Notes(w, 1), <<>> \o Numbers(w, 1))
  BY NoneRecords, AppendRecords
<1>2. Notes(w, 1) = <<Entry(w + 1, 0)>> /\ Numbers(w, 1) = <<w + 1>>
  BY DEF Notes, Numbers
<1>3. <<Entry(w + 1, 0)>> \in Seq(Entries) /\ <<w + 1>> \in Seq(Nat)
  BY DEF Entry, Entries
<1>4. /\ <<>> \o <<Entry(w + 1, 0)>> = <<Entry(w + 1, 0)>>
      /\ <<>> \o <<w + 1>> = <<w + 1>>
  BY <1>3, ConcatEmptySeq
<1> QED
  BY <1>1, <1>2, <1>4

\* A note before or behind what there is.
LEMMA BesideFresh ==
  ASSUME NEW B \in Seq(Entries), UnagedLast(B), NEW w \in Nat
  PROVE  /\ B \o <<Entry(w, 0)>> \in Seq(Entries) /\ UnagedLast(B \o <<Entry(w, 0)>>)
         /\ <<Entry(w, 0)>> \o B \in Seq(Entries) /\ UnagedLast(<<Entry(w, 0)>> \o B)
<1> DEFINE e == <<Entry(w, 0)>>
           b == Len(B)
<1>1. b \in Nat /\ KeepLast \in Nat
  BY LenProperties, MemoryBoundsAreNatural
<1>2. e \in Seq(Entries) /\ Len(e) = 1 /\ e[1].age = 0
  BY DEF Entry, Entries
<1> HIDE DEF e
<1>3. /\ B \o e \in Seq(Entries) /\ Len(B \o e) = b + 1
      /\ \A i \in 1 .. b + 1 : (B \o e)[i] = IF i <= b THEN B[i] ELSE e[i - b]
  <2>1. /\ B \o e \in Seq(Entries) /\ Len(B \o e) = b + Len(e)
        /\ \A i \in 1 .. b + Len(e) : (B \o e)[i] = IF i <= b THEN B[i] ELSE e[i - b]
    BY <1>2, ConcatProperties
  <2> HIDE DEF b
  <2> QED
    BY <1>2, <2>1
<1>4. /\ e \o B \in Seq(Entries) /\ Len(e \o B) = 1 + b
      /\ \A i \in 1 .. 1 + b : (e \o B)[i] = IF i <= 1 THEN e[i] ELSE B[i - 1]
  <2>1. /\ e \o B \in Seq(Entries) /\ Len(e \o B) = Len(e) + b
        /\ \A i \in 1 .. Len(e) + b :
             (e \o B)[i] = IF i <= Len(e) THEN e[i] ELSE B[i - Len(e)]
    BY <1>2, ConcatProperties
  <2> HIDE DEF b
  <2> QED
    BY <1>2, <2>1
<1>5. \A i \in 1 .. b : B[i].age > 0 => i + KeepLast <= b
  BY DEF UnagedLast
<1> HIDE DEF b
<1>6. ASSUME NEW i \in 1 .. b + 1, (B \o e)[i].age > 0 PROVE i + KeepLast <= b + 1
  <2>1. CASE i <= b
    <3>1. i \in 1 .. b /\ (B \o e)[i] = B[i]
      BY <1>1, <1>3, <2>1
    <3>2. i + KeepLast <= b
      BY <1>5, <1>6, <3>1
    <3> QED
      BY <1>1, <3>2
  <2>2. CASE ~(i <= b)
    <3>1. i - b = 1 /\ (B \o e)[i] = e[i - b]
      BY <1>1, <1>3, <2>2
    <3> QED
      BY <1>2, <1>6, <3>1
  <2> QED
    BY <2>1, <2>2
<1>7. ASSUME NEW i \in 1 .. 1 + b, (e \o B)[i].age > 0 PROVE i + KeepLast <= 1 + b
  <2>1. CASE i <= 1
    <3>1. i = 1 /\ (e \o B)[i] = e[i]
      BY <1>1, <1>4, <2>1
    <3> QED
      BY <1>2, <1>7, <3>1
  <2>2. CASE ~(i <= 1)
    <3>1. i - 1 \in 1 .. b /\ (e \o B)[i] = B[i - 1]
      BY <1>1, <1>4, <2>2
    <3>2. (i - 1) + KeepLast <= b
      BY <1>5, <1>7, <3>1
    <3> QED
      BY <1>1, <3>1, <3>2
  <2> QED
    BY <2>1, <2>2
<1> QED
  BY <1>3, <1>4, <1>6, <1>7 DEF UnagedLast, e

\* A section compacted.
Rebuilt(B) == Summary(B) \o Kept(B)

\* A summary is a body.
LEMMA SummaryLemma ==
  ASSUME NEW B \in Seq(Entries)
  PROVE  Summary(B) \in Seq(Entries)
<1>1. Len(B) \in Nat /\ KeepLast \in Nat /\ \A i \in 1 .. Len(B) : B[i] \in Entries
  BY LenProperties, ElementOfSeq, MemoryBoundsAreNatural
<1>2. Dropped(B) \in Seq(Entries)
  <2>1. 1 \in Int /\ Len(B) - KeepLast \in Int
        /\ \A i \in 1 .. Len(B) - KeepLast : B[i] \in Entries
    BY <1>1
  <2> QED
    BY <2>1, SubSeqProperties DEF Dropped
<1>3. summarizeDropped(Dropped(B)) \in Seq(Entries)
  BY <1>2, SummarizeLemma DEF Traces
<1>4. <<CountEntry>> \in Seq(Entries)
  BY DEF CountEntry, Entry, Entries
<1> QED
  BY <1>3, <1>4, ConcatProperties DEF Summary

\* A section that is rebuilt keeps what it owes to the notes given to it.
LEMMA RebuiltRecords ==
  ASSUME NEW B, NEW g, Records(B, g), Len(B) > KeepLast
  PROVE  Records(Rebuilt(B), g)
<1> DEFINE b == Len(B)
           l == Len(g)
           n == b - KeepLast
           D == Dropped(B)
           s == summarizeDropped(D)
           m == Len(s)
           K == Kept(B)
           c == <<CountEntry>>
           C == Rebuilt(B)
<1>1. /\ B \in Seq(Entries) /\ g \in Seq(Nat)
      /\ UnagedLast(B) /\ Latest(B, g) /\ Traced(B, g)
  BY DEF Records
<1>2. /\ b \in Nat /\ KeepLast \in Nat /\ n \in Nat /\ n + KeepLast = b /\ l \in Nat
      /\ \A i \in 1 .. b : B[i] \in Entries
  BY <1>1, LenProperties, ElementOfSeq, MemoryBoundsAreNatural
<1>3. D \in Seq(Entries) /\ Len(D) = n /\ \A i \in 1 .. n : D[i] = B[i]
  <2>1. 1 \in Int /\ n \in Int /\ \A i \in 1 .. n : B[i] \in Entries
    BY <1>2
  <2>2. D = SubSeq(B, 1, n)
    BY DEF Dropped
  <2> HIDE DEF D, n
  <2>3. /\ D \in Seq(Entries) /\ Len(D) = IF 1 <= n THEN n - 1 + 1 ELSE 0
        /\ \A i \in 1 .. n - 1 + 1 : D[i] = B[1 + i - 1]
    BY <2>1, <2>2, SubSeqProperties
  <2>4. n - 1 + 1 = n /\ (~(1 <= n) => n = 0) /\ \A i \in 1 .. n : 1 + i - 1 = i
    BY <1>2
  <2> QED
    BY <2>3, <2>4
<1>4. K \in Seq(Entries) /\ Len(K) = KeepLast /\ \A i \in 1 .. KeepLast : K[i] = B[n + i]
  <2>1. n + 1 \in Int /\ b \in Int /\ \A i \in n + 1 .. b : B[i] \in Entries
    BY <1>2
  <2>2. K = SubSeq(B, n + 1, b)
    BY DEF Kept
  <2> HIDE DEF K, n, b
  <2>3. /\ K \in Seq(Entries) /\ Len(K) = IF n + 1 <= b THEN b - (n + 1) + 1 ELSE 0
        /\ \A i \in 1 .. b - (n + 1) + 1 : K[i] = B[(n + 1) + i - 1]
    BY <2>1, <2>2, SubSeqProperties
  <2>4. /\ b - (n + 1) + 1 = KeepLast /\ (~(n + 1 <= b) => KeepLast = 0)
        /\ \A i \in 1 .. KeepLast : (n + 1) + i - 1 = n + i
    BY <1>2
  <2> QED
    BY <2>3, <2>4
<1>5. Traces(D, s)
  BY <1>3, SummarizeLemma
<1> HIDE DEF D, s, K
<1>6. /\ s \in Seq(Entries) /\ m \in Nat /\ m <= MaxOlder
      /\ \A i \in 1 .. m : s[i].age > 0
      /\ \A i, j \in 1 .. m : s[i] = s[j] => i = j
      /\ m = MaxOlder \/ \A i \in 1 .. n : \E j \in 1 .. m : s[j].id = D[i].id
      /\ \A A \in SUBSET Range(D) : Cardinality(A) = MaxOlder /\ IsFiniteSet(A) => m = MaxOlder
  BY <1>3, <1>5 DEF Traces
<1>7. c \in Seq(Entries) /\ Len(c) = 1 /\ c[1].age = 0
  BY DEF CountEntry, Entry, Entries
<1> HIDE DEF m, c
<1>8. /\ c \o s \in Seq(Entries) /\ Len(c \o s) = 1 + m
      /\ \A i \in 1 .. 1 + m : (c \o s)[i] = IF i <= 1 THEN c[i] ELSE s[i - 1]
  <2>1. /\ c \o s \in Seq(Entries) /\ Len(c \o s) = Len(c) + Len(s)
        /\ \A i \in 1 .. Len(c) + Len(s) :
             (c \o s)[i] = IF i <= Len(c) THEN c[i] ELSE s[i - Len(c)]
    <3>1. c \in Seq(Entries) /\ s \in Seq(Entries)
      BY <1>6, <1>7
    <3> QED
      BY <3>1, ConcatProperties
  <2>2. Len(s) = m
    BY DEF m
  <2> QED
    BY <1>7, <2>1, <2>2
<1>9. C = (c \o s) \o K
  BY DEF Rebuilt, Summary, c, s, D, K
<1> HIDE DEF C
<1>10. /\ C \in Seq(Entries) /\ Len(C) = (1 + m) + KeepLast
       /\ \A i \in 1 .. (1 + m) + KeepLast :
            C[i] = IF i <= 1 + m THEN (c \o s)[i] ELSE K[i - (1 + m)]
  <2> DEFINE u == c \o s
  <2> HIDE DEF u
  <2>1. /\ C \in Seq(Entries) /\ Len(C) = Len(u) + Len(K)
        /\ \A i \in 1 .. Len(u) + Len(K) :
             C[i] = IF i <= Len(u) THEN u[i] ELSE K[i - Len(u)]
    <3>1. C = u \o K /\ u \in Seq(Entries)
      BY <1>8, <1>9 DEF u
    <3> QED
      BY <1>4, <3>1, ConcatProperties
  <2>2. Len(u) = 1 + m /\ Len(K) = KeepLast
    BY <1>4, <1>8 DEF u
  <2> QED
    BY <2>1, <2>2 DEF u
<1> HIDE DEF n, b, l
<1>11. /\ C[1].age = 0
       /\ \A i \in 1 .. m : C[1 + i] = s[i]
       /\ \A i \in 1 .. KeepLast : C[(1 + m) + i] = B[n + i]
  <2>1. C[1] = c[1]
    <3>1. 1 \in 1 .. (1 + m) + KeepLast /\ 1 <= 1 + m /\ 1 \in 1 .. 1 + m /\ 1 <= 1
      BY <1>2, <1>6
    <3>2. C[1] = (c \o s)[1]
      BY <1>10, <3>1
    <3>3. (c \o s)[1] = c[1]
      BY <1>8, <3>1
    <3> QED
      BY <3>2, <3>3
  <2>2. ASSUME NEW i \in 1 .. m PROVE C[1 + i] = s[i]
    <3>1. /\ 1 + i \in 1 .. (1 + m) + KeepLast /\ 1 + i <= 1 + m /\ 1 + i \in 1 .. 1 + m
          /\ ~(1 + i <= 1) /\ (1 + i) - 1 = i
      BY <1>2, <1>6
    <3>2. C[1 + i] = (c \o s)[1 + i]
      BY <1>10, <3>1
    <3>3. (c \o s)[1 + i] = s[(1 + i) - 1]
      BY <1>8, <3>1
    <3> QED
      BY <3>1, <3>2, <3>3
  <2>3. ASSUME NEW i \in 1 .. KeepLast PROVE C[(1 + m) + i] = B[n + i]
    <3>1. /\ (1 + m) + i \in 1 .. (1 + m) + KeepLast /\ ~((1 + m) + i <= 1 + m)
          /\ ((1 + m) + i) - (1 + m) = i
      BY <1>2, <1>6
    <3>2. C[(1 + m) + i] = K[((1 + m) + i) - (1 + m)]
      BY <1>10, <3>1
    <3> QED
      BY <1>4, <3>1, <3>2
  <2> QED
    BY <1>7, <2>1, <2>2, <2>3
<1>12. ASSUME NEW i \in 1 .. (1 + m) + KeepLast
       PROVE  \/ i = 1
              \/ \E j \in 1 .. m : i = 1 + j
              \/ \E j \in 1 .. KeepLast : i = (1 + m) + j
  <2>1. CASE i <= 1 + m /\ i # 1
    <3>1. i - 1 \in 1 .. m /\ i = 1 + (i - 1)
      BY <1>2, <1>6, <2>1
    <3> QED
      BY <3>1
  <2>2. CASE ~(i <= 1 + m)
    <3>1. i - (1 + m) \in 1 .. KeepLast /\ i = (1 + m) + (i - (1 + m))
      BY <1>2, <1>6, <2>2
    <3> QED
      BY <3>1
  <2> QED
    BY <2>1, <2>2
<1>13. \A i \in 1 .. KeepLast : B[n + i].age = 0
  <2>1. ASSUME NEW i \in 1 .. KeepLast PROVE B[n + i].age = 0
    <3>1. n + i \in 1 .. b /\ ~((n + i) + KeepLast <= b)
      BY <1>2
    <3>2. ~(B[n + i].age > 0)
      BY <1>1, <3>1 DEF UnagedLast, b
    <3>3. B[n + i].age \in Nat
      BY <1>1, <3>1, BodyParts DEF b
    <3> QED
      BY <3>2, <3>3
  <2> QED
    BY <2>1
<1>14. UnagedLast(C)
  <2>1. ASSUME NEW i \in 1 .. (1 + m) + KeepLast, C[i].age > 0
        PROVE  i + KeepLast <= (1 + m) + KeepLast
    <3>1. PICK j \in 1 .. m : i = 1 + j
      BY <1>11, <1>12, <1>13, <2>1
    <3> QED
      BY <1>2, <1>6, <3>1
  <2> QED
    BY <1>10, <2>1 DEF UnagedLast
<1>15. Cardinality(Aged(C)) = m
  <2> DEFINE f == [i \in 1 .. m |-> s[i]]
             A == Aged(C)
  <2>1. Range(C) = {C[i] : i \in 1 .. (1 + m) + KeepLast}
    BY <1>10, BodyParts
  <2>2. ASSUME NEW i \in 1 .. m PROVE s[i] \in A
    <3>1. 1 + i \in 1 .. (1 + m) + KeepLast /\ C[1 + i] = s[i] /\ s[i].age > 0
      BY <1>2, <1>6, <1>11
    <3> QED
      BY <2>1, <3>1 DEF Aged
  <2>3. ASSUME NEW y \in A PROVE \E i \in 1 .. m : s[i] = y
    <3>1. PICK i \in 1 .. (1 + m) + KeepLast : y = C[i] /\ y.age > 0
      BY <2>1 DEF Aged
    <3>2. PICK j \in 1 .. m : i = 1 + j
      BY <1>11, <1>12, <1>13, <3>1
    <3> QED
      BY <1>11, <3>1, <3>2
  <2> HIDE DEF A
  <2>4. f \in Injection(1 .. m, A) /\ f \in Surjection(1 .. m, A)
    <3>1. f \in [1 .. m -> A]
      BY <2>2
    <3>2. \A i, j \in 1 .. m : f[i] = f[j] => i = j
      BY <1>6
    <3>3. \A y \in A : \E i \in 1 .. m : f[i] = y
      BY <2>3
    <3> HIDE DEF f
    <3> QED
      BY <3>1, <3>2, <3>3 DEF Injection, IsInjective, Surjection
  <2>5. IsFiniteSet(1 .. m) /\ Cardinality(1 .. m) = m
    <3>1. 1 \in Int /\ m \in Int /\ (1 > m => m = 0) /\ (m - 1) + 1 = m
      BY <1>6
    <3>2. IsFiniteSet(1 .. m) /\ Cardinality(1 .. m) = IF 1 > m THEN 0 ELSE (m - 1) + 1
      BY <3>1, FS_Interval
    <3> QED
      BY <3>1, <3>2
  <2> HIDE DEF f
  <2> QED
    BY <2>4, <2>5, FS_Surjection DEF A
<1>16. Latest(C, g)
  <2>1. ASSUME NEW d \in Nat, d < l, d < KeepLast
        PROVE  d < (1 + m) + KeepLast /\ C[((1 + m) + KeepLast) - d] = Entry(g[l - d], 0)
    <3>1. /\ KeepLast - d \in 1 .. KeepLast
          /\ ((1 + m) + KeepLast) - d = (1 + m) + (KeepLast - d)
          /\ b - d = n + (KeepLast - d) /\ d < (1 + m) + KeepLast
      BY <1>2, <1>6, <2>1
    <3>2. B[b - d] = Entry(g[l - d], 0)
      BY <1>1, <2>1 DEF Latest, b, l
    <3> QED
      BY <1>11, <3>1, <3>2
  <2> QED
    BY <1>10, <2>1 DEF Latest, l
<1>17. Traced(C, g)
  <2>1. CASE m = MaxOlder
    BY <1>15, <2>1 DEF Traced
  <2>2. CASE m # MaxOlder
    <3>1. \A i \in 1 .. n : \E j \in 1 .. m : s[j].id = D[i].id
      BY <1>6, <2>2
    <3>2. Cardinality(Aged(B)) # MaxOlder
      <4>1. ASSUME NEW y \in Aged(B) PROVE y \in Range(D)
        <5>1. PICK i \in 1 .. b : y = B[i] /\ y.age > 0
          BY <1>1, BodyParts DEF Aged, b
        <5>2. i + KeepLast <= b
          BY <1>1, <5>1 DEF UnagedLast, b
        <5>3. i \in 1 .. n
          BY <1>2, <5>2
        <5>4. Range(D) = {D[j] : j \in 1 .. n}
          BY <1>3, BodyParts
        <5> QED
          BY <1>3, <5>1, <5>3, <5>4
      <4>2. IsFiniteSet(Aged(B))
        <5>1. Range(B) = {B[i] : i \in 1 .. b} /\ DOMAIN B = 1 .. b
          BY <1>1, BodyParts DEF b
        <5>2. IsFiniteSet(1 .. b)
          BY <1>2, FS_Interval
        <5> DEFINE r == [i \in 1 .. b |-> B[i]]
        <5>3. r \in Surjection(1 .. b, Range(B))
          <6>1. r \in [1 .. b -> Range(B)]
            BY <5>1
          <6>2. \A y \in Range(B) : \E i \in 1 .. b : r[i] = y
            BY <5>1
          <6> HIDE DEF r
          <6> QED
            BY <6>1, <6>2 DEF Surjection
        <5> HIDE DEF r
        <5>4. IsFiniteSet(Range(B))
          BY <5>2, <5>3, FS_Surjection
        <5> QED
          BY <5>4, FS_Subset DEF Aged
      <4> QED
        BY <1>6, <2>2, <4>1, <4>2
    <3>3. \A i \in 1 .. l : \E j \in 1 .. b : B[j].id = g[i]
      BY <1>1, <3>2 DEF Traced, b, l
    <3>4. ASSUME NEW i \in 1 .. l PROVE \E j \in 1 .. (1 + m) + KeepLast : C[j].id = g[i]
      <4>1. PICK j \in 1 .. b : B[j].id = g[i]
        BY <3>3
      <4>2. CASE j \in 1 .. n
        <5>1. PICK k \in 1 .. m : s[k].id = D[j].id
          BY <3>1, <4>2
        <5>2. 1 + k \in 1 .. (1 + m) + KeepLast
          BY <1>2, <1>6
        <5>3. C[1 + k].id = g[i]
          BY <1>3, <1>11, <4>1, <4>2, <5>1
        <5> QED
          BY <5>2, <5>3
      <4>3. CASE j \notin 1 .. n
        <5>1. j - n \in 1 .. KeepLast /\ n + (j - n) = j
              /\ (1 + m) + (j - n) \in 1 .. (1 + m) + KeepLast
          BY <1>2, <1>6, <4>3
        <5>2. C[(1 + m) + (j - n)].id = g[i]
          BY <1>11, <4>1, <5>1
        <5> QED
          BY <5>1, <5>2
      <4> QED
        BY <4>2, <4>3
    <3> QED
      BY <1>10, <3>4 DEF Traced, l
  <2> QED
    BY <2>1, <2>2
<1> QED
  BY <1>1, <1>10, <1>14, <1>16, <1>17 DEF Records, C


\* And it is a body.
LEMMA RebuiltType ==
  ASSUME NEW B \in Seq(Entries), Len(B) > KeepLast
  PROVE  Rebuilt(B) \in Seq(Entries)
<1>1. Len(B) \in Nat /\ KeepLast \in Nat /\ \A i \in 1 .. Len(B) : B[i] \in Entries
  BY LenProperties, ElementOfSeq, MemoryBoundsAreNatural
<1>2. /\ Len(B) - KeepLast + 1 \in Int /\ Len(B) \in Int
      /\ \A i \in Len(B) - KeepLast + 1 .. Len(B) : B[i] \in Entries
  BY <1>1
<1>3. Kept(B) \in Seq(Entries)
  BY <1>2, SubSeqProperties DEF Kept
<1>4. Summary(B) \in Seq(Entries)
  BY SummaryLemma
<1> QED
  BY <1>3, <1>4, ConcatProperties DEF Rebuilt

-----------------------------------------------------------------------------
\* The compaction of the first n headings of p.
Done(p, n, k) == TooLong(p, k) /\ \E i \in 1 .. n : p.headings[i] = k

Midway(p, n, q) ==
  /\ q \in Parsings
  /\ DOMAIN p.sections \subseteq DOMAIN q.sections
  /\ \A k \in DOMAIN q.sections :
       \/ k \in DOMAIN p.sections
       \/ \E l \in DOMAIN p.sections : TooLong(p, l) /\ k = SummaryOf(l)
  /\ \A k \in DOMAIN p.sections :
       /\ q.sections[k].authority = p.sections[k].authority
       /\ q.sections[k].body = IF Done(p, n, k) THEN Rebuilt(p.sections[k].body)
                                 ELSE p.sections[k].body
       /\ Done(p, n, k) => SummaryOf(k) \in DOMAIN q.sections

\* The heading of a summary is no plain one.
LEMMA SummaryOfLemma ==
  ASSUME NEW k \in Keys
  PROVE  SummaryOf(k) \in Keys /\ SummaryOf(k).label > 0
BY DEF SummaryOf, Keys

\* The section of a heading rebuilt, and its summary under a heading of its own.
LEMMA CompactOneLemma ==
  ASSUME NEW q \in Parsings, NEW key \in DOMAIN q.sections
  PROVE  /\ CompactOne(q, key) \in Parsings
         /\ DOMAIN q.sections \subseteq DOMAIN CompactOne(q, key).sections
         /\ \A k \in DOMAIN CompactOne(q, key).sections :
              k \in DOMAIN q.sections \/ (TooLong(q, key) /\ k = SummaryOf(key))
         /\ \A k \in DOMAIN q.sections \ {key} :
              CompactOne(q, key).sections[k] = q.sections[k]
         /\ CompactOne(q, key).sections[key].authority = q.sections[key].authority
         /\ CompactOne(q, key).sections[key].body
              = IF TooLong(q, key) THEN Rebuilt(q.sections[key].body)
                  ELSE q.sections[key].body
         /\ TooLong(q, key) => SummaryOf(key) \in DOMAIN CompactOne(q, key).sections
<1> DEFINE section == q.sections[key]
           summary == Summary(section.body)
           rebuilt == WithSection(q, key, section.authority, Rebuilt(section.body))
           r == CompactOne(q, key)
           pinned == WithSection(rebuilt, SummaryOf(key), "agent", summary)
<1>1. /\ key \in Keys /\ section.authority \in Asserters /\ section.body \in Seq(Entries)
  BY ParsingParts
<1>2. r = CASE ~TooLong(q, key) -> q
            [] TooLong(q, key) /\ Known(q, SummaryOf(key)) -> rebuilt
            [] OTHER -> pinned
  BY DEF CompactOne, Rebuilt
<1>3. summary \in Seq(Entries) /\ SummaryOf(key) \in Keys /\ "agent" \in Asserters
  BY <1>1, SummaryLemma, SummaryOfLemma DEF Asserters
<1> HIDE DEF r
<1>4. CASE ~TooLong(q, key)
  <2>1. r = q
    BY <1>2, <1>4
  <2> QED
    BY <1>4, <2>1 DEF r
<1>5. CASE TooLong(q, key)
  <2>1. Rebuilt(section.body) \in Seq(Entries)
    BY <1>1, <1>5, RebuiltType DEF TooLong
  <2>2. /\ rebuilt \in Parsings
        /\ DOMAIN rebuilt.sections = DOMAIN q.sections \cup {key}
        /\ rebuilt.sections[key] = [authority |-> section.authority,
                                    body |-> Rebuilt(section.body)]
        /\ \A k \in DOMAIN q.sections \ {key} : rebuilt.sections[k] = q.sections[k]
    <3> HIDE DEF section
    <3> QED
      BY <1>1, <2>1, WithSectionLemma
  <2> HIDE DEF rebuilt
  <2>3. CASE Known(q, SummaryOf(key))
    <3>1. r = rebuilt
      BY <1>2, <1>5, <2>3
    <3> QED
      BY <1>5, <2>2, <2>3, <3>1 DEF r, Known
  <2>4. CASE ~Known(q, SummaryOf(key))
    <3>1. r = pinned
      BY <1>2, <1>5, <2>4
    <3>2. /\ pinned \in Parsings
          /\ DOMAIN pinned.sections = DOMAIN rebuilt.sections \cup {SummaryOf(key)}
          /\ \A k \in DOMAIN rebuilt.sections \ {SummaryOf(key)} :
               pinned.sections[k] = rebuilt.sections[k]
      <4> DEFINE top == SummaryOf(key)
                 by == "agent"
      <4>1. top \in Keys /\ by \in Asserters /\ rebuilt \in Parsings
        BY <1>3, <2>2
      <4> HIDE DEF summary, top, by
      <4>2. LET x == WithSection(rebuilt, top, by, summary) IN
            /\ x \in Parsings
            /\ DOMAIN x.sections = DOMAIN rebuilt.sections \cup {top}
            /\ x.sections[top] = [authority |-> by, body |-> summary]
            /\ \A k \in DOMAIN rebuilt.sections \ {top} :
                 x.sections[k] = rebuilt.sections[k]
        BY <1>3, <4>1, WithSectionLemma
      <4> QED
        BY <4>2 DEF top, by
    <3> HIDE DEF pinned
    <3>3. SummaryOf(key) \notin DOMAIN q.sections
      BY <2>4 DEF Known
    <3>4. /\ DOMAIN pinned.sections = DOMAIN q.sections \cup {SummaryOf(key)}
          /\ \A k \in DOMAIN q.sections : pinned.sections[k] = rebuilt.sections[k]
      BY <2>2, <3>2, <3>3
    <3> QED
      BY <1>5, <2>2, <3>1, <3>2, <3>4 DEF r
  <2> QED
    BY <2>3, <2>4
<1> QED
  BY <1>4, <1>5

\* Each heading of the pass is compacted once, and no other section changes.
LEMMA MidwayLemma ==
  ASSUME NEW p \in Parsings, NEW n \in 1 .. Len(p.headings), NEW q, Midway(p, n - 1, q)
  PROVE  Midway(p, n, CompactOne(q, p.headings[n]))
<1> DEFINE key == p.headings[n]
           r == CompactOne(q, key)
<1>1. /\ Len(p.headings) \in Nat /\ key \in DOMAIN p.sections
      /\ \A i, j \in 1 .. Len(p.headings) : p.headings[i] = p.headings[j] => i = j
  BY ParsingParts
<1>2. /\ q \in Parsings
      /\ DOMAIN p.sections \subseteq DOMAIN q.sections
      /\ \A k \in DOMAIN q.sections :
           \/ k \in DOMAIN p.sections
           \/ \E l \in DOMAIN p.sections : TooLong(p, l) /\ k = SummaryOf(l)
      /\ \A k \in DOMAIN p.sections :
           /\ q.sections[k].authority = p.sections[k].authority
           /\ q.sections[k].body = IF Done(p, n - 1, k) THEN Rebuilt(p.sections[k].body)
                                     ELSE p.sections[k].body
           /\ Done(p, n - 1, k) => SummaryOf(k) \in DOMAIN q.sections
  BY DEF Midway
<1>3. ~\E i \in 1 .. n - 1 : p.headings[i] = key
  <2>1. \A i \in 1 .. n - 1 : i \in 1 .. Len(p.headings) /\ i # n
    BY <1>1
  <2> QED
    BY <1>1, <2>1
<1>4. ~Done(p, n - 1, key)
  BY <1>3 DEF Done
<1>5. q.sections[key].body = p.sections[key].body
  BY <1>1, <1>2, <1>4
<1>6. TooLong(q, key) <=> TooLong(p, key)
  BY <1>5 DEF TooLong
<1>7. \A k : k # key => (Done(p, n, k) <=> Done(p, n - 1, k))
  <2>1. ASSUME NEW k, k # key
        PROVE (\E i \in 1 .. n : p.headings[i] = k) <=> (\E i \in 1 .. n - 1 : p.headings[i] = k)
    <3>1. \A i \in 1 .. n : i = n \/ i \in 1 .. n - 1
      BY <1>1
    <3>2. \A i \in 1 .. n - 1 : i \in 1 .. n
      BY <1>1
    <3> QED
      BY <2>1, <3>1, <3>2
  <2> QED
    BY <2>1 DEF Done
<1>8. Done(p, n, key) <=> TooLong(p, key)
  <2>1. n \in 1 .. n
    BY <1>1
  <2> QED
    BY <2>1 DEF Done
<1>9. /\ r \in Parsings
      /\ DOMAIN q.sections \subseteq DOMAIN r.sections
      /\ \A k \in DOMAIN r.sections :
           k \in DOMAIN q.sections \/ (TooLong(q, key) /\ k = SummaryOf(key))
      /\ \A k \in DOMAIN q.sections \ {key} : r.sections[k] = q.sections[k]
      /\ r.sections[key].authority = q.sections[key].authority
      /\ r.sections[key].body
           = IF TooLong(q, key) THEN Rebuilt(q.sections[key].body) ELSE q.sections[key].body
      /\ TooLong(q, key) => SummaryOf(key) \in DOMAIN r.sections
  <2>1. key \in DOMAIN q.sections
    BY <1>1, <1>2
  <2> HIDE DEF key
  <2> QED
    BY <1>2, <2>1, CompactOneLemma
<1> HIDE DEF r, key
<1>10. \A k \in DOMAIN r.sections :
         \/ k \in DOMAIN p.sections
         \/ \E l \in DOMAIN p.sections : TooLong(p, l) /\ k = SummaryOf(l)
  BY <1>1, <1>2, <1>6, <1>9
<1>11. ASSUME NEW k \in DOMAIN p.sections
       PROVE  /\ r.sections[k].authority = p.sections[k].authority
              /\ r.sections[k].body = IF Done(p, n, k) THEN Rebuilt(p.sections[k].body)
                                        ELSE p.sections[k].body
              /\ Done(p, n, k) => SummaryOf(k) \in DOMAIN r.sections
  <2>1. CASE k = key
    BY <1>2, <1>5, <1>6, <1>8, <1>9, <2>1
  <2>2. CASE k # key
    <3>1. r.sections[k] = q.sections[k]
      BY <1>2, <1>9, <2>2
    <3>2. Done(p, n, k) => SummaryOf(k) \in DOMAIN r.sections
      BY <1>2, <1>7, <1>9, <2>2
    <3> QED
      BY <1>2, <1>7, <2>2, <3>1, <3>2
  <2> QED
    BY <2>1, <2>2
<1>12. Midway(p, n, r)
  BY <1>2, <1>9, <1>10, <1>11 DEF Midway
<1> QED
  BY <1>12 DEF r, key


\* A file as it is compacted, section by section.
Packs(p, P) ==
  /\ DOMAIN P = 0 .. Len(p.headings) /\ P[0] = p
  /\ \A n \in 1 .. Len(p.headings) : P[n] = CompactOne(P[n - 1], p.headings[n])

\* compact goes over the headings one by one.
LEMMA PackLemma ==
  ASSUME NEW p \in Parsings
  PROVE  \E P : Packs(p, P) /\ compact(p) = P[Len(p.headings)]
<1> DEFINE N == Len(p.headings)
           S == {q \in Parsings : DOMAIN p.sections \subseteq DOMAIN q.sections}
           F == [i \in 1 .. N |-> [q \in S |-> CompactOne(q, p.headings[i])]]
<1>1. N \in Nat /\ \A i \in 1 .. N : p.headings[i] \in DOMAIN p.sections
  BY ParsingParts
<1>2. p \in S
  OBVIOUS
<1>3. F \in [1 .. N -> [S -> S]]
  <2>1. ASSUME NEW i \in 1 .. N, NEW q \in S PROVE CompactOne(q, p.headings[i]) \in S
    <3>1. q \in Parsings /\ p.headings[i] \in DOMAIN q.sections
          /\ DOMAIN p.sections \subseteq DOMAIN q.sections
      BY <1>1
    <3> DEFINE r == CompactOne(q, p.headings[i])
    <3>2. r \in Parsings /\ DOMAIN q.sections \subseteq DOMAIN r.sections
      BY <3>1, CompactOneLemma
    <3> HIDE DEF r
    <3>3. r \in S
      BY <3>1, <3>2
    <3> QED
      BY <3>3 DEF r
  <2> HIDE DEF N, S
  <2> QED
    BY <2>1
<1>4. \A i \in 1 .. N : \A q \in S : F[i][q] = CompactOne(q, p.headings[i])
  OBVIOUS
<1> HIDE DEF F, S
<1>5. PICK h \in [0 .. N -> S] : h[0] = p /\ \A n \in 1 .. N : h[n] = F[n][h[n - 1]]
  <2> HIDE DEF N
  <2>1. \E h \in [0 .. N -> S] : Iterates(h, N, p, F)
    BY <1>1, <1>2, <1>3, Iteration
  <2> QED
    BY <2>1 DEF Iterates
<1>6. h = [n \in 0 .. N |-> IF n = 0 THEN p ELSE CompactOne(h[n - 1], p.headings[n])]
  <2>1. ASSUME NEW n \in 0 .. N
        PROVE  h[n] = IF n = 0 THEN p ELSE CompactOne(h[n - 1], p.headings[n])
    <3>1. n # 0 => n \in 1 .. N /\ n - 1 \in 0 .. N
      BY <1>1
    <3> QED
      BY <1>4, <1>5, <3>1
  <2> QED
    BY <2>1
<1> DEFINE g == CHOOSE r : r = [n \in 0 .. N |->
                  IF n = 0 THEN p ELSE CompactOne(r[n - 1], p.headings[n])]
<1>7. compact(p) = g[N]
  BY DEF compact
<1>8. g = [n \in 0 .. N |-> IF n = 0 THEN p ELSE CompactOne(g[n - 1], p.headings[n])]
  BY <1>6
<1> HIDE DEF g
<1>9. Packs(p, g)
  <2>1. 0 \in 0 .. N /\ \A n \in 1 .. N : n \in 0 .. N /\ n # 0
    BY <1>1
  <2>2. DOMAIN g = 0 .. N
    BY <1>8
  <2>3. \A n \in 0 .. N :
          g[n] = IF n = 0 THEN p ELSE CompactOne(g[n - 1], p.headings[n])
    BY <1>8
  <2>4. g[0] = p /\ \A n \in 1 .. N : g[n] = CompactOne(g[n - 1], p.headings[n])
    BY <2>1, <2>3
  <2> QED
    BY <2>2, <2>4 DEF Packs
<1> QED
  BY <1>7, <1>9

\* What is long is rebuilt, and the rest is as it was.
Compacted(p, q) ==
  /\ q \in Parsings
  /\ DOMAIN p.sections \subseteq DOMAIN q.sections
  /\ \A k \in DOMAIN q.sections :
       \/ k \in DOMAIN p.sections
       \/ \E l \in DOMAIN p.sections : TooLong(p, l) /\ k = SummaryOf(l)
  /\ \A k \in DOMAIN p.sections :
       /\ q.sections[k].authority = p.sections[k].authority
       /\ q.sections[k].body = IF TooLong(p, k) THEN Rebuilt(p.sections[k].body)
                                 ELSE p.sections[k].body
       /\ TooLong(p, k) => SummaryOf(k) \in DOMAIN q.sections

\* At its end every section that was too long is rebuilt, and every other is as it was.
LEMMA CompactLemma ==
  ASSUME NEW p \in Parsings
  PROVE  Compacted(p, compact(p))
<1> DEFINE N == Len(p.headings)
<1>1. PICK P : Packs(p, P) /\ compact(p) = P[N]
  BY PackLemma
<1>2. /\ N \in Nat
      /\ \A k \in DOMAIN p.sections : \E i \in 1 .. N : p.headings[i] = k
  BY ParsingParts
<1> DEFINE T == {n \in 0 .. N : Midway(p, n, P[n])}
<1>3. 0 \in T
  <2>1. \A k : ~Done(p, 0, k)
    <3>1. 1 .. 0 = {}
      OBVIOUS
    <3> QED
      BY <3>1 DEF Done
  <2>2. Midway(p, 0, p)
    BY <2>1 DEF Midway
  <2>3. P[0] = p /\ 0 \in 0 .. N
    BY <1>1, <1>2 DEF Packs
  <2> QED
    BY <2>2, <2>3
<1>4. ASSUME NEW n \in 1 .. N, n - 1 \in T PROVE n \in T
  <2>1. Midway(p, n - 1, P[n - 1]) /\ n \in 0 .. N
    BY <1>2, <1>4
  <2>2. Midway(p, n, CompactOne(P[n - 1], p.headings[n]))
    BY <2>1, MidwayLemma
  <2>3. P[n] = CompactOne(P[n - 1], p.headings[n])
    BY <1>1 DEF Packs
  <2> QED
    BY <2>1, <2>2, <2>3
<1>5. N \in T
  <2>1. \A n \in 1 .. N : n - 1 \in T => n \in T
    BY <1>4
  <2> HIDE DEF T, N
  <2>2. \A n \in 0 .. N : n \in T
    BY <1>2, <1>3, <2>1, Climb
  <2>3. N \in 0 .. N
    BY <1>2
  <2> QED
    BY <2>2, <2>3
<1>6. Midway(p, N, compact(p))
  BY <1>1, <1>5
<1>7. \A k \in DOMAIN p.sections : Done(p, N, k) <=> TooLong(p, k)
  BY <1>2 DEF Done
<1> QED
  BY <1>6, <1>7 DEF Midway, Compacted


\* The file compacted.
Packed(f, h, long) ==
  /\ h \in Files /\ Keeps(f, h, long \cup {SummaryOf(k) : k \in long})
  /\ Headings(f) \subseteq Headings(h) /\ long \subseteq Headings(f)
  /\ {SummaryOf(k) : k \in long} \subseteq Headings(h)
  /\ \A k \in Keys : k.label = 0 =>
       Under(h, k) = IF Len(Under(f, k)) > KeepLast THEN Rebuilt(Under(f, k)) ELSE Under(f, k)

\* So it is in the file that a compaction writes.
LEMMA PackedLemma ==
  ASSUME NEW f \in Files
  PROVE  Packed(f, serialize(f, compact(splitSections(f))),
                {k \in DOMAIN splitSections(f).sections : TooLong(splitSections(f), k)})
<1> DEFINE p == splitSections(f)
           q == compact(p)
           h == serialize(f, q)
           long == {k \in DOMAIN p.sections : TooLong(p, k)}
           tops == {SummaryOf(k) : k \in long}
<1>1. /\ p \in Parsings /\ DOMAIN p.sections = Headings(f)
      /\ \A k \in Headings(f) :
           p.sections[k].body = Under(f, k) /\ p.sections[k].authority \in Headed(f, k)
      /\ \A k : k \notin Headings(f) => Under(f, k) = <<>>
  BY ParseLemma
<1>2. DOMAIN p.sections \subseteq Keys
  BY <1>1, ParsingParts
<1> HIDE DEF p
<1>3. Compacted(p, q)
  BY <1>1, CompactLemma
<1> HIDE DEF q
<1>4. /\ q \in Parsings
      /\ DOMAIN p.sections \subseteq DOMAIN q.sections
      /\ \A k \in DOMAIN q.sections : k \in DOMAIN p.sections \/ k \in tops
      /\ \A k \in DOMAIN p.sections :
           /\ q.sections[k].authority = p.sections[k].authority
           /\ q.sections[k].body = IF k \in long THEN Rebuilt(p.sections[k].body)
                                     ELSE p.sections[k].body
      /\ tops \subseteq DOMAIN q.sections
  BY <1>3 DEF Compacted
<1>5. /\ h \in Files /\ h.head = f.head /\ Headings(h) = DOMAIN q.sections
      /\ \A k \in DOMAIN q.sections :
           Under(h, k) = q.sections[k].body /\ Headed(h, k) = {q.sections[k].authority}
  BY <1>4, SerializeLemma
<1> HIDE DEF h
<1>6. \A k : k \notin Headings(h) => Under(h, k) = <<>>
  BY <1>5, ParseLemma
<1>7. tops \subseteq {k \in Keys : k.label > 0}
  BY <1>2, SummaryOfLemma
<1>8. \A k \in Headings(f) : k \in long <=> Len(Under(f, k)) > KeepLast
  BY <1>1 DEF TooLong
<1>9. long \subseteq Headings(f)
  BY <1>1
<1> HIDE DEF tops, long
<1>10. ASSUME NEW k \in Headings(f)
       PROVE  /\ Under(h, k) = IF k \in long THEN Rebuilt(Under(f, k)) ELSE Under(f, k)
              /\ Headed(h, k) \subseteq Headed(f, k) /\ Headed(h, k) # {}
              /\ k \in Headings(h)
  <2>1. k \in DOMAIN p.sections /\ k \in DOMAIN q.sections
    BY <1>1, <1>4
  <2>2. Headed(h, k) = {p.sections[k].authority}
    BY <1>4, <1>5, <2>1
  <2>3. Headed(h, k) \subseteq Headed(f, k) /\ Headed(h, k) # {}
    BY <1>1, <2>2
  <2>4. Under(h, k) = q.sections[k].body /\ p.sections[k].body = Under(f, k)
    BY <1>1, <1>5, <2>1
  <2>5. q.sections[k].body = IF k \in long THEN Rebuilt(p.sections[k].body)
                               ELSE p.sections[k].body
    BY <1>4, <2>1
  <2> QED
    BY <1>5, <2>1, <2>3, <2>4, <2>5
<1>11. ASSUME NEW k, k \notin long \cup tops PROVE Under(h, k) = Under(f, k)
  <2>1. CASE k \in Headings(f)
    BY <1>10, <1>11, <2>1
  <2>2. CASE k \notin Headings(f)
    <3>1. k \notin Headings(h)
      BY <1>1, <1>4, <1>5, <1>11, <2>2
    <3> QED
      BY <1>1, <1>6, <2>2, <3>1
  <2> QED
    BY <2>1, <2>2
<1>12. Keeps(f, h, long \cup tops)
  BY <1>5, <1>10, <1>11 DEF Keeps
<1>13. ASSUME NEW k \in Keys, k.label = 0
       PROVE  Under(h, k) = IF Len(Under(f, k)) > KeepLast THEN Rebuilt(Under(f, k))
                              ELSE Under(f, k)
  <2>1. CASE k \in Headings(f)
    BY <1>8, <1>10, <2>1
  <2>2. CASE k \notin Headings(f)
    <3>1. k \notin tops
      BY <1>7, <1>13
    <3>2. k \notin Headings(h)
      BY <1>1, <1>4, <1>5, <2>2, <3>1
    <3>3. Under(h, k) = <<>> /\ Under(f, k) = <<>>
      BY <1>1, <1>6, <2>2, <3>2
    <3>4. ~(Len(<<>>) > KeepLast)
      BY EmptySeq, MemoryBoundsAreNatural
    <3> QED
      BY <3>3, <3>4
  <2> QED
    BY <2>1, <2>2
<1>14. Headings(f) \subseteq Headings(h) /\ tops \subseteq Headings(h)
  BY <1>1, <1>4, <1>5
<1> DEFINE tops2 == {SummaryOf(k) : k \in long}
<1>15. tops = tops2
  BY DEF tops
<1>16. Packed(f, h, long)
  BY <1>5, <1>9, <1>12, <1>13, <1>14, <1>15 DEF Packed
<1> QED
  BY <1>16 DEF h, q, long, p

\* A file of a person has nothing compacted in it.
LEMMA NothingAged ==
  ASSUME NEW f \in Files, NEW k,
         \A i \in DOMAIN f.blocks : Aged(f.blocks[i].body) = {}
  PROVE  UnagedLast(Under(f, k))
<1> DEFINE N == Len(f.blocks)
           Young(s) == \A i \in 1 .. Len(s) : ~(s[i].age > 0)
<1>1. N \in Nat /\ DOMAIN f.blocks = 1 .. N /\ \A i \in 1 .. N : f.blocks[i].body \in Seq(Entries)
  BY FileParts
<1>2. PICK g : ReadsOn(f, k, g) /\ Under(f, k) = g[N]
  BY ReadLemma
<1>3. /\ \A n \in 0 .. N : g[n] \in Seq(Entries)
      /\ g[0] = <<>>
      /\ \A n \in 1 .. N :
           g[n] = IF f.blocks[n].key = k THEN g[n - 1] \o f.blocks[n].body ELSE g[n - 1]
  BY <1>2 DEF ReadsOn
<1>4. ASSUME NEW i \in 1 .. N PROVE Young(f.blocks[i].body)
  <2> DEFINE s == f.blocks[i].body
  <2>1. s \in Seq(Entries) /\ Aged(s) = {}
    BY <1>1
  <2> HIDE DEF s
  <2>2. Range(s) = {s[j] : j \in 1 .. Len(s)}
    BY <2>1, BodyParts
  <2>3. Young(s)
    BY <2>1, <2>2 DEF Aged
  <2> QED
    BY <2>3 DEF s
<1>5. ASSUME NEW s \in Seq(Entries), NEW t \in Seq(Entries), Young(s), Young(t)
      PROVE  Young(s \o t)
  <2>1. Len(s) \in Nat /\ Len(t) \in Nat
    BY LenProperties
  <2>2. /\ Len(s \o t) = Len(s) + Len(t)
        /\ \A i \in 1 .. Len(s) + Len(t) :
             (s \o t)[i] = IF i <= Len(s) THEN s[i] ELSE t[i - Len(s)]
    BY ConcatProperties
  <2>3. ASSUME NEW i \in 1 .. Len(s) + Len(t) PROVE ~((s \o t)[i].age > 0)
    <3>1. CASE i <= Len(s)
      <4>1. i \in 1 .. Len(s)
        BY <2>1, <3>1
      <4> QED
        BY <1>5, <2>2, <3>1, <4>1
    <3>2. CASE ~(i <= Len(s))
      <4>1. i - Len(s) \in 1 .. Len(t)
        BY <2>1, <3>2
      <4> QED
        BY <1>5, <2>2, <3>2, <4>1
    <3> QED
      BY <3>1, <3>2
  <2> QED
    BY <2>2, <2>3
<1> DEFINE T == {n \in 0 .. N : Young(g[n])}
<1>6. 0 \in T
  <2>1. Len(<<>>) = 0 /\ 1 .. 0 = {}
    BY EmptySeq
  <2> QED
    BY <1>1, <1>3, <2>1
<1> HIDE DEF Young
<1>7. ASSUME NEW n \in 1 .. N, n - 1 \in T PROVE n \in T
  <2>1. n - 1 \in 0 .. N /\ n \in 0 .. N /\ Young(g[n - 1])
    BY <1>1, <1>7
  <2>2. g[n - 1] \in Seq(Entries) /\ f.blocks[n].body \in Seq(Entries)
    BY <1>1, <1>3, <2>1
  <2>3. Young(g[n - 1] \o f.blocks[n].body)
    BY <1>4, <1>5, <2>1, <2>2
  <2>4. Young(g[n])
    BY <1>3, <2>1, <2>3
  <2> QED
    BY <2>1, <2>4
<1>8. \A n \in 1 .. N : n - 1 \in T => n \in T
  BY <1>7
<1>9. Young(g[N])
  <2>1. N \in 0 .. N
    BY <1>1
  <2>2. N \in T
    <3> HIDE DEF T, N
    <3> QED
      BY <1>1, <1>6, <1>8, <2>1, Climb
  <2> QED
    BY <2>2
<1> QED
  BY <1>2, <1>9 DEF UnagedLast, Young


-----------------------------------------------------------------------------
\* A product of what is at most and at least.
LEMMA Scaled ==
  ASSUME NEW a \in Nat, NEW b \in Nat, NEW c \in Nat, a <= b
  PROVE  c * a <= c * b /\ c * a \in Nat /\ c * b \in Nat
<1>1. b - a \in Nat /\ b = a + (b - a)
  OBVIOUS
<1>2. c * (a + (b - a)) = c * a + c * (b - a)
  BY <1>1
<1>3. c * (b - a) \in Nat /\ c * a \in Nat /\ c * b \in Nat
  BY <1>1
<1> QED
  BY <1>1, <1>2, <1>3

\* The weight of an authority counts for little beside half of the words.
LEMMA WeightLemma ==
  ASSUME NEW a \in Asserters PROVE Weight(a) \in 30 .. 100
BY DEF Weight, Asserters

\* A section that holds half of the query's words is ahead of every one that does not.
LEMMA ScoreLemma ==
  ASSUME NEW p \in Parsings, NEW query, NEW i \in DOMAIN p.headings,
         query.share \in {1, 150}, query.heading \subseteq query.half
  PROVE  /\ scoreSection(p, query, i) \in Nat /\ Places(p) \in Nat /\ Places(p) > 0
         /\ i \in query.half => scoreSection(p, query, i) >= 531 * Places(p)
         /\ i \notin query.half => scoreSection(p, query, i) <= 200 * Places(p)
<1> DEFINE N == Len(p.headings)
           P == Places(p)
           W == Weight(p.sections[p.headings[i]].authority)
           H == IF i \in query.half THEN 500 + query.share ELSE 0
           J == IF i \in query.heading THEN 350 ELSE 0
           R == Recency(p, i)
<1>1. /\ N \in Nat /\ i \in 1 .. N /\ p.sections[p.headings[i]].authority \in Asserters
  <2>1. N \in Nat /\ i \in 1 .. N
    BY ParsingParts
  <2>2. p.headings[i] \in DOMAIN p.sections
    BY <2>1, ParsingParts
  <2> QED
    BY <2>1, <2>2, ParsingParts
<1>2. W \in 30 .. 100
  BY <1>1, WeightLemma
<1>3. P \in Nat /\ P > 0 /\ R \in Nat /\ R <= P * 100
  <2>1. CASE N > 1
    <3>1. P = N - 1 /\ R = (i - 1) * 100
      BY <2>1 DEF Places, Recency
    <3>2. i - 1 \in Nat /\ N - 1 \in Nat /\ i - 1 <= N - 1 /\ N - 1 > 0
      BY <1>1, <2>1
    <3> QED
      BY <3>1, <3>2
  <2>2. CASE ~(N > 1)
    <3>1. P = 1 /\ R = 100
      BY <2>2 DEF Places, Recency
    <3> QED
      BY <3>1
  <2> QED
    BY <2>1, <2>2
<1>4. scoreSection(p, query, i) = R + P * (W + H + J)
  BY DEF scoreSection
<1>5. H \in Nat /\ J \in Nat
  OBVIOUS
<1>6. i \in query.half => H >= 501
  OBVIOUS
<1>7. i \notin query.half => H = 0 /\ J = 0
  OBVIOUS
<1> HIDE DEF P, W, H, J, R, N
<1> DEFINE V == W + H + J
<1>8. V \in Nat /\ (i \in query.half => 531 <= V) /\ (i \notin query.half => V <= 100)
  BY <1>2, <1>5, <1>6, <1>7
<1> HIDE DEF V
<1>9. P * V \in Nat /\ R + P * V \in Nat
  BY <1>3, <1>8
<1>10. ASSUME i \in query.half PROVE R + P * V >= 531 * P
  <2>1. P * 531 <= P * V
    BY <1>3, <1>8, <1>10, Scaled
  <2>2. P * 531 = 531 * P /\ 531 * P \in Nat
    BY <1>3
  <2> QED
    BY <1>3, <1>9, <2>1, <2>2
<1>11. ASSUME i \notin query.half PROVE R + P * V <= 200 * P
  <2>1. P * V <= P * 100
    BY <1>3, <1>8, <1>11, Scaled
  <2>2. P * 100 = 100 * P /\ 100 * P \in Nat /\ 100 * P + 100 * P = 200 * P
    BY <1>3
  <2> QED
    BY <1>3, <1>9, <2>1, <2>2
<1>12. scoreSection(p, query, i) = R + P * V
  BY <1>4 DEF V
<1> QED
  BY <1>3, <1>9, <1>10, <1>11, <1>12 DEF P

Shown(p, half, heading, share) ==
  half \subseteq Selected(p, [half |-> half, heading |-> heading, share |-> share])

\* Sections that hold half of the words are strong, and none that does not comes before them.
LEMMA SelectedLemma ==
  ASSUME NEW p \in Parsings, NEW half \in SUBSET DOMAIN p.headings,
         Cardinality(half) <= PromptBudget,
         NEW heading \in SUBSET half, NEW share \in {1, 150}
  PROVE  Shown(p, half, heading, share)
<1> DEFINE query == [half |-> half, heading |-> heading, share |-> share]
           strong == Strong(p, query)
           pool == IF strong = {} THEN DOMAIN p.headings ELSE strong
           Score(i) == IF strong = {} THEN 0 ELSE scoreSection(p, query, i)
           Ahead(i) == {j \in pool : \/ Score(j) > Score(i)
                                      \/ (Score(j) = Score(i) /\ j > i)}
<1>1. query.half = half /\ query.heading = heading /\ query.share = share
  OBVIOUS
<1>2. Len(p.headings) \in Nat /\ DOMAIN p.headings = 1 .. Len(p.headings)
  BY ParsingParts
<1>3. Selected(p, query) = {i \in pool : Cardinality(Ahead(i)) < PromptBudget}
  BY DEF Selected
<1> HIDE DEF query
<1>4. \A i \in DOMAIN p.headings :
        /\ scoreSection(p, query, i) \in Nat /\ Places(p) \in Nat /\ Places(p) > 0
        /\ i \in half => scoreSection(p, query, i) >= 531 * Places(p)
        /\ i \notin half => scoreSection(p, query, i) <= 200 * Places(p)
  BY <1>1, ScoreLemma
<1>5. \A i \in half : i \in strong
  <2>1. ASSUME NEW i \in half PROVE scoreSection(p, query, i) >= MinScore(p)
    <3>1. /\ scoreSection(p, query, i) >= 531 * Places(p)
          /\ scoreSection(p, query, i) \in Nat /\ Places(p) \in Nat
      BY <1>4
    <3> QED
      BY <3>1 DEF MinScore
  <2> QED
    BY <2>1 DEF Strong
<1>6. strong \subseteq DOMAIN p.headings
  BY DEF Strong
<1> HIDE DEF strong
<1>7. ASSUME NEW i \in half PROVE i \in pool /\ Cardinality(Ahead(i)) < PromptBudget
  <2>1. strong # {} /\ pool = strong /\ i \in strong /\ i \in DOMAIN p.headings
    BY <1>5
  <2>2. \A j \in pool : Score(j) = scoreSection(p, query, j)
    BY <2>1
  <2>3. ASSUME NEW j \in Ahead(i) PROVE j \in half \ {i}
    <3>1. j \in pool /\ j \in DOMAIN p.headings
      BY <1>6, <2>1
    <3>2. \/ scoreSection(p, query, j) > scoreSection(p, query, i)
          \/ (scoreSection(p, query, j) = scoreSection(p, query, i) /\ j > i)
      BY <2>1, <2>2
    <3>3. j # i
      <4>1. i \in Nat /\ scoreSection(p, query, i) \in Nat
        BY <1>2, <1>4, <2>1
      <4> QED
        BY <3>2, <4>1
    <3>4. ASSUME j \notin half PROVE FALSE
      <4>1. /\ scoreSection(p, query, j) <= 200 * Places(p)
            /\ scoreSection(p, query, i) >= 531 * Places(p)
            /\ scoreSection(p, query, j) \in Nat /\ scoreSection(p, query, i) \in Nat
            /\ Places(p) \in Nat /\ Places(p) > 0
        BY <1>4, <2>1, <3>1, <3>4
      <4> QED
        BY <3>2, <4>1
    <3> QED
      BY <3>3, <3>4
  <2> HIDE DEF Ahead, pool, Score
  <2>4. IsFiniteSet(half)
    <3>1. IsFiniteSet(1 .. Len(p.headings))
      BY <1>2, FS_Interval
    <3> QED
      BY <1>2, <3>1, FS_Subset
  <2>5. /\ Cardinality(half) \in Nat /\ IsFiniteSet(half \ {i})
        /\ Cardinality(half \ {i}) = Cardinality(half) - 1
    BY <2>4, FS_CardinalityType, FS_RemoveElement
  <2>6. Cardinality(Ahead(i)) <= Cardinality(half \ {i}) /\ Cardinality(Ahead(i)) \in Nat
    BY <2>3, <2>5, FS_Subset, FS_CardinalityType
  <2>7. PromptBudget \in Nat
    BY MemoryBoundsAreNatural
  <2> QED
    BY <2>1, <2>5, <2>6, <2>7
<1> HIDE DEF Ahead, pool, Score
<1> QED
  BY <1>3, <1>7 DEF query, Shown


-----------------------------------------------------------------------------
\* Only headings without the label of a summary are given notes.
Plain == {k \in Keys : k.label = 0}

\* A memory in which every heading has what it owes to its notes.
Sound(m) ==
  /\ m.file \in Files /\ m.wrote \in Nat
  /\ DOMAIN m.given \subseteq Plain
  /\ m.touched \subseteq DOMAIN m.given \cup Headings(m.file)
  /\ \A k \in Plain : Records(Under(m.file, k), GivenTo(m.given, k))

\* One the file as it is leads to, and which is that file but for what it touched.
Reached(m) == Sound(m) /\ Keeps(file, m.file, m.touched)

\* The notes h are those of g, but for the ones v given to key.
GivenAs(h, g, key, v) ==
  /\ DOMAIN h = DOMAIN g \cup {key} /\ GivenTo(h, key) = v
  /\ \A k : k # key => GivenTo(h, k) = GivenTo(g, k)

\* What is given to one heading is given to no other.
LEMMA GivenLemma ==
  ASSUME NEW g, NEW key, NEW v
  PROVE  GivenAs(With(g, key, v), g, key, v)
BY DEF With, GivenTo, GivenAs

\* A write to one section.
LEMMA WriteLemma ==
  ASSUME NEW m, Reached(m), NEW key \in Plain, NEW h, NEW body,
         h \in Files, Keeps(m.file, h, {key}), Under(h, key) = body,
         NEW w \in Nat, NEW ids, Records(body, ids)
  PROVE  Reached([file |-> h, wrote |-> w, touched |-> m.touched \cup {key},
                  given |-> With(m.given, key, ids)])
<1> DEFINE l == [file |-> h, wrote |-> w, touched |-> m.touched \cup {key},
                 given |-> With(m.given, key, ids)]
<1>1. /\ m.file \in Files /\ m.wrote \in Nat
      /\ DOMAIN m.given \subseteq Plain
      /\ m.touched \subseteq DOMAIN m.given \cup Headings(m.file)
      /\ \A k \in Plain : Records(Under(m.file, k), GivenTo(m.given, k))
      /\ Keeps(file, m.file, m.touched)
  BY DEF Reached, Sound
<1>2. Headings(m.file) \ {key} \subseteq Headings(h)
  BY DEF Keeps
<1>3. /\ l.file = h /\ l.wrote = w /\ l.touched = m.touched \cup {key}
      /\ l.given = With(m.given, key, ids)
  OBVIOUS
<1> HIDE DEF l
<1>4. /\ DOMAIN l.given = DOMAIN m.given \cup {key} /\ GivenTo(l.given, key) = ids
      /\ \A k : k # key => GivenTo(l.given, k) = GivenTo(m.given, k)
  <2> DEFINE g == With(m.given, key, ids)
  <2>1. GivenAs(g, m.given, key, ids)
    BY GivenLemma
  <2>2. l.given = g
    BY <1>3
  <2> HIDE DEF g
  <2> QED
    BY <2>1, <2>2 DEF GivenAs
<1>5. ASSUME NEW k \in Plain PROVE Records(Under(h, k), GivenTo(l.given, k))
  <2>1. CASE k = key
    BY <1>2, <1>4, <2>1
  <2>2. CASE k # key
    <3>1. Under(h, k) = Under(m.file, k)
      BY <1>2, <2>2 DEF Keeps
    <3> QED
      BY <1>1, <1>4, <2>2, <3>1
  <2> QED
    BY <2>1, <2>2
<1>6. Keeps(file, h, m.touched \cup {key})
  BY <1>1, <1>2, KeepsOn
<1>7. Sound(l)
  BY <1>1, <1>2, <1>3, <1>4, <1>5 DEF Sound
<1> QED
  BY <1>3, <1>6, <1>7 DEF Reached, l

\* An append leaves what is sound sound, and touches its own heading.
LEMMA AppendingLemma ==
  ASSUME NEW m, Reached(m), NEW key \in Plain, NEW n \in Nat,
         NEW authority \in Asserters \cup {"unsaid"}
  PROVE  Reached(Appending(m, key, n, authority))
<1> DEFINE notes == Notes(m.wrote, n)
           ids == Numbers(m.wrote, n)
           body == Under(m.file, key) \o notes
           h == serialize(m.file, Appended(splitSections(m.file), key, notes, authority))
           g == GivenTo(m.given, key) \o ids
<1>1. /\ m.file \in Files /\ m.wrote \in Nat /\ key \in Keys /\ m.wrote + n \in Nat
      /\ Records(Under(m.file, key), GivenTo(m.given, key))
  BY DEF Reached, Sound, Plain
<1>2. notes \in Seq(Entries)
  BY <1>1, NotesLemma
<1>3. Records(body, g)
  BY <1>1, AppendRecords
<1>4. Appending(m, key, n, authority)
        = [file |-> h, wrote |-> m.wrote + n, touched |-> m.touched \cup {key},
           given |-> With(m.given, key, g)]
  BY DEF Appending, Notes, Numbers
<1> HIDE DEF notes, ids, g
<1>5. h \in Files /\ Keeps(m.file, h, {key}) /\ Under(h, key) = body
  BY <1>1, <1>2, AppendedLemma DEF Changed
<1> HIDE DEF body, h
<1> DEFINE w == m.wrote + n
<1>6. w \in Nat
  BY <1>1
<1> HIDE DEF w
<1>7. Reached([file |-> h, wrote |-> w, touched |-> m.touched \cup {key},
               given |-> With(m.given, key, g)])
  BY <1>1, <1>3, <1>5, <1>6, WriteLemma
<1> QED
  BY <1>4, <1>7 DEF w

\* A step begins with what there is.
LEMMA CurrentReached ==
  ASSUME Sound(Current)
  PROVE  Reached(Current)
<1>1. Current.file = file /\ Current.touched = {} /\ file \in Files
  BY DEF Current, Sound
<1>2. \A k \in Headings(file) : Headed(file, k) # {}
  BY <1>1, ParseLemma
<1>3. Keeps(file, file, {})
  BY <1>2 DEF Keeps
<1> QED
  BY <1>1, <1>3 DEF Reached

\* What memory_write names is a plain heading.
LEMMA KeyLemma ==
  ASSUME NEW name \in HeadingNames PROVE normalizeSection(name) \in Plain
BY DEF normalizeSection, Heading, Plain, Keys

\* An append with a heading of its own.
LEMMA HeadingLemma ==
  ASSUME Sound(Current), NEW key \in Plain, NEW inner \in Plain, inner # key,
         NEW authority \in Asserters \cup {"unsaid"}, NEW m,
         m = Appending(Current, key, 1, authority),
         NEW n \in 0 .. Len(m.file.blocks)
  PROVE  Reached([file |-> [m.file EXCEPT !.blocks =
                             InsertAt(@, n + 1, Block(inner, "agent", <<Entry(m.wrote + 1, 0)>>))],
                  wrote |-> m.wrote + 1, touched |-> m.touched \cup {inner},
                  given |-> With(m.given, inner, <<>>)])
<1> DEFINE b == Block(inner, "agent", <<Entry(m.wrote + 1, 0)>>)
           h == [m.file EXCEPT !.blocks = InsertAt(@, n + 1, b)]
           l == [file |-> h, wrote |-> m.wrote + 1, touched |-> m.touched \cup {inner},
                 given |-> With(m.given, inner, <<>>)]
<1>1. Reached(m)
  BY CurrentReached, AppendingLemma
<1>2. /\ m.file \in Files /\ m.wrote \in Nat /\ m.wrote + 1 \in Nat
      /\ DOMAIN m.given \subseteq Plain
      /\ m.touched \subseteq DOMAIN m.given \cup Headings(m.file)
      /\ \A k \in Plain : Records(Under(m.file, k), GivenTo(m.given, k))
      /\ Keeps(file, m.file, m.touched)
  BY <1>1 DEF Reached, Sound
<1>3. Distinct(m.file)
  <2> DEFINE notes == Notes(wrote, 1)
  <2>1. file \in Files /\ wrote \in Nat /\ key \in Keys
    BY DEF Sound, Current, Plain
  <2>2. m.file = serialize(file, Appended(splitSections(file), key, notes, authority))
    BY DEF Appending, Current, Notes
  <2>3. notes \in Seq(Entries)
    BY <2>1, NotesLemma
  <2> HIDE DEF notes
  <2>4. Changed(file, m.file, key, Under(file, key) \o notes)
    BY <2>1, <2>2, <2>3, AppendedLemma
  <2> QED
    BY <2>4 DEF Changed
<1>4. b \in Blocks /\ b.key = inner /\ b.body = <<Entry(m.wrote + 1, 0)>>
  BY <1>2 DEF Block, Blocks, Plain, Entry, Entries, Asserters
<1> HIDE DEF b
<1>5. Inserted(m.file, h, b)
  BY <1>2, <1>3, <1>4, InsertedLemma
<1> HIDE DEF h
<1>6. /\ h \in Files /\ Keeps(m.file, h, {inner})
      /\ Headings(h) = Headings(m.file) \cup {inner}
      /\ \/ Under(h, inner) = Under(m.file, inner) \o b.body
         \/ Under(h, inner) = b.body \o Under(m.file, inner)
  BY <1>4, <1>5 DEF Inserted
<1>7. Records(Under(h, inner), <<>>)
  <2>1. Under(m.file, inner) \in Seq(Entries) /\ UnagedLast(Under(m.file, inner))
    BY <1>2 DEF Records
  <2>2. Under(h, inner) \in Seq(Entries) /\ UnagedLast(Under(h, inner))
    BY <1>2, <1>4, <1>6, <2>1, BesideFresh
  <2> QED
    BY <2>2, FreshRecords
<1>8. /\ l.file = h /\ l.wrote = m.wrote + 1 /\ l.touched = m.touched \cup {inner}
      /\ l.given = With(m.given, inner, <<>>)
  OBVIOUS
<1> HIDE DEF l
<1>9. /\ DOMAIN l.given = DOMAIN m.given \cup {inner} /\ GivenTo(l.given, inner) = <<>>
      /\ \A k : k # inner => GivenTo(l.given, k) = GivenTo(m.given, k)
  <2> DEFINE v == <<>>
             g == With(m.given, inner, v)
  <2> HIDE DEF v
  <2>1. GivenAs(g, m.given, inner, v)
    BY GivenLemma
  <2>2. l.given = g
    BY <1>8 DEF v
  <2> HIDE DEF g
  <2> QED
    BY <2>1, <2>2 DEF v, GivenAs
<1>10. ASSUME NEW k \in Plain PROVE Records(Under(h, k), GivenTo(l.given, k))
  <2>1. CASE k = inner
    BY <1>7, <1>9, <2>1
  <2>2. CASE k # inner
    <3>1. Under(h, k) = Under(m.file, k)
      BY <1>6, <2>2 DEF Keeps
    <3> QED
      BY <1>2, <1>9, <2>2, <3>1
  <2> QED
    BY <2>1, <2>2
<1>11. Keeps(file, h, m.touched \cup {inner})
  BY <1>2, <1>6, KeepsOn
<1>12. Sound(l)
  BY <1>2, <1>6, <1>8, <1>9, <1>10 DEF Sound
<1> QED
  BY <1>8, <1>11, <1>12 DEF Reached, l, h, b


-----------------------------------------------------------------------------
\* The memory is well formed, and every heading has what it owes to its notes.
MemoryIInv == MemoryTypeOK /\ Sound(Current)

\* The invariant holds of any file a person left.
LEMMA MemoryStarts ==
  ASSUME MemoryInit
  PROVE  MemoryIInv
<1>1. /\ file \in Files
      /\ \A i \in DOMAIN file.blocks : Aged(file.blocks[i].body) = {}
  BY MemoryAssumption DEF MemoryInit
<1>2. autonomy.mode \in AutonomyModes /\ autonomy.reflect \in BOOLEAN
  <2>1. PICK b \in MemoryBlocks : autonomy = parseMemoryConfig(b)
    BY DEF MemoryInit
  <2>2. /\ autonomy.mode = IF b.mode \in AutonomyModes THEN b.mode ELSE "propose"
        /\ autonomy.reflect = (b.reflect = "true")
    BY <2>1 DEF parseMemoryConfig
  <2>3. "propose" \in AutonomyModes
    BY DEF AutonomyModes
  <2> QED
    BY <2>2, <2>3
<1>3. /\ wrote = 0 /\ deletes = 0 /\ compactions = 0 /\ touched = {} /\ DOMAIN given = {}
  BY DEF MemoryInit
<1>4. MemoryTypeOK
  BY <1>1, <1>2, <1>3, MemoryBoundsAreNatural DEF MemoryTypeOK
<1>5. ASSUME NEW k \in Plain PROVE Records(Under(file, k), GivenTo(given, k))
  <2>1. GivenTo(given, k) = <<>>
    BY <1>3 DEF GivenTo
  <2>2. Under(file, k) \in Seq(Entries)
    BY <1>1, ParseLemma
  <2>3. UnagedLast(Under(file, k))
    BY <1>1, NothingAged
  <2> QED
    BY <2>1, <2>2, <2>3, FreshRecords
<1>6. Sound(Current)
  BY <1>1, <1>3, <1>5 DEF Sound, Current
<1> QED
  BY <1>4, <1>6 DEF MemoryIInv

\* A step leaves what it does not touch as it is.
Untouched ==
  /\ file'.head = file.head
  /\ \A key \in Headings(file) \ touched' :
       /\ Under(file', key) = Under(file, key)
       /\ Cardinality(Headed(file, key)) = 1
            => Headed(file', key) = Headed(file, key)

\* A step to a memory that is reached.
LEMMA Arrived ==
  ASSUME MemoryIInv, NEW m, Reached(m), m.wrote <= MaxWrites,
         file' = m.file, wrote' = m.wrote, touched' = m.touched, given' = m.given,
         deletes' \in 0 .. MaxDeletes, compactions' \in 0 .. MaxCompactions,
         autonomy' = autonomy
  PROVE  MemoryIInv' /\ Untouched
<1>1. /\ m.file \in Files /\ m.wrote \in Nat
      /\ DOMAIN m.given \subseteq Plain
      /\ m.touched \subseteq DOMAIN m.given \cup Headings(m.file)
      /\ \A k \in Plain : Records(Under(m.file, k), GivenTo(m.given, k))
      /\ Keeps(file, m.file, m.touched)
  BY DEF Reached, Sound
<1>2. MemoryTypeOK'
  BY <1>1, MemoryBoundsAreNatural DEF MemoryIInv, MemoryTypeOK
<1>3. Sound(Current)'
  BY <1>1 DEF Sound, Current
<1>4. file \in Files
  BY DEF MemoryIInv, MemoryTypeOK
<1>5. ASSUME NEW k \in Headings(file) \ touched', Cardinality(Headed(file, k)) = 1
      PROVE  Headed(file', k) = Headed(file, k)
  <2>1. k \in Headings(file) \ m.touched
    OBVIOUS
  <2> QED
    BY <1>1, <1>4, <1>5, <2>1, KeepsHeaded
<1>6. Untouched
  BY <1>1, <1>5 DEF Keeps, Untouched
<1> QED
  BY <1>2, <1>3, <1>6 DEF MemoryIInv

\* A step to what writes can reach keeps the invariant and leaves other sections alone.
LEMMA BecomesLemma ==
  ASSUME MemoryIInv, NEW m, Reached(m), Becomes(m)
  PROVE  MemoryIInv' /\ Untouched
<1>1. /\ m.wrote <= MaxWrites
      /\ file' = m.file /\ wrote' = m.wrote /\ touched' = m.touched /\ given' = m.given
      /\ deletes' = deletes /\ compactions' = compactions /\ autonomy' = autonomy
  BY DEF Becomes
<1>2. deletes \in 0 .. MaxDeletes /\ compactions \in 0 .. MaxCompactions
  BY DEF MemoryIInv, MemoryTypeOK
<1> QED
  BY <1>1, <1>2, Arrived

\* memory_write: append.
LEMMA AppendNoteStep ==
  ASSUME MemoryIInv, NEW name \in Writable, NEW authority \in Authorities,
         AppendNote(name, authority)
  PROVE  MemoryIInv' /\ Untouched
<1> DEFINE key == normalizeSection(name)
           m == Appending(Current, key, 1, authority)
<1>1. key \in Plain /\ authority \in Asserters \cup {"unsaid"}
  BY MemoryAssumption, KeyLemma
<1>2. Reached(Current)
  BY CurrentReached DEF MemoryIInv
<1>3. Becomes(m)
  BY DEF AppendNote
<1> HIDE DEF key
<1>4. Reached(m)
  BY <1>1, <1>2, AppendingLemma
<1> HIDE DEF m
<1> QED
  BY <1>3, <1>4, BecomesLemma

\* The same with a heading in the body.
LEMMA AppendHeadingStep ==
  ASSUME MemoryIInv, NEW name \in Writable, NEW authority \in Authorities,
         NEW other \in Writable, AppendHeading(name, authority, normalizeSection(other))
  PROVE  MemoryIInv' /\ Untouched
<1> DEFINE key == normalizeSection(name)
           inner == normalizeSection(other)
           m == Appending(Current, key, 1, authority)
           keys == [i \in DOMAIN m.file.blocks |-> m.file.blocks[i].key]
           after == PositionOf([headings |-> keys], key)
           l == [file |-> [m.file EXCEPT !.blocks =
                   InsertAt(@, after + 1, Block(inner, "agent", <<Entry(m.wrote + 1, 0)>>))],
                 wrote |-> m.wrote + 1, touched |-> m.touched \cup {inner},
                 given |-> With(m.given, inner, <<>>)]
<1>1. key \in Plain /\ inner \in Plain /\ authority \in Asserters \cup {"unsaid"}
  BY MemoryAssumption, KeyLemma
<1>2. Sound(Current) /\ Reached(Current)
  BY CurrentReached DEF MemoryIInv
<1>3. inner # key /\ Becomes(l)
  BY DEF AppendHeading
<1> HIDE DEF key, inner
<1>4. Reached(m)
  BY <1>1, <1>2, AppendingLemma
<1>5. m.file \in Files /\ key \in Headings(m.file)
  <2> DEFINE notes == Notes(wrote, 1)
  <2>1. file \in Files /\ wrote \in Nat /\ key \in Keys
    BY <1>1, <1>2 DEF Sound, Current, Plain
  <2>2. m.file = serialize(file, Appended(splitSections(file), key, notes, authority))
    BY DEF Appending, Current, Notes
  <2>3. notes \in Seq(Entries)
    BY <2>1, NotesLemma
  <2> HIDE DEF notes, m
  <2>4. Changed(file, m.file, key, Under(file, key) \o notes)
    BY <1>1, <2>1, <2>2, <2>3, AppendedLemma
  <2> QED
    BY <2>4 DEF Changed
<1> HIDE DEF m
<1>6. after \in 0 .. Len(m.file.blocks)
  <2>1. /\ Len(m.file.blocks) \in Nat /\ DOMAIN m.file.blocks = 1 .. Len(m.file.blocks)
        /\ Headings(m.file) = {m.file.blocks[i].key : i \in 1 .. Len(m.file.blocks)}
    BY <1>5, FileParts
  <2>2. DOMAIN keys = 1 .. Len(m.file.blocks)
        /\ \E i \in DOMAIN keys : keys[i] = key
    BY <1>5, <2>1
  <2>3. after = CHOOSE i \in DOMAIN keys : keys[i] = key
    BY DEF PositionOf
  <2> HIDE DEF keys, after
  <2>4. after \in 1 .. Len(m.file.blocks)
    BY <2>2, <2>3
  <2> QED
    BY <2>1, <2>4
<1> HIDE DEF after
<1>7. Reached(l)
  BY <1>1, <1>2, <1>3, <1>6, HeadingLemma DEF m
<1> HIDE DEF l
<1> QED
  BY <1>3, <1>7, BecomesLemma

\* memory_write: replace.
LEMMA ReplaceSectionStep ==
  ASSUME MemoryIInv, NEW name \in Writable, NEW authority \in Authorities,
         ReplaceSection(name, authority)
  PROVE  MemoryIInv' /\ Untouched
<1> DEFINE key == normalizeSection(name)
           body == <<Entry(wrote + 1, 0)>>
           ids == <<wrote + 1>>
           h == serialize(file, Replaced(splitSections(file), key, body, authority))
           l == [file |-> h, wrote |-> wrote + 1, touched |-> Current.touched \cup {key},
                 given |-> With(Current.given, key, ids)]
<1>1. key \in Plain /\ key \in Keys /\ authority \in Asserters \cup {"unsaid"}
  BY MemoryAssumption, KeyLemma DEF Plain
<1>2. Reached(Current)
  BY CurrentReached DEF MemoryIInv
<1>3. /\ file \in Files /\ wrote \in Nat /\ wrote + 1 \in Nat /\ MaxWrites \in Nat
      /\ deletes \in 0 .. MaxDeletes /\ compactions \in 0 .. MaxCompactions
      /\ Current.file = file /\ Current.touched = {} /\ Current.given = given
  BY MemoryBoundsAreNatural DEF MemoryIInv, MemoryTypeOK, Current
<1>4. Records(body, ids)
  BY <1>3, OneRecords
<1>5. body \in Seq(Entries)
  BY <1>4 DEF Records
<1>6. /\ wrote < MaxWrites /\ file' = h /\ wrote' = wrote + 1 /\ touched' = {key}
      /\ given' = With(given, key, ids)
      /\ deletes' = deletes /\ compactions' = compactions /\ autonomy' = autonomy
  BY DEF ReplaceSection
<1> HIDE DEF key, body, ids
<1>7. h \in Files /\ Keeps(Current.file, h, {key}) /\ Under(h, key) = body
  BY <1>1, <1>3, <1>5, ReplacedLemma, ZenonT(40) DEF Changed
<1> HIDE DEF h
<1>8. Reached(l)
  BY <1>1, <1>2, <1>3, <1>4, <1>7, WriteLemma
<1>9. /\ l.file = h /\ l.wrote = wrote + 1 /\ l.touched = {key}
      /\ l.given = With(given, key, ids)
  BY <1>3
<1> HIDE DEF l
<1>10. l.wrote <= MaxWrites
  BY <1>3, <1>6, <1>9
<1> QED
  BY <1>3, <1>6, <1>8, <1>9, <1>10, Arrived

\* memory_write: delete.
LEMMA DeleteSectionStep ==
  ASSUME MemoryIInv, NEW name \in Writable, DeleteSection(name)
  PROVE  MemoryIInv' /\ Untouched
<1> DEFINE key == normalizeSection(name)
           h == serialize(file, Deleted(splitSections(file), key))
           none == <<>>
           l == [file |-> h, wrote |-> wrote, touched |-> Current.touched \cup {key},
                 given |-> With(Current.given, key, none)]
<1>1. key \in Plain
  BY MemoryAssumption, KeyLemma
<1>2. Reached(Current)
  BY CurrentReached DEF MemoryIInv
<1>3. /\ file \in Files /\ wrote \in Nat /\ wrote <= MaxWrites
      /\ deletes \in 0 .. MaxDeletes /\ compactions \in 0 .. MaxCompactions
      /\ MaxDeletes \in Nat
      /\ Current.file = file /\ Current.touched = {} /\ Current.given = given
  BY MemoryBoundsAreNatural DEF MemoryIInv, MemoryTypeOK, Current
<1>4. Records(none, none)
  BY NoneRecords
<1>5. /\ deletes < MaxDeletes /\ Known(splitSections(file), key)
      /\ file' = h /\ wrote' = wrote /\ touched' = {key} /\ given' = With(given, key, none)
      /\ deletes' = deletes + 1 /\ compactions' = compactions /\ autonomy' = autonomy
  BY DEF DeleteSection
<1> HIDE DEF key
<1>6. h \in Files /\ Keeps(Current.file, h, {key}) /\ Under(h, key) = none
  BY <1>3, <1>5, DeletedLemma
<1> HIDE DEF h, none
<1>7. Reached(l)
  BY <1>1, <1>2, <1>3, <1>4, <1>6, WriteLemma
<1>8. /\ l.file = h /\ l.wrote = wrote /\ l.touched = {key}
      /\ l.given = With(given, key, none)
  BY <1>3
<1> HIDE DEF l
<1>9. l.wrote <= MaxWrites /\ deletes' \in 0 .. MaxDeletes
  BY <1>3, <1>5, <1>8
<1> QED
  BY <1>3, <1>5, <1>7, <1>8, <1>9, Arrived

\* The reflection after a turn.
LEMMA TurnOverStep ==
  ASSUME MemoryIInv, NEW found \in [1 .. 3 -> 0 .. 1], TurnOver(found)
  PROVE  MemoryIInv' /\ Untouched
<1> DEFINE Apply(m, i) ==
             IF i \in reflect(found)
               THEN Appending(m, normalizeSection(Reflections[i].section), found[i],
                              Reflections[i].authority)
               ELSE m
<1>1. Becomes(Apply(Apply(Apply(Current, 1), 2), 3))
  BY DEF TurnOver
<1>2. ASSUME NEW m, Reached(m), NEW i \in 1 .. 3 PROVE Reached(Apply(m, i))
  <2> DEFINE key == normalizeSection(Reflections[i].section)
             authority == Reflections[i].authority
             n == found[i]
  <2>1. Reflections[i].section \in HeadingNames /\ authority \in Asserters \cup {"unsaid"}
    <3>1. i = 1 \/ i = 2 \/ i = 3
      OBVIOUS
    <3>2. /\ Reflections[1] = [section |-> "Notes", authority |-> "user"]
          /\ Reflections[2] = [section |-> "ExternalReferences", authority |-> "agent"]
          /\ Reflections[3] = [section |-> "KnownFailures", authority |-> "tape"]
      BY DEF Reflections
    <3>3. /\ "Notes" \in HeadingNames /\ "ExternalReferences" \in HeadingNames
          /\ "KnownFailures" \in HeadingNames
      BY MemoryAssumption
    <3>4. CASE i = 1
      <4>1. Reflections[i].section = "Notes" /\ authority = "user"
        BY <3>2, <3>4
      <4> QED
        BY <3>3, <4>1 DEF Asserters
    <3>5. CASE i = 2
      <4>1. Reflections[i].section = "ExternalReferences" /\ authority = "agent"
        BY <3>2, <3>5
      <4> QED
        BY <3>3, <4>1 DEF Asserters
    <3>6. CASE i = 3
      <4>1. Reflections[i].section = "KnownFailures" /\ authority = "tape"
        BY <3>2, <3>6
      <4> QED
        BY <3>3, <4>1 DEF Asserters
    <3> QED
      BY <3>1, <3>4, <3>5, <3>6
  <2>2. key \in Plain /\ n \in Nat
    <3>1. key \in Plain
      BY <2>1, KeyLemma
    <3>2. n \in 0 .. 1
      OBVIOUS
    <3> HIDE DEF n
    <3>3. n \in Nat
      BY <3>2
    <3> QED
      BY <3>1, <3>3
  <2>3. Apply(m, i) = IF i \in reflect(found) THEN Appending(m, key, n, authority) ELSE m
    OBVIOUS
  <2> HIDE DEF Apply, key, authority, n
  <2>4. Reached(Appending(m, key, n, authority))
    BY <1>2, <2>1, <2>2, AppendingLemma
  <2> QED
    BY <1>2, <2>3, <2>4
<1>3. Reached(Current)
  BY CurrentReached DEF MemoryIInv
<1> HIDE DEF Apply
<1>4. 1 \in 1 .. 3 /\ 2 \in 1 .. 3 /\ 3 \in 1 .. 3
  OBVIOUS
<1>5. Reached(Apply(Current, 1))
  BY <1>2, <1>3, <1>4
<1>6. Reached(Apply(Apply(Current, 1), 2))
  BY <1>2, <1>4, <1>5
<1>7. Reached(Apply(Apply(Apply(Current, 1), 2), 3))
  BY <1>2, <1>4, <1>6
<1> QED
  BY <1>1, <1>7, BecomesLemma

\* A compaction.
LEMMA CompactStep ==
  ASSUME MemoryIInv, Compact
  PROVE  MemoryIInv' /\ Untouched
<1> DEFINE p == splitSections(file)
           long == {k \in DOMAIN p.sections : TooLong(p, k)}
           tops == {SummaryOf(k) : k \in long}
           h == serialize(file, compact(p))
           l == [file |-> h, wrote |-> wrote, touched |-> long \cup tops, given |-> given]
<1>1. /\ file \in Files /\ wrote \in Nat /\ wrote <= MaxWrites
      /\ deletes \in 0 .. MaxDeletes /\ compactions \in 0 .. MaxCompactions
      /\ MaxCompactions \in Nat
      /\ DOMAIN given \subseteq Plain
      /\ \A k \in Plain : Records(Under(file, k), GivenTo(given, k))
  BY MemoryBoundsAreNatural DEF MemoryIInv, MemoryTypeOK, Sound, Current
<1>2. /\ compactions < MaxCompactions
      /\ file' = h /\ wrote' = wrote /\ touched' = long \cup tops /\ given' = given
      /\ deletes' = deletes /\ compactions' = compactions + 1 /\ autonomy' = autonomy
  BY DEF Compact
<1>3. Packed(file, h, long)
  BY <1>1, PackedLemma
<1> HIDE DEF h, long
<1>4. /\ h \in Files /\ Keeps(file, h, long \cup tops)
      /\ Headings(file) \subseteq Headings(h) /\ long \subseteq Headings(file)
      /\ tops \subseteq Headings(h)
      /\ \A k \in Keys : k.label = 0 =>
           Under(h, k) = IF Len(Under(file, k)) > KeepLast THEN Rebuilt(Under(file, k))
                           ELSE Under(file, k)
  BY <1>3 DEF Packed
<1> HIDE DEF tops
<1>5. ASSUME NEW k \in Plain PROVE Records(Under(h, k), GivenTo(given, k))
  <2>1. k \in Keys /\ k.label = 0
    BY DEF Plain
  <2>2. Under(h, k) = IF Len(Under(file, k)) > KeepLast THEN Rebuilt(Under(file, k))
                        ELSE Under(file, k)
    BY <1>4, <2>1
  <2>3. Records(Under(file, k), GivenTo(given, k))
    BY <1>1
  <2>4. CASE Len(Under(file, k)) > KeepLast
    BY <2>2, <2>3, <2>4, RebuiltRecords
  <2>5. CASE ~(Len(Under(file, k)) > KeepLast)
    BY <2>2, <2>3, <2>5
  <2> QED
    BY <2>4, <2>5
<1>6. /\ l.file = h /\ l.wrote = wrote /\ l.touched = long \cup tops /\ l.given = given
  OBVIOUS
<1> HIDE DEF l
<1>7. Sound(l)
  BY <1>1, <1>4, <1>5, <1>6 DEF Sound
<1>8. Reached(l)
  BY <1>4, <1>6, <1>7 DEF Reached
<1>9. l.wrote <= MaxWrites /\ compactions' \in 0 .. MaxCompactions
  BY <1>1, <1>2, <1>6
<1> QED
  BY <1>1, <1>2, <1>6, <1>8, <1>9, Arrived

\* Every step keeps the invariant and leaves alone what it does not touch.
LEMMA MemorySteps ==
  ASSUME MemoryIInv, MemoryNext
  PROVE  MemoryIInv' /\ Untouched
<1>1. CASE \E n \in Writable, a \in Authorities : AppendNote(n, a)
  BY <1>1, AppendNoteStep
<1>2. CASE \E n \in Writable, a \in Authorities, m \in Writable :
             AppendHeading(n, a, normalizeSection(m))
  BY <1>2, AppendHeadingStep
<1>3. CASE \E n \in Writable, a \in Authorities : ReplaceSection(n, a)
  BY <1>3, ReplaceSectionStep
<1>4. CASE \E n \in Writable : DeleteSection(n)
  BY <1>4, DeleteSectionStep
<1>5. CASE \E found \in [1 .. 3 -> 0 .. 1] : TurnOver(found)
  BY <1>5, TurnOverStep
<1>6. CASE Compact
  BY <1>6, CompactStep
<1> QED
  BY <1>1, <1>2, <1>3, <1>4, <1>5, <1>6 DEF MemoryNext

\* And so does none.
LEMMA MemoryStutters ==
  ASSUME MemoryIInv, UNCHANGED memoryVars
  PROVE  MemoryIInv'
BY DEF MemoryIInv, MemoryTypeOK, Sound, Current, memoryVars

\* What a heading owes to its notes is what is said of it.
LEMMA MemoryImplies ==
  ASSUME MemoryIInv
  PROVE  MemoryInv
<1>1. /\ file \in Files /\ DOMAIN given \subseteq Plain /\ KeepLast \in Nat
      /\ \A k \in Plain : Records(Under(file, k), GivenTo(given, k))
  BY MemoryBoundsAreNatural DEF MemoryIInv, MemoryTypeOK, Sound, Current
<1>2. ASSUME NEW key \in DOMAIN given
      PROVE  Records(Under(file, key), given[key])
  BY <1>1 DEF GivenTo
<1>3. NotesKept
  <2>1. ASSUME NEW key \in DOMAIN given
        PROVE  LET ids == given[key]
                   n == IF Len(ids) < KeepLast THEN Len(ids) ELSE KeepLast
                   body == Under(file, key)
               IN /\ Len(body) >= n
                  /\ \A i \in 1 .. n : body[Len(body) - n + i] = Entry(ids[Len(ids) - n + i], 0)
    <3> DEFINE ids == given[key]
               b == Len(Under(file, key))
               l == Len(ids)
               n == IF l < KeepLast THEN l ELSE KeepLast
               body == Under(file, key)
    <3>1. Records(body, ids)
      BY <1>2
    <3>2. b \in Nat /\ l \in Nat
      BY <3>1, LenProperties DEF Records
    <3>3. \A d \in Nat : d < l /\ d < KeepLast => d < b /\ body[b - d] = Entry(ids[l - d], 0)
      BY <3>1 DEF Records, Latest
    <3> HIDE DEF ids, b, l
    <3>4. n \in Nat /\ n <= l /\ n <= KeepLast
      BY <1>1, <3>2
    <3> HIDE DEF n
    <3>5. b >= n
      <4>1. CASE n = 0
        BY <3>2, <4>1
      <4>2. CASE n # 0
        <5>1. n - 1 \in Nat /\ n - 1 < l /\ n - 1 < KeepLast
          BY <1>1, <3>2, <3>4, <4>2
        <5>2. n - 1 < b
          BY <3>3, <5>1
        <5> QED
          BY <3>2, <3>4, <5>2
      <4> QED
        BY <4>1, <4>2
    <3>6. ASSUME NEW i \in 1 .. n
          PROVE  body[(b - n) + i] = Entry(ids[(l - n) + i], 0)
      <4>1. n - i \in Nat /\ n - i < l /\ n - i < KeepLast
        BY <1>1, <3>2, <3>4
      <4>2. b - (n - i) = (b - n) + i /\ l - (n - i) = (l - n) + i
        BY <3>2, <3>4
      <4>3. body[b - (n - i)] = Entry(ids[l - (n - i)], 0)
        BY <3>3, <4>1
      <4> QED
        BY <4>2, <4>3
    <3> QED
      BY <3>5, <3>6 DEF ids, b, l, n
  <2> QED
    BY <2>1 DEF NotesKept
<1>4. NothingSilentlyDropped
  <2>1. ASSUME NEW key \in DOMAIN given, NEW i \in DOMAIN given[key]
        PROVE  \/ \E e \in Range(Under(file, key)) : e.id = given[key][i]
               \/ Cardinality(Aged(Under(file, key))) = MaxOlder
    <3>1. Records(Under(file, key), given[key])
      BY <1>2
    <3>2. Under(file, key) \in Seq(Entries) /\ given[key] \in Seq(Nat)
          /\ Traced(Under(file, key), given[key])
      BY <3>1 DEF Records
    <3>3. DOMAIN given[key] = 1 .. Len(given[key])
      BY <3>2, LenProperties
    <3>4. Range(Under(file, key)) = {Under(file, key)[j] : j \in 1 .. Len(Under(file, key))}
      BY <3>2, BodyParts
    <3> QED
      BY <3>2, <3>3, <3>4 DEF Traced
  <2> QED
    BY <2>1 DEF NothingSilentlyDropped
<1>5. MatchesShown
  <2> DEFINE p == splitSections(file)
  <2>1. p \in Parsings
    BY <1>1, ParseLemma
  <2> HIDE DEF p
  <2>2. \A half \in SUBSET DOMAIN p.headings : Cardinality(half) <= PromptBudget =>
          \A heading \in SUBSET half, share \in {1, 150} :
            Shown(p, half, heading, share)
    BY <2>1, SelectedLemma
  <2> QED
    BY <2>2 DEF MatchesShown, p, Shown
<1> QED
  BY <1>3, <1>4, <1>5 DEF MemoryInv, MemoryIInv

\* The latest notes given to a section are kept in it as they were given, a compaction drops
\* no note without its first line as long as there is room for one, and what matches a query
\* is in the prompt: for every file a person may have left, with every bound.
THEOREM MemoryHolds == MemorySpec => []MemoryInv
<1>1. MemoryInit => MemoryIInv
  BY MemoryStarts
<1>2. MemoryIInv /\ [MemoryNext]_memoryVars => MemoryIInv'
  BY MemorySteps, MemoryStutters
<1>3. MemoryIInv => MemoryInv
  BY MemoryImplies
<1> QED
  BY <1>1, <1>2, <1>3, PTL DEF MemorySpec

\* A step writes under the headings it names and leaves every other section, the authority
\* that asserts it and what stands before the first heading as they are.
THEOREM UntouchedHolds == MemorySpec => OthersUntouched
<1>1. MemoryInit => MemoryIInv
  BY MemoryStarts
<1>2. MemoryIInv /\ [MemoryNext]_memoryVars => MemoryIInv'
  BY MemorySteps, MemoryStutters
<1>3. MemoryIInv /\ [MemoryNext]_memoryVars => [Untouched]_memoryVars
  BY MemorySteps
<1>4. MemorySpec => [][Untouched]_memoryVars
  BY <1>1, <1>2, <1>3, PTL DEF MemorySpec
<1> QED
  BY <1>4 DEF OthersUntouched, Untouched
=============================================================================
