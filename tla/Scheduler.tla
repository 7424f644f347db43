-------------------------------- MODULE Scheduler --------------------------------
(***************************************************************************)
(* The scheduler (packages/core/src/runtime/scheduler/index.ts) and the    *)
(* commands that change its schedules (internal-commands/builtins/         *)
(* schedule.ts).                                                           *)
(*                                                                         *)
(* A tick looks at every schedule and awaits the hook of each one that is  *)
(* due, so that ticks may overlap while schedules come and go.  Of a cron  *)
(* expression the model keeps the times at which it is due; the hooks are  *)
(* those of plugins.                                                       *)
(***************************************************************************)
EXTENDS Naturals, FiniteSets

CONSTANTS
  Scheduled,       \* the names of schedules
  MaxTime,     \* bound: the clock
  MaxStamp,    \* bound: the registrations there may be
  Ticks,       \* bound: the ticks that may overlap
  Due          \* the times at which the cron expression of each name is due

Times == 0 .. MaxTime

ASSUME BoundAssumption == MaxTime \in Nat /\ MaxStamp \in Nat
ASSUME DueAssumption == Due \in [Scheduled -> SUBSET Times]

VARIABLES
  schedules,  \* the registered ones: [name, on, stamp], stamp the order of insertion
  stamps,     \* how many registrations there have been
  interval,   \* whether the tick loop runs
  lastTick,   \* lastTick
  tick,       \* what each tick does: [stage, since, at, last]
  fired,      \* history: the firings, [stamp, due, by]
  twice,      \* history: whether a registration has fired twice for one due time
  armed,      \* history: since when each registration has been on under a running loop
  clock       \* Date.now()

schedulerVars == <<schedules, stamps, interval, lastTick, tick, fired, twice, armed, clock>>

NotArmed == MaxTime + 1

NoTick == [stage |-> "idle", since |-> 0, at |-> 0, last |-> 0]

Registered(n) == \E s \in schedules : s.name = n
-----------------------------------------------------------------------------
\* Mutant: the end of the window belongs to it as well.
BeforeOrAt(n, t) == {d \in Due[n] : d <= t}

\* What the parser's prev looks back on: the due times before, not at, the current date.
Before(n, t) == {d \in Due[n] : d < t}

\* prev: the latest of them.
Prev(n, t) == CHOOSE d \in Before(n, t) : \A e \in Before(n, t) : e <= d

\* A due time counts from the previous tick on.
InWindow(d, since) == d >= since

\* shouldFireSince.
ShouldFire(n, since, t) == Before(n, t) # {} /\ InWindow(Prev(n, t), since)

\* The live iterator of the map: the registrations a tick has not come to yet.
Left(k) == {s \in schedules : s.stamp > tick[k].last}

NextOf(k) == CHOOSE s \in Left(k) : \A r \in Left(k) : s.stamp <= r.stamp
-----------------------------------------------------------------------------
SchedulerInit ==
  /\ schedules = {}
  /\ stamps = 0
  /\ interval = FALSE
  /\ lastTick = 0
  /\ tick = [k \in Ticks |-> NoTick]
  /\ fired = {}
  /\ twice = FALSE
  /\ armed = [i \in 1 .. MaxStamp |-> NotArmed]
  /\ clock = 0

\* register: a name may be registered once; a schedule is on unless it says otherwise.
Register(n, on) ==
  /\ ~Registered(n) /\ stamps < MaxStamp
  /\ stamps' = stamps + 1
  /\ schedules' = schedules \cup {[name |-> n, on |-> on, stamp |-> stamps + 1]}
  /\ armed' = [armed EXCEPT ![stamps + 1] = IF on /\ interval THEN clock ELSE NotArmed]
  /\ UNCHANGED <<interval, lastTick, tick, fired, twice, clock>>

Unregister(s) ==
  /\ schedules' = schedules \ {s}
  /\ armed' = [armed EXCEPT ![s.stamp] = NotArmed]
  /\ UNCHANGED <<stamps, interval, lastTick, tick, fired, twice, clock>>

\* setEnabled: the entry keeps its place in the map.
SetEnabled(s, on) ==
  /\ s.on # on
  /\ schedules' = (schedules \ {s}) \cup {[s EXCEPT !.on = on]}
  /\ armed' = [armed EXCEPT ![s.stamp] = IF on /\ interval THEN clock ELSE NotArmed]
  /\ UNCHANGED <<stamps, interval, lastTick, tick, fired, twice, clock>>

Start ==
  /\ ~interval
  /\ interval' = TRUE
  /\ lastTick' = clock
  /\ armed' = [i \in 1 .. MaxStamp |->
                 IF \E s \in schedules : s.stamp = i /\ s.on THEN clock ELSE NotArmed]
  /\ UNCHANGED <<schedules, stamps, tick, fired, twice, clock>>

\* stop: ticks under way go on.
Stop ==
  /\ interval
  /\ interval' = FALSE
  /\ armed' = [i \in 1 .. MaxStamp |-> NotArmed]
  /\ UNCHANGED <<schedules, stamps, lastTick, tick, fired, twice, clock>>

\* tick, up to its loop.  The callback of the interval does not wait for the one before.
Tick(k) ==
  /\ interval /\ tick[k].stage = "idle"
  /\ tick' = [tick EXCEPT ![k] = [stage |-> "visiting", since |-> lastTick,
                                  at |-> clock, last |-> 0]]
  /\ lastTick' = clock
  /\ UNCHANGED <<schedules, stamps, interval, fired, twice, armed, clock>>

\* The loop of tick comes to a schedule that is off or not due.
Skip(k) ==
  /\ tick[k].stage = "visiting" /\ Left(k) # {}
  /\ LET s == NextOf(k)
     IN  /\ ~(s.on /\ ShouldFire(s.name, tick[k].since, tick[k].at))
         /\ tick' = [tick EXCEPT ![k].last = s.stamp]
  /\ UNCHANGED <<schedules, stamps, interval, lastTick, fired, twice, armed, clock>>

\* It comes to one that is due, and fires it.
Fire(k) ==
  /\ tick[k].stage = "visiting" /\ Left(k) # {}
  /\ LET s == NextOf(k)
         f == [stamp |-> s.stamp, due |-> Prev(s.name, tick[k].at)]
     IN  /\ s.on /\ ShouldFire(s.name, tick[k].since, tick[k].at)
         /\ tick' = [tick EXCEPT ![k].last = s.stamp, ![k].stage = "firing"]
         /\ twice' = (twice \/ f \in fired)
         /\ fired' = fired \cup {f}
  /\ UNCHANGED <<schedules, stamps, interval, lastTick, armed, clock>>

\* The hook of the schedule returns or throws, which is only logged.
HookReturns(k) ==
  /\ tick[k].stage = "firing"
  /\ tick' = [tick EXCEPT ![k].stage = "visiting"]
  /\ UNCHANGED <<schedules, stamps, interval, lastTick, fired, twice, armed, clock>>

TickEnds(k) ==
  /\ tick[k].stage = "visiting" /\ Left(k) = {}
  /\ tick' = [tick EXCEPT ![k] = NoTick]
  /\ UNCHANGED <<schedules, stamps, interval, lastTick, fired, twice, armed, clock>>

ClockTick ==
  /\ clock < MaxTime
  /\ clock' = clock + 1
  /\ UNCHANGED <<schedules, stamps, interval, lastTick, tick, fired, twice, armed>>

SchedulerNext ==
  \/ \E n \in Scheduled, on \in BOOLEAN : Register(n, on)
  \/ \E s \in schedules : Unregister(s) \/ \E on \in BOOLEAN : SetEnabled(s, on)
  \/ Start \/ Stop \/ ClockTick
  \/ \E k \in Ticks : Tick(k) \/ Skip(k) \/ Fire(k) \/ HookReturns(k) \/ TickEnds(k)

SchedulerSpec == SchedulerInit /\ [][SchedulerNext]_schedulerVars
-----------------------------------------------------------------------------
\* Every variable has its type.
SchedulerTypeOK ==
  /\ schedules \subseteq [name : Scheduled, on : BOOLEAN, stamp : 1 .. stamps]
  /\ \A r, s \in schedules : r.name = s.name \/ r.stamp = s.stamp => r = s
  /\ stamps \in 0 .. MaxStamp
  /\ {interval, twice} \subseteq BOOLEAN
  /\ {lastTick, clock} \subseteq Times
  /\ tick \in [Ticks -> [stage : {"idle", "visiting", "firing"}, since : Times, at : Times,
                         last : 0 .. stamps]]
  /\ fired \subseteq [stamp : 1 .. stamps, due : Times]
  /\ armed \in [1 .. MaxStamp -> Times \cup {NotArmed}]

\* A registration fires at most once for one due time, though ticks overlap, hooks take
\* their time, the loop is stopped and started, and due times fall on a tick.
OncePerDue == ~twice

\* A due time that has passed under a running loop, with its schedule on, has been
\* fired, by itself or with a later one, or a tick under way still comes to it.
NothingMissed ==
  \A s \in schedules : \A d \in Due[s.name] :
    armed[s.stamp] <= d /\ d < lastTick =>
      \/ \E f \in fired : f.stamp = s.stamp /\ f.due >= d
      \/ \E k \in Ticks :
           /\ tick[k].stage # "idle" /\ s \in Left(k)
           /\ ShouldFire(s.name, tick[k].since, tick[k].at)
           /\ Prev(s.name, tick[k].at) >= d

\* A schedule that is on fires once for each time it is due, or once for several that
\* passed between two ticks (tick and shouldFireSince).
EachDueOnce == OncePerDue /\ NothingMissed

\* The scheduler's state is well formed and each due time fires once (tick).
SchedulerInv == SchedulerTypeOK /\ EachDueOnce
=============================================================================
