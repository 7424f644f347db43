----------------------------- MODULE SessionLanes -----------------------------
(***************************************************************************)
(* What the callers of the runtime registry are promised about turns,      *)
(* whatever promises, evictions and checkpoints achieve it                 *)
(* (documents/Proposal-Session-Aggregate.md:143, documents/Architecture.md *)
(* :182): a turn submitted to a Session executes once every turn submitted *)
(* to that Session before it has ended, Sessions do not wait for each      *)
(* other, and a submitted turn does execute unless the process dies first. *)
(***************************************************************************)
EXTENDS Naturals

CONSTANTS Sessions, Turns, NoSession

VARIABLES
  phase,   \* where each turn is
  lane,    \* the Session it was submitted to
  before   \* the turns of its Session it still has to wait for

vars == <<phase, lane, before>>

Init ==
  /\ phase = [t \in Turns |-> "idle"]
  /\ lane = [t \in Turns |-> NoSession]
  /\ before = [t \in Turns |-> {}]

InLane(s) == {t \in Turns : lane[t] = s /\ phase[t] \in {"waiting", "executing"}}

Submit(t, s) ==
  /\ phase[t] = "idle"
  /\ phase' = [phase EXCEPT ![t] = "waiting"]
  /\ lane' = [lane EXCEPT ![t] = s]
  /\ before' = [before EXCEPT ![t] = InLane(s)]

Refuse(t) ==
  /\ phase[t] = "idle"
  /\ phase' = [phase EXCEPT ![t] = "ended"]
  /\ UNCHANGED <<lane, before>>

Begin(t) ==
  /\ phase[t] = "waiting"
  /\ before[t] = {}
  /\ phase' = [phase EXCEPT ![t] = "executing"]
  /\ UNCHANGED <<lane, before>>

End(t) ==
  /\ phase[t] = "executing"
  /\ phase' = [phase EXCEPT ![t] = "ended"]
  /\ before' = [u \in Turns |-> before[u] \ {t}]
  /\ UNCHANGED lane

\* The process dies and takes its turns with it.
Perish ==
  /\ phase' = [t \in Turns |-> IF phase[t] \in {"waiting", "executing"} THEN "ended"
                                                                     ELSE phase[t]]
  /\ before' = [t \in Turns |-> {}]
  /\ UNCHANGED lane

Next ==
  \/ \E t \in Turns : Refuse(t) \/ Begin(t) \/ End(t) \/ \E s \in Sessions : Submit(t, s)
  \/ Perish

Spec == Init /\ [][Next]_vars

FairSpec == Spec /\ \A t \in Turns : WF_vars(Begin(t)) /\ WF_vars(End(t))
=============================================================================
