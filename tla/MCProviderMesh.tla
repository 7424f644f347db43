---------------------------- MODULE MCProviderMesh ----------------------------
(***************************************************************************)
(* A small instance of ProviderMesh for TLC.                               *)
(***************************************************************************)
EXTENDS ProviderMesh, TLC

CONSTANTS e1, e2

\* The second to be declared goes first.
TwoDeclared == <<e1, e2>>

FirstHasURL == <<e1>>

SecondFirst == (e1 :> 1) @@ (e2 :> 0)

\* cost-first is failover by another rank.
ThreeStrategies == {"failover", "weighted", "latency-first"}
=============================================================================
