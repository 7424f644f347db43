---------------------------- MODULE MCSessionCatalog ----------------------------
(***************************************************************************)
(* Small instances of SessionCatalog for TLC.                              *)
(***************************************************************************)
EXTENDS SessionCatalog, TLC

CONSTANTS n, a

\* A chat, and an address that belongs to an id of the tape.
ChatAndImported == {<<"chat", a>>, Home(n)}

\* For the run of one action property.
Symmetry == Permutations(Requests)
=============================================================================
