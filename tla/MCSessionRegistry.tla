-------------------------- MODULE MCSessionRegistry --------------------------
(***************************************************************************)
(* Small instances of SessionRegistry for TLC.                             *)
(***************************************************************************)
EXTENDS SessionRegistry, TLC

\* Sound for the safety runs only.
Symmetry == Permutations(Sessions) \cup Permutations(Turns)

\* For the liveness run the turns are numbers, named in the order of their calls
\* (which call gets which name makes no difference to the program), and the user
\* clears nothing: ClearConversation touches no lane.
CallsInOrder ==
  \A t \in Turns : status[t] = "new" /\ status'[t] # "new"
                     => \A u \in Turns : u < t => status[u] # "new"

OrderedSpec == Init /\ [][Next /\ CallsInOrder /\ UNCHANGED cleared]_vars /\ Fairness
=============================================================================
