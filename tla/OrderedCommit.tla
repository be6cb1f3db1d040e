---------------------------- MODULE OrderedCommit ---------------------------
(***************************************************************************)
(* What the engines promise together: the network decides one sequence of  *)
(* blocks, and every validator commits the blocks of that sequence one     *)
(* after the other, none left out and none twice.                          *)
(***************************************************************************)
EXTENDS Identifiers, Sequences

VARIABLES decided,       \* the blocks decided so far, in order
          committed      \* committed[n]: how many of them n has committed

TypeOK == /\ decided \in Seq(BlockId)
          /\ committed \in [Node -> 0..Len(decided)]

Init == /\ decided = << >>
        /\ committed = [n \in Node |-> 0]

\* The decided sequence grows at its end.
Decide == /\ Len(decided') > Len(decided)
          /\ SubSeq(decided', 1, Len(decided)) = decided
          /\ UNCHANGED committed

Commit(n) == /\ committed[n] < Len(decided)
             /\ committed' = [committed EXCEPT ![n] = @ + 1]
             /\ UNCHANGED decided

Next == Decide \/ \E n \in Node : Commit(n)

Spec == Init /\ [][Next]_<<decided, committed>>
=============================================================================
