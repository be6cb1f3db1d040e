---- MODULE Identifiers ----
(***************************************************************************)
(* What the components name: peers and blocks.                             *)
(*                                                                         *)
(* The code treats a BlockId as an opaque byte string that it compares for *)
(* equality, so a block is the number under which the network's block tree *)
(* (module Validator) records it.                                          *)
(***************************************************************************)
EXTENDS Integers, FiniteSets

CONSTANTS Node,          \* the peers that ever take part
          NoNode,        \* no peer
          MaxBlocks      \* bound on the blocks the validators ever build

ASSUME NodeAssumption == /\ IsFiniteSet(Node)
                         /\ NoNode \notin Node
ASSUME MaxBlocksAssumption == MaxBlocks \in Nat

Genesis == 0             \* the block every chain starts from
NoBlock == -1            \* Option<BlockId>::None

BlockId == 1..MaxBlocks
Chain   == {Genesis} \cup BlockId
=============================================================================
