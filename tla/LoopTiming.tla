---- MODULE LoopTiming ----
(***************************************************************************)
(* The times of the engine's loop (src/src/engine.rs).                     *)
(***************************************************************************)
EXTENDS Naturals

CONSTANTS Timeout,       \* RAFT_TIMEOUT
          MaxDelay       \* bound on how late a call of Ticker::tick may come

ASSUME TimeoutAssumption == Timeout \in Nat \ {0}
ASSUME MaxDelayAssumption == MaxDelay \in Nat
====
