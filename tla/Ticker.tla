------------------------------- MODULE Ticker -------------------------------
(***************************************************************************)
(* The ticker of the engine's loop (src/src/ticker.rs), which runs the     *)
(* Raft tick from time to time and tells recv_timeout how long to wait.    *)
(*                                                                         *)
(* Time is counted from `last', the moment the callback last returned.     *)
(* The loop calls tick again after an update, which may come at any time,  *)
(* or after it has waited for `remaining', or somewhat later.              *)
(***************************************************************************)
EXTENDS LoopTiming

VARIABLES elapsed,       \* last.elapsed() at the most recent call of tick
          remaining,     \* the field of that name, and the result of tick
          fired          \* whether that call ran the callback

vars == <<elapsed, remaining, fired>>

TypeOK == /\ elapsed \in 0..(Timeout + MaxDelay)
          /\ remaining \in 1..Timeout
          /\ fired \in BOOLEAN

Init == /\ elapsed = 0
        /\ remaining = Timeout
        /\ fired = FALSE

\* The time since `last' when the most recent call returned: the callback
\* resets it.
SinceLast == IF fired THEN 0 ELSE elapsed

\* Mutant: a call at the very end of the wait does not run the callback.
Overdue(e) == e > remaining

Due(e) == e >= remaining

\* Mutant: a call before the timeout does not shorten the wait.
FullWait(e) == Timeout

\* What is left to wait after a call that does not run the callback.  `last'
\* stays, so the same stretch of time is taken off again at the next call.
Remaining(e) == remaining - e

\* Mutant: every call starts the timeout afresh.
RestartingTick(wait) ==
  /\ elapsed' = wait
  /\ remaining' = Timeout
  /\ fired' = (wait >= Timeout)

Tick(wait) ==
  LET e == SinceLast + wait
  IN  /\ elapsed' = e
      /\ fired' = Due(e)
      /\ remaining' = IF Due(e) THEN Timeout ELSE Remaining(e)

\* The loop waits for what tick returned, at most MaxDelay longer.
Next == \E wait \in 0..(remaining + MaxDelay) : Tick(wait)

Spec == Init /\ [][Next]_vars

\* The wait that tick returns ends no later than Timeout after the last
\* callback, however many updates came between: the Raft clock is never slow.
WaitEndsInTime == SinceLast + remaining <= Timeout
=============================================================================
