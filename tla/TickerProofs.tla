---------------------------- MODULE TickerProofs ----------------------------
(***************************************************************************)
(* Proofs about the ticker, for every timeout and every delay.             *)
(***************************************************************************)
EXTENDS Ticker, TLAPS

\* The two invariants are inductive together: the bound on the wait is what
\* keeps `elapsed' in its range.
Inv == TypeOK /\ WaitEndsInTime

\* A fresh ticker (Ticker::new) satisfies the invariant.
LEMMA InitInv == Init => Inv
<1> SUFFICES ASSUME Init PROVE Inv
  OBVIOUS
<1>1. fired \in BOOLEAN
  BY Zenon DEF Init
<1>2. SinceLast = 0
  BY Zenon DEF Init, SinceLast
<1>3. elapsed = 0 /\ remaining = Timeout
  BY DEF Init
<1> QED
  BY <1>1, <1>2, <1>3, TimeoutAssumption, MaxDelayAssumption
     DEF Inv, TypeOK, WaitEndsInTime

\* A call of Ticker::tick preserves it: the subtraction in the else branch
\* never reaches zero, let alone underflows a Duration.
LEMMA TickInv ==
  ASSUME Inv, NEW wait \in 0..(remaining + MaxDelay), Tick(wait)
  PROVE  Inv'
<1> DEFINE e == SinceLast + wait
<1>1. SinceLast \in Nat /\ SinceLast + remaining <= Timeout /\ remaining \in 1..Timeout
  BY TimeoutAssumption, MaxDelayAssumption DEF Inv, TypeOK, WaitEndsInTime, SinceLast
<1>2. e \in 0..(Timeout + MaxDelay)
  BY <1>1, TimeoutAssumption, MaxDelayAssumption
<1>3. fired' \in BOOLEAN
  <2>1. Due(e) \in BOOLEAN
    BY <1>1, <1>2 DEF Due
  <2> QED
    BY <2>1, Zenon DEF Tick
<1>4. elapsed' = e
  BY DEF Tick
<1>5. CASE Due(e)
  <2>1. remaining' = Timeout
    BY <1>5 DEF Tick
  <2>2. SinceLast' = 0
    BY <1>5, Zenon DEF Tick, SinceLast
  <2> QED
    BY <1>2, <1>3, <1>4, <2>1, <2>2, TimeoutAssumption, MaxDelayAssumption
       DEF Inv, TypeOK, WaitEndsInTime
<1>6. CASE ~Due(e)
  <2>1. remaining' = remaining - e
    BY <1>6 DEF Tick, Remaining
  <2>2. SinceLast' = e
    BY <1>6, Zenon DEF Tick, SinceLast
  <2>3. e < remaining
    BY <1>1, <1>2, <1>6, TimeoutAssumption, MaxDelayAssumption DEF Due
  <2> QED
    BY <1>1, <1>2, <1>3, <1>4, <2>1, <2>2, <2>3, TimeoutAssumption, MaxDelayAssumption
       DEF Inv, TypeOK, WaitEndsInTime
<1> QED  BY <1>5, <1>6

\* The ticker's subtraction never underflows, and the wait it gives to
\* recv_timeout never lets more than Timeout pass between two callbacks.
THEOREM TickerCorrect == Spec => [](TypeOK /\ WaitEndsInTime)
<1>1. Inv /\ [Next]_vars => Inv'
  <2> SUFFICES ASSUME Inv, [Next]_vars PROVE Inv'
    OBVIOUS
  <2>1. CASE Next
    BY <2>1, TickInv DEF Next
  <2>2. CASE UNCHANGED vars
    BY <2>2 DEF vars, Inv, TypeOK, WaitEndsInTime, SinceLast
  <2> QED  BY <2>1, <2>2
<1> QED  BY InitInv, <1>1, PTL DEF Spec, Inv
=============================================================================
