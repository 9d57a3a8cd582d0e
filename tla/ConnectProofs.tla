---------------------------- MODULE ConnectProofs ----------------------------
(***************************************************************************)
(* The safety of the connect loop, for any clients, deadlines, slices and  *)
(* clock resolution.                                                       *)
(***************************************************************************)
EXTENDS PipeConnect, TLAPS

USE ConnectAssumption

\* The wait of a slice ends before the millisecond of the deadline does, and the clock does
\* not pass it; the back-off that may follow adds one slice.
WaitBound(c) ==
  /\ pc[c] = "waiting" => wake[c] < Until[c] + Millisecond /\ now <= wake[c] /\ slice[c] # 0
  /\ pc[c] = "backing" => wake[c] < Until[c] + (RetryMilliseconds + 1) * Millisecond

\* A client has called WaitNamedPipe at most once since its stop, and not at all where it
\* can call it again.
StopBound(c) ==
  /\ late[c] <= 1
  /\ ~stop[c] => late[c] = 0
  /\ pc[c] \in {"opening", "pausing"} => late[c] = 0

\* A client that found no pipe, and since then saw neither time pass nor a pipe appear, is
\* still in the round in which it found none, or was stopped.
MissBound(c) ==
  missed[c] =>
    /\ Absent
    /\ \/ pc[c] \in {"pausing", "done"}
       \/ pc[c] \in {"waiting", "backing"} /\ now < wake[c]
       \/ pc[c] = "looping" /\ stop[c]

VerdictBound(c) ==
  /\ verdict[c] = "timeout" => now >= Until[c]
  /\ verdict[c] = "cancelled" => stop[c]

\* The inductive invariant.
ConnectInv ==
  /\ TypeOK
  /\ \A c \in Clients : WaitBound(c) /\ StopBound(c) /\ MissBound(c) /\ VerdictBound(c)

-----------------------------------------------------------------------------
\* Rounding up to milliseconds adds less than one, and gives zero only for no time.
LEMMA CeilingBound ==
  ASSUME NEW n \in Nat \ {0}, NEW m \in Nat \ {0}
  PROVE  /\ (n + m - 1) \div m \in Nat \ {0}
         /\ ((n + m - 1) \div m) * m < n + m
BY SMTT(20)

\* Min of two numbers, as std::min computes it for the slice.
LEMMA MinOfTwo ==
  ASSUME NEW a \in Nat, NEW b \in Nat
  PROVE  Min({a, b}) = IF a <= b THEN a ELSE b
BY DEF Min

\* A product is monotonic in its first factor.
LEMMA TimesMonotonic ==
  ASSUME NEW a \in Nat, NEW b \in Nat, NEW m \in Nat, a <= b
  PROVE  a * m \in Nat /\ a * m <= b * m
BY SMTT(20)

\* The slice of a retry is zero only when the deadline has passed, is bounded by
\* retry_milliseconds, and ends before the millisecond of the deadline does.
LEMMA SliceBound ==
  ASSUME TypeOK, NEW c \in Clients, NEW allowed, allowed = Min({Remaining(c), RetryMilliseconds})
  PROVE  /\ allowed \in 0..RetryMilliseconds
         /\ allowed = 0 => now >= Until[c]
         /\ allowed # 0 => /\ now + allowed * Millisecond \in Nat
                           /\ now < now + allowed * Millisecond
                           /\ now + allowed * Millisecond < Until[c] + Millisecond
<1>1. now \in Nat /\ Until[c] \in Nat
  BY DEF TypeOK
<1>2. CASE Until[c] <= now
  <2>1. Remaining(c) = 0
    BY <1>1, <1>2 DEF Remaining
  <2> QED BY <1>1, <1>2, <2>1, MinOfTwo
<1>3. CASE now < Until[c]
  <2> DEFINE left == Remaining(c)
  <2>1. left = (Until[c] - now + Millisecond - 1) \div Millisecond
    BY <1>1, <1>3 DEF Remaining
  <2>2. left \in Nat \ {0} /\ left * Millisecond < Until[c] - now + Millisecond
    <3>1. Until[c] - now \in Nat \ {0}
      BY <1>1, <1>3
    <3> QED BY <3>1, <2>1, CeilingBound
  <2>3. allowed \in Nat \ {0} /\ allowed <= left /\ allowed <= RetryMilliseconds
    <3> HIDE DEF left
    <3> QED BY <2>2, MinOfTwo DEF left
  <2>4. allowed * Millisecond \in Nat /\ allowed * Millisecond <= left * Millisecond
    <3> HIDE DEF left
    <3> QED BY <2>2, <2>3, TimesMonotonic
  <2>5. 1 * Millisecond <= allowed * Millisecond
    BY <2>3, TimesMonotonic
  <2> HIDE DEF left
  <2> QED BY <1>1, <2>2, <2>3, <2>4, <2>5
<1> QED BY <1>1, <1>2, <1>3

-----------------------------------------------------------------------------
\* Init: every client is idle.
LEMMA InitEstablishes == Init => ConnectInv
BY DEF Init, ConnectInv, TypeOK, WaitBound, StopBound, MissBound, VerdictBound

\* A client's own step leaves what the invariant says of the other clients alone, unless it
\* takes an instance, which nobody can who has just found none.
LEMMA OthersUntouched ==
  ASSUME ConnectInv, NEW c \in Clients, Step(c), NEW d \in Clients, d # c
  PROVE  WaitBound(d)' /\ StopBound(d)' /\ MissBound(d)' /\ VerdictBound(d)'
<1>1. /\ UNCHANGED <<now, stop>>
      /\ pc'[d] = pc[d] /\ slice'[d] = slice[d] /\ wake'[d] = wake[d] /\ late'[d] = late[d]
      /\ verdict'[d] = verdict[d] /\ missed'[d] = missed[d]
  BY DEF ConnectInv, TypeOK, Step, Begin, Loop, Open, Pause, Wait, BackOff, Preflight, Goto, Return,
         EndRound
<1>2. Absent => Absent'
  BY DEF Step, Begin, Loop, Open, Pause, Wait, BackOff, Absent, Free
<1> QED BY <1>1, <1>2 DEF ConnectInv, WaitBound, StopBound, MissBound, VerdictBound

\* What the invariant says of a client, after its own step.
LEMMA OwnStep ==
  ASSUME ConnectInv, NEW c \in Clients, Step(c)
  PROVE  TypeOK' /\ WaitBound(c)' /\ StopBound(c)' /\ MissBound(c)' /\ VerdictBound(c)'
<1> USE DEF ConnectInv
<1>1. CASE Begin(c)
  BY <1>1 DEF TypeOK, WaitBound, StopBound, MissBound, VerdictBound, Begin, Preflight, Goto, Return,
              EndRound, Absent
<1>2. CASE Loop(c)
  BY <1>2 DEF TypeOK, WaitBound, StopBound, MissBound, VerdictBound, Loop, Preflight, Goto, Return,
              EndRound, Absent
<1>3. CASE Open(c)
  <2>1. ASSUME NEW i \in Free, pipes' = [pipes EXCEPT ![i] = "taken"], Return(c, "connected"),
               UNCHANGED <<now, stop, missed>>
        PROVE  TypeOK' /\ WaitBound(c)' /\ StopBound(c)' /\ MissBound(c)' /\ VerdictBound(c)'
    <3>1. i \in Instances /\ ~Absent
      BY <2>1 DEF Free, Absent
    <3> QED BY <2>1, <3>1 DEF TypeOK, WaitBound, StopBound, MissBound, VerdictBound, Return, EndRound
  <2>2. CASE /\ Goto(c, "pausing") /\ pc[c] = "opening"
             /\ missed' = [missed EXCEPT ![c] = Absent] /\ UNCHANGED <<now, stop, pipes>>
    <3>1. Absent \in BOOLEAN /\ Absent' = Absent
      BY <2>2 DEF Absent
    <3> QED BY <2>2, <3>1 DEF TypeOK, WaitBound, StopBound, MissBound, VerdictBound, Goto, EndRound
  <2>3. CASE Return(c, "io_failure") /\ UNCHANGED <<now, stop, pipes, missed>>
    BY <2>3 DEF TypeOK, WaitBound, StopBound, MissBound, VerdictBound, Return, EndRound, Absent
  <2> QED BY <1>3, <2>1, <2>2, <2>3 DEF Open
<1>4. CASE Pause(c)
  <2> DEFINE allowed == Min({Remaining(c), RetryMilliseconds})
  <2>1. /\ allowed \in 0..RetryMilliseconds
        /\ allowed = 0 => now >= Until[c]
        /\ allowed # 0 => /\ now + allowed * Millisecond \in Nat
                          /\ now < now + allowed * Millisecond
                          /\ now + allowed * Millisecond < Until[c] + Millisecond
    BY SliceBound
  <2>2. CASE allowed = 0
    BY <1>4, <2>1, <2>2 DEF TypeOK, WaitBound, StopBound, MissBound, VerdictBound, Pause, Return,
                            EndRound, Absent
  <2>3. CASE allowed # 0
    <3>1. /\ slice' = [slice EXCEPT ![c] = allowed]
          /\ wake' = [wake EXCEPT ![c] = now + allowed * Millisecond]
          /\ late' = [late EXCEPT ![c] = IF stop[c] THEN @ + 1 ELSE @]
          /\ pc' = [pc EXCEPT ![c] = "waiting"] /\ pc[c] = "pausing"
          /\ UNCHANGED <<now, pipes, stop, missed, verdict>>
      BY <1>4, <2>3 DEF Pause
    <3> HIDE DEF allowed
    <3> QED BY <2>1, <2>3, <3>1 DEF TypeOK, WaitBound, StopBound, MissBound, VerdictBound, Absent
  <2> QED BY <2>2, <2>3
<1>5. CASE Wait(c)
  <2>1. /\ slice[c] * Millisecond \in Nat
        /\ slice[c] * Millisecond <= RetryMilliseconds * Millisecond
        /\ slice[c] # 0 => Millisecond <= slice[c] * Millisecond
    <3>1. slice[c] \in Nat /\ slice[c] <= RetryMilliseconds
      BY DEF TypeOK
    <3>2. slice[c] # 0 => 1 * Millisecond <= slice[c] * Millisecond
      BY <3>1, TimesMonotonic
    <3> QED BY <3>1, <3>2, TimesMonotonic
  <2>2. (RetryMilliseconds + 1) * Millisecond = RetryMilliseconds * Millisecond + Millisecond
    OBVIOUS
  <2>3. CASE /\ pc' = [pc EXCEPT ![c] = "backing"] /\ Absent
             /\ wake' = [wake EXCEPT ![c] = now + slice[c] * Millisecond]
             /\ UNCHANGED <<slice, verdict, late>>
    <3>1. pc[c] = "waiting" /\ UNCHANGED <<now, pipes, stop, missed>>
      BY <1>5 DEF Wait
    <3>2. /\ now + slice[c] * Millisecond \in Nat
          /\ now < now + slice[c] * Millisecond
          /\ now + slice[c] * Millisecond < Until[c] + (RetryMilliseconds + 1) * Millisecond
      BY <2>1, <2>2, <3>1 DEF TypeOK, WaitBound
    <3> QED BY <2>3, <3>1, <3>2 DEF TypeOK, WaitBound, StopBound, MissBound, VerdictBound, Absent
  <2>4. CASE ((Free # {} \/ now >= wake[c] \/ ~Absent) /\ Goto(c, "looping")) \/ Return(c, "io_failure")
    <3>1. Free # {} => ~Absent
      BY DEF Free, Absent
    <3> QED BY <1>5, <2>4, <3>1 DEF TypeOK, WaitBound, StopBound, MissBound, VerdictBound, Wait, Goto,
                            Return, EndRound, Absent
  <2> QED BY <1>5, <2>3, <2>4 DEF Wait
<1>6. CASE BackOff(c)
  BY <1>6 DEF TypeOK, WaitBound, StopBound, MissBound, VerdictBound, BackOff, Goto, Return,
              EndRound, Absent
<1> QED BY <1>1, <1>2, <1>3, <1>4, <1>5, <1>6 DEF Step

\* Every step preserves the invariant.
LEMMA StepPreserves == ConnectInv /\ [Next]_vars => ConnectInv'
<1> SUFFICES ASSUME ConnectInv, [Next]_vars PROVE ConnectInv'
  OBVIOUS
<1>1. ASSUME NEW c \in Clients, Step(c) PROVE ConnectInv'
  BY <1>1, OwnStep, OthersUntouched DEF ConnectInv
<1>2. ASSUME NEW c \in Clients, RequestStop(c) PROVE ConnectInv'
  BY <1>2 DEF ConnectInv, TypeOK, WaitBound, StopBound, MissBound, VerdictBound, RequestStop,
              clientVars, Absent
<1>3. ASSUME NEW i \in Instances, ServerStep(i) PROVE ConnectInv'
  <2>1. TypeOK'
    BY <1>3, Zenon DEF ConnectInv, TypeOK, ServerStep, clientVars
  <2>2. (missed' = [c \in Clients |-> FALSE]) \/ (UNCHANGED missed /\ (Absent => Absent'))
    BY <1>3 DEF ConnectInv, TypeOK, ServerStep, Absent
  <2>3. UNCHANGED <<now, stop, pc, slice, wake, verdict, late>>
    BY <1>3 DEF ServerStep, clientVars
  <2> QED BY <2>1, <2>2, <2>3 DEF ConnectInv, WaitBound, StopBound, MissBound, VerdictBound
<1>4. CASE Tick
  BY <1>4 DEF ConnectInv, TypeOK, WaitBound, StopBound, MissBound, VerdictBound, Tick, clientVars
<1>5. CASE UNCHANGED vars
  BY <1>5 DEF ConnectInv, TypeOK, WaitBound, StopBound, MissBound, VerdictBound, vars, clientVars,
              Absent
<1> QED BY <1>1, <1>2, <1>3, <1>4, <1>5 DEF Next

\* The invariant holds in every reachable state.
THEOREM ConnectInvariance == Spec => []ConnectInv
BY InitEstablishes, StepPreserves, PTL DEF Spec

\* connect keeps its deadline and reports it truthfully, for any number of clients, any
\* deadlines, any slice and any resolution of the clock.
THEOREM DeadlineSafety == Spec => []DeadlineKept
<1>1. ConnectInv => DeadlineKept
  BY DEF ConnectInv, DeadlineKept, WaitBound, VerdictBound
<1> QED BY <1>1, ConnectInvariance, PTL

\* connect does not spin on a missing pipe, and a stop costs it at most one slice.
THEOREM RetrySafety == Spec => []RetriesPaced
<1>1. ConnectInv => RetriesPaced
  BY DEF ConnectInv, RetriesPaced, StopBound, MissBound
<1> QED BY <1>1, ConnectInvariance, PTL
=============================================================================
