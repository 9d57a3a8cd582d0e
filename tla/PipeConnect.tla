----------------------------- MODULE PipeConnect -----------------------------
(***************************************************************************)
(* pipe_stream::connect: clients that look for a free instance of a named  *)
(* pipe until one is free, their deadline passes or they are stopped,      *)
(* while the server creates, recycles and closes the instances and other   *)
(* clients take them.                                                      *)
(*                                                                         *)
(* The clock is finer than the milliseconds in which the system calls      *)
(* wait: Millisecond is the number of its ticks in one of them.            *)
(***************************************************************************)
EXTENDS Integers, FiniteSetsExt

CONSTANTS
  Clients,           \* callers of connect
  Instances,         \* instances of the pipe that the server may have
  Until,             \* the deadline each client was given
  Millisecond,       \* clock ticks in a millisecond
  RetryMilliseconds, \* retry_milliseconds
  DefaultWait,       \* what WaitNamedPipe makes of a wait of zero milliseconds
  Horizon            \* bound on the clock

ASSUME ConnectAssumption ==
  /\ Until \in [Clients -> Nat]
  /\ Millisecond \in Nat \ {0} /\ RetryMilliseconds \in Nat \ {0} /\ DefaultWait \in Nat \ {0}
  /\ Horizon \in Nat

VARIABLES
  now,      \* clock::now()
  pipes,    \* the state of every instance: absent, listening or taken
  pc,       \* where each connect is
  slice,    \* its slice, in milliseconds
  wake,     \* when the wait it is in ends by itself
  stop,     \* stop_requested()
  verdict,  \* what it returned
  late,     \* history: how often it called WaitNamedPipe after its stop was requested
  missed    \* history: it found no pipe, and since then no time passed and none was created

clientVars == <<pc, slice, wake, verdict, late>>
vars == <<now, pipes, stop, missed, clientVars>>

Absent == \A i \in Instances : pipes[i] = "absent"
Free == {i \in Instances : pipes[i] = "listening"}

Init ==
  /\ now = 0 /\ pipes = [i \in Instances |-> "absent"]
  /\ pc = [c \in Clients |-> "idle"]
  /\ slice = [c \in Clients |-> 0] /\ wake = [c \in Clients |-> 0]
  /\ stop = [c \in Clients |-> FALSE] /\ verdict = [c \in Clients |-> "none"]
  /\ late = [c \in Clients |-> 0] /\ missed = [c \in Clients |-> FALSE]

-----------------------------------------------------------------------------
(* The steps of one connect. *)

\* The slice is a local of one round of the loop.
EndRound(c) == slice' = [slice EXCEPT ![c] = 0] /\ wake' = [wake EXCEPT ![c] = 0]

Goto(c, where) ==
  /\ pc' = [pc EXCEPT ![c] = where] /\ EndRound(c)
  /\ UNCHANGED <<verdict, late>>

Return(c, result) ==
  /\ pc' = [pc EXCEPT ![c] = "done"] /\ verdict' = [verdict EXCEPT ![c] = result] /\ EndRound(c)
  /\ UNCHANGED late

Preflight(c, onward) ==
  \/ stop[c] /\ Return(c, "cancelled")
  \/ ~stop[c] /\ now >= Until[c] /\ Return(c, "timeout")
  \/ ~stop[c] /\ now < Until[c] /\ onward

\* Milliseconds left before the deadline, rounded up.
Remaining(c) == IF Until[c] <= now THEN 0 ELSE (Until[c] - now + Millisecond - 1) \div Millisecond

\* Endpoint and preflight are checked before the event for the stop callback is created.
Begin(c) ==
  /\ pc[c] = "idle"
  /\ \/ Return(c, "invalid_configuration")
     \/ Preflight(c, Return(c, "io_failure") \/ Goto(c, "looping"))
  /\ UNCHANGED <<now, pipes, stop, missed>>

Loop(c) ==
  /\ pc[c] = "looping"
  /\ Preflight(c, Goto(c, "opening"))
  /\ UNCHANGED <<now, pipes, stop, missed>>

\* CreateFileW takes a listening instance.  A pipe that is busy or missing is tried again.
Open(c) ==
  /\ pc[c] = "opening"
  /\ \/ \E i \in Free : /\ pipes' = [pipes EXCEPT ![i] = "taken"]
                        /\ Return(c, "connected") /\ UNCHANGED missed
     \/ /\ Free = {} /\ Goto(c, "pausing")
        /\ missed' = [missed EXCEPT ![c] = Absent] /\ UNCHANGED pipes
     \/ Return(c, "io_failure") /\ UNCHANGED <<pipes, missed>>
  /\ UNCHANGED <<now, stop>>

PauseUnchecked(c) ==
  LET allowed == Min({Remaining(c), RetryMilliseconds}) IN
  /\ pc[c] = "pausing"
  /\ slice' = [slice EXCEPT ![c] = allowed]
  /\ wake' = [wake EXCEPT ![c] = now + (IF allowed = 0 THEN DefaultWait ELSE allowed) * Millisecond]
  /\ late' = [late EXCEPT ![c] = IF stop[c] THEN @ + 1 ELSE @]
  /\ pc' = [pc EXCEPT ![c] = "waiting"]
  /\ UNCHANGED <<now, pipes, stop, missed, verdict>>

\* The slice of this retry, and the call of WaitNamedPipeW.
Pause(c) ==
  LET allowed == Min({Remaining(c), RetryMilliseconds}) IN
  /\ pc[c] = "pausing"
  /\ \/ allowed = 0 /\ Return(c, "timeout")
     \/ /\ allowed # 0
        /\ slice' = [slice EXCEPT ![c] = allowed]
        /\ wake' = [wake EXCEPT ![c] = now + allowed * Millisecond]
        /\ late' = [late EXCEPT ![c] = IF stop[c] THEN @ + 1 ELSE @]
        /\ pc' = [pc EXCEPT ![c] = "waiting"]
        /\ UNCHANGED verdict
  /\ UNCHANGED <<now, pipes, stop, missed>>

WaitSpins(c) ==
  /\ pc[c] = "waiting"
  /\ \/ (Free # {} \/ now >= wake[c] \/ Absent) /\ Goto(c, "looping")
     \/ Return(c, "io_failure")
  /\ UNCHANGED <<now, pipes, stop, missed>>

\* WaitNamedPipeW returns: an instance is free, the slice is over, the pipe is still busy,
\* or there is no such pipe, from the start or since its last instance was closed.
Wait(c) ==
  /\ pc[c] = "waiting"
  /\ \/ Free # {} /\ Goto(c, "looping")
     \/ now >= wake[c] /\ Goto(c, "looping")
     \/ Free = {} /\ ~Absent /\ Goto(c, "looping")
     \/ /\ Absent
        /\ pc' = [pc EXCEPT ![c] = "backing"]
        /\ wake' = [wake EXCEPT ![c] = now + slice[c] * Millisecond]
        /\ UNCHANGED <<slice, verdict, late>>
     \/ Return(c, "io_failure")
  /\ UNCHANGED <<now, pipes, stop, missed>>

BackOffUntilStopped(c) ==
  /\ pc[c] = "backing"
  /\ stop[c] /\ Goto(c, "looping")
  /\ UNCHANGED <<now, pipes, stop, missed>>

\* WaitForSingleObject on the event that the stop callback signals.
BackOff(c) ==
  /\ pc[c] = "backing"
  /\ \/ (stop[c] \/ now >= wake[c]) /\ Goto(c, "looping")
     \/ Return(c, "io_failure")
  /\ UNCHANGED <<now, pipes, stop, missed>>

Step(c) == Begin(c) \/ Loop(c) \/ Open(c) \/ Pause(c) \/ Wait(c) \/ BackOff(c)

-----------------------------------------------------------------------------
(* Their surroundings. *)

RequestStop(c) ==
  /\ ~stop[c] /\ stop' = [stop EXCEPT ![c] = TRUE]
  /\ UNCHANGED <<now, pipes, missed, clientVars>>

\* The server creates an instance, makes a taken one listen again, or closes one.
ServerStep(i) ==
  /\ \/ /\ pipes[i] \in {"absent", "taken"} /\ pipes' = [pipes EXCEPT ![i] = "listening"]
        /\ missed' = [c \in Clients |-> FALSE]
     \/ /\ pipes[i] # "absent" /\ pipes' = [pipes EXCEPT ![i] = "absent"]
        /\ UNCHANGED missed
  /\ UNCHANGED <<now, stop, clientVars>>

\* A wait that is due ends before time goes on.
Tick ==
  /\ now < Horizon
  /\ \A c \in Clients : pc[c] \in {"waiting", "backing"} => now < wake[c]
  /\ now' = now + 1 /\ missed' = [c \in Clients |-> FALSE]
  /\ UNCHANGED <<pipes, stop, clientVars>>

Next ==
  \/ \E c \in Clients : Step(c) \/ RequestStop(c)
  \/ \E i \in Instances : ServerStep(i)
  \/ Tick

Spec == Init /\ [][Next]_vars

\* A running connect goes on, and time passes.  The server and the stop owe nothing.
FairSpec == Spec /\ (\A c \in Clients : WF_vars(Step(c))) /\ WF_vars(Tick)

-----------------------------------------------------------------------------
(* Properties. *)

\* The types of the state.
TypeOK ==
  /\ now \in Nat /\ pipes \in [Instances -> {"absent", "listening", "taken"}]
  /\ pc \in [Clients -> {"idle", "looping", "opening", "pausing", "waiting", "backing", "done"}]
  /\ slice \in [Clients -> 0..RetryMilliseconds] /\ wake \in [Clients -> Nat]
  /\ stop \in [Clients -> BOOLEAN] /\ missed \in [Clients -> BOOLEAN] /\ late \in [Clients -> Nat]
  /\ verdict \in [Clients -> {"none", "connected", "timeout", "cancelled", "io_failure",
                              "invalid_configuration"}]

\* connect never asks to wait past its deadline by a full millisecond, in spite of the
\* slices, of the rounding and of a zero that WaitNamedPipe would take for its default; only
\* a pipe that vanishes under the wait adds its back-off of one slice.  A timeout is never
\* reported before the deadline, nor a cancellation without a stop.
DeadlineKept ==
  \A c \in Clients :
    /\ pc[c] = "waiting" => wake[c] < Until[c] + Millisecond
    /\ pc[c] = "backing" => wake[c] < Until[c] + (RetryMilliseconds + 1) * Millisecond
    /\ verdict[c] = "timeout" => now >= Until[c]
    /\ verdict[c] = "cancelled" => stop[c]

\* The retries are paced: a client that found no pipe does not look again before time has
\* passed or a pipe has appeared ("No spin loop or unbounded retry is used"), and a stop
\* costs at most the one slice of WaitNamedPipe that the stop event cannot interrupt.
RetriesPaced ==
  \A c \in Clients : late[c] <= 1 /\ ~(pc[c] = "opening" /\ missed[c])

\* A connect whose deadline has passed, or that was stopped, returns.
ConnectReturns ==
  \A c \in Clients : (pc[c] # "idle" /\ (stop[c] \/ now >= Until[c])) ~> pc[c] = "done"
=============================================================================
