----------------------------- MODULE Application -----------------------------
(***************************************************************************)
(* The two programs around the library: run_application reads the          *)
(* arguments, opens the diagnostics they ask for, runs one command inside  *)
(* a profiling scope and turns what happened into an exit code.  The       *)
(* arguments are chosen as the parser reads them, so what follows a token  *)
(* it rejects is left open.  A command that hosts or calls a server has    *)
(* threads that log and profile until it has joined them.  The phase       *)
(* "library" is a program of its own that uses a diagnostic session from   *)
(* several threads, in any order.                                          *)
(***************************************************************************)
EXTENDS Diagnostics

CONSTANTS
  Main,            \* the thread that runs main()
  Number,          \* the number a value spells; a value that spells none is not in its domain
  Endpoints,       \* values that valid_endpoint accepts
  MaxSessions,     \* transport::max_sessions
  Timeouts,        \* transport::minimum_timeout to transport::maximum_timeout
  OfferedCommands, \* bound on the commands that are given
  MaxArguments     \* bound on the arguments that are given

Printed == {"--help", "--version"}
Demos == {"--demo-sync", "--demo-async", "--demo-mixed"}
Commands == Printed \cup Demos \cup {"--serve"}
Outputs == {"--log-file", "--trace-file"}
Options == Outputs \cup {"--endpoint", "--timeout-ms", "--sessions"}

ASSUME ApplicationAssumption ==
  /\ Main \in Threads
  /\ MaxArguments \in Nat /\ MaxSessions \in Nat
  /\ OfferedCommands \subseteq Commands
  /\ Number \in [DOMAIN Number -> Nat]
  /\ Paths \cap (Commands \cup Options \cup {"--other", ""}) = {}

VARIABLES
  phase,      \* where run_application is
  build,      \* the program: its name, whether it has a handler and profiling
  arguments,  \* what the parser has read
  invocation, \* what the parser made of it
  outer,      \* the "cli.command" scope is in the trace
  written,    \* the output stream is good
  result,     \* what the command returned
  code        \* what run_application returned

appVars == <<phase, build, arguments, invocation, outer, written, result, code>>

NoInvocation == [command |-> "none", supplied |-> {}, log |-> NoPath, trace |-> NoPath]
Running == 3   \* no exit code yet

ApplicationInit ==
  /\ Init
  /\ phase \in {"library", "parsing"}
  /\ build \in [name : {"pipeforge-client", "pipeforge-server"}, handler : BOOLEAN,
                profiling : BOOLEAN]
  /\ phase = "library" => build = [name |-> "pipeforge-client", handler |-> TRUE, profiling |-> TRUE]
  /\ arguments = <<>> /\ invocation = NoInvocation
  /\ outer = FALSE /\ written = TRUE
  /\ result = 0 /\ code = Running

-----------------------------------------------------------------------------
(* parse(). *)

\* Arguments that start with "--", known or not; all other arguments are values.
Dashed == OfferedCommands \cup Options \cup {"--other"}
Tokens == Dashed \cup Paths \cup {""}

Exit(c) == phase' = "exited" /\ code' = c

\* What follows the argument that is rejected is not read.
Reject == phase' = "rejected" /\ code' = 2 /\ UNCHANGED <<invocation, outer, written, result, build, vars>>

ReadCommand(c) ==
  /\ arguments' = Append(arguments, c)
  /\ \/ invocation.command # "none" /\ Reject
     \/ /\ invocation.command = "none"
        /\ invocation' = [invocation EXCEPT !.command = c]
        /\ UNCHANGED <<phase, build, outer, written, result, code, vars>>

ReadOther(token) == arguments' = Append(arguments, token) /\ Reject

\* from_chars takes all of the value, and the number is within the option's bounds.
Accepts(option, value) ==
  /\ option = "--endpoint" => value \in Endpoints
  /\ option = "--sessions" => value \in DOMAIN Number /\ Number[value] # 0
                              /\ Number[value] <= MaxSessions
  /\ option = "--timeout-ms" => value \in DOMAIN Number /\ Number[value] \in Timeouts

Supply(option, value) ==
  invocation' = [invocation EXCEPT !.supplied = @ \cup {option},
                                   !.log = IF option = "--log-file" THEN value ELSE @,
                                   !.trace = IF option = "--trace-file" THEN value ELSE @]

\* An option needs one value, its first; the parser looks at the argument after it.
ReadOption(option) ==
  \/ arguments' = Append(arguments, option) /\ Reject
  \/ \E value \in Tokens :
       /\ arguments' = arguments \o <<option, value>>
       /\ IF \/ option \in invocation.supplied \/ value \in Dashed \cup {""}
             \/ ~Accepts(option, value)
          THEN Reject
          ELSE Supply(option, value) /\ UNCHANGED <<phase, build, outer, written, result, code, vars>>

Runtime == invocation.command \notin Printed

\* The checks after the loop: a command was given, and command and options fit this program.
Applies ==
  /\ invocation.command # "none"
  /\ ~Runtime => invocation.supplied \subseteq Outputs
  /\ Runtime => ((invocation.command = "--serve") <=> (build.name = "pipeforge-server"))
  /\ "--sessions" \in invocation.supplied => invocation.command = "--serve"

ReadEnd ==
  /\ UNCHANGED <<arguments, invocation, build, outer, written, result, vars>>
  /\ IF Applies THEN phase' = "parsed" /\ UNCHANGED code ELSE Exit(2)

Parse ==
  /\ phase = "parsing"
  /\ \/ ReadEnd
     \/ /\ Len(arguments) < MaxArguments
        /\ \/ \E c \in OfferedCommands : ReadCommand(c)
           \/ \E o \in Options : ReadOption(o)
           \/ \E token \in Tokens \ (OfferedCommands \cup Options) : ReadOther(token)

-----------------------------------------------------------------------------
(* run_application(), once its arguments are parsed. *)

Goto(p) == phase' = p
Steady == UNCHANGED <<build, arguments, invocation, outer, written, result, code>>

Unsupported == (Runtime /\ ~build.handler) \/ (invocation.trace # NoPath /\ ~build.profiling)

RejectUnsupported ==
  /\ phase = "parsed" /\ Unsupported
  /\ Exit(2)
  /\ UNCHANGED <<build, arguments, invocation, outer, written, result, vars>>

\* The session's constructor; nothing reads the arguments any more.
OpenSession ==
  /\ phase = "parsed" /\ ~Unsupported
  /\ Construct(invocation.log, invocation.trace)
  /\ IF session' = "open" THEN Goto("entering") /\ UNCHANGED code ELSE Exit(1)
  /\ arguments' = <<>>
  /\ invocation' = [invocation EXCEPT !.supplied = {}]
  /\ UNCHANGED <<build, outer, written, result>>

\* A profile_scope on the main thread: it enters the trace, is dropped, or finds no trace to enter.
Scoped ==
  \/ BeginScope(Main)
  \/ (~tracing \/ failed) /\ UNCHANGED vars

EnterCommand ==
  /\ phase = "entering" /\ Goto("announcing")
  /\ Scoped
  /\ outer' = (live'[Main] > 0)
  /\ UNCHANGED <<build, arguments, invocation, written, result, code>>

\* Log "Command started".
Announce ==
  /\ phase = "announcing" /\ Log
  /\ Goto(IF Runtime THEN "running" ELSE "printing") /\ Steady

\* Nested scopes of the main thread inside "cli.command".
Inner == live[Main] - (IF outer THEN 1 ELSE 0)

\* print_command opens a scope of its own, writes, and returns 0 whatever became of the output.
print_command ==
  /\ phase = "printing" /\ Goto("printed")
  /\ Scoped
  /\ written' \in BOOLEAN
  /\ UNCHANGED <<build, arguments, invocation, outer, result, code>>

EndPrint ==
  /\ phase = "printed" /\ Goto("completed") /\ Steady
  /\ IF Inner > 0 THEN EndScope(Main) ELSE UNCHANGED vars

Workers == Threads \ {Main}

\* The command's threads, until they are joined.
Work(t) ==
  /\ phase \in {"running", "serving", "stopping", "returning"}
  /\ BeginScope(t) \/ EndScope(t) \/ Log
  /\ UNCHANGED appVars

\* run_server_command cannot start its host, or run_client_command cannot connect or its
\* scenario fails.  A host that fails to start joins the workers it had started.
HandlerFails ==
  /\ phase = "running" /\ Goto("returning")
  /\ result' = 1
  /\ UNCHANGED <<build, arguments, invocation, outer, written, code, vars>>

\* The scenario passed; the client reports it.
ScenarioPasses ==
  /\ phase = "running" /\ invocation.command \in Demos /\ Goto("returning")
  /\ written' \in BOOLEAN
  /\ result' = IF written' THEN 0 ELSE 1
  /\ UNCHANGED <<build, arguments, invocation, outer, code, vars>>

\* The host is up and says READY; if it cannot, it stops.
ServerReady ==
  /\ phase = "running" /\ invocation.command = "--serve"
  /\ written' \in BOOLEAN
  /\ IF written' THEN Goto("serving") /\ UNCHANGED result ELSE Goto("returning") /\ result' = 1
  /\ UNCHANGED <<build, arguments, invocation, outer, code, vars>>

\* The controller writes a stop line, closes stdin or stdin goes bad; stop() joins the workers.
InputEnds ==
  /\ phase = "serving" /\ Goto("stopping")
  /\ result' \in {0, 1}
  /\ UNCHANGED <<build, arguments, invocation, outer, written, code, vars>>

Joined == \A t \in Workers : live[t] = 0

ServerStopped ==
  /\ phase = "stopping" /\ Joined /\ Goto("completed")
  /\ written' \in BOOLEAN
  /\ result' = IF written' THEN result ELSE 1
  /\ UNCHANGED <<build, arguments, invocation, outer, code, vars>>

\* The handler returns: its connection or its host is destroyed, which joins the threads.
HandlerReturns ==
  /\ phase = "returning" /\ Joined /\ Goto("completed")
  /\ Steady /\ UNCHANGED vars

\* Log "Command completed".
Complete == phase = "completed" /\ Log /\ Goto("leaving") /\ Steady

LeaveCommand ==
  /\ phase = "leaving" /\ Goto("finishing") /\ Steady
  /\ IF outer THEN EndScope(Main) ELSE UNCHANGED vars

FinishSessionUnread ==
  /\ phase = "finishing" /\ Goto("unwinding")
  /\ Finish
  /\ code' = result
  /\ UNCHANGED <<build, arguments, invocation, outer, written, result>>

\* session.finish() decides between the command's result and 1.
FinishSession ==
  /\ phase = "finishing" /\ Goto("unwinding")
  /\ Finish
  /\ code' = IF verdict' = "complete" THEN result ELSE 1
  /\ UNCHANGED <<build, arguments, invocation, outer, written, result>>

\* The session goes out of scope.
Unwind == phase = "unwinding" /\ Destroy /\ Goto("exited") /\ Steady

Library == phase = "library" /\ Next /\ UNCHANGED appVars

RunApplication ==
  \/ Parse \/ RejectUnsupported \/ OpenSession \/ EnterCommand \/ Announce
  \/ print_command \/ EndPrint
  \/ HandlerFails \/ ScenarioPasses \/ ServerReady \/ InputEnds \/ ServerStopped \/ HandlerReturns
  \/ Complete \/ LeaveCommand \/ FinishSession \/ Unwind

ApplicationNext == Library \/ RunApplication \/ \E t \in Workers : Work(t)

\* A scope ends with its block, also when the session is already closing.
ApplicationSpec ==
  /\ ApplicationInit /\ [][ApplicationNext]_<<vars, appVars>>
  /\ \A t \in Threads : WF_<<vars, appVars>>(phase = "library" /\ EndScope(t) /\ UNCHANGED appVars)

-----------------------------------------------------------------------------
(* Properties. *)

\* The documented ranges of the options' values.
InRange(option, value) ==
  CASE option \in Outputs -> TRUE
    [] option = "--endpoint" -> value \in Endpoints
    [] option = "--sessions" -> value \in DOMAIN Number /\ Number[value] \in 1..MaxSessions
    [] option = "--timeout-ms" -> value \in DOMAIN Number /\ Number[value] \in Timeouts

\* An argument list as a whole: one command, options given once, each followed by a value
\* in its range, nothing else, and nothing this program or this command has no use for.
ValidArguments(name, list) ==
  LET at == DOMAIN list
      given == {list[i] : i \in at}
      allowed == IF given \cap Printed # {} THEN Outputs
                 ELSE IF name = "pipeforge-server" THEN Options ELSE Options \ {"--sessions"}
  IN
  /\ \E c \in Printed \cup (IF name = "pipeforge-server" THEN {"--serve"} ELSE Demos) :
       {i \in at : list[i] \in Commands} = {i \in at : list[i] = c}
         /\ Cardinality({i \in at : list[i] = c}) = 1
  /\ given \subseteq Commands \cup Options \cup Paths
  /\ \A i \in at :
       /\ list[i] \in Options => i + 1 \in at /\ list[i + 1] \in Paths /\ InRange(list[i], list[i + 1])
       /\ list[i] \in Paths => i - 1 \in at /\ list[i - 1] \in Options
  /\ \A i, j \in at : list[i] \in Options /\ list[i] = list[j] => i = j
  /\ given \cap Options \subseteq allowed

\* The exit codes mean what run_application documents.  2: the arguments are not valid,
\* those that were rejected early however they go on, or the build cannot do what they
\* ask.  1: a sink could not be opened, a write failed or the command failed, and never
\* because a scope of a thread the command had not joined was still open.  0: the command
\* succeeded, what it wrote was written (help and version do not look), and the
\* diagnostics are complete.
ExitTruthful ==
  /\ phase = "parsed" => ValidArguments(build.name, arguments)
  /\ phase = "rejected" => \A more \in {<<>>} \cup {<<c>> : c \in Commands} :
                            ~ValidArguments(build.name, arguments \o more)
  /\ code = 2 /\ ValidArguments(build.name, arguments) => Unsupported
  /\ code = 1 => session = "refused" \/ failed \/ result = 1
  /\ code = 0 => result = 0 /\ ~failed /\ verdict = "complete" /\ (written \/ ~Runtime)
=============================================================================
