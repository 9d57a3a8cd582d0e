----------------------------- MODULE Diagnostics -----------------------------
(***************************************************************************)
(* A diagnostic session: an optional log and an optional trace document,   *)
(* shared by the threads of a process.  Every operation holds the state's  *)
(* mutex, so each is one step; what interleaves is scopes that begin on    *)
(* some threads, end later, and a session owner that finishes or goes away *)
(* while they are open.  Any write or flush may fail.  A session that has  *)
(* no output has no state either: its operations change nothing.           *)
(***************************************************************************)
EXTENDS Integers, Sequences, FiniteSets

CONSTANTS
  Threads,
  ThreadLimit,  \* trace_thread_limit
  EventLimit,   \* trace_event_limit
  Paths,        \* paths that can be given for an output, NoPath for none
  NoPath,
  File,         \* the file each path leads to
  MaxScopes     \* bound on the scopes that are begun

ASSUME DiagnosticsAssumption ==
  /\ IsFiniteSet(Threads)
  /\ ThreadLimit \in Nat /\ EventLimit \in Nat /\ MaxScopes \in Nat
  /\ DOMAIN File = Paths /\ NoPath \notin Paths

VARIABLES
  session,   \* the diagnostic_session: "none" yet, "open", "refused" by its constructor, "gone"
  logging,   \* log_ is set
  tracing,   \* trace_ is set
  shared,    \* both sinks write to one file
  failed,    \* *failed_
  document,  \* what reached the trace file
  tracks,    \* threads_: thread to track number
  live,      \* the admitted scopes each thread has open
  active,    \* active_
  admitted,  \* admitted_
  dropped,   \* dropped_
  first,     \* first_event_
  closing,   \* closing_
  begun,     \* history: scopes begun on an open, unfailed trace
  verdict    \* what the last finish() returned

counters == <<active, admitted, dropped>>
sinks == <<session, logging, tracing, shared>>
vars == <<sinks, failed, document, tracks, live, counters, first, closing, begun, verdict>>

Line == [kind |-> "line"]
Opening == [kind |-> "opening"]
Event(track, comma) == [kind |-> "event", track |-> track, comma |-> comma]
Trailer(lost) == [kind |-> "trailer", dropped |-> lost]

Init ==
  /\ session = "none"
  /\ logging = FALSE /\ tracing = FALSE /\ shared = FALSE
  /\ failed = FALSE /\ document = <<>>
  /\ tracks = <<>> /\ live = [t \in Threads |-> 0]
  /\ active = 0 /\ admitted = 0 /\ dropped = 0
  /\ first = TRUE
  /\ closing = FALSE /\ begun = 0 /\ verdict = "none"

AnyPaths(log, trace) == TRUE

\* validate_paths: two outputs need two files.
validate_paths(log, trace) == {log, trace} \subseteq Paths => File[log] # File[trace]

\* The constructor throws on paths that clash or cannot be resolved and on sinks that
\* cannot be opened; from then on failures are remembered.  A trace starts with its
\* opening and the name of the process.
Construct(log, trace) ==
  /\ session = "none"
  /\ \/ /\ session' = "refused"
        /\ {log, trace} # {NoPath}
        /\ UNCHANGED <<logging, tracing, shared, failed, document, first>>
     \/ /\ session' = "open"
        /\ validate_paths(log, trace)
        /\ logging' = (log # NoPath) /\ tracing' = (trace # NoPath)
        /\ shared' = ({log, trace} \subseteq Paths /\ File[log] = File[trace])
        /\ first' = (trace = NoPath)
        /\ \/ /\ document' = IF trace = NoPath THEN <<>> ELSE <<Opening, Event(0, FALSE)>>
              /\ UNCHANGED failed
           \/ /\ trace # NoPath /\ failed' = TRUE
              /\ document' \in {<<>>, <<Opening>>, <<Event(0, FALSE)>>}
  /\ UNCHANGED <<tracks, live, counters, closing, begun, verdict>>

\* The sink's error handler records a failed write; the record is then missing.
Write(record) ==
  \/ document' = Append(document, record) /\ UNCHANGED failed
  \/ failed' = TRUE /\ UNCHANGED document

\* A message that is not written, because there is no log or it is closing, changes nothing.
Log ==
  /\ session = "open"
  /\ \/ logging /\ ~closing /\ failed' = TRUE /\ UNCHANGED document
     \/ /\ document' = IF shared /\ ~closing THEN Append(document, Line) ELSE document
        /\ UNCHANGED failed
  /\ UNCHANGED <<sinks, tracks, live, counters, first, closing, begun, verdict>>

Drop == dropped' = dropped + 1 /\ UNCHANGED <<tracks, live, active, admitted>>

\* Within the event budget, on a thread that has a track or can still get one.
Admissible(t) ==
  /\ admitted < EventLimit
  /\ t \in DOMAIN tracks \/ Cardinality(DOMAIN tracks) < ThreadLimit

Admit(t) ==
  /\ active' = active + 1 /\ admitted' = admitted + 1
  /\ tracks' = IF t \in DOMAIN tracks THEN tracks
               ELSE [u \in DOMAIN tracks \cup {t} |->
                       IF u = t THEN Cardinality(DOMAIN tracks) + 1 ELSE tracks[u]]
  /\ live' = [live EXCEPT ![t] = @ + 1]
  /\ UNCHANGED dropped

\* profile_scope's constructor.
BeginScope(t) ==
  /\ session = "open" /\ tracing /\ ~closing /\ ~failed /\ begun < MaxScopes
  /\ begun' = begun + 1
  /\ IF Admissible(t) THEN Admit(t) ELSE Drop
  /\ UNCHANGED <<sinks, failed, document, first, closing, verdict>>

FinalizeAtOnce ==
  /\ IF tracing THEN Write(Trailer(dropped)) ELSE UNCHANGED <<document, failed>>
  /\ tracing' = FALSE /\ logging' = FALSE

\* finalize(), once no scope is open: the trailer, then flush and release both sinks.  A
\* flush that fails is recorded too.
Finalize ==
  /\ failed' \in {failed, tracing \/ logging \/ failed}
  /\ \/ tracing /\ document' = Append(document, Trailer(dropped))
     \/ (tracing => failed') /\ UNCHANGED document
  /\ tracing' = FALSE /\ logging' = FALSE

EndScopeKeepsOpen(t) ==
  /\ live[t] > 0
  /\ live' = [live EXCEPT ![t] = @ - 1] /\ active' = active - 1
  /\ first' = FALSE
  /\ Write(Event(tracks[t], ~first))
  /\ UNCHANGED <<sinks, tracks, admitted, dropped, closing, begun, verdict>>

\* profile_scope's destructor.  The last scope of a closing session finalizes it.
EndScope(t) ==
  LET last == closing /\ active = 1
      event == Event(tracks[t], ~first)
  IN
  /\ live[t] > 0
  /\ live' = [live EXCEPT ![t] = @ - 1] /\ active' = active - 1
  /\ first' = FALSE
  /\ \/ ~last /\ Write(event) /\ UNCHANGED <<logging, tracing>>
     \/ /\ last /\ tracing' = FALSE /\ logging' = FALSE
        /\ \/ document' = document \o <<event, Trailer(dropped)>> /\ UNCHANGED failed
           \/ document' \in {document, Append(document, event), Append(document, Trailer(dropped)),
                             document \o <<event, Trailer(dropped)>>} /\ failed' = TRUE
  /\ UNCHANGED <<session, shared, tracks, admitted, dropped, closing, begun, verdict>>

FinishIgnoresScopes ==
  /\ session = "open"
  /\ closing' = TRUE
  /\ FinalizeAtOnce
  /\ verdict' = IF failed' THEN "failed" ELSE "complete"
  /\ UNCHANGED <<session, shared, tracks, live, counters, first, begun>>

\* finish() postpones the trailer while scopes are open.
Finish ==
  /\ session = "open"
  /\ closing' = TRUE
  /\ \/ active # 0 /\ verdict' = "failed" /\ UNCHANGED <<logging, tracing, document, failed>>
     \/ active = 0 /\ Finalize /\ verdict' = IF failed' THEN "failed" ELSE "complete"
  /\ UNCHANGED <<session, shared, tracks, live, counters, first, begun>>

\* diagnostic_session's destructor finishes, and open scopes keep the state alive.
Destroy ==
  /\ session = "open" /\ session' = "gone"
  /\ closing' = TRUE
  /\ \/ active # 0 /\ UNCHANGED <<logging, tracing, document, failed>>
     \/ active = 0 /\ Finalize
  /\ UNCHANGED <<shared, tracks, live, counters, first, begun, verdict>>

Next ==
  \/ \E log, trace \in Paths \cup {NoPath} : Construct(log, trace)
  \/ Log \/ Finish \/ Destroy
  \/ \E t \in Threads : BeginScope(t) \/ EndScope(t)

Spec == Init /\ [][Next]_vars

-----------------------------------------------------------------------------
(* Properties. *)

\* A scope that is still open finds its trace: no finish() and no destruction of the
\* session takes the sink away from the destructor that will write to it.
OpenScopeHasTrace == (\E t \in Threads : live[t] > 0) => tracing

\* Was a trace file asked for?
Traced == ~first

IsEvent(record) == record.kind = "event"

\* The document the trace format asks for: opening, events separated by commas, trailer.
WellFormed ==
  LET n == Len(document) IN
  /\ n >= 3
  /\ document[1] = Opening /\ document[n].kind = "trailer"
  /\ \A i \in 2..(n - 1) : IsEvent(document[i]) /\ document[i].comma = (i > 2)

\* When finish() returns true the trace is a complete document that holds one event for
\* every admitted scope and whose trailer accounts for every other scope that was begun,
\* also when an earlier finish() was refused and a scope wrote the trailer.
CompleteMeansComplete ==
  verdict = "complete" /\ Traced =>
    /\ WellFormed
    /\ Len(document) = admitted + 3
    /\ document[Len(document)].dropped = begun - admitted

\* A finished or destroyed session closes its outputs once the open scopes have ended.
OutputsClose == closing ~> ~tracing /\ ~logging
=============================================================================
