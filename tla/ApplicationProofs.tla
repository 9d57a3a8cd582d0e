------------------------- MODULE ApplicationProofs --------------------------
(***************************************************************************)
(* For any number of threads, scopes and events, any limits, paths and     *)
(* arguments: what the diagnostic session promises, and that the exit code *)
(* of run_application is truthful.                                         *)
(***************************************************************************)
EXTENDS Application, FiniteSetTheorems, TLAPS

Records ==
  [kind : {"opening", "line"}] \cup [kind : {"event"}, track : Nat, comma : BOOLEAN]
    \cup [kind : {"trailer"}, dropped : Nat]

\* The open scopes of thread t are numbered from 1 to live[t].
OpenScopes == {p \in Threads \X Nat : 0 < p[2] /\ p[2] <= live[p[1]]}

DiagnosticTypes ==
  /\ session \in {"none", "open", "refused", "gone"} /\ verdict \in {"none", "failed", "complete"}
  /\ logging \in BOOLEAN /\ tracing \in BOOLEAN /\ shared = FALSE
  /\ failed \in BOOLEAN /\ first \in BOOLEAN /\ closing \in BOOLEAN
  /\ document \in Seq(Records)
  /\ DOMAIN tracks \subseteq Threads /\ \A t \in DOMAIN tracks : tracks[t] \in Nat
  /\ live \in [Threads -> Nat]
  /\ active \in Nat /\ admitted \in Nat /\ dropped \in Nat /\ begun \in Nat

\* active_ counts the open scopes, each on a thread with a track, and every scope begun
\* is admitted or dropped.
ScopesCounted ==
  /\ IsFiniteSet(OpenScopes) /\ active = Cardinality(OpenScopes)
  /\ \A t \in Threads : live[t] > 0 => t \in DOMAIN tracks
  /\ active <= admitted /\ begun = admitted + dropped

\* The sinks stay as long as a scope is open and go when the last one ends; what finish()
\* called complete can no longer fail.
SinksOpen ==
  /\ session \in {"none", "refused"} => admitted = 0 /\ ~closing /\ ~tracing /\ ~logging
  /\ active # 0 => tracing
  /\ closing /\ active = 0 => ~tracing /\ ~logging
  /\ tracing => ~first
  /\ verdict = "complete" => closing /\ active = 0 /\ ~failed

\* A document of the opening, the process name and n events, each but the first after a comma.
EventsWritten(d, n) ==
  /\ d[1] = Opening /\ Len(d) >= n + 2
  /\ \A i \in 2..(n + 2) : IsEvent(d[i]) /\ d[i].comma = (i > 2)

\* Unless a write has failed, the document holds an event for every scope that has ended,
\* and once the sink is closed the trailer.
DocumentExact ==
  ~failed /\ ~first =>
    /\ EventsWritten(document, admitted - active)
    /\ tracing => Len(document) = admitted - active + 2
    /\ ~tracing => /\ Len(document) = admitted - active + 3
                   /\ document[Len(document)] = Trailer(dropped)

\* The inductive invariant of the diagnostic session.
DiagnosticInv == DiagnosticTypes /\ ScopesCounted /\ SinksOpen /\ DocumentExact

-----------------------------------------------------------------------------
(* The records of a trace. *)

\* What a record of the trace is.
LEMMA RecordFacts ==
  /\ Opening \in Records
  /\ \A n \in Nat : \A b \in BOOLEAN :
       Event(n, b) \in Records /\ IsEvent(Event(n, b)) /\ Event(n, b).comma = b
  /\ \A n \in Nat : Trailer(n) \in Records /\ Trailer(n).kind = "trailer" /\ Trailer(n).dropped = n
<1>1. Opening \in Records
  BY DEF Opening, Records
<1>2. ASSUME NEW n \in Nat, NEW b \in BOOLEAN
      PROVE  Event(n, b) \in Records /\ IsEvent(Event(n, b)) /\ Event(n, b).comma = b
  BY <1>2 DEF Event, Records, IsEvent
<1>3. ASSUME NEW n \in Nat
      PROVE  Trailer(n) \in Records /\ Trailer(n).kind = "trailer" /\ Trailer(n).dropped = n
  BY <1>3 DEF Trailer, Records
<1> QED BY <1>1, <1>2, <1>3

\* Writing a record adds it at the end and moves nothing.
LEMMA AppendFacts ==
  ASSUME NEW d \in Seq(Records), NEW r \in Records
  PROVE  /\ Append(d, r) \in Seq(Records) /\ Len(Append(d, r)) = Len(d) + 1
         /\ \A i \in 1..Len(d) : Append(d, r)[i] = d[i]
         /\ Append(d, r)[Len(d) + 1] = r
OBVIOUS

\* An event of a scope goes behind the others.
LEMMA EventAdds ==
  ASSUME NEW d \in Seq(Records), NEW n \in Nat, EventsWritten(d, n), Len(d) = n + 2, NEW track \in Nat
  PROVE  /\ Append(d, Event(track, TRUE)) \in Seq(Records)
         /\ EventsWritten(Append(d, Event(track, TRUE)), n + 1)
         /\ Len(Append(d, Event(track, TRUE))) = n + 1 + 2
<1>1. PICK r \in Records : r = Event(track, TRUE) /\ IsEvent(r) /\ r.comma = TRUE
  BY RecordFacts, Zenon
<1>2. PICK e : e = Append(d, r)
  BY Zenon
<1>3. /\ e \in Seq(Records) /\ Len(e) = Len(d) + 1
      /\ \A i \in 1..Len(d) : e[i] = d[i]
      /\ e[Len(d) + 1] = r
  BY <1>2, AppendFacts, Zenon
<1>4. EventsWritten(e, n + 1)
  <2>1. e[1] = Opening /\ Len(e) >= n + 1 + 2
    BY <1>3 DEF EventsWritten
  <2>2. ASSUME NEW i \in 2..(n + 1 + 2) PROVE IsEvent(e[i]) /\ e[i].comma = (i > 2)
    <3>1. CASE i = n + 3
      <4>1. e[i] = r /\ i > 2
        BY <1>3, <3>1
      <4> QED BY <1>1, <4>1, Zenon
    <3>2. CASE i # n + 3
      <4>1. i \in 2..(n + 2) /\ i \in 1..Len(d)
        BY <3>2
      <4> QED BY <1>3, <4>1, Zenon DEF EventsWritten
    <3> QED BY <3>1, <3>2
  <2> QED BY <2>1, <2>2 DEF EventsWritten
<1>5. Len(e) = n + 1 + 2
  BY <1>3
<1>6. e = Append(d, Event(track, TRUE))
  BY <1>1, <1>2
<1> QED BY <1>3, <1>4, <1>5, <1>6, Zenon

\* The trailer goes behind the events.
LEMMA TrailerAdds ==
  ASSUME NEW d \in Seq(Records), NEW n \in Nat, EventsWritten(d, n), Len(d) = n + 2, NEW lost \in Nat
  PROVE  /\ Append(d, Trailer(lost)) \in Seq(Records)
         /\ EventsWritten(Append(d, Trailer(lost)), n)
         /\ Len(Append(d, Trailer(lost))) = n + 3
         /\ Append(d, Trailer(lost))[n + 3] = Trailer(lost)
<1>1. PICK r \in Records : r = Trailer(lost)
  BY RecordFacts
<1>2. EventsWritten(Append(d, r), n)
  BY AppendFacts DEF EventsWritten
<1> QED BY <1>1, <1>2, AppendFacts

\* Writing two records is writing one after the other.
LEMMA AppendTwo ==
  ASSUME NEW d \in Seq(Records), NEW r \in Records, NEW s \in Records
  PROVE  d \o <<r, s>> = Append(Append(d, r), s)
OBVIOUS

-----------------------------------------------------------------------------
(* Counting the open scopes. *)

\* A scope that begins on thread t is one more.
LEMMA ScopeOpens ==
  ASSUME DiagnosticTypes, IsFiniteSet(OpenScopes), NEW t \in Threads, live' = [live EXCEPT ![t] = @ + 1]
  PROVE  IsFiniteSet(OpenScopes') /\ Cardinality(OpenScopes') = Cardinality(OpenScopes) + 1
<1>1. PICK p : p = <<t, live[t] + 1>>
  BY Zenon
<1>2. p \notin OpenScopes /\ OpenScopes' = OpenScopes \cup {p}
  BY <1>1 DEF OpenScopes, DiagnosticTypes
<1> QED BY <1>2, FS_AddElement, Zenon

\* A scope that ends on thread t is one less.
LEMMA ScopeCloses ==
  ASSUME DiagnosticTypes, IsFiniteSet(OpenScopes), NEW t \in Threads, live[t] > 0,
         live' = [live EXCEPT ![t] = @ - 1]
  PROVE  IsFiniteSet(OpenScopes') /\ Cardinality(OpenScopes') = Cardinality(OpenScopes) - 1
<1>1. PICK p : p = <<t, live[t]>>
  BY Zenon
<1>2. p \in OpenScopes /\ OpenScopes' = OpenScopes \ {p}
  BY <1>1 DEF OpenScopes, DiagnosticTypes
<1> QED BY <1>2, FS_RemoveElement, Zenon

\* No scope is open exactly when every thread has none.
LEMMA NoneOpen ==
  ASSUME DiagnosticTypes, ScopesCounted
  PROVE  active = 0 <=> \A t \in Threads : live[t] = 0
<1>1. active = 0 <=> OpenScopes = {}
  BY FS_EmptySet DEF ScopesCounted
<1>2. ASSUME OpenScopes = {}, NEW t \in Threads PROVE live[t] = 0
  <2>1. live[t] \in Nat /\ <<t, live[t]>> \in Threads \X Nat
    BY DEF DiagnosticTypes
  <2> QED BY <1>2, <2>1 DEF OpenScopes
<1>3. ASSUME \A t \in Threads : live[t] = 0 PROVE OpenScopes = {}
  BY <1>3 DEF OpenScopes
<1> QED BY <1>1, <1>2, <1>3

-----------------------------------------------------------------------------
(* The operations of a diagnostic session. *)

\* No session, no output.
LEMMA DiagnosticInit == Init => DiagnosticInv
<1> SUFFICES ASSUME Init PROVE DiagnosticInv
  OBVIOUS
<1> USE DEF Init
<1>1. DiagnosticTypes
  <2>1. document \in Seq(Records) /\ DOMAIN tracks = {} /\ live \in [Threads -> Nat]
    OBVIOUS
  <2>2. active \in Nat /\ admitted \in Nat /\ dropped \in Nat /\ begun \in Nat
    OBVIOUS
  <2> QED BY <2>1, <2>2, Zenon DEF DiagnosticTypes
<1>2. OpenScopes = {}
  BY DEF OpenScopes
<1>3. ScopesCounted
  BY <1>2, FS_EmptySet DEF ScopesCounted
<1>4. SinksOpen /\ DocumentExact
  BY DEF SinksOpen, DocumentExact
<1> QED BY <1>1, <1>3, <1>4 DEF DiagnosticInv

\* A new trace starts with its opening and the process name; two outputs have two files.
LEMMA ConstructPreserves ==
  ASSUME DiagnosticInv, NEW log \in Paths \cup {NoPath}, NEW trace \in Paths \cup {NoPath},
         Construct(log, trace)
  PROVE  DiagnosticInv'
<1> USE DEF DiagnosticInv
<1>1. /\ session = "none"
      /\ UNCHANGED <<tracks, live, active, admitted, dropped, closing, begun, verdict>>
  BY Zenon DEF Construct, counters
<1>2. active = 0 /\ admitted = 0 /\ ~closing /\ verdict # "complete"
  BY <1>1 DEF SinksOpen, ScopesCounted, DiagnosticTypes
<1>3. ScopesCounted'
  BY <1>1 DEF ScopesCounted, OpenScopes
<1>4. CASE session' = "refused" /\ UNCHANGED <<logging, tracing, shared, failed, document, first>>
  <2>1. DiagnosticTypes'
    BY <1>1, <1>4, Zenon DEF DiagnosticTypes
  <2>2. SinksOpen'
    BY <1>1, <1>4, Zenon DEF SinksOpen
  <2>3. DocumentExact'
    BY <1>1, <1>4, Zenon DEF DocumentExact
  <2> QED BY <1>3, <2>1, <2>2, <2>3
<1>5. CASE /\ session' = "open" /\ validate_paths(log, trace)
           /\ logging' = (log # NoPath) /\ tracing' = (trace # NoPath)
           /\ shared' = ({log, trace} \subseteq Paths /\ File[log] = File[trace])
           /\ first' = (trace = NoPath)
           /\ \/ /\ document' = IF trace = NoPath THEN <<>> ELSE <<Opening, Event(0, FALSE)>>
                 /\ UNCHANGED failed
              \/ /\ trace # NoPath /\ failed' = TRUE
                 /\ document' \in {<<>>, <<Opening>>, <<Event(0, FALSE)>>}
  <2>1. shared' = FALSE
    BY <1>5, Zenon DEF validate_paths
  <2>2. PICK name \in Records : name = Event(0, FALSE) /\ IsEvent(name) /\ name.comma = FALSE
    BY RecordFacts, Zenon
  <2>3. document' \in {<<>>, <<Opening>>, <<name>>, <<Opening, name>>}
    BY <1>5, <2>2, Zenon
  <2>4. document' \in Seq(Records)
    <3>1. Opening \in Records
      BY RecordFacts, Zenon
    <3>2. <<>> \in Seq(Records) /\ <<Opening>> \in Seq(Records) /\ <<name>> \in Seq(Records)
      BY <3>1
    <3>3. <<Opening, name>> \in Seq(Records)
      BY <3>1
    <3> QED BY <2>3, <3>2, <3>3, Zenon
  <2>5. DiagnosticTypes'
    BY <1>1, <1>5, <2>1, <2>4, Zenon DEF DiagnosticTypes
  <2>6. SinksOpen'
    BY <1>1, <1>2, <1>5, Zenon DEF SinksOpen
  <2>7. ASSUME ~failed', ~first' PROVE DocumentExact'
    <3>1. document' = <<Opening, name>> /\ tracing'
      BY <1>5, <2>2, <2>7, Zenon
    <3>2. admitted' - active' = 0
      BY <1>1, <1>2
    <3>3. PICK d : d = <<Opening, name>>
      BY Zenon
    <3>4. Len(d) = 2 /\ d[1] = Opening /\ d[2] = name
      BY <3>3
    <3>5. EventsWritten(d, 0)
      <4>1. ASSUME NEW i \in 2..(0 + 2) PROVE IsEvent(d[i]) /\ d[i].comma = (i > 2)
        <5>1. i = 2 /\ (i > 2) = FALSE
          OBVIOUS
        <5> QED BY <2>2, <3>4, <5>1, Zenon
      <4> QED BY <3>4, <4>1 DEF EventsWritten
    <3> QED BY <3>1, <3>2, <3>3, <3>4, <3>5 DEF DocumentExact
  <2> QED BY <1>3, <2>5, <2>6, <2>7 DEF DocumentExact
<1> QED BY <1>4, <1>5, Zenon DEF Construct

\* A log message touches no trace, and can fail only while the log is open.
LEMMA LogPreserves ==
  ASSUME DiagnosticInv, Log
  PROVE  DiagnosticInv'
<1> USE DEF Log, DiagnosticInv
<1> /\ UNCHANGED <<session, logging, tracing, shared, document, tracks, live, active, admitted>>
    /\ UNCHANGED <<dropped, first, closing, begun, verdict>>
  BY DEF sinks, counters, DiagnosticTypes
<1>1. failed' = failed \/ (failed' = TRUE /\ logging /\ ~closing)
  OBVIOUS
<1>2. DiagnosticTypes'
  BY <1>1, Zenon DEF DiagnosticTypes
<1>3. ScopesCounted'
  BY DEF ScopesCounted, OpenScopes
<1>4. SinksOpen'
  BY <1>1 DEF SinksOpen
<1>5. DocumentExact'
  BY <1>1 DEF DocumentExact
<1> QED BY <1>2, <1>3, <1>4, <1>5

\* A scope that begins is admitted, on a thread that then has a track, or dropped.
LEMMA BeginPreserves ==
  ASSUME DiagnosticInv, NEW t \in Threads, BeginScope(t)
  PROVE  DiagnosticInv'
<1> USE DEF DiagnosticInv
<1>1. /\ tracing /\ ~closing /\ ~failed /\ session = "open" /\ begun' = begun + 1
      /\ UNCHANGED <<session, logging, tracing, shared, failed, document, first, closing, verdict>>
  BY Zenon DEF BeginScope, sinks
<1>2. CASE Drop
  <2>1. dropped' = dropped + 1 /\ UNCHANGED <<tracks, live, active, admitted>>
    BY <1>2, Zenon DEF Drop
  <2>2. dropped' \in Nat /\ begun' \in Nat /\ begun' = admitted' + dropped'
    BY <1>1, <2>1 DEF DiagnosticTypes, ScopesCounted
  <2>3. DiagnosticTypes'
    BY <1>1, <2>1, <2>2, Zenon DEF DiagnosticTypes
  <2>4. OpenScopes' = OpenScopes
    BY <2>1 DEF OpenScopes
  <2>5. ScopesCounted'
    BY <2>1, <2>2, <2>4, Zenon DEF ScopesCounted
  <2>6. SinksOpen'
    BY <1>1, <2>1, Zenon DEF SinksOpen
  <2>7. DocumentExact'
    BY <1>1, <2>1, Zenon DEF DocumentExact
  <2> QED BY <2>3, <2>5, <2>6, <2>7
<1>3. CASE Admit(t)
  <2>1. /\ active' = active + 1 /\ admitted' = admitted + 1 /\ dropped' = dropped
        /\ live' = [live EXCEPT ![t] = @ + 1]
    BY <1>3, Zenon DEF Admit
  <2>2. DOMAIN tracks' = DOMAIN tracks \cup {t} /\ \A u \in DOMAIN tracks' : tracks'[u] \in Nat
    <3>1. DOMAIN tracks \subseteq Threads /\ \A u \in DOMAIN tracks : tracks[u] \in Nat
      BY Zenon DEF DiagnosticTypes
    <3>2. Cardinality(DOMAIN tracks) + 1 \in Nat
      BY <3>1, DiagnosticsAssumption, FS_Subset, FS_CardinalityType
    <3> QED BY <1>3, <3>1, <3>2 DEF Admit
  <2>3. /\ live' \in [Threads -> Nat] /\ DOMAIN tracks' \subseteq Threads
        /\ \A u \in Threads : live'[u] > 0 => u \in DOMAIN tracks'
    BY <2>1, <2>2 DEF DiagnosticTypes, ScopesCounted
  <2>4. /\ active' \in Nat /\ admitted' \in Nat /\ begun' \in Nat /\ active' # 0
        /\ active' <= admitted' /\ begun' = admitted' + dropped'
        /\ admitted' - active' = admitted - active
    BY <1>1, <2>1, SMTT(30) DEF DiagnosticTypes, ScopesCounted
  <2>5. DiagnosticTypes'
    BY <1>1, <2>1, <2>2, <2>3, <2>4, Zenon DEF DiagnosticTypes
  <2>6. ScopesCounted'
    BY <2>1, <2>3, <2>4, ScopeOpens, Zenon DEF ScopesCounted
  <2>7. SinksOpen'
    BY <1>1, <2>4, Zenon DEF SinksOpen
  <2>8. DocumentExact'
    BY <1>1, <2>1, <2>4, Zenon DEF DocumentExact
  <2> QED BY <2>5, <2>6, <2>7, <2>8
<1> QED BY <1>2, <1>3, Zenon DEF BeginScope

\* Once no scope is open, finalizing writes the trailer or records a failure, and releases
\* both sinks.
LEMMA FinalizePreserves ==
  ASSUME DiagnosticInv, active = 0, Finalize, closing' = TRUE, session' \in {"open", "gone"},
         session = "open",
         verdict' = verdict \/ verdict' = (IF failed' THEN "failed" ELSE "complete"),
         UNCHANGED <<shared, tracks, live, counters, first, begun>>
  PROVE  DiagnosticInv'
<1> USE DEF DiagnosticInv
<1>1. /\ tracing' = FALSE /\ logging' = FALSE
      /\ UNCHANGED <<shared, tracks, live, active, admitted, dropped, first, begun>>
      /\ failed' = failed \/ (failed' = TRUE /\ (tracing \/ logging))
  BY Zenon DEF Finalize, counters, DiagnosticTypes
<1>2. \/ tracing /\ document' = Append(document, Trailer(dropped))
      \/ (tracing => failed') /\ document' = document
  BY Zenon DEF Finalize
<1>3. document' \in Seq(Records)
  <2>1. PICK r \in Records : r = Trailer(dropped)
    BY RecordFacts, Zenon DEF DiagnosticTypes
  <2> QED BY <1>2, <2>1, AppendFacts, Zenon DEF DiagnosticTypes
<1>4. DiagnosticTypes'
  BY <1>1, <1>3, Zenon DEF DiagnosticTypes
<1>5. ScopesCounted'
  BY <1>1 DEF ScopesCounted, OpenScopes
<1>6. SinksOpen'
  BY <1>1 DEF SinksOpen
<1>7. ASSUME ~failed', ~first' PROVE DocumentExact'
  <2>1. ~failed /\ ~first
    BY <1>1, <1>7 DEF DiagnosticTypes
  <2>2. CASE ~tracing
    BY <1>1, <1>2, <2>1, <2>2, Zenon DEF DocumentExact
  <2>3. CASE tracing
    <3>1. document' = Append(document, Trailer(dropped))
      BY <1>2, <1>7, <2>3, Zenon
    <3>2. PICK d, n, lost : d = document /\ n = admitted - active /\ lost = dropped
      OBVIOUS
    <3>3. d \in Seq(Records) /\ n \in Nat /\ lost \in Nat
      BY <3>2 DEF DiagnosticTypes, ScopesCounted
    <3>4. EventsWritten(d, n) /\ Len(d) = n + 2
      BY <2>1, <2>3, <3>2, Zenon DEF DocumentExact
    <3>5. /\ EventsWritten(document', n) /\ Len(document') = n + 3
          /\ document'[n + 3] = Trailer(lost)
      BY <3>1, <3>2, <3>3, <3>4, TrailerAdds, Zenon
    <3> QED BY <1>1, <3>2, <3>5, Zenon DEF DocumentExact
  <2> QED BY <2>2, <2>3
<1> QED BY <1>4, <1>5, <1>6, <1>7 DEF DocumentExact

\* A scope that ends finds its trace open and writes its event behind the others; the last
\* scope of a closing session writes the trailer too and releases the sinks.
LEMMA EndPreserves ==
  ASSUME DiagnosticInv, NEW t \in Threads, EndScope(t)
  PROVE  DiagnosticInv'
<1> USE DEF DiagnosticInv
<1> DEFINE last == closing /\ active = 1
           event == Event(tracks[t], ~first)
<1>1. /\ live[t] > 0 /\ live' = [live EXCEPT ![t] = @ - 1] /\ active' = active - 1 /\ first' = FALSE
      /\ UNCHANGED <<session, shared, tracks, admitted, dropped, closing, begun, verdict>>
  BY Zenon DEF EndScope
<1>2. \/ ~last /\ Write(event) /\ UNCHANGED <<logging, tracing>>
      \/ /\ last /\ tracing' = FALSE /\ logging' = FALSE
         /\ \/ document' = document \o <<event, Trailer(dropped)>> /\ UNCHANGED failed
            \/ document' \in {document, Append(document, event), Append(document, Trailer(dropped)),
                              document \o <<event, Trailer(dropped)>>} /\ failed' = TRUE
  BY Zenon DEF EndScope
<1>3. active # 0
  <2>1. live[t] # 0
    BY <1>1
  <2> QED BY <2>1, NoneOpen
<1>4. tracing /\ ~first /\ event = Event(tracks[t], TRUE) /\ session # "none" /\ session # "refused"
  <2>1. tracing /\ ~first
    BY <1>3, Zenon DEF SinksOpen
  <2>2. first = FALSE
    BY <2>1, Zenon DEF DiagnosticTypes
  <2> QED BY <2>1, <2>2, Zenon DEF SinksOpen
<1> HIDE DEF last, event
<1>5. PICK d, n, lost, track : /\ d = document /\ n = admitted - active /\ lost = dropped
                              /\ track = tracks[t]
  OBVIOUS
<1>6. d \in Seq(Records) /\ n \in Nat /\ lost \in Nat /\ track \in Nat
  BY <1>1, <1>5, SMTT(30) DEF DiagnosticTypes, ScopesCounted
<1>7. PICK e, f : e = Event(track, TRUE) /\ f = Trailer(lost)
  BY Zenon
<1>8. e \in Records /\ f \in Records
  BY <1>6, <1>7, RecordFacts, Zenon
<1>9. PICK d1, d2 : d1 = Append(d, e) /\ d2 = Append(d1, f)
  BY Zenon
<1>10. d1 \in Seq(Records) /\ d2 \in Seq(Records) /\ d2 = d \o <<e, f>> /\ Append(d, f) \in Seq(Records)
  BY <1>6, <1>8, <1>9, AppendFacts, AppendTwo, Zenon
<1>11. /\ event = e /\ Trailer(dropped) = f
       /\ \/ ~last /\ ((document' = d1 /\ failed' = failed) \/ (document' = d /\ failed' = TRUE))
             /\ UNCHANGED <<logging, tracing>>
          \/ /\ last /\ tracing' = FALSE /\ logging' = FALSE
             /\ \/ document' = d2 /\ failed' = failed
                \/ document' \in {d, d1, Append(d, f), d2} /\ failed' = TRUE
  <2>1. event = e /\ Trailer(dropped) = f
    BY <1>4, <1>5, <1>7, Zenon
  <2>2. CASE ~last
    <3>1. Write(e) /\ UNCHANGED <<logging, tracing>>
      BY <1>2, <2>1, <2>2, Zenon
    <3>2. (document' = d1 /\ failed' = failed) \/ (document' = d /\ failed' = TRUE)
      BY <1>5, <1>9, <3>1, Zenon DEF Write
    <3> QED BY <2>1, <2>2, <3>1, <3>2, Zenon
  <2>3. CASE last
    BY <1>2, <1>5, <1>9, <1>10, <2>1, <2>3, Zenon
  <2> QED BY <2>1, <2>2, <2>3, Zenon
<1>12. live' \in [Threads -> Nat] /\ active' \in Nat /\ active' <= admitted
  BY <1>1, <1>3 DEF DiagnosticTypes, ScopesCounted
<1>13. DiagnosticTypes'
  BY <1>1, <1>6, <1>10, <1>11, <1>12, Zenon DEF DiagnosticTypes
<1>14. ScopesCounted'
  <2>1. IsFiniteSet(OpenScopes') /\ active' = Cardinality(OpenScopes')
    BY <1>1, ScopeCloses, Zenon DEF ScopesCounted
  <2>2. \A u \in Threads : live'[u] > 0 => u \in DOMAIN tracks
    BY <1>1 DEF ScopesCounted, DiagnosticTypes
  <2> QED BY <1>1, <1>12, <2>1, <2>2, Zenon DEF ScopesCounted
<1>15. /\ active' = 0 <=> active = 1
       /\ last <=> closing /\ active = 1
  BY <1>1 DEF DiagnosticTypes, last
<1>16. SinksOpen'
  BY <1>1, <1>3, <1>4, <1>11, <1>15, Zenon DEF SinksOpen
<1>17. ASSUME ~failed' PROVE DocumentExact'
  <2>1. failed' # TRUE
    BY <1>17, Zenon
  <2>2. failed' = failed /\ (IF last THEN document' = d2 /\ ~tracing' ELSE document' = d1 /\ tracing' = tracing)
    BY <1>11, <2>1, Zenon
  <2>3. EventsWritten(d, n) /\ Len(d) = n + 2
    BY <1>4, <1>5, <1>17, <2>2, Zenon DEF DocumentExact
  <2>4. EventsWritten(d1, n + 1) /\ Len(d1) = n + 1 + 2
    BY <1>6, <1>7, <1>9, <2>3, EventAdds, Zenon
  <2>5. n + 1 \in Nat /\ admitted' - active' = n + 1
    BY <1>1, <1>5, <1>6 DEF DiagnosticTypes
  <2>6. EventsWritten(d2, n + 1) /\ Len(d2) = n + 1 + 3 /\ d2[n + 1 + 3] = Trailer(lost)
    <3>1. PICK m \in Nat : m = n + 1
      BY <2>5, Zenon
    <3>2. EventsWritten(d1, m) /\ Len(d1) = m + 2
      BY <2>4, <3>1, Zenon
    <3>3. EventsWritten(d2, m) /\ Len(d2) = m + 3 /\ d2[m + 3] = Trailer(lost)
      <4>1. m \in Nat /\ lost \in Nat /\ d1 \in Seq(Records) /\ d2 = Append(d1, Trailer(lost))
        BY <1>6, <1>7, <1>9, <1>10, <3>1, Zenon
      <4> QED BY <3>2, <4>1, TrailerAdds, Zenon
    <3> QED BY <3>1, <3>3, Zenon
  <2>7. CASE last
    BY <1>1, <1>5, <2>2, <2>5, <2>6, <2>7, Zenon DEF DocumentExact
  <2>8. CASE ~last
    BY <1>1, <1>4, <1>5, <2>2, <2>4, <2>5, <2>8, Zenon DEF DocumentExact
  <2> QED BY <2>7, <2>8
<1> QED BY <1>13, <1>14, <1>16, <1>17 DEF DocumentExact

\* finish() and the destructor finalize at once, or leave it to the last open scope.
LEMMA FinishPreserves ==
  ASSUME DiagnosticInv, Finish \/ Destroy
  PROVE  DiagnosticInv'
<1> USE DEF DiagnosticInv
<1>1. /\ session = "open" /\ session' \in {"open", "gone"} /\ closing' = TRUE
      /\ UNCHANGED <<shared, tracks, live, counters, first, begun>>
  BY Zenon DEF Finish, Destroy
<1>2. CASE active = 0
  <2>1. Finalize /\ (verdict' = verdict \/ verdict' = (IF failed' THEN "failed" ELSE "complete"))
    BY <1>2, Zenon DEF Finish, Destroy
  <2> QED BY <1>1, <1>2, <2>1, FinalizePreserves
<1>3. CASE active # 0
  <2>1. /\ UNCHANGED <<logging, tracing, document, failed>> /\ verdict' \in {verdict, "failed"}
        /\ UNCHANGED <<shared, tracks, live, active, admitted, dropped, first, begun>>
    BY <1>3, Zenon DEF Finish, Destroy, counters
  <2>2. DiagnosticTypes'
    BY <1>1, <2>1, Zenon DEF DiagnosticTypes
  <2>3. ScopesCounted'
    BY <2>1 DEF ScopesCounted, OpenScopes
  <2>4. SinksOpen'
    BY <1>1, <1>3, <2>1 DEF SinksOpen
  <2>5. DocumentExact'
    BY <2>1, Zenon DEF DocumentExact
  <2> QED BY <2>2, <2>3, <2>4, <2>5
<1> QED BY <1>2, <1>3

\* Every operation of the session, on any thread, keeps the invariant.
LEMMA DiagnosticStep == DiagnosticInv /\ [Next]_vars => DiagnosticInv'
<1> SUFFICES ASSUME DiagnosticInv, [Next]_vars PROVE DiagnosticInv'
  BY SMTT(30)
<1>1. CASE UNCHANGED vars
  BY <1>1 DEF vars, sinks, counters, DiagnosticInv, DiagnosticTypes, ScopesCounted, OpenScopes, SinksOpen,
              DocumentExact
<1>2. CASE Next
  BY <1>2, ConstructPreserves, LogPreserves, FinishPreserves, BeginPreserves, EndPreserves, SMTT(30) DEF Next
<1> QED BY <1>1, <1>2

-----------------------------------------------------------------------------
(* run_application. *)

Invocations ==
  [command : OfferedCommands \cup {"none"}, supplied : SUBSET Options,
   log : Paths \cup {NoPath}, trace : Paths \cup {NoPath}]

Working == {"running", "serving", "stopping", "returning"}
Quiet == {"parsing", "rejected", "parsed", "entering", "finishing", "unwinding", "exited"}
Single == {"announcing", "printing", "completed", "leaving"}

ApplicationTypes ==
  /\ phase \in {"library", "printed"} \cup Quiet \cup Single \cup Working
  /\ build.name \in {"pipeforge-client", "pipeforge-server"}
  /\ arguments \in Seq(Tokens) /\ invocation \in Invocations
  /\ outer \in BOOLEAN /\ written \in BOOLEAN
  /\ result \in {0, 1} /\ code \in {0, 1, 2, Running}

OuterScope == IF outer THEN 1 ELSE 0

\* Which scopes are open where: outside the command none, inside it at most "cli.command"
\* on the main thread, and scopes of other threads only until the command has joined them.
ScopePlan ==
  /\ phase \in Quiet => \A t \in Threads : live[t] = 0
  /\ phase \in Single \cup Working => live[Main] = OuterScope
  /\ phase = "printed" => live[Main] \in {OuterScope, OuterScope + 1}
  /\ phase \in Single \cup {"printed"} => Joined

\* What the parser has read makes sense so far, and the invocation says what it is: of the n
\* arguments at most one is a command...
OneCommand(list, n, command) ==
  /\ \A i \in 1..n : list[i] \in OfferedCommands \cup Options \cup Paths
  /\ \A i \in 1..n : list[i] \in Commands => command # "none"
  /\ command # "none" =>
       \E k \in 1..n : list[k] = command /\ \A i \in 1..n : list[i] \in Commands => i = k

\* ...options and values go together...
Paired(list, n) ==
  /\ \A i \in 1..n : list[i] \in Options =>
       i + 1 \in 1..n /\ list[i + 1] \in Paths /\ InRange(list[i], list[i + 1])
  /\ \A i \in 1..n : list[i] \in Paths => i - 1 \in 1..n /\ list[i - 1] \in Options

\* ...and the options are each given once and noted.
OptionsNoted(list, n, supplied) ==
  /\ \A i, j \in 1..n : list[i] \in Options /\ list[i] = list[j] => i = j
  /\ \A o \in Options : o \in supplied <=> \E i \in 1..n : list[i] = o

ReadList(list, given) ==
  /\ OneCommand(list, Len(list), given.command)
  /\ Paired(list, Len(list))
  /\ OptionsNoted(list, Len(list), given.supplied)

ReadSoFar == ReadList(arguments, invocation)

\* No argument that follows can make the list valid.
Hopeless ==
  \A more \in {<<>>} \cup {<<c>> : c \in Commands} : ~ValidArguments(build.name, arguments \o more)

Parsing ==
  /\ phase = "parsing" => ReadSoFar
  /\ phase = "parsed" => ValidArguments(build.name, arguments)
  /\ phase = "rejected" => Hopeless /\ code = 2
  /\ phase = "exited" /\ code = 2 => ~ValidArguments(build.name, arguments) \/ Unsupported

\* How the exit code comes about.
Outcome ==
  /\ code # Running => phase \in {"rejected", "unwinding", "exited"}
  /\ code = 2 => phase \in {"rejected", "exited"}
  /\ phase \in {"printing", "printed"} => ~Runtime
  /\ phase \in {"returning", "completed", "leaving", "finishing"} /\ result = 0 /\ Runtime => written
  /\ code = 1 => session = "refused" \/ failed \/ result = 1
  /\ code = 0 => result = 0 /\ verdict = "complete" /\ (written \/ ~Runtime)

\* The inductive invariant of the application, relative to that of its session.
ApplicationInv == ApplicationTypes /\ ScopePlan /\ Parsing /\ Outcome

\* The parser's bounds are the documented ranges.
LEMMA AcceptsExact ==
  ASSUME NEW option \in Options, NEW value
  PROVE  Accepts(option, value) <=> InRange(option, value)
<1>1. ASSUME value \in DOMAIN Number
      PROVE  (Number[value] # 0 /\ Number[value] <= MaxSessions) <=> Number[value] \in 1..MaxSessions
  <2>1. PICK m \in Nat : m = Number[value]
    BY <1>1, ApplicationAssumption, Zenon
  <2>2. MaxSessions \in Nat
    BY ApplicationAssumption, Zenon
  <2>3. (m # 0 /\ m <= MaxSessions) <=> m \in 1..MaxSessions
    BY <2>2
  <2> QED BY <2>1, <2>3, Zenon
<1>2. CASE option \in Outputs
  BY <1>2, Zenon DEF Accepts, InRange, Outputs
<1>3. CASE option = "--endpoint"
  BY <1>3 DEF Accepts, InRange, Outputs
<1>4. CASE option = "--sessions"
  BY <1>1, <1>4, Zenon DEF Accepts, InRange, Outputs
<1>5. CASE option = "--timeout-ms"
  BY <1>5 DEF Accepts, InRange, Outputs
<1> QED BY <1>2, <1>3, <1>4, <1>5 DEF Options

\* Two commands make a list invalid.
LEMMA TwoCommands ==
  ASSUME NEW name, NEW list, NEW n \in Nat, DOMAIN list = 1..n, NEW i \in 1..n, NEW j \in 1..n, i # j,
         list[i] \in Commands, list[j] \in Commands
  PROVE  ~ValidArguments(name, list)
<1> SUFFICES ASSUME ValidArguments(name, list) PROVE FALSE
  OBVIOUS
<1>1. PICK c : /\ {k \in 1..n : list[k] \in Commands} = {k \in 1..n : list[k] = c}
               /\ Cardinality({k \in 1..n : list[k] = c}) = 1
  BY Zenon DEF ValidArguments
<1>2. PICK T : T = {k \in 1..n : list[k] = c}
  BY Zenon
<1>3. T \subseteq 1..n /\ i \in T /\ j \in T /\ Cardinality(T) = 1
  BY <1>1, <1>2
<1>4. IsFiniteSet(T)
  <2>1. 1 \in Int /\ n \in Int
    OBVIOUS
  <2> QED BY <1>3, <2>1, FS_Interval, FS_Subset, Zenon
<1>5. PICK x : T = {x}
  BY <1>3, <1>4, FS_Singleton
<1> QED BY <1>3, <1>5

\* What else makes a list invalid: an unknown token, an option without a value in its range,
\* a value without an option, an option given twice.
LEMMA BadArgument ==
  ASSUME NEW name, NEW list, NEW i \in DOMAIN list,
         \/ list[i] \notin Commands \cup Options \cup Paths
         \/ list[i] \in Options /\ ~(/\ i + 1 \in DOMAIN list /\ list[i + 1] \in Paths
                                     /\ InRange(list[i], list[i + 1]))
         \/ list[i] \in Paths /\ ~(i - 1 \in DOMAIN list /\ list[i - 1] \in Options)
         \/ list[i] \in Options /\ \E j \in DOMAIN list : j # i /\ list[i] = list[j]
  PROVE  ~ValidArguments(name, list)
BY Zenon DEF ValidArguments

\* On a list that made sense as far as it was read, the checks after the loop decide whether
\* the list as a whole is valid.
LEMMA AppliesExact ==
  ASSUME ApplicationTypes, ReadSoFar
  PROVE  Applies <=> ValidArguments(build.name, arguments)
<1> DEFINE at == DOMAIN arguments
           given == {arguments[i] : i \in at}
           command == invocation.command
<1>0. at = 1..Len(arguments)
  BY DEF ApplicationTypes
<1>1. /\ command \in OfferedCommands \cup {"none"} /\ invocation.supplied \subseteq Options
      /\ OfferedCommands \subseteq Commands
  BY ApplicationAssumption, Zenon DEF ApplicationTypes, Invocations
<1>2. /\ \A i \in at : arguments[i] \in OfferedCommands \cup Options \cup Paths
      /\ \A i \in at : arguments[i] \in Commands => command # "none"
      /\ \A o \in Options : o \in invocation.supplied <=> \E i \in at : arguments[i] = o
  BY <1>0 DEF ReadSoFar, ReadList, OneCommand, Paired, OptionsNoted
<1>3. ASSUME command # "none"
      PROVE  \E k \in at : /\ arguments[k] = command
                           /\ \A i \in at : arguments[i] \in Commands => i = k
  BY <1>3, <1>0, SMTT(30) DEF ReadSoFar, ReadList, OneCommand, Paired, OptionsNoted
<1>4. given \subseteq Commands \cup Options \cup Paths
  BY <1>1, <1>2, Zenon
<1>5. given \cap Options = invocation.supplied
  BY <1>1, <1>2
<1>6. CASE command = "none"
  <2>1. ~Applies
    BY <1>6, Zenon DEF Applies
  <2>2. ASSUME ValidArguments(build.name, arguments) PROVE FALSE
    <3>1. PICK c : /\ {i \in at : arguments[i] \in Commands} = {i \in at : arguments[i] = c}
                   /\ Cardinality({i \in at : arguments[i] = c}) = 1
      BY <2>2, Zenon DEF ValidArguments
    <3>2. {i \in at : arguments[i] \in Commands} = {}
      BY <1>2, <1>6, Zenon
    <3>3. Cardinality({}) = 1
      BY <3>1, <3>2, Zenon
    <3> QED BY <3>3, FS_EmptySet
  <2> QED BY <2>1, <2>2
<1>7. CASE command # "none"
  <2> DEFINE Fit == Printed \cup (IF build.name = "pipeforge-server" THEN {"--serve"} ELSE Demos)
             allowed == IF given \cap Printed # {} THEN Outputs
                        ELSE IF build.name = "pipeforge-server" THEN Options ELSE Options \ {"--sessions"}
  <2>1. PICK k \in at : arguments[k] = command /\ \A i \in at : arguments[i] \in Commands => i = k
    BY <1>3, <1>7
  <2>2. command \in Commands
    BY <1>1, <1>7, Zenon
  <2>3. {i \in at : arguments[i] \in Commands} = {k} /\ {i \in at : arguments[i] = command} = {k}
    BY <2>1, <2>2
  <2>4. given \cap Printed # {} <=> command \in Printed
    <3>1. Printed \subseteq Commands
      BY Zenon DEF Commands
    <3> QED BY <2>1, <3>1, Zenon
  <2>5. (\E c \in Fit : /\ {i \in at : arguments[i] \in Commands} = {i \in at : arguments[i] = c}
                        /\ Cardinality({i \in at : arguments[i] = c}) = 1)
          <=> command \in Fit
    <3>1. ASSUME NEW c, {k} = {i \in at : arguments[i] = c} PROVE c = command
      BY <2>1, <3>1, Zenon
    <3>2. Cardinality({k}) = 1
      BY FS_Singleton, SMTT(30)
    <3> HIDE DEF Fit
    <3> QED BY <2>3, <3>1, <3>2, Zenon
  <2>6. /\ \A i \in at : arguments[i] \in Options =>
             i + 1 \in at /\ arguments[i + 1] \in Paths /\ InRange(arguments[i], arguments[i + 1])
        /\ \A i \in at : arguments[i] \in Paths => i - 1 \in at /\ arguments[i - 1] \in Options
        /\ \A i, j \in at : arguments[i] \in Options /\ arguments[i] = arguments[j] => i = j
    BY <1>0, SMTT(30) DEF ReadSoFar, ReadList, OneCommand, Paired, OptionsNoted
  <2>7. ValidArguments(build.name, arguments) <=> command \in Fit /\ invocation.supplied \subseteq allowed
    BY <1>4, <1>5, <2>5, <2>6, Zenon DEF ValidArguments
  <2>8. Applies <=> command \in Fit /\ invocation.supplied \subseteq allowed
    <3>1. CASE command \in Printed
      BY <1>1, <1>7, <2>4, <3>1, SMTT(30) DEF Applies, Runtime, Outputs, Options, Printed, Demos
    <3>2. CASE command \notin Printed
      <4>1. command = "--serve" \/ command \in Demos
        BY <2>2, <3>2, SMTT(30) DEF Commands
      <4>2. CASE build.name = "pipeforge-server"
        BY <1>1, <1>7, <2>4, <3>2, <4>1, <4>2, SMTT(30) DEF Applies, Runtime, Demos
      <4>3. CASE build.name # "pipeforge-server"
        BY <1>1, <1>7, <2>4, <3>2, <4>1, <4>3, SMTT(30) DEF Applies, Runtime, Demos
      <4> QED BY <4>2, <4>3
    <3> QED BY <3>1, <3>2, SMTT(30)
  <2> QED BY <2>7, <2>8, Zenon
<1> QED BY <1>6, <1>7

\* Reasons to give up on a list whatever follows.
Spoiled(list) ==
  LET n == Len(list) IN
  \/ \E i, j \in 1..n : i # j /\ list[i] \in Commands /\ list[j] \in Commands
  \/ \E i \in 1..n : list[i] \notin Commands \cup Options \cup Paths
  \/ n > 0 /\ list[n] \in Options
  \/ \E i \in 1..(n - 1) : list[i] \in Options /\ ~(list[i + 1] \in Paths /\ InRange(list[i], list[i + 1]))
  \/ \E i \in 1..n : list[i] \in Paths /\ ~(i > 1 /\ list[i - 1] \in Options)
  \/ \E i, j \in 1..n : i # j /\ list[i] \in Options /\ list[i] = list[j]

Continuations == {<<>>} \cup {<<c>> : c \in Commands}

\* A list that is continued keeps what it has, and what is added is a command.
LEMMA Continued ==
  ASSUME NEW a \in Seq(Tokens), NEW more \in Continuations, NEW list, list = a \o more
  PROVE  \E m \in Nat : /\ DOMAIN list = 1..m /\ (m = Len(a) \/ m = Len(a) + 1)
                        /\ \A i \in 1..Len(a) : list[i] = a[i]
                        /\ m = Len(a) + 1 => list[m] \in Commands
<1>1. a \in Seq(Tokens \cup Commands)
  BY SMTT(30)
<1>2. CASE more = <<>>
  <2>1. list = a
    BY <1>2
  <2>2. DOMAIN list = 1..Len(a) /\ Len(a) \in Nat /\ Len(a) # Len(a) + 1
    BY <2>1
  <2> QED BY <2>1, <2>2, Zenon
<1>3. ASSUME NEW c \in Commands, more = <<c>>
      PROVE  \E m \in Nat : /\ DOMAIN list = 1..m /\ (m = Len(a) \/ m = Len(a) + 1)
                            /\ \A i \in 1..Len(a) : list[i] = a[i]
                            /\ m = Len(a) + 1 => list[m] \in Commands
  <2>1. list = Append(a, c)
    BY <1>1, <1>3
  <2>2. /\ DOMAIN list = 1..(Len(a) + 1) /\ Len(a) + 1 \in Nat
        /\ \A i \in 1..Len(a) : list[i] = a[i]
        /\ list[Len(a) + 1] \in Commands
    BY <1>1, <2>1
  <2> QED BY <2>2
<1> QED BY <1>2, <1>3, Zenon DEF Continuations

\* Every reason to give up is one that no command appended to the list removes.
LEMMA SpoiledStays ==
  ASSUME NEW name, NEW a \in Seq(Tokens), Spoiled(a), NEW more \in Continuations
  PROVE  ~ValidArguments(name, a \o more)
<1>1. PICK list : list = a \o more
  BY Zenon
<1>2. PICK m \in Nat : /\ DOMAIN list = 1..m /\ (m = Len(a) \/ m = Len(a) + 1)
                       /\ \A i \in 1..Len(a) : list[i] = a[i]
                       /\ m = Len(a) + 1 => list[m] \in Commands
  BY <1>1, Continued, SMTT(30)
<1>3. PICK n \in Nat : n = Len(a)
  OBVIOUS
<1>4. Commands \cap Paths = {}
  BY ApplicationAssumption, Zenon
<1>5. CASE \E i, j \in 1..n : i # j /\ a[i] \in Commands /\ a[j] \in Commands
  <2>1. PICK i \in 1..n, j \in 1..n : i # j /\ a[i] \in Commands /\ a[j] \in Commands
    BY <1>5
  <2>2. i \in 1..m /\ j \in 1..m /\ list[i] = a[i] /\ list[j] = a[j]
    BY <1>2, <1>3, SMTT(30)
  <2> QED BY <1>1, <1>2, <2>1, <2>2, TwoCommands, Zenon
<1>6. ASSUME NEW i \in 1..n,
             \/ a[i] \notin Commands \cup Options \cup Paths
             \/ i = n /\ a[i] \in Options
             \/ i < n /\ a[i] \in Options /\ ~(a[i + 1] \in Paths /\ InRange(a[i], a[i + 1]))
             \/ a[i] \in Paths /\ ~(i > 1 /\ a[i - 1] \in Options)
             \/ a[i] \in Options /\ \E j \in 1..n : j # i /\ a[i] = a[j]
      PROVE  ~ValidArguments(name, list)
  <2>1. i \in DOMAIN list /\ list[i] = a[i]
    BY <1>2, <1>3
  <2>2. CASE a[i] \notin Commands \cup Options \cup Paths
    BY <2>1, <2>2, BadArgument, Zenon
  <2>3. CASE i = n /\ a[i] \in Options
    <3>1. i + 1 \in DOMAIN list => list[i + 1] \in Commands
      BY <1>2, <1>3, <2>3
    <3>2. ~(i + 1 \in DOMAIN list /\ list[i + 1] \in Paths)
      BY <1>4, <3>1, Zenon
    <3> QED BY <2>1, <2>3, <3>2, BadArgument, Zenon
  <2>4. CASE i < n /\ a[i] \in Options /\ ~(a[i + 1] \in Paths /\ InRange(a[i], a[i + 1]))
    <3>1. list[i + 1] = a[i + 1]
      BY <1>2, <1>3, <2>4
    <3> QED BY <2>1, <2>4, <3>1, BadArgument, Zenon
  <2>5. CASE a[i] \in Paths /\ ~(i > 1 /\ a[i - 1] \in Options)
    <3>1. i - 1 \in DOMAIN list => i > 1 /\ list[i - 1] = a[i - 1]
      BY <1>2, <1>3
    <3> QED BY <2>1, <2>5, <3>1, BadArgument, Zenon
  <2>6. CASE a[i] \in Options /\ \E j \in 1..n : j # i /\ a[i] = a[j]
    <3>1. PICK j \in 1..n : j # i /\ a[i] = a[j]
      BY <2>6
    <3>2. j \in DOMAIN list /\ list[j] = a[j]
      BY <1>2, <1>3
    <3> QED BY <2>1, <2>6, <3>1, <3>2, BadArgument, Zenon
  <2> QED BY <1>6, <2>2, <2>3, <2>4, <2>5, <2>6, SMTT(30)
<1>7. CASE n > 0 /\ a[n] \in Options
  <2>1. n \in 1..n
    BY <1>7
  <2> QED BY <1>1, <1>6, <1>7, <2>1, Zenon
<1>8. CASE \E i \in 1..(n - 1) : a[i] \in Options /\ ~(a[i + 1] \in Paths /\ InRange(a[i], a[i + 1]))
  <2>1. PICK i \in 1..(n - 1) : a[i] \in Options /\ ~(a[i + 1] \in Paths /\ InRange(a[i], a[i + 1]))
    BY <1>8
  <2>2. i \in 1..n /\ i < n
    OBVIOUS
  <2> QED BY <1>1, <1>6, <2>1, <2>2, Zenon
<1>9. CASE \/ \E i \in 1..n : a[i] \notin Commands \cup Options \cup Paths
           \/ \E i \in 1..n : a[i] \in Paths /\ ~(i > 1 /\ a[i - 1] \in Options)
           \/ \E i, j \in 1..n : i # j /\ a[i] \in Options /\ a[i] = a[j]
  BY <1>1, <1>6, <1>9, Zenon
<1> QED BY <1>3, <1>5, <1>7, <1>8, <1>9, Zenon DEF Spoiled

\* The kinds of tokens are disjoint.
LEMMA TokenKinds ==
  /\ Commands \cap Options = {} /\ Commands \cap Paths = {} /\ Options \cap Paths = {}
  /\ "none" \notin Commands
  /\ \A token \in {"--other", ""} : token \notin Commands \cup Options \cup Paths
<1>1. /\ Commands \cap Options = {} /\ "none" \notin Commands
      /\ \A token \in {"--other", ""} : token \notin Commands /\ token \notin Options
  BY DEF Commands, Options, Printed, Demos, Outputs
<1> QED BY <1>1, ApplicationAssumption, Zenon

\* The first command is read.
LEMMA CommandRead ==
  ASSUME NEW a \in Seq(Tokens), NEW given \in Invocations, ReadList(a, given), given.command = "none",
         NEW c \in OfferedCommands
  PROVE  ReadList(Append(a, c), [given EXCEPT !.command = c])
<1>1. PICK b, now : b = Append(a, c) /\ now = [given EXCEPT !.command = c]
  BY Zenon
<1>2. now.command = c /\ now.supplied = given.supplied
  BY <1>1 DEF Invocations
<1>3. PICK n \in Nat, m \in Nat : n = Len(a) /\ m = n + 1
  OBVIOUS
<1>4. c \in Tokens /\ c \in Commands /\ c \notin Options /\ c \notin Paths /\ c # "none"
  BY TokenKinds, ApplicationAssumption, Zenon DEF Tokens, Dashed
<1>5. Len(b) = m /\ (\A i \in 1..n : b[i] = a[i]) /\ b[m] = c
  BY <1>1, <1>3, <1>4, SMTT(30)
<1>6. OneCommand(a, n, "none") /\ Paired(a, n) /\ OptionsNoted(a, n, given.supplied)
  BY <1>3 DEF ReadList
<1>7. /\ \A i \in 1..m : (i \in 1..n /\ b[i] = a[i]) \/ (i = m /\ b[i] = c)
      /\ \A i \in 1..n : i \in 1..m
      /\ m \in 1..m
  BY <1>3, <1>5
<1>8. OneCommand(b, m, c)
  <2>1. \A i \in 1..n : a[i] \notin Commands
    BY <1>6, Zenon DEF OneCommand
  <2>2. \A i \in 1..n : a[i] \in OfferedCommands \cup Options \cup Paths
    BY <1>6, Zenon DEF OneCommand
  <2>3. \A i \in 1..m : b[i] \in Commands => i = m
    BY <1>7, <2>1, Zenon
  <2>4. \A i \in 1..m : b[i] \in OfferedCommands \cup Options \cup Paths
    BY <1>7, <2>2, Zenon
  <2> QED BY <1>4, <1>5, <1>7, <2>3, <2>4, Zenon DEF OneCommand
<1>9. \A i \in 1..m : b[i] \in Options \/ b[i] \in Paths => i \in 1..n /\ b[i] = a[i]
  BY <1>4, <1>7, Zenon
<1>10. Paired(b, m)
  <2>1. ASSUME NEW i \in 1..m, b[i] \in Options
        PROVE  i + 1 \in 1..m /\ b[i + 1] \in Paths /\ InRange(b[i], b[i + 1])
    <3>1. i \in 1..n /\ b[i] = a[i]
      BY <1>9, <2>1, Zenon
    <3>2. i + 1 \in 1..n /\ a[i + 1] \in Paths /\ InRange(a[i], a[i + 1])
      BY <1>6, <2>1, <3>1, Zenon DEF Paired
    <3> QED BY <1>5, <1>7, <3>1, <3>2, Zenon
  <2>2. ASSUME NEW i \in 1..m, b[i] \in Paths PROVE i - 1 \in 1..m /\ b[i - 1] \in Options
    <3>1. i - 1 \in 1..n /\ a[i - 1] \in Options
      BY <1>6, <1>9, <2>2, Zenon DEF Paired
    <3> QED BY <1>5, <1>7, <3>1, Zenon
  <2> QED BY <2>1, <2>2, Zenon DEF Paired
<1>11. OptionsNoted(b, m, given.supplied)
  <2>1. \A i, j \in 1..m : b[i] \in Options /\ b[i] = b[j] => i = j
    BY <1>6, <1>9, Zenon DEF OptionsNoted
  <2>2. ASSUME NEW o \in Options PROVE (\E i \in 1..n : a[i] = o) <=> \E i \in 1..m : b[i] = o
    BY <1>5, <1>7, <1>9, Zenon
  <2> QED BY <1>6, <2>1, <2>2, Zenon DEF OptionsNoted
<1>12. ReadList(b, now)
  BY <1>2, <1>5, <1>8, <1>10, <1>11, Zenon DEF ReadList
<1> QED BY <1>1, <1>12, Zenon

\* An option that was not given yet is read with a value in its range.
LEMMA OptionRead ==
  ASSUME NEW a \in Seq(Tokens), NEW given, ReadList(a, given),
         NEW option \in Options \ given.supplied, NEW value \in Paths, InRange(option, value),
         NEW now, now.command = given.command, now.supplied = given.supplied \cup {option}
  PROVE  ReadList(a \o <<option, value>>, now)
<1>1. PICK b : b = a \o <<option, value>>
  BY Zenon
<1>2. PICK n \in Nat, m \in Nat : n = Len(a) /\ m = n + 2
  OBVIOUS
<1>3. option \in Tokens /\ value \in Tokens
  BY Zenon DEF Tokens, Dashed
<1>4. option \notin Commands /\ option \notin Paths /\ value \notin Commands /\ value \notin Options
  BY TokenKinds, Zenon
<1>5. Len(b) = m /\ (\A i \in 1..n : b[i] = a[i]) /\ b[n + 1] = option /\ b[m] = value
  BY <1>1, <1>2, <1>3, SMTT(30)
<1>6. /\ OneCommand(a, n, given.command) /\ Paired(a, n) /\ OptionsNoted(a, n, given.supplied)
  BY <1>2, SMTT(30) DEF ReadList
<1>7. /\ \A i \in 1..m : \/ i \in 1..n /\ b[i] = a[i]
                         \/ i = n + 1 /\ b[i] = option
                         \/ i = m /\ b[i] = value
      /\ \A i \in 1..n : i \in 1..m
      /\ m \in 1..m /\ n + 1 \in 1..m /\ (n + 1) + 1 = m /\ m - 1 = n + 1
  BY <1>2, <1>5
<1>8. OneCommand(b, m, given.command)
  <2>1. \A i \in 1..m : b[i] \in Commands => i \in 1..n /\ b[i] = a[i]
    BY <1>4, <1>7, Zenon
  <2>2. \A i \in 1..m : b[i] \in OfferedCommands \cup Options \cup Paths
    BY <1>6, <1>7, Zenon DEF OneCommand
  <2> QED BY <1>5, <1>6, <1>7, <2>1, <2>2, Zenon DEF OneCommand
<1>9. /\ \A i \in 1..m : b[i] \in Options => i = n + 1 \/ (i \in 1..n /\ b[i] = a[i])
      /\ \A i \in 1..m : b[i] \in Paths => i = m \/ (i \in 1..n /\ b[i] = a[i])
  BY <1>4, <1>7, Zenon
<1>10. Paired(b, m)
  <2>1. ASSUME NEW i \in 1..m, b[i] \in Options
        PROVE  i + 1 \in 1..m /\ b[i + 1] \in Paths /\ InRange(b[i], b[i + 1])
    <3>1. CASE i = n + 1
      BY <1>5, <1>7, <3>1, Zenon
    <3>2. CASE i \in 1..n /\ b[i] = a[i]
      <4>1. i + 1 \in 1..n /\ a[i + 1] \in Paths /\ InRange(a[i], a[i + 1])
        BY <1>6, <2>1, <3>2, Zenon DEF Paired
      <4> QED BY <1>5, <1>7, <3>2, <4>1, Zenon
    <3> QED BY <1>9, <2>1, <3>1, <3>2, Zenon
  <2>2. ASSUME NEW i \in 1..m, b[i] \in Paths PROVE i - 1 \in 1..m /\ b[i - 1] \in Options
    <3>1. CASE i = m
      BY <1>5, <1>7, <3>1, Zenon
    <3>2. CASE i \in 1..n /\ b[i] = a[i]
      <4>1. i - 1 \in 1..n /\ a[i - 1] \in Options
        BY <1>6, <2>2, <3>2, Zenon DEF Paired
      <4> QED BY <1>5, <1>7, <4>1, Zenon
    <3> QED BY <1>9, <2>2, <3>1, <3>2, Zenon
  <2> QED BY <2>1, <2>2, Zenon DEF Paired
<1>11. OptionsNoted(b, m, now.supplied)
  <2>1. \A i \in 1..n : a[i] # option
    BY <1>6, Zenon DEF OptionsNoted
  <2>2. ASSUME NEW i \in 1..m, NEW j \in 1..m, b[i] \in Options, b[i] = b[j] PROVE i = j
    <3>1. i = n + 1 \/ (i \in 1..n /\ b[i] = a[i])
      BY <1>9, <2>2, Zenon
    <3>2. j = n + 1 \/ (j \in 1..n /\ b[j] = a[j])
      BY <1>9, <2>2, Zenon
    <3> QED BY <1>5, <1>6, <2>1, <2>2, <3>1, <3>2, Zenon DEF OptionsNoted
  <2>3. ASSUME NEW o \in Options
        PROVE  (o = option \/ \E i \in 1..n : a[i] = o) <=> \E i \in 1..m : b[i] = o
    BY <1>5, <1>7, <1>9, Zenon
  <2> QED BY <1>6, <2>2, <2>3, Zenon DEF OptionsNoted
<1>12. ReadList(b, now)
  BY <1>5, <1>8, <1>10, <1>11, Zenon DEF ReadList
<1> QED BY <1>1, <1>12, Zenon

\* Nothing has been read, no scope is open and no code is decided when the program starts.
LEMMA ApplicationStart == ApplicationInit => ApplicationInv
<1> SUFFICES ASSUME ApplicationInit PROVE ApplicationInv
  OBVIOUS
<1>1. /\ phase \in {"library", "parsing"} /\ arguments = <<>> /\ invocation = NoInvocation
      /\ outer = FALSE /\ written = TRUE /\ result = 0 /\ code = Running
      /\ build \in [name : {"pipeforge-client", "pipeforge-server"}, handler : BOOLEAN, profiling : BOOLEAN]
      /\ live = [t \in Threads |-> 0]
  BY Zenon DEF ApplicationInit, Init
<1>2. ApplicationTypes
  <2>1. invocation \in Invocations
    BY <1>1, Zenon DEF NoInvocation, Invocations
  <2>2. build.name \in {"pipeforge-client", "pipeforge-server"}
    BY <1>1
  <2>3. arguments \in Seq(Tokens)
    BY <1>1
  <2> QED BY <1>1, <2>1, <2>2, <2>3, Zenon DEF ApplicationTypes, Quiet
<1>3. ScopePlan
  BY <1>1, Zenon DEF ScopePlan, Single, Working, Quiet
<1>4. ReadSoFar
  <2>1. Len(arguments) = 0 /\ 1..0 = {}
    BY <1>1
  <2>2. invocation.command = "none" /\ invocation.supplied = {}
    BY <1>1 DEF NoInvocation
  <2> QED BY <2>1, <2>2, Zenon DEF ReadSoFar, ReadList, OneCommand, Paired, OptionsNoted
<1>5. Parsing /\ Outcome
  BY <1>1, <1>4 DEF Parsing, Outcome, Running
<1> QED BY <1>2, <1>3, <1>5 DEF ApplicationInv

\* Giving up on a spoiled list.
LEMMA RejectKeeps ==
  ASSUME ApplicationInv, phase = "parsing", Reject, arguments' \in Seq(Tokens), Spoiled(arguments')
  PROVE  ApplicationInv'
<1> USE DEF ApplicationInv
<1>1. /\ phase' = "rejected" /\ code' = 2 /\ UNCHANGED <<invocation, outer, written, result, build>>
      /\ UNCHANGED live
  BY Zenon DEF Reject, vars
<1>2. ApplicationTypes'
  BY <1>1, Zenon DEF ApplicationTypes, Quiet
<1>3. ScopePlan'
  BY <1>1 DEF ScopePlan, Quiet, Single, Working
<1>4. Hopeless'
  <2>1. PICK a, name : a = arguments' /\ name = build.name'
    BY Zenon
  <2>2. \A more \in Continuations : ~ValidArguments(name, a \o more)
    BY <2>1, SpoiledStays, Zenon
  <2> QED BY <2>1, <2>2, Zenon DEF Hopeless, Continuations
<1>5. Parsing' /\ Outcome'
  BY <1>1, <1>4, SMTT(30) DEF Parsing, Outcome, Running
<1> QED BY <1>2, <1>3, <1>5

\* Reading on.
LEMMA ReadKeeps ==
  ASSUME ApplicationInv, phase = "parsing", arguments' \in Seq(Tokens), invocation' \in Invocations,
         ReadSoFar', UNCHANGED <<phase, build, outer, written, result, code, vars>>
  PROVE  ApplicationInv'
<1> USE DEF ApplicationInv
<1>1. UNCHANGED <<live, session, failed, verdict>>
  BY Zenon DEF vars, sinks
<1>2. ApplicationTypes'
  BY Zenon DEF ApplicationTypes
<1>3. ScopePlan'
  BY <1>1, SMTT(30) DEF ScopePlan, Quiet, Single, Working
<1>4. Parsing' /\ Outcome'
  <2>1. code' = 3 /\ phase' = "parsing"
    BY DEF Outcome, Running
  <2> QED BY <2>1 DEF Parsing, Outcome, Running
<1> QED BY <1>2, <1>3, <1>4

\* The parser takes a list it has understood, and gives up only on one that is beyond repair.
LEMMA ParseKeeps ==
  ASSUME ApplicationInv, Parse
  PROVE  ApplicationInv'
<1> USE DEF ApplicationInv
<1>1. phase = "parsing" /\ ReadSoFar
  BY Zenon DEF Parse, Parsing
<1>2. PICK a, given : a = arguments /\ given = invocation
  BY Zenon
<1>3. a \in Seq(Tokens) /\ given \in Invocations /\ ReadList(a, given)
  BY <1>1, <1>2, Zenon DEF ApplicationTypes, ReadSoFar
<1>4. PICK n \in Nat : n = Len(a)
  BY <1>3
<1>5. OneCommand(a, n, given.command) /\ Paired(a, n) /\ OptionsNoted(a, n, given.supplied)
  BY <1>3, <1>4, Zenon DEF ReadList
<1>6. ASSUME NEW token \in Tokens
      PROVE  /\ Append(a, token) \in Seq(Tokens) /\ Len(Append(a, token)) = n + 1
             /\ \A i \in 1..n : Append(a, token)[i] = a[i]
             /\ Append(a, token)[n + 1] = token
  BY <1>3, <1>4, SMTT(30)
<1>7. CASE ReadEnd
  <2>1. /\ UNCHANGED <<arguments, invocation, build, outer, written, result>>
        /\ UNCHANGED <<live, session, failed, verdict>>
        /\ IF Applies THEN phase' = "parsed" /\ code' = code ELSE phase' = "exited" /\ code' = 2
    BY <1>7, Zenon DEF ReadEnd, Exit, vars, sinks
  <2>2. Applies <=> ValidArguments(build.name, arguments)
    BY <1>1, AppliesExact
  <2>3. ApplicationTypes'
    BY <2>1, Zenon DEF ApplicationTypes, Quiet
  <2>4. ScopePlan'
    BY <1>1, <2>1 DEF ScopePlan, Quiet, Single, Working
  <2>5. Parsing'
    BY <2>1, <2>2, SMTT(30) DEF Parsing
  <2>6. Outcome'
    BY <1>1, <2>1 DEF Outcome, Running
  <2> QED BY <2>3, <2>4, <2>5, <2>6
<1>8. ASSUME NEW c \in OfferedCommands, ReadCommand(c) PROVE ApplicationInv'
  <2>1. c \in Tokens /\ c \in Commands
    BY ApplicationAssumption, Zenon DEF Tokens, Dashed
  <2>2. arguments' = Append(a, c)
    BY <1>2, <1>8, Zenon DEF ReadCommand
  <2>3. CASE invocation.command # "none" /\ Reject
    <3>1. PICK k \in 1..n : a[k] \in Commands
      BY <1>2, <1>3, <1>5, <2>3, ApplicationAssumption, Zenon DEF OneCommand, Invocations
    <3>2. Spoiled(Append(a, c))
      <4>1. PICK b : b = Append(a, c)
        BY Zenon
      <4>2. Len(b) = n + 1 /\ b[k] \in Commands /\ b[n + 1] \in Commands
        BY <1>6, <2>1, <3>1, <4>1, Zenon
      <4>3. k \in 1..(n + 1) /\ n + 1 \in 1..(n + 1) /\ k # n + 1
        OBVIOUS
      <4> QED BY <4>1, <4>2, <4>3, Zenon DEF Spoiled
    <3> QED BY <1>1, <1>6, <2>1, <2>2, <2>3, <3>2, RejectKeeps, Zenon
  <2>4. CASE /\ invocation.command = "none"
             /\ invocation' = [invocation EXCEPT !.command = c]
             /\ UNCHANGED <<phase, build, outer, written, result, code, vars>>
    <3>1. ReadList(Append(a, c), [given EXCEPT !.command = c])
      BY <1>2, <1>3, <2>4, CommandRead, Zenon
    <3>2. ReadSoFar'
      BY <1>2, <2>2, <2>4, <3>1, Zenon DEF ReadSoFar
    <3>3. invocation' \in Invocations
      BY <1>2, <1>3, <2>4 DEF Invocations
    <3> QED BY <1>1, <1>6, <2>1, <2>2, <2>4, <3>2, <3>3, ReadKeeps, Zenon
  <2> QED BY <1>8, <2>3, <2>4, Zenon DEF ReadCommand
<1>9. ASSUME NEW option \in Options, ReadOption(option) PROVE ApplicationInv'
  <2>1. option \in Tokens
    BY Zenon DEF Tokens, Dashed
  <2>2. CASE arguments' = Append(arguments, option) /\ Reject
    <3>1. Spoiled(Append(a, option))
      <4>1. PICK b : b = Append(a, option)
        BY Zenon
      <4>2. Len(b) = n + 1 /\ b[n + 1] \in Options
        BY <1>6, <2>1, <4>1, Zenon
      <4>3. n + 1 > 0
        OBVIOUS
      <4> QED BY <4>1, <4>2, <4>3, Zenon DEF Spoiled
    <3> QED BY <1>1, <1>2, <1>6, <2>1, <2>2, <3>1, RejectKeeps, Zenon
  <2>3. ASSUME NEW value \in Tokens, arguments' = arguments \o <<option, value>>,
               IF \/ option \in invocation.supplied \/ value \in Dashed \cup {""}
                  \/ ~Accepts(option, value)
               THEN Reject
               ELSE Supply(option, value) /\ UNCHANGED <<phase, build, outer, written, result, code, vars>>
        PROVE  ApplicationInv'
    <3>1. PICK b : b = a \o <<option, value>>
      BY Zenon
    <3>2. /\ b \in Seq(Tokens) /\ Len(b) = n + 2
          /\ \A i \in 1..n : b[i] = a[i]
          /\ b[n + 1] = option /\ b[n + 2] = value
      BY <1>3, <1>4, <2>1, <3>1, SMTT(30)
    <3>3. /\ n + 1 \in 1..(n + 2) /\ n + 1 \in 1..(n + 2 - 1) /\ (n + 1) + 1 = n + 2
          /\ \A i \in 1..n : i # n + 1 /\ i \in 1..(n + 2)
      OBVIOUS
    <3>4. CASE option \in given.supplied \/ value \in Dashed \cup {""} \/ ~Accepts(option, value)
      <4>1. Spoiled(b)
        <5>1. CASE option \in given.supplied
          <6>1. PICK i \in 1..n : a[i] = option
            BY <1>5, <5>1, Zenon DEF OptionsNoted
          <6>2. b[i] = option /\ b[n + 1] = option /\ i # n + 1 /\ i \in 1..(n + 2)
            BY <3>2, <3>3, <6>1, Zenon
          <6> QED BY <3>2, <3>3, <6>2, Zenon DEF Spoiled
        <5>2. CASE value \in Dashed \cup {""} \/ ~Accepts(option, value)
          <6>1. value \notin Paths \/ ~InRange(option, value)
            BY <5>2, AcceptsExact, TokenKinds, ApplicationAssumption, Zenon DEF Dashed
          <6>2. /\ n + 1 \in 1..(Len(b) - 1)
                /\ b[n + 1] \in Options
                /\ ~(b[(n + 1) + 1] \in Paths /\ InRange(b[n + 1], b[(n + 1) + 1]))
            <7>1. PICK q : q = n + 1
              BY Zenon
            <7>2. q \in 1..(Len(b) - 1) /\ b[q] = option /\ b[q + 1] = value
              BY <3>2, <3>3, <7>1
            <7> QED BY <6>1, <7>1, <7>2, Zenon
          <6> QED BY <6>2, Zenon DEF Spoiled
        <5> QED BY <3>4, <5>1, <5>2, Zenon
      <4>2. Reject
        BY <1>2, <2>3, <3>4, Zenon
      <4> QED BY <1>1, <1>2, <2>3, <3>1, <3>2, <4>1, <4>2, RejectKeeps, Zenon
    <3>5. CASE ~(option \in given.supplied \/ value \in Dashed \cup {""} \/ ~Accepts(option, value))
      <4>1. option \in Options \ given.supplied /\ value \in Paths /\ InRange(option, value)
        BY <3>5, AcceptsExact, Zenon DEF Tokens
      <4>2. Supply(option, value) /\ UNCHANGED <<phase, build, outer, written, result, code, vars>>
        BY <1>2, <2>3, <3>5, Zenon
      <4>3. PICK now : now = [given EXCEPT !.supplied = @ \cup {option},
                                          !.log = IF option = "--log-file" THEN value ELSE @,
                                          !.trace = IF option = "--trace-file" THEN value ELSE @]
        BY Zenon
      <4>4. now \in Invocations /\ now.command = given.command /\ now.supplied = given.supplied \cup {option}
        BY <1>3, <4>1, <4>3, Zenon DEF Invocations
      <4>5. invocation' = now
        BY <1>2, <4>2, <4>3, Zenon DEF Supply
      <4>6. ReadList(b, now)
        BY <1>3, <3>1, <4>1, <4>4, OptionRead, Zenon
      <4>7. ReadSoFar'
        BY <1>2, <2>3, <3>1, <4>5, <4>6, Zenon DEF ReadSoFar
      <4> QED BY <1>1, <1>2, <2>3, <3>1, <3>2, <4>2, <4>4, <4>5, <4>7, ReadKeeps, Zenon
    <3> QED BY <3>4, <3>5, Zenon
  <2> QED BY <1>9, <2>2, <2>3, Zenon DEF ReadOption
<1>10. ASSUME NEW token \in Tokens \ (OfferedCommands \cup Options), ReadOther(token) PROVE ApplicationInv'
  <2>1. arguments' = Append(a, token) /\ Reject
    BY <1>2, <1>10, Zenon DEF ReadOther
  <2>2. token \notin Commands \cup Options \cup Paths \/ token \in Paths
    BY TokenKinds, Zenon DEF Tokens, Dashed
  <2>3. PICK b : b = Append(a, token)
    BY Zenon
  <2>4. Len(b) = n + 1 /\ b[n + 1] = token /\ \A i \in 1..n : b[i] = a[i]
    BY <1>6, <2>3, Zenon
  <2>5. ~((n + 1) > 1 /\ b[(n + 1) - 1] \in Options)
    <3>1. (n + 1) > 1 => n \in 1..n
      OBVIOUS
    <3>2. (n + 1) - 1 = n /\ n + 1 \notin 1..n
      OBVIOUS
    <3>3. ~(n \in 1..n /\ a[n] \in Options)
      BY <1>5, <3>2, Zenon DEF Paired
    <3> QED BY <2>4, <3>1, <3>2, <3>3, Zenon
  <2>6. n + 1 \in 1..(n + 1)
    OBVIOUS
  <2>7. Spoiled(b)
    BY <2>2, <2>4, <2>5, <2>6, Zenon DEF Spoiled
  <2> QED BY <1>1, <1>6, <2>1, <2>3, <2>7, RejectKeeps, Zenon
<1> QED BY <1>7, <1>8, <1>9, <1>10, Zenon DEF Parse

\* What a profiling scope does to the scopes of the threads.
LEMMA ScopeEffects ==
  ASSUME DiagnosticInv, NEW t \in Threads
  PROVE  /\ BeginScope(t) => live' = live \/ live' = [live EXCEPT ![t] = @ + 1]
         /\ EndScope(t) => live[t] > 0 /\ live' = [live EXCEPT ![t] = @ - 1]
         /\ Log => live' = live
BY Zenon DEF BeginScope, Admit, Drop, EndScope, Log

\* While the command runs only the scopes and its own outcome change.
LEMMA CommandKeeps ==
  ASSUME ApplicationInv, phase \notin {"parsing", "rejected", "parsed", "exited", "library", "unwinding"},
         phase' \in {"announcing", "printing", "printed", "completed", "leaving", "finishing"} \cup Working,
         UNCHANGED <<build, arguments, invocation, code>>,
         outer' \in BOOLEAN, written' \in BOOLEAN, result' \in {0, 1},
         phase' \in {"printing", "printed"} => ~Runtime,
         phase' \in {"returning", "completed", "leaving", "finishing"} /\ result' = 0 /\ Runtime => written',
         ScopePlan'
  PROVE  ApplicationInv'
<1> USE DEF ApplicationInv
<1>1. ApplicationTypes'
  BY Zenon DEF ApplicationTypes, Quiet, Single
<1>2. phase' \notin {"parsing", "rejected", "parsed", "exited", "library", "unwinding"}
  BY DEF Working
<1>3. Parsing'
  BY <1>2 DEF Parsing
<1>4. code' = 3
  BY DEF Outcome, Running
<1>5. Outcome'
  BY <1>4 DEF Outcome, Running, Runtime
<1> QED BY <1>1, <1>3, <1>5

\* Before the command: unsupported requests, the session's constructor.
LEMMA OpeningKeeps ==
  ASSUME DiagnosticInv, ApplicationInv, RejectUnsupported \/ OpenSession
  PROVE  ApplicationInv'
<1> USE DEF ApplicationInv
<1>1. phase = "parsed" /\ code = 3
  BY DEF RejectUnsupported, OpenSession, Outcome, Running
<1>2. CASE RejectUnsupported
  <2>1. /\ phase' = "exited" /\ code' = 2 /\ Unsupported
        /\ UNCHANGED <<build, arguments, invocation, outer, written, result>> /\ UNCHANGED live
    BY <1>2, Zenon DEF RejectUnsupported, Exit, vars
  <2>2. ApplicationTypes'
    BY <2>1, Zenon DEF ApplicationTypes, Quiet
  <2>3. ScopePlan'
    BY <1>1, <2>1 DEF ScopePlan, Quiet, Single, Working
  <2>4. Unsupported'
    BY <2>1, Zenon DEF Unsupported, Runtime
  <2>5. Parsing' /\ Outcome'
    BY <2>1, <2>4, SMTT(30) DEF Parsing, Outcome, Running
  <2> QED BY <2>2, <2>3, <2>5
<1>3. CASE OpenSession
  <2>1. /\ UNCHANGED <<build, outer, written, result>> /\ arguments' = <<>>
        /\ invocation' = [invocation EXCEPT !.supplied = {}]
        /\ UNCHANGED live
        /\ \/ session' = "open" /\ phase' = "entering" /\ code' = code
           \/ session' = "refused" /\ phase' = "exited" /\ code' = 1
    BY <1>3, Zenon DEF OpenSession, Construct, Goto, Exit
  <2>2. arguments' \in Seq(Tokens)
    BY <2>1
  <2>3. invocation' \in Invocations
    BY <2>1 DEF ApplicationTypes, Invocations
  <2>4. ApplicationTypes'
    BY <2>1, <2>2, <2>3, Zenon DEF ApplicationTypes, Quiet
  <2>5. ScopePlan'
    BY <1>1, <2>1 DEF ScopePlan, Quiet, Single, Working
  <2>6. Parsing' /\ Outcome'
    BY <1>1, <2>1 DEF Parsing, Outcome, Running
  <2> QED BY <2>4, <2>5, <2>6
<1> QED BY <1>2, <1>3

\* session.finish() finds every scope ended, so only a failure makes it return false.
LEMMA FinishKeeps ==
  ASSUME DiagnosticInv, ApplicationInv, FinishSession
  PROVE  ApplicationInv'
<1> USE DEF ApplicationInv
<1>1. /\ phase = "finishing" /\ phase' = "unwinding" /\ code = 3 /\ Finish
      /\ code' = IF verdict' = "complete" THEN result ELSE 1
      /\ UNCHANGED <<build, arguments, invocation, outer, written, result>> /\ UNCHANGED live
  BY DEF FinishSession, Goto, Finish, Outcome, Running
<1>2. active = 0
  <2>1. \A t \in Threads : live[t] = 0
    BY <1>1 DEF ScopePlan, Quiet
  <2> QED BY <2>1, NoneOpen, SMTT(30) DEF DiagnosticInv
<1>3. verdict' = IF failed' THEN "failed" ELSE "complete"
  BY <1>1, <1>2, Zenon DEF Finish
<1>4. ApplicationTypes'
  BY <1>1, Zenon DEF ApplicationTypes, Quiet
<1>5. ScopePlan'
  BY <1>1, SMTT(30) DEF ScopePlan, Quiet, Single, Working
<1>6. Parsing'
  BY <1>1 DEF Parsing
<1>7. result = 0 \/ result = 1
  BY DEF ApplicationTypes
<1>8. Outcome'
  <2>1. CASE code' = 0
    BY <1>1, <1>3, <2>1, SMTT(30) DEF Outcome, Runtime, Running
  <2>2. CASE code' = 1
    BY <1>1, <1>3, <2>2, SMTT(30) DEF Outcome, Runtime, Running
  <2> QED BY <1>1, <1>7, <2>1, <2>2, SMTT(30)
<1> QED BY <1>4, <1>5, <1>6, <1>8, SMTT(30)

\* The session's destructor changes nothing that finish() called complete, and forgets no failure.
LEMMA UnwindKeeps ==
  ASSUME DiagnosticInv, ApplicationInv, Unwind
  PROVE  ApplicationInv'
<1> USE DEF ApplicationInv
<1>1. /\ phase = "unwinding" /\ phase' = "exited" /\ session = "open" /\ code # 2
      /\ UNCHANGED <<build, arguments, invocation, outer, written, result, code>>
      /\ UNCHANGED <<live, verdict>>
  BY DEF Unwind, Goto, Steady, Destroy, Outcome
<1>2. failed => failed'
  BY Zenon DEF Unwind, Destroy, Finalize, DiagnosticInv, DiagnosticTypes
<1>3. ApplicationTypes'
  BY <1>1, Zenon DEF ApplicationTypes, Quiet
<1>4. ScopePlan'
  BY <1>1, SMTT(30) DEF ScopePlan, Quiet, Single, Working
<1>5. Parsing'
  BY <1>1, SMTT(30) DEF Parsing
<1>6. Outcome'
  BY <1>1, <1>2, SMTT(30) DEF Outcome, Runtime
<1> QED BY <1>3, <1>4, <1>5, <1>6

\* Between two phases inside the command, a step that opens and ends no scope keeps the plan.
LEMMA PlanKept ==
  ASSUME ScopePlan, UNCHANGED <<live, outer>>, phase \in Single \cup Working, phase' \in Single \cup Working,
         phase' \in Single => phase \in Single \/ Joined
  PROVE  ScopePlan'
<1>1. phase' \notin Quiet /\ phase' # "printed"
  BY DEF Single, Working, Quiet
<1>2. live[Main] = OuterScope /\ (phase' \in Single => Joined)
  BY Zenon DEF ScopePlan
<1>3. live'[Main] = OuterScope' /\ (phase' \in Single => Joined')
  BY <1>2, Zenon DEF OuterScope, Joined
<1> QED BY <1>1, <1>3, Zenon DEF ScopePlan

\* The command's own steps: scopes nest, and what was written decides the result.
LEMMA CommandSteps ==
  ASSUME DiagnosticInv, ApplicationInv,
         \/ EnterCommand \/ Announce \/ print_command \/ EndPrint
         \/ HandlerFails \/ ScenarioPasses \/ ServerReady \/ InputEnds \/ ServerStopped \/ HandlerReturns
         \/ Complete \/ LeaveCommand
  PROVE  ApplicationInv'
<1>1. Main \in Threads /\ Workers \subseteq Threads /\ Main \notin Workers /\ Threads = Workers \cup {Main}
  BY ApplicationAssumption, Zenon DEF Workers
<1>2. live \in [Threads -> Nat] /\ outer \in BOOLEAN /\ written \in BOOLEAN /\ result \in {0, 1} /\ ScopePlan
  BY Zenon DEF DiagnosticInv, DiagnosticTypes, ApplicationTypes, ApplicationInv
<1>3. Scoped => live' = live \/ live' = [live EXCEPT ![Main] = @ + 1]
  BY <1>1, ScopeEffects, Zenon DEF Scoped, vars
<1>4. Log => live' = live
  BY <1>1, ScopeEffects, Zenon
<1>5. UNCHANGED vars => live' = live
  BY Zenon DEF vars
<1>6. CASE EnterCommand
  <2>1. /\ phase = "entering" /\ phase' = "announcing" /\ outer' = (live'[Main] > 0)
        /\ UNCHANGED <<build, arguments, invocation, written, result, code>>
        /\ live' = live \/ live' = [live EXCEPT ![Main] = @ + 1]
    BY <1>3, <1>6, Zenon DEF EnterCommand, Goto
  <2>2. \A t \in Threads : live[t] = 0
    BY <1>2, <2>1 DEF ScopePlan, Quiet
  <2>3. live'[Main] \in {0, 1} /\ \A t \in Workers : live'[t] = 0
    BY <1>1, <1>2, <2>1, <2>2
  <2>4. outer' \in BOOLEAN /\ live'[Main] = OuterScope'
    <3>1. CASE live'[Main] = 0
      <4>1. (live'[Main] > 0) = FALSE
        BY <3>1
      <4>2. outer' = FALSE
        BY <2>1, <4>1, Zenon
      <4> QED BY <3>1, <4>2, Zenon DEF OuterScope
    <3>2. CASE live'[Main] = 1
      <4>1. (live'[Main] > 0) = TRUE
        BY <3>2
      <4>2. outer' = TRUE
        BY <2>1, <4>1, Zenon
      <4> QED BY <3>2, <4>2, Zenon DEF OuterScope
    <3> QED BY <2>3, <3>1, <3>2
  <2>5. ScopePlan'
    <3>1. phase' \notin Quiet /\ phase' # "printed"
      BY <2>1 DEF Quiet
    <3> QED BY <2>3, <2>4, <3>1, Zenon DEF ScopePlan, Joined
  <2> QED BY <1>2, <2>1, <2>4, <2>5, CommandKeeps
<1>7. CASE Announce
  <2>1. /\ phase = "announcing" /\ phase' = (IF Runtime THEN "running" ELSE "printing")
        /\ UNCHANGED <<build, arguments, invocation, outer, written, result, code>> /\ live' = live
    BY <1>4, <1>7, Zenon DEF Announce, Goto, Steady
  <2>2. ScopePlan'
    BY <1>2, <2>1, PlanKept DEF Single, Working
  <2>3. phase' \in {"running", "printing"} /\ (phase' = "printing" => ~Runtime)
    BY <2>1
  <2> QED BY <1>2, <2>1, <2>2, <2>3, CommandKeeps DEF Working
<1>8. CASE print_command
  <2>1. /\ phase = "printing" /\ phase' = "printed" /\ written' \in BOOLEAN
        /\ UNCHANGED <<build, arguments, invocation, outer, result, code>>
        /\ live' = live \/ live' = [live EXCEPT ![Main] = @ + 1]
    BY <1>3, <1>8, Zenon DEF print_command, Goto
  <2>2. live[Main] = OuterScope /\ \A t \in Workers : live[t] = 0
    BY <1>2, <2>1 DEF ScopePlan, Single, Joined
  <2>3. live'[Main] \in {OuterScope, OuterScope + 1} /\ \A t \in Workers : live'[t] = 0
    BY <1>1, <1>2, <2>1, <2>2
  <2>4. ScopePlan'
    <3>1. phase' \notin Quiet \cup Single \cup Working
      BY <2>1 DEF Quiet, Single, Working
    <3>2. OuterScope' = OuterScope
      BY <2>1, Zenon DEF OuterScope
    <3> QED BY <2>3, <3>1, <3>2, Zenon DEF ScopePlan, Joined
  <2>5. ~Runtime
    BY <2>1 DEF ApplicationInv, Outcome
  <2> QED BY <1>2, <2>1, <2>4, <2>5, CommandKeeps
<1>9. CASE EndPrint
  <2>1. /\ phase = "printed" /\ phase' = "completed"
        /\ UNCHANGED <<build, arguments, invocation, outer, written, result, code>>
        /\ (Inner > 0 /\ live' = [live EXCEPT ![Main] = @ - 1]) \/ (~(Inner > 0) /\ live' = live)
    BY <1>1, <1>5, <1>9, ScopeEffects, Zenon DEF EndPrint, Goto, Steady
  <2>2. live[Main] \in {OuterScope, OuterScope + 1} /\ \A t \in Workers : live[t] = 0
    BY <1>2, <2>1 DEF ScopePlan, Joined
  <2>3. OuterScope \in {0, 1} /\ Inner = live[Main] - OuterScope /\ OuterScope' = OuterScope
    BY <1>2, <2>1, Zenon DEF OuterScope, Inner
  <2>4. live'[Main] = OuterScope /\ \A t \in Workers : live'[t] = 0
    BY <1>1, <1>2, <2>1, <2>2, <2>3
  <2>5. ScopePlan'
    <3>1. phase' \notin Quiet \cup {"printed"}
      BY <2>1 DEF Quiet
    <3> QED BY <2>3, <2>4, <3>1, Zenon DEF ScopePlan, Joined
  <2>6. ~Runtime
    BY <2>1 DEF ApplicationInv, Outcome
  <2> QED BY <1>2, <2>1, <2>5, <2>6, CommandKeeps
<1>10. CASE HandlerFails
  <2>1. /\ phase = "running" /\ phase' = "returning"
        /\ UNCHANGED <<build, arguments, invocation, outer, code>> /\ live' = live
        /\ result' = 1 /\ written' = written
    BY <1>5, <1>10, Zenon DEF HandlerFails, Goto, Steady
  <2>2. ScopePlan'
    BY <1>2, <2>1, PlanKept DEF Single, Working
  <2> QED BY <1>2, <2>1, <2>2, CommandKeeps DEF Working
<1>11. CASE ScenarioPasses
  <2>1. /\ phase = "running" /\ phase' = "returning"
        /\ UNCHANGED <<build, arguments, invocation, outer, code>> /\ live' = live
        /\ written' \in BOOLEAN /\ result' = (IF written' THEN 0 ELSE 1)
    BY <1>5, <1>11, Zenon DEF ScenarioPasses, Goto, Steady
  <2>2. ScopePlan'
    BY <1>2, <2>1, PlanKept DEF Single, Working
  <2>3. result' \in {0, 1} /\ (result' = 0 => written')
    BY <2>1
  <2> QED BY <1>2, <2>1, <2>2, <2>3, CommandKeeps DEF Working
<1>12. CASE ServerReady
  <2>1. /\ phase = "running" /\ phase' \in {"serving", "returning"}
        /\ UNCHANGED <<build, arguments, invocation, outer, code>> /\ live' = live
        /\ written' \in BOOLEAN /\ (result' = result \/ result' = 1) /\ (phase' = "returning" => result' = 1)
    BY <1>5, <1>12, Zenon DEF ServerReady, Goto, Steady
  <2>2. ScopePlan'
    BY <1>2, <2>1, PlanKept DEF Single, Working
  <2> QED BY <1>2, <2>1, <2>2, CommandKeeps DEF Working
<1>13. CASE InputEnds
  <2>1. /\ phase = "serving" /\ phase' = "stopping"
        /\ UNCHANGED <<build, arguments, invocation, outer, code>> /\ live' = live
        /\ result' \in {0, 1} /\ written' = written
    BY <1>5, <1>13, Zenon DEF InputEnds, Goto, Steady
  <2>2. ScopePlan'
    BY <1>2, <2>1, PlanKept DEF Single, Working
  <2> QED BY <1>2, <2>1, <2>2, CommandKeeps DEF Working
<1>14. CASE ServerStopped
  <2>1. /\ phase = "stopping" /\ phase' = "completed"
        /\ UNCHANGED <<build, arguments, invocation, outer, code>> /\ live' = live
        /\ written' \in BOOLEAN /\ result' = (IF written' THEN result ELSE 1) /\ Joined
    BY <1>5, <1>14, Zenon DEF ServerStopped, Goto, Steady
  <2>2. ScopePlan'
    BY <1>2, <2>1, PlanKept DEF Single, Working
  <2>3. result' \in {0, 1} /\ (result' = 0 => written')
    BY <1>2, <2>1
  <2> QED BY <1>2, <2>1, <2>2, <2>3, CommandKeeps DEF Working
<1>15. CASE HandlerReturns
  <2>1. /\ phase = "returning" /\ phase' = "completed"
        /\ UNCHANGED <<build, arguments, invocation, outer, code>> /\ live' = live
        /\ result' = result /\ written' = written /\ Joined
    BY <1>5, <1>15, Zenon DEF HandlerReturns, Goto, Steady
  <2>2. ScopePlan'
    BY <1>2, <2>1, PlanKept DEF Single, Working
  <2>3. result = 0 /\ Runtime => written
    BY <2>1 DEF ApplicationInv, Outcome
  <2> QED BY <1>2, <2>1, <2>2, <2>3, CommandKeeps DEF Working
<1>16. CASE Complete
  <2>1. /\ phase = "completed" /\ phase' = "leaving"
        /\ UNCHANGED <<build, arguments, invocation, outer, code>> /\ live' = live
        /\ result' = result /\ written' = written
    BY <1>4, <1>16, Zenon DEF Complete, Goto, Steady
  <2>2. ScopePlan'
    BY <1>2, <2>1, PlanKept DEF Single, Working
  <2>3. result = 0 /\ Runtime => written
    BY <2>1 DEF ApplicationInv, Outcome
  <2> QED BY <1>2, <2>1, <2>2, <2>3, CommandKeeps DEF Working
<1>17. CASE LeaveCommand
  <2>1. /\ phase = "leaving" /\ phase' = "finishing"
        /\ UNCHANGED <<build, arguments, invocation, outer, written, result, code>>
        /\ (outer /\ live' = [live EXCEPT ![Main] = @ - 1]) \/ (~outer /\ live' = live)
    BY <1>1, <1>5, <1>17, ScopeEffects, Zenon DEF LeaveCommand, Goto, Steady
  <2>2. live[Main] = OuterScope /\ \A t \in Workers : live[t] = 0
    BY <1>2, <2>1 DEF ScopePlan, Single, Joined
  <2>3. (outer => OuterScope = 1) /\ (~outer => OuterScope = 0)
    BY Zenon DEF OuterScope
  <2>4. \A t \in Threads : live'[t] = 0
    <3>1. CASE outer
      <4>1. live[Main] = 1 /\ live' = [live EXCEPT ![Main] = @ - 1]
        BY <2>1, <2>2, <2>3, <3>1, Zenon
      <4> QED BY <1>1, <1>2, <2>2, <4>1
    <3>2. CASE ~outer
      <4>1. live[Main] = 0 /\ live' = live
        BY <2>1, <2>2, <2>3, <3>2, Zenon
      <4> QED BY <1>1, <1>2, <2>2, <4>1
    <3> QED BY <3>1, <3>2
  <2>5. ScopePlan'
    BY <2>1, <2>4 DEF ScopePlan, Single, Working
  <2>6. result = 0 /\ Runtime => written
    BY <2>1 DEF ApplicationInv, Outcome
  <2> QED BY <1>2, <2>1, <2>5, <2>6, CommandKeeps
<1> QED BY <1>6, <1>7, <1>8, <1>9, <1>10, <1>11, <1>12, <1>13, <1>14, <1>15, <1>16, <1>17, Zenon

\* The command's threads: their scopes and messages leave the main thread's alone.
LEMMA WorkKeeps ==
  ASSUME DiagnosticInv, ApplicationInv, NEW t \in Workers, Work(t)
  PROVE  ApplicationInv'
<1> USE DEF ApplicationInv
<1>1. t \in Threads /\ Main \in Threads /\ t # Main
  BY ApplicationAssumption, Zenon DEF Workers
<1>2. /\ phase \in Working /\ UNCHANGED <<phase, build, arguments, invocation, outer, written, result, code>>
      /\ \/ live' = live \/ live' = [live EXCEPT ![t] = @ + 1] \/ live' = [live EXCEPT ![t] = @ - 1]
  BY <1>1, ScopeEffects, Zenon DEF Work, appVars, Working
<1>3. live'[Main] = live[Main]
  BY <1>1, <1>2, SMTT(30) DEF DiagnosticInv, DiagnosticTypes
<1>4. ScopePlan'
  BY <1>2, <1>3, SMTT(30) DEF ScopePlan, OuterScope, Single, Quiet, Working
<1>5. /\ phase \notin {"parsing", "rejected", "parsed", "exited", "library", "unwinding", "printing", "printed"}
      /\ outer \in BOOLEAN /\ written \in BOOLEAN /\ result \in {0, 1}
  BY <1>2 DEF Working, ApplicationTypes
<1>6. phase \in {"returning", "completed", "leaving", "finishing"} /\ result = 0 /\ Runtime => written
  BY SMTT(30) DEF Outcome
<1> QED BY <1>2, <1>4, <1>5, <1>6, CommandKeeps, Zenon

\* Every step of the program keeps its invariant and is an operation of the session, or none.
LEMMA ApplicationStep ==
  ASSUME DiagnosticInv, ApplicationInv, [ApplicationNext]_<<vars, appVars>>
  PROVE  ApplicationInv' /\ [Next]_vars
<1> USE DEF ApplicationInv
<1>1. CASE UNCHANGED <<vars, appVars>>
  <2>1. ApplicationInv'
    <3>1. /\ UNCHANGED <<phase, build, arguments, invocation, outer, written, result, code>>
          /\ UNCHANGED <<live, session, failed, verdict>>
      BY <1>1, Zenon DEF vars, sinks, counters, appVars
    <3>2. ApplicationTypes'
      BY <3>1, Zenon DEF ApplicationTypes
    <3>3. ScopePlan'
      BY <3>1, Zenon DEF ScopePlan, Joined, OuterScope
    <3>4. Parsing'
      BY <3>1, Zenon DEF Parsing, ReadSoFar, Hopeless, Unsupported, Runtime
    <3>5. Outcome'
      BY <3>1, Zenon DEF Outcome, Runtime
    <3> QED BY <3>2, <3>3, <3>4, <3>5, SMTT(30)
  <2> QED BY <1>1, <2>1, SMTT(30)
<1>2. CASE Library
  <2>1. phase = "library" /\ Next /\ UNCHANGED <<phase, build, arguments, invocation, outer, written, result, code>>
    BY <1>2, Zenon DEF Library, appVars
  <2>2. ApplicationTypes'
    BY <2>1, Zenon DEF ApplicationTypes
  <2>3. ScopePlan' /\ Parsing'
    BY <2>1, SMTT(30) DEF ScopePlan, Parsing, Quiet, Single, Working
  <2>4. Outcome'
    BY <2>1 DEF Outcome, Running
  <2> QED BY <2>1, <2>2, <2>3, <2>4, SMTT(30)
<1>3. CASE Parse
  <2>1. UNCHANGED vars
    BY <1>3, Zenon DEF Parse, ReadEnd, ReadCommand, ReadOption, ReadOther, Reject
  <2> QED BY <1>3, <2>1, ParseKeeps
<1>4. CASE RejectUnsupported
  BY <1>4, OpeningKeeps, Zenon DEF RejectUnsupported
<1>5. CASE OpenSession
  <2>1. Next
    <3>1. invocation.log \in Paths \cup {NoPath} /\ invocation.trace \in Paths \cup {NoPath}
      BY DEF ApplicationTypes, Invocations
    <3> QED BY <1>5, <3>1, Zenon DEF OpenSession, Next
  <2> QED BY <1>5, <2>1, OpeningKeeps
<1>6. CASE EnterCommand \/ print_command
  <2>1. Scoped => [Next]_vars
    BY ApplicationAssumption, Zenon DEF Scoped, Next
  <2>2. Scoped
    BY <1>6, Zenon DEF EnterCommand, print_command
  <2> QED BY <1>6, <2>1, <2>2, CommandSteps
<1>7. CASE Announce \/ Complete
  <2>1. Next
    BY <1>7, Zenon DEF Announce, Complete, Next
  <2> QED BY <1>7, <2>1, CommandSteps
<1>8. CASE EndPrint \/ LeaveCommand
  <2>1. EndScope(Main) \/ UNCHANGED vars
    BY <1>8, Zenon DEF EndPrint, LeaveCommand
  <2>2. [Next]_vars
    BY <2>1, ApplicationAssumption, Zenon DEF Next
  <2> QED BY <1>8, <2>2, CommandSteps
<1>9. CASE HandlerFails \/ ScenarioPasses \/ ServerReady \/ InputEnds \/ ServerStopped \/ HandlerReturns
  <2>1. UNCHANGED vars
    BY <1>9, Zenon DEF HandlerFails, ScenarioPasses, ServerReady, InputEnds, ServerStopped, HandlerReturns
  <2> QED BY <1>9, <2>1, CommandSteps
<1>10. CASE FinishSession
  BY <1>10, FinishKeeps, Zenon DEF FinishSession, Next
<1>11. CASE Unwind
  BY <1>11, UnwindKeeps, Zenon DEF Unwind, Next
<1>12. ASSUME NEW t \in Workers, Work(t) PROVE ApplicationInv' /\ [Next]_vars
  <2>1. t \in Threads
    BY Zenon DEF Workers
  <2>2. Next
    BY <1>12, <2>1, Zenon DEF Work, Next
  <2> QED BY <1>12, <2>2, WorkKeeps
<1> QED BY <1>1, <1>2, <1>3, <1>4, <1>5, <1>6, <1>7, <1>8, <1>9, <1>10, <1>11, <1>12, SMTT(30)
        DEF ApplicationNext, RunApplication

-----------------------------------------------------------------------------
(* The results. *)

\* The application drives its diagnostic session only through the session's operations, and
\* both invariants hold throughout.
THEOREM ApplicationInvariance == ApplicationSpec => [](DiagnosticInv /\ ApplicationInv)
<1>1. ApplicationInit => DiagnosticInv /\ ApplicationInv
  BY DiagnosticInit, ApplicationStart, SMTT(30) DEF ApplicationInit
<1>2. DiagnosticInv /\ ApplicationInv /\ [ApplicationNext]_<<vars, appVars>>
        => (DiagnosticInv /\ ApplicationInv)'
  BY ApplicationStep, DiagnosticStep
<1> QED BY <1>1, <1>2, PTL DEF ApplicationSpec

\* Every behaviour of the application is, for its diagnostic session, a behaviour of
\* Diagnostics: the library's guarantees carry over.
THEOREM ApplicationUsesDiagnostics == ApplicationSpec => Spec
<1>1. ApplicationInit => Init
  BY DEF ApplicationInit
<1>2. DiagnosticInv /\ ApplicationInv /\ [ApplicationNext]_<<vars, appVars>> => [Next]_vars
  BY ApplicationStep
<1> QED BY <1>1, <1>2, ApplicationInvariance, PTL DEF ApplicationSpec, Spec

\* A scope that is still open finds its trace: the destructor never writes to a sink that
\* finish() or the end of the session took away.
THEOREM OpenScopeSafety == ApplicationSpec => []OpenScopeHasTrace
<1>1. DiagnosticInv => OpenScopeHasTrace
  <2> SUFFICES ASSUME DiagnosticInv, NEW t \in Threads, live[t] > 0 PROVE tracing
    BY DEF OpenScopeHasTrace
  <2>1. live[t] # 0
    BY DEF DiagnosticInv, DiagnosticTypes
  <2>2. active # 0
    BY <2>1, NoneOpen, SMTT(30) DEF DiagnosticInv
  <2> QED BY <2>2 DEF DiagnosticInv, SinksOpen
<1> QED BY <1>1, ApplicationInvariance, PTL

\* When finish() has returned true, the trace is well formed and accounts for every scope.
THEOREM CompletenessSafety == ApplicationSpec => []CompleteMeansComplete
<1>1. DiagnosticInv => CompleteMeansComplete
  <2> SUFFICES ASSUME DiagnosticInv, verdict = "complete", Traced
               PROVE  /\ WellFormed /\ Len(document) = admitted + 3
                      /\ document[Len(document)].dropped = begun - admitted
    BY DEF CompleteMeansComplete
  <2>1. ~failed /\ ~first /\ active = 0 /\ ~tracing
    BY Zenon DEF DiagnosticInv, SinksOpen, Traced
  <2>2. /\ EventsWritten(document, admitted - active) /\ Len(document) = admitted - active + 3
        /\ document[Len(document)] = Trailer(dropped)
    BY <2>1, Zenon DEF DiagnosticInv, DocumentExact
  <2>3. admitted \in Nat /\ dropped \in Nat /\ begun = admitted + dropped
    BY DEF DiagnosticInv, DiagnosticTypes, ScopesCounted
  <2>4. admitted - active = admitted
    BY <2>1, <2>3, SMTT(30)
  <2>5. Len(document) = admitted + 3 /\ EventsWritten(document, admitted)
    BY <2>2, <2>4
  <2>6. /\ document[Len(document)].kind = "trailer"
        /\ document[Len(document)].dropped = dropped
    BY <2>2, <2>3, RecordFacts, Zenon
  <2>7. WellFormed
    <3>1. Len(document) >= 3 /\ Len(document) - 1 = admitted + 2
      BY <2>3, <2>5
    <3> QED BY <2>5, <2>6, <3>1, Zenon DEF WellFormed, EventsWritten
  <2>8. begun - admitted = dropped
    BY <2>3
  <2> QED BY <2>5, <2>6, <2>7, <2>8, Zenon
<1> QED BY <1>1, ApplicationInvariance, PTL

\* The exit codes mean what run_application documents, for any arguments, any threads the
\* command starts and any failure of an output.
THEOREM ExitSafety == ApplicationSpec => []ExitTruthful
<1>1. DiagnosticInv /\ ApplicationInv => ExitTruthful
  <2> SUFFICES ASSUME DiagnosticInv, ApplicationInv PROVE ExitTruthful
    OBVIOUS
  <2> USE DEF ApplicationInv
  <2>1. phase = "parsed" => ValidArguments(build.name, arguments)
    BY Zenon DEF Parsing
  <2>2. phase = "rejected" => Hopeless
    BY Zenon DEF Parsing
  <2>3. ASSUME code = 2, ValidArguments(build.name, arguments) PROVE Unsupported
    <3>1. phase # "rejected"
      <4>1. arguments \o <<>> = arguments
        BY DEF ApplicationTypes
      <4> QED BY <2>2, <2>3, <4>1, Zenon DEF Hopeless
    <3>2. phase = "exited"
      BY <2>3, <3>1 DEF Outcome
    <3> QED BY <2>3, <3>2, Zenon DEF Parsing
  <2>4. code = 1 => session = "refused" \/ failed \/ result = 1
    BY Zenon DEF Outcome
  <2>5. code = 0 => result = 0 /\ ~failed /\ verdict = "complete" /\ (written \/ ~Runtime)
    BY Zenon DEF Outcome, DiagnosticInv, SinksOpen
  <2> QED BY <2>1, <2>2, <2>3, <2>4, <2>5, Zenon DEF ExitTruthful, Hopeless
<1> QED BY <1>1, ApplicationInvariance, PTL
=============================================================================
