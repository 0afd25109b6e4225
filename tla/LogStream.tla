------------------------------ MODULE LogStream -----------------------------
(* A module's log handler, which ships records to core over a client       *)
(* stream and falls back to stderr.  A handler derived with WithAttrs or   *)
(* WithGroup takes the stream over, with a mutex and a broken flag of its  *)
(* own.  gRPC does not allow two Sends on a stream at the same time; what  *)
(* they then do is left open, and such a run is marked raced.              *)
EXTENDS Naturals, Sequences

CONSTANTS
    Root, Derived,      \* the module's logger, and those derived from it
    NoHandler, NoStream,
    MaxRecords          \* bound: records logged

Handlers == {Root} \cup Derived
Streams == 1..MaxRecords    \* a stream is named after the record it was opened for
HandlerStates == [stream : Streams \cup {NoStream}, broken : BOOLEAN]

ASSUME LogAssumption ==
    MaxRecords \in Nat /\ NoStream \notin Streams /\ NoHandler \notin HandlerStates

VARIABLES
    handler,    \* [stream, broken], or NoHandler before it is derived
    sending,    \* records whose Send is under way: [record, by, on]
    wire,       \* what was sent on a stream and not yet received
    coreLog,    \* what core re-emitted: [record, by]
    stderr,     \* the records that fell back
    connected,  \* the connection is there
    seen,       \* gRPC has told the streams that it is not
    \* history
    logged,     \* records handled so far
    taken,      \* records Send returned nil for
    raced       \* two Sends on one stream overlapped

ends == <<coreLog, stderr>>
logVars == <<handler, sending, wire, ends, connected, seen, logged, taken, raced>>

LogInit ==
    /\ handler = [h \in Handlers |-> IF h = Root THEN [stream |-> NoStream, broken |-> FALSE]
                                                 ELSE NoHandler]
    /\ sending = {} /\ wire = [s \in Streams |-> << >>]
    /\ coreLog = << >> /\ stderr = {}
    /\ connected = TRUE /\ seen = FALSE
    /\ logged = 0 /\ taken = {} /\ raced = FALSE

\* The handler's mutex is free.
Unlocked(h) == handler[h] # NoHandler /\ \A send \in sending : send.by # h

\* The stream a handler opened is kept for its next record.
Kept(s) == s

\* send, up to Send itself: a stream is opened unless the handler has one.
Handle(h) ==
    /\ Unlocked(h) /\ logged < MaxRecords
    /\ logged' = logged + 1
    /\ ~handler[h].broken /\ (handler[h].stream = NoStream => ~seen)
    /\ LET on == IF handler[h].stream = NoStream THEN logged' ELSE handler[h].stream
       IN /\ handler' = [handler EXCEPT ![h].stream = IF @ = NoStream THEN Kept(on) ELSE @]
          /\ sending' = sending \cup {[record |-> logged', by |-> h, on |-> on]}
          /\ raced' = (raced \/ \E send \in sending : send.on = on)
    /\ UNCHANGED <<wire, ends, connected, seen, taken>>

\* The handler is broken, or the stream cannot be opened.
FallBack(h) ==
    /\ Unlocked(h) /\ logged < MaxRecords
    /\ handler[h].broken \/ (handler[h].stream = NoStream /\ seen)
    /\ logged' = logged + 1
    /\ stderr' = stderr \cup {logged'}
    /\ handler' = [handler EXCEPT ![h].broken = TRUE]
    /\ UNCHANGED <<sending, wire, coreLog, connected, seen, taken, raced>>

\* Send returns nil once the record is on its way, if only into a
\* connection that is gone.
Sent(send) ==
    /\ send \in sending /\ ~seen
    /\ sending' = sending \ {send}
    /\ \/ connected /\ wire' = [wire EXCEPT ![send.on] = Append(@, send)]
       \/ (~connected \/ raced) /\ UNCHANGED wire
    /\ taken' = taken \cup {send.record}
    /\ UNCHANGED <<handler, ends, connected, seen, logged, raced>>

Fallback_Swallowed(record) == stderr

\* Handle gives the record to the fallback when send reports failure.
Fallback(record) == stderr \cup {record}

\* Send returns an error: the handler gives its stream up for good.
SendFails(send) ==
    /\ send \in sending /\ seen
    /\ sending' = sending \ {send}
    /\ stderr' = Fallback(send.record)
    /\ handler' = [handler EXCEPT ![send.by] = [stream |-> NoStream, broken |-> TRUE]]
    /\ UNCHANGED <<wire, coreLog, connected, seen, logged, taken, raced>>

\* WithAttrs and WithGroup.
With(h, d) ==
    /\ Unlocked(h) /\ handler[d] = NoHandler
    /\ handler' = [handler EXCEPT ![d] = [stream |-> handler[h].stream, broken |-> FALSE]]
    /\ UNCHANGED <<sending, wire, ends, connected, seen, logged, taken, raced>>

\* logServer.Write receives and re-emits.
Receive(s) ==
    /\ wire[s] # << >>
    /\ wire' = [wire EXCEPT ![s] = Tail(@)]
    /\ coreLog' = Append(coreLog, [record |-> Head(wire[s]).record, by |-> Head(wire[s]).by])
    /\ UNCHANGED <<handler, sending, stderr, connected, seen, logged, taken, raced>>

\* Core dies, or its server stops, with all that was on its way ...
Disconnect ==
    /\ connected /\ connected' = FALSE
    /\ wire' = [s \in Streams |-> << >>]
    /\ UNCHANGED <<handler, sending, ends, seen, logged, taken, raced>>

\* ... and gRPC notices.
Notice ==
    /\ ~connected /\ ~seen /\ seen' = TRUE
    /\ UNCHANGED <<handler, sending, wire, ends, connected, logged, taken, raced>>

LogNext ==
    \/ Disconnect \/ Notice
    \/ \E h \in Handlers : Handle(h) \/ FallBack(h) \/ \E d \in Derived : With(h, d)
    \/ \E send \in sending : Sent(send) \/ SendFails(send)
    \/ \E s \in Streams : Receive(s)

LogSpec == LogInit /\ [][LogNext]_logVars

----------------------------------------------------------------------------

OnWire == UNION {{wire[s][i].record : i \in 1..Len(wire[s])} : s \in Streams}
AtCore == {coreLog[i].record : i \in 1..Len(coreLog)}
UnderWay == {send.record : send \in sending}

\* "logging must never be lost because the wire hiccuped" (loghandler.go:16): every record a
\* module logged is at core, on its way there, or on stderr.
LogNeverLost == 1..logged = OnWire \cup AtCore \cup UnderWay \cup stderr

\* A record whose Send does not return nil is on stderr, and only there; what Send took is at
\* core or on its way as long as the connection holds and no two handlers were in Send on one
\* stream at a time (loghandler.go:78); and core has a handler's records in the order they were
\* logged, each once, whoever else logs on the same stream (hostserv.go:411).
LogsAccounted ==
    /\ 1..logged = UnderWay \cup stderr \cup taken
    /\ stderr \cap (UnderWay \cup taken) = {} /\ UnderWay \cap taken = {}
    /\ OnWire \cup AtCore \subseteq taken
    /\ connected /\ ~raced => taken \subseteq OnWire \cup AtCore
    /\ \A i, j \in 1..Len(coreLog) :
          i < j /\ coreLog[i].by = coreLog[j].by => coreLog[i].record < coreLog[j].record

=============================================================================
