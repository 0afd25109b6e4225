------------------------------- MODULE Inbound ------------------------------
(* Inbound hypervisor messages: Mux.deliver, called by the channel's one   *)
(* read loop, and the Receive streams of a module (transport.go and        *)
(* hostserv's transportServer.Receive).                                    *)
EXTENDS Naturals, Sequences

CONSTANTS
    Receivers,      \* Receive streams of the addressed module
    InboundBuffer,  \* inboundBuffer, 64 in the code
    MaxInbound      \* bound: messages the host sends

VARIABLES
    arrived,        \* messages read off the wire; a message is its number
    carrying,       \* the message deliver is fanning out, 0 when it is not
    targets,        \* receivers of its copy of subs still to be offered the message
    recv,           \* a stream: "closed", "open" or "ended" (its context is done)
    subs,           \* Mux.subs
    shut,           \* channels that are closed
    buffer,         \* the channels
    lastIn,         \* history: the message each stream received last
    panicked        \* the process is gone

inboundVars == <<arrived, carrying, targets, recv, subs, shut, buffer, lastIn, panicked>>

InboundInit ==
    /\ arrived = 0 /\ carrying = 0 /\ targets = {}
    /\ recv = [r \in Receivers |-> "closed"]
    /\ subs = {} /\ shut = {}
    /\ buffer = [r \in Receivers |-> << >>]
    /\ lastIn = [r \in Receivers |-> 0]
    /\ panicked = FALSE

\* deliver copies the module's receivers under subMu and lets go of it.
Deliver ==
    /\ carrying = 0
    /\ arrived < MaxInbound
    /\ arrived' = arrived + 1
    /\ carrying' = IF subs = {} THEN 0 ELSE arrived'
    /\ targets' = subs
    /\ UNCHANGED <<recv, subs, shut, buffer, lastIn, panicked>>

Full(r) == Len(buffer[r]) >= InboundBuffer

Offer_Blocking(r) ==
    /\ ~Full(r)
    /\ buffer' = [buffer EXCEPT ![r] = Append(@, carrying)]

\* The send does not block: a full channel drops the message.
Offer(r) ==
    buffer' = [buffer EXCEPT ![r] = IF Full(r) THEN @ ELSE Append(@, carrying)]

\* One receiver after the other; a send to a closed channel panics.
DeliverOne ==
    /\ carrying # 0
    /\ \E r \in targets :
        /\ targets' = targets \ {r}
        /\ carrying' = IF targets' = {} THEN 0 ELSE carrying
        /\ \/ r \notin shut /\ Offer(r) /\ UNCHANGED panicked
           \/ r \in shut /\ panicked' = TRUE /\ UNCHANGED buffer
    /\ UNCHANGED <<arrived, recv, subs, shut, lastIn>>

\* Mux.Receive registers a fresh channel.
OpenReceive(r) ==
    /\ recv[r] = "closed"
    /\ r \notin subs \cup targets
    /\ recv' = [recv EXCEPT ![r] = "open"]
    /\ subs' = subs \cup {r}
    /\ shut' = shut \ {r}
    /\ UNCHANGED <<arrived, carrying, targets, buffer, lastIn, panicked>>

\* transportServer.Receive forwards a message to the module.
Forward(r) ==
    /\ recv[r] = "open"
    /\ buffer[r] # << >>
    /\ lastIn' = [lastIn EXCEPT ![r] = Head(buffer[r])]
    /\ buffer' = [buffer EXCEPT ![r] = Tail(@)]
    /\ UNCHANGED <<arrived, carrying, targets, recv, subs, shut, panicked>>

\* The stream's context ends: the handler returns.
CancelReceive(r) ==
    /\ recv[r] = "open"
    /\ recv' = [recv EXCEPT ![r] = "ended"]
    /\ UNCHANGED <<arrived, carrying, targets, subs, shut, buffer, lastIn, panicked>>

\* Receive's goroutine takes the channel out of subs under subMu ...
Unregister(r) ==
    /\ recv[r] = "ended"
    /\ r \in subs
    /\ subs' = subs \ {r}
    /\ UNCHANGED <<arrived, carrying, targets, recv, shut, buffer, lastIn, panicked>>

\* ... and closes it.
CloseChannel(r) ==
    /\ recv[r] = "ended"
    /\ r \notin subs
    /\ shut' = shut \cup {r}
    /\ recv' = [recv EXCEPT ![r] = "closed"]
    /\ buffer' = [buffer EXCEPT ![r] = << >>]
    /\ lastIn' = [lastIn EXCEPT ![r] = 0]
    /\ UNCHANGED <<arrived, carrying, targets, subs, panicked>>

InboundStep(r) == Forward(r) \/ Unregister(r) \/ CloseChannel(r)

----------------------------------------------------------------------------

\* Each stream receives the messages in the order they were read off the wire, none twice,
\* however the fan-out interleaves with streams that come and go (transport.go:113).
InboundInOrder ==
    \A r \in Receivers : recv[r] = "open" =>
        /\ \A i \in 1..Len(buffer[r]) : buffer[r][i] > lastIn[r]
        /\ \A i, j \in 1..Len(buffer[r]) : i < j => buffer[r][i] < buffer[r][j]

\* "A slow or absent subscriber does not block the loop": with no help from any receiver the
\* read loop always gets back to the wire (transport.go:148).
LoopNeverBlocks == carrying # 0 ~> carrying = 0 \/ panicked

\* "the send is non-blocking and a full/missing channel drops the message with a warning"
\* (transport.go:149): a stream that goes away never takes the process with it.
GoneReceiverIsHarmless == ~panicked
=============================================================================
