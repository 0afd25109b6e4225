----------------------------- MODULE HostStreams ----------------------------
(* The server streams hostserv keeps open to a module, in one process: the *)
(* event subscriptions and the inbound transport messages.  A panic of the *)
(* read loop ends both.                                                    *)
EXTENDS EventBus, Inbound, FiniteSetsExt

CONSTANT MaxLoad    \* bound: events published and messages read off the wire together

vars == <<busVars, inboundVars>>

Init == BusInit /\ InboundInit

Load == arrived + MapThenSumSet(LAMBDA t : seq[t], Topics)

ReadLoop ==
    /\ ~panicked
    /\ DeliverOne
    /\ UNCHANGED busVars

ReceiveStream(r) ==
    /\ ~panicked
    /\ InboundStep(r)
    /\ UNCHANGED busVars

EventStream(s) ==
    /\ ~panicked
    /\ BusStep(s)
    /\ UNCHANGED inboundVars

\* Modules publish, open and cancel streams, the host sends.
Environment ==
    /\ ~panicked
    /\ \/ /\ \/ Load < MaxLoad /\ \E t \in Topics : Publish(t)
             \/ \E s \in Subs : CancelEvents(s) \/ \E request \in Requests : Subscribe(s, request)
          /\ UNCHANGED inboundVars
       \/ /\ \/ Load < MaxLoad /\ Deliver
             \/ \E r \in Receivers : OpenReceive(r) \/ CancelReceive(r)
          /\ UNCHANGED busVars

Next ==
    \/ ReadLoop \/ Environment
    \/ \E r \in Receivers : ReceiveStream(r)
    \/ \E s \in Subs : EventStream(s)

Spec == Init /\ [][Next]_vars

\* The goroutines run; receivers are under no obligation for what is asked of the read loop.
Fairness == WF_vars(ReadLoop) /\ \A s \in Subs : WF_vars(EventStream(s))

FairSpec == Spec /\ Fairness

----------------------------------------------------------------------------

\* Every event published to a matching topic since a stream subscribed was received, is on its
\* way, or is counted by Dropped: none disappears unnoticed (bus.go:53).
LossesCounted ==
    \A s \in Subs : sub[s] = "open" =>
        meant[s] = got[s] + Len(hand[s]) + Len(feed[s]) + dropped[s]

\* A stream's module can trust what it is given: only topics its manifest lists (hostserv.go:291),
\* events and inbound messages in order and none twice (bus.go:20, transport.go:113), and no
\* event gone uncounted.
StreamsFaithful == OnlyAllowed /\ InSequence /\ LossesCounted /\ InboundInOrder

\* What the bus accepted for a stream reaches its module unless the stream ends (hostserv.go:303).
EventsArrive ==
    \A s \in Subs : feed[s] # << >> /\ sub[s] = "open" ~> feed[s] = << >> \/ sub[s] # "open" \/ panicked

\* No stream holds up another: the read loop gets back to the wire with no help from a receiver
\* (transport.go:148), and what the bus accepted reaches a stream that stays open (hostserv.go:303).
StreamsMoveOn == LoopNeverBlocks /\ EventsArrive
=============================================================================
