------------------------------ MODULE EventBus ------------------------------
(* The event bus (internal/eventbus/bus.go) with hostserv's Publish and    *)
(* Subscribe handlers and the SDK's receiving goroutine.                   *)
EXTENDS Patterns

CONSTANTS
    Subs,           \* subscription streams
    Owner(_),       \* the module of a stream
    Topics,         \* full topics, the publishing module's id first
    Requests,       \* the sets of patterns a module may ask for at once
    AllowLists,     \* Subscribes lists of a manifest
    FeedCap,        \* capacity of a subscription's channel, 64 in the code
    MaxEvents       \* bound: events published on one topic

ASSUME EventBusConstants ==
    /\ Topics \subseteq Seq(STRING)
    /\ \A request \in Requests : request \subseteq Seq(STRING)
    /\ \A list \in AllowLists : list \subseteq Seq(STRING) /\ \A p \in list : WellFormed(p)
    /\ FeedCap \in Nat \ {0} /\ MaxEvents \in Nat

VARIABLES
    seq,            \* Bus.seq
    allow,          \* eventsServer.allow of each stream's module
    sub,            \* a stream: "closed", "open" or "ending"
    topics,         \* Subscription.topics
    feed,           \* Subscription.ch
    dropped,        \* Subscription.dropped
    hand,           \* the event in stream.Send
    \* history
    meant,          \* events published since to topics the stream asked for
    got,            \* events received
    last            \* the sequence received last, by topic

subscription == <<sub, topics, feed, dropped, hand>>
busHistory == <<meant, got, last>>
busVars == <<seq, allow, subscription, busHistory>>

Event(t, n) == [topic |-> t, sequence |-> n]

BusInit ==
    /\ seq = [t \in Topics |-> 0]
    /\ allow \in [Subs -> AllowLists]
    /\ \A s, r \in Subs : Owner(s) = Owner(r) => allow[s] = allow[r]
    /\ sub = [s \in Subs |-> "closed"]
    /\ topics = [s \in Subs |-> {}]
    /\ feed = [s \in Subs |-> << >>]
    /\ dropped = [s \in Subs |-> 0]
    /\ hand = [s \in Subs |-> << >>]
    /\ meant = [s \in Subs |-> 0]
    /\ got = [s \in Subs |-> 0]
    /\ last = [s \in Subs |-> [t \in Topics |-> 0]]

----------------------------------------------------------------------------
(* The bus *)

Registered(s) == sub[s] # "closed"

Loss_Uncounted(s) == dropped[s]

\* A full subscriber loses the event; dropped counts it.
Loss(s) == dropped[s] + 1

\* Publish: stamped and offered to every matching subscriber under one lock.
Publish(topic) ==
    /\ seq[topic] < MaxEvents
    /\ seq' = [seq EXCEPT ![topic] = @ + 1]
    /\ LET wants(s) == Registered(s) /\ matches(topics[s], topic)
           full(s) == Len(feed[s]) >= FeedCap
       IN /\ feed' = [s \in Subs |-> IF wants(s) /\ ~full(s)
                                     THEN Append(feed[s], Event(topic, seq[topic] + 1))
                                     ELSE feed[s]]
          /\ dropped' = [s \in Subs |-> IF wants(s) /\ full(s) THEN Loss(s) ELSE dropped[s]]
          /\ meant' = [s \in Subs |-> IF wants(s) THEN meant[s] + 1 ELSE meant[s]]
    /\ UNCHANGED <<allow, sub, topics, hand, got, last>>

\* eventsServer.Subscribe: every pattern authorised, then registered with an empty feed.
Subscribe(s, request) ==
    /\ sub[s] = "closed"
    /\ \A topic \in request : topicAllowed(topic, allow[s])
    /\ sub' = [sub EXCEPT ![s] = "open"]
    /\ topics' = [topics EXCEPT ![s] = request]
    /\ last' = [last EXCEPT ![s] = seq]
    /\ UNCHANGED <<seq, allow, feed, dropped, hand, meant, got>>

\* The channel is first in, first out.
Pick(s) == 1

Rest(s, n) == SubSeq(feed[s], 1, n - 1) \o SubSeq(feed[s], n + 1, Len(feed[s]))

Ready(s) == feed[s] # << >>

\* The handler takes an event and sends it.
TakeEvent(s) ==
    /\ sub[s] = "open"
    /\ Ready(s) /\ hand[s] = << >>
    /\ hand' = [hand EXCEPT ![s] = <<feed[s][Pick(s)]>>]
    /\ feed' = [feed EXCEPT ![s] = Rest(s, Pick(s))]
    /\ UNCHANGED <<seq, allow, sub, topics, dropped, busHistory>>

\* The module's goroutine receives it.
ReceiveEvent(s) ==
    /\ sub[s] = "open"
    /\ hand[s] # << >>
    /\ got' = [got EXCEPT ![s] = @ + 1]
    /\ last' = [last EXCEPT ![s][hand[s][1].topic] = hand[s][1].sequence]
    /\ hand' = [hand EXCEPT ![s] = << >>]
    /\ UNCHANGED <<seq, allow, sub, topics, feed, dropped, meant>>

\* The stream's context ends, or a send fails; the subscription is still registered.
CancelEvents(s) ==
    /\ sub[s] = "open"
    /\ sub' = [sub EXCEPT ![s] = "ending"]
    /\ UNCHANGED <<seq, allow, topics, feed, dropped, hand, busHistory>>

\* The deferred sub.Close.
CloseEvents(s) ==
    /\ sub[s] = "ending"
    /\ sub' = [sub EXCEPT ![s] = "closed"]
    /\ topics' = [topics EXCEPT ![s] = {}]
    /\ feed' = [feed EXCEPT ![s] = << >>]
    /\ dropped' = [dropped EXCEPT ![s] = 0]
    /\ hand' = [hand EXCEPT ![s] = << >>]
    /\ got' = [got EXCEPT ![s] = 0]
    /\ meant' = [meant EXCEPT ![s] = 0]
    /\ last' = [last EXCEPT ![s] = [t \in Topics |-> 0]]
    /\ UNCHANGED <<seq, allow>>

BusStep(s) == TakeEvent(s) \/ ReceiveEvent(s) \/ CloseEvents(s)

----------------------------------------------------------------------------

\* Every event a stream holds or will receive is of a topic its module's manifest lists,
\* whatever pattern the module asked for (hostserv.go:291: without the check "a module could
\* subscribe to "*" and firehose every other module's events").
OnlyAllowed ==
    \A s \in Subs : \A i \in 1..Len(feed[s]) : matches(allow[s], feed[s][i].topic)

\* A subscriber receives each topic's events in rising sequence and none twice, through drops,
\* its own slowness and other publishers (bus.go:20).
InSequence ==
    \A s \in Subs :
        /\ \A i \in 1..Len(feed[s]) : feed[s][i].sequence > last[s][feed[s][i].topic]
        /\ \A i, j \in 1..Len(feed[s]) :
            i < j /\ feed[s][i].topic = feed[s][j].topic => feed[s][i].sequence < feed[s][j].sequence
        /\ \A i \in 1..Len(hand[s]) :
            /\ hand[s][i].sequence > last[s][hand[s][i].topic]
            /\ \A j \in 1..Len(feed[s]) :
                hand[s][i].topic = feed[s][j].topic => hand[s][i].sequence < feed[s][j].sequence
=============================================================================
