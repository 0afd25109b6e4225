------------------------------ MODULE StubHost ------------------------------
(* The host services of the harness (sdk/modulesdk/testkit/hostdata.go,    *)
(* hostserver.go): the policy document with its watchers, and the event    *)
(* bus, where fan-out happens outside the lock.  Callers are the test and  *)
(* the module's RPCs.                                                      *)
EXTENDS Patterns, Functions

CONSTANTS
    Callers,        \* goroutines in SetPolicy or Publish
    Watchers,       \* Watch streams
    Listeners,      \* Subscribe streams
    StubTopics,     \* full topics
    StubPatterns,   \* sets of patterns a module may subscribe with
    StubCap,        \* capacity of subscriber.ch, 64 in the code
    MaxRevision,    \* bound: SetPolicy calls
    MaxRecorded     \* bound: events published

\* A topic is a module's, so it is never a star alone.
ASSUME StubHostAssumption ==
    /\ StubTopics \subseteq Seq(STRING) /\ <<Star>> \notin StubTopics
    /\ \A pats \in StubPatterns : pats \subseteq Seq(STRING)

VARIABLES
    policyRevision, policyWatchers,
    ring,           \* a SetPolicy call: watchers left to wake
    notify,         \* a watcher's channel holds a wake-up
    watch,          \* a Watch stream: "closed", "reading", "sending", "parked" or "gone"
    inHand,         \* the revision it read
    sent,
    shown           \* history: the revision the module was sent last, plus one

policyVars == <<policyRevision, policyWatchers, ring, notify, watch, inHand, sent, shown>>
watcher == <<notify, watch, inHand, sent, shown>>

VARIABLES
    events, subscribers,
    fanout,         \* a Publish call: the event's index and the subscribers left
    patterns, ch,   \* subscriber
    \* history
    from,           \* events recorded before the subscription
    seen, lost      \* indexes of the events taken from ch, and of those that found it full

listener == <<patterns, ch, from, seen, lost>>
eventVars == <<events, subscribers, fanout, listener>>

PolicyInit ==
    /\ policyRevision = 0 /\ policyWatchers = << >>
    /\ ring = [c \in Callers |-> << >>]
    /\ notify = [w \in Watchers |-> FALSE]
    /\ watch = [w \in Watchers |-> "closed"]
    /\ inHand = [w \in Watchers |-> 0]
    /\ sent = [w \in Watchers |-> 0]
    /\ shown = [w \in Watchers |-> 0]

Idle == [event |-> 0, left |-> << >>]

EventsInit ==
    /\ events = << >> /\ subscribers = << >>
    /\ fanout = [c \in Callers |-> Idle]
    /\ patterns = [l \in Listeners |-> {}]
    /\ ch = [l \in Listeners |-> << >>]
    /\ from = [l \in Listeners |-> 0]
    /\ seen = [l \in Listeners |-> {}]
    /\ lost = [l \in Listeners |-> {}]

----------------------------------------------------------------------------
(* Policy *)

\* SetPolicy, up to the unlock.
SetPolicy(c) ==
    /\ ring[c] = << >> /\ policyRevision < MaxRevision
    /\ policyRevision' = policyRevision + 1
    /\ ring' = [ring EXCEPT ![c] = policyWatchers]
    /\ UNCHANGED <<policyWatchers, watcher>>

\* A wake-up that finds one pending is dropped.
WakeOne(c) ==
    /\ ring[c] # << >>
    /\ notify' = [notify EXCEPT ![Head(ring[c])] = TRUE]
    /\ ring' = [ring EXCEPT ![c] = Tail(@)]
    /\ UNCHANGED <<policyRevision, policyWatchers, watch, inHand, sent, shown>>

\* Watch: registered, for good, before the first read.
OpenWatch(w) ==
    /\ watch[w] = "closed"
    /\ policyWatchers' = Append(policyWatchers, w)
    /\ watch' = [watch EXCEPT ![w] = "reading"]
    /\ UNCHANGED <<policyRevision, ring, notify, inHand, sent, shown>>

Due_Later(w) == policyRevision > sent[w]

Due(w) == policyRevision >= sent[w]

ReadPolicy(w) ==
    /\ watch[w] = "reading"
    /\ inHand' = [inHand EXCEPT ![w] = policyRevision]
    /\ watch' = [watch EXCEPT ![w] = IF Due(w) THEN "sending" ELSE "parked"]
    /\ UNCHANGED <<policyRevision, policyWatchers, ring, notify, sent, shown>>

SendPolicy(w) ==
    /\ watch[w] = "sending"
    /\ sent' = [sent EXCEPT ![w] = inHand[w] + 1]
    /\ shown' = [shown EXCEPT ![w] = inHand[w] + 1]
    /\ watch' = [watch EXCEPT ![w] = "parked"]
    /\ UNCHANGED <<policyRevision, policyWatchers, ring, notify, inHand>>

Woken(w) ==
    /\ watch[w] = "parked" /\ notify[w]
    /\ notify' = [notify EXCEPT ![w] = FALSE]
    /\ watch' = [watch EXCEPT ![w] = "reading"]
    /\ UNCHANGED <<policyRevision, policyWatchers, ring, inHand, sent, shown>>

\* The context is done, or Send fails; nothing unregisters the watcher.
CloseWatch(w) ==
    /\ watch[w] \in {"sending", "parked"}
    /\ watch' = [watch EXCEPT ![w] = "gone"]
    /\ UNCHANGED <<policyRevision, policyWatchers, ring, notify, inHand, sent, shown>>

PolicyNext ==
    \/ \E c \in Callers : SetPolicy(c) \/ WakeOne(c)
    \/ \E w \in Watchers :
          OpenWatch(w) \/ ReadPolicy(w) \/ SendPolicy(w) \/ Woken(w) \/ CloseWatch(w)

PolicySpec == PolicyInit /\ [][PolicyNext]_policyVars

----------------------------------------------------------------------------
(* Events *)

\* "*" alone is one byte: no glob here, unlike the bus of core.
topicMatches(pats, topic) ==
    \E p \in pats :
        p = topic \/ (Len(p) > 1 /\ IsGlob(p) /\ HasPrefix(topic, CutStar(p)))

\* Publish, up to the unlock.
Record(c, topic) ==
    /\ fanout[c] = Idle /\ Len(events) < MaxRecorded
    /\ events' = Append(events, topic)
    /\ fanout' = [fanout EXCEPT ![c] =
                    IF subscribers = << >> THEN Idle
                    ELSE [event |-> Len(events) + 1, left |-> subscribers]]
    /\ UNCHANGED <<subscribers, listener>>

\* The next subscriber: a full one loses the event.
StubOffer(c) ==
    /\ fanout[c] # Idle
    /\ LET i == fanout[c].event
           l == Head(fanout[c].left)
           wanted == topicMatches(patterns[l], events[i])
           full == Len(ch[l]) >= StubCap
       IN /\ ch' = [ch EXCEPT ![l] = IF wanted /\ ~full THEN Append(@, i) ELSE @]
          /\ lost' = [lost EXCEPT ![l] = IF wanted /\ full THEN @ \cup {i} ELSE @]
          /\ fanout' = [fanout EXCEPT ![c] = IF Len(@.left) = 1 THEN Idle
                                             ELSE [event |-> i, left |-> Tail(@.left)]]
    /\ UNCHANGED <<events, subscribers, patterns, from, seen>>

\* subscribe: no allow-list, and registered for good.
StubSubscribe(l, pats) ==
    /\ l \notin Range(subscribers)
    /\ subscribers' = Append(subscribers, l)
    /\ patterns' = [patterns EXCEPT ![l] = pats]
    /\ from' = [from EXCEPT ![l] = Len(events)]
    /\ UNCHANGED <<events, fanout, ch, seen, lost>>

\* The Subscribe stream sends on. One that has gone no longer does.
Take(l) ==
    /\ ch[l] # << >>
    /\ seen' = [seen EXCEPT ![l] = @ \cup {Head(ch[l])}]
    /\ ch' = [ch EXCEPT ![l] = Tail(@)]
    /\ UNCHANGED <<events, subscribers, fanout, patterns, from, lost>>

EventsNext ==
    \/ \E c \in Callers : (\E t \in StubTopics : Record(c, t)) \/ StubOffer(c)
    \/ \E l \in Listeners : (\E pats \in StubPatterns : StubSubscribe(l, pats)) \/ Take(l)

EventsSpec == EventsInit /\ [][EventsNext]_eventVars

----------------------------------------------------------------------------

\* A Watch stream that sleeps with no wake-up on its way has sent the document in force: none of
\* the reads, sends and wake-ups of concurrent SetPolicy calls loses the last one (hostserver.go:115).
StubWatchIsCurrent ==
    \A w \in Watchers :
        watch[w] = "parked" /\ ~notify[w] /\ (\A c \in Callers : w \notin Range(ring[c]))
            => shown[w] = policyRevision + 1

\* Of the events recorded since it subscribed, a listener is offered the ones the bus of core
\* would offer it, and no other, however calls of Publish overlap; a pattern "*" apart, which
\* matches everything there and nothing here (hostdata.go:185, bus.go:90).
StubDeliversAsCore ==
    \A l \in Range(subscribers) : \A i \in (from[l] + 1)..Len(events) :
        \/ \E c \in Callers : fanout[c].event = i /\ l \in Range(fanout[c].left)
        \/ i \in Range(ch[l]) \cup seen[l] \cup lost[l]
              <=> matches(patterns[l] \ {<<Star>>}, events[i])

\* A module under test meets the host services of core: its watch ends with the document in
\* force, and its subscriptions get the events core's bus would give them.
StubServesAsCore == StubWatchIsCurrent /\ StubDeliversAsCore
=============================================================================
