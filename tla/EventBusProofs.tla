--------------------------- MODULE EventBusProofs ---------------------------
(***************************************************************************)
(* Ordering and authorisation of the event streams, for every set of       *)
(* topics, streams, patterns and manifests and every channel capacity;     *)
(* and the records of a module's log stream, for any number of them.       *)
(***************************************************************************)
EXTENDS HostStreams, LogStream, SequenceTheorems, TLAPS

Stamped == [topic : Topics, sequence : Nat]

\* What the invariant says of one stream.
StreamTyped(s) ==
    /\ allow[s] \in AllowLists
    /\ sub[s] \in {"closed", "open", "ending"}
    /\ topics[s] \subseteq Seq(STRING)
    /\ feed[s] \in Seq(Stamped)
    /\ hand[s] \in Seq(Stamped) /\ Len(hand[s]) <= 1
    /\ last[s] \in [Topics -> Nat]

StreamSafe(s) ==
    /\ sub[s] = "closed" => feed[s] = << >> /\ hand[s] = << >>
    /\ \A p \in topics[s] : topicAllowed(p, allow[s])
    /\ \A i \in 1..Len(feed[s]) : matches(allow[s], feed[s][i].topic)

StreamBelow(s) ==
    /\ \A i \in 1..Len(feed[s]) : feed[s][i].sequence <= seq[feed[s][i].topic]
    /\ \A i \in 1..Len(hand[s]) : hand[s][i].sequence <= seq[hand[s][i].topic]
    /\ \A t \in Topics : last[s][t] <= seq[t]

StreamOrdered(s) ==
    /\ \A i \in 1..Len(feed[s]) : feed[s][i].sequence > last[s][feed[s][i].topic]
    /\ \A i, j \in 1..Len(feed[s]) :
        i < j /\ feed[s][i].topic = feed[s][j].topic => feed[s][i].sequence < feed[s][j].sequence
    /\ \A i \in 1..Len(hand[s]) :
        /\ hand[s][i].sequence > last[s][hand[s][i].topic]
        /\ \A j \in 1..Len(feed[s]) :
            hand[s][i].topic = feed[s][j].topic => hand[s][i].sequence < feed[s][j].sequence

BusTyped ==
    /\ seq \in [Topics -> Nat]
    /\ allow = [s \in Subs |-> allow[s]] /\ sub = [s \in Subs |-> sub[s]]
    /\ topics = [s \in Subs |-> topics[s]] /\ feed = [s \in Subs |-> feed[s]]
    /\ hand = [s \in Subs |-> hand[s]] /\ last = [s \in Subs |-> last[s]]

StreamInv(s) == StreamTyped(s) /\ StreamSafe(s) /\ StreamBelow(s) /\ StreamOrdered(s)

BusInv == BusTyped /\ \A s \in Subs : StreamInv(s)

\* The bus's own steps, as every step of the process takes them.
BusNext ==
    \/ \E t \in Topics : Publish(t)
    \/ \E s \in Subs :
        BusStep(s) \/ CancelEvents(s) \/ \E request \in Requests : Subscribe(s, request)

----------------------------------------------------------------------------
(* Arithmetic, stated once for the leaves that also reason about sequences. *)

\* A positive number is one or more than one.
LEMMA OneOrMore == \A n \in Nat : n > 0 => n = 1 \/ n > 1
OBVIOUS

\* A number of at most one is not more than one.
LEMMA NotMore == \A n \in Nat : n <= 1 => ~(n > 1)
OBVIOUS

\* Less is greater, read the other way round.
LEMMA Turned == \A a, b \in Nat : a < b => b > a
BY Zenon

\* A bound may be raised.
LEMMA BoundRaised == \A a, b, c \in Nat : a <= b /\ b <= c => a <= c
OBVIOUS

\* What is at most n is below n + 1.
LEMMA BelowNext == \A a, n \in Nat : a <= n => a < n + 1 /\ n + 1 > a
OBVIOUS

\* An index up to n + 1 is n + 1 or an index up to n, and a smaller index is the latter.
LEMMA IndexSplit ==
    \A n \in Nat : \A j \in 1..(n + 1) :
        (j = n + 1 \/ j \in 1..n) /\ \A i \in 1..(n + 1) : i < j => i \in 1..n
OBVIOUS

\* The places of a sequence without its first element, in the whole sequence.
LEMMA ShiftedIndex ==
    \A n, m \in Nat : n > 0 /\ m = n - 1 =>
        /\ 1 \in 1..n
        /\ \A i \in 1..m : i + 1 \in 1..n /\ 1 < i + 1
        /\ \A i, j \in 1..m : i < j => i + 1 < j + 1
OBVIOUS

----------------------------------------------------------------------------
(* Patterns *)

\* A glob without its star is its tokens but the last.
LEMMA CutShortens ==
    ASSUME NEW p \in Seq(STRING), IsGlob(p)
    PROVE  /\ Len(p) \in Nat /\ Len(p) > 0 /\ p[Len(p)] = Star
           /\ Len(CutStar(p)) = Len(p) - 1
           /\ \A i \in 1..(Len(p) - 1) : CutStar(p)[i] = p[i]
<1>1. p # << >> /\ p[Len(p)] = Star
    BY Zenon DEF IsGlob
<1>2. Len(p) \in Nat /\ Len(p) > 0
    BY <1>1
<1>3. Len(CutStar(p)) = Len(p) - 1
    <2>1. CASE Len(p) = 1
        BY <2>1 DEF CutStar
    <2>2. CASE Len(p) > 1
        BY <1>2, <2>2 DEF CutStar
    <2>3. Len(p) = 1 \/ Len(p) > 1
        BY <1>2, OneOrMore, Zenon
    <2> QED
        BY <2>1, <2>2, <2>3, Zenon
<1>4. \A i \in 1..(Len(p) - 1) : CutStar(p)[i] = p[i]
    BY <1>2 DEF CutStar
<1> QED
    BY <1>1, <1>2, <1>3, <1>4, Zenon

\* A pattern the manifest admits gives no more than the manifest: what it matches, the list
\* matches too (topicAllowed in hostserv.go against Subscription.matches in bus.go).
LEMMA AllowedNarrows ==
    ASSUME NEW list \in AllowLists, NEW p \in Seq(STRING), NEW topic \in Seq(STRING),
           topicAllowed(p, list), matches({p}, topic)
    PROVE  matches(list, topic)
<1>1. PICK a \in list : a = p \/ (IsGlob(a) /\ HasPrefix(p, CutStar(a)))
    BY Zenon DEF topicAllowed
<1>2. a \in Seq(STRING) /\ WellFormed(a)
    BY EventBusConstants, Zenon
<1>3. p = topic \/ (IsGlob(p) /\ HasPrefix(topic, CutStar(p)))
    BY Zenon DEF matches
<1>4. CASE a = p
    BY <1>3, <1>4, Zenon DEF matches
<1>5. CASE a # p /\ p = topic
    BY <1>1, <1>5, Zenon DEF matches
<1>6. CASE a # p /\ p # topic
    <2>1. IsGlob(a) /\ HasPrefix(p, CutStar(a)) /\ IsGlob(p) /\ HasPrefix(topic, CutStar(p))
        BY <1>1, <1>3, <1>6, Zenon
    <2>2. /\ Len(a) \in Nat /\ Len(a) > 0 /\ Len(p) \in Nat /\ Len(p) > 0 /\ Len(topic) \in Nat
          /\ a[Len(a)] = Star /\ p[Len(p)] = Star
        BY <1>2, <2>1, CutShortens
    <2>3. /\ Len(CutStar(a)) = Len(a) - 1 /\ \A i \in 1..(Len(a) - 1) : CutStar(a)[i] = a[i]
          /\ Len(CutStar(p)) = Len(p) - 1 /\ \A i \in 1..(Len(p) - 1) : CutStar(p)[i] = p[i]
        BY <1>2, <2>1, CutShortens, Zenon
    <2>4. Len(a) - 1 <= Len(p) /\ \A i \in 1..(Len(a) - 1) : p[i] = a[i]
        BY <2>1, <2>3, Zenon DEF HasPrefix
    <2>5. Len(a) - 1 # Len(p)
        <3> SUFFICES ASSUME Len(a) - 1 = Len(p) PROVE FALSE
            BY Zenon
        <3>1. a[Len(p)] = Star /\ Len(p) \in 1..Len(a)
            BY <2>2, <2>4
        <3> QED
            BY <3>1, <1>2, <2>2 DEF WellFormed
    <2>6. HasPrefix(topic, CutStar(a))
        <3>1. Len(p) - 1 <= Len(topic) /\ \A i \in 1..(Len(p) - 1) : topic[i] = p[i]
            BY <2>1, <2>3, Zenon DEF HasPrefix
        <3> QED
            BY <3>1, <2>2, <2>3, <2>4, <2>5 DEF HasPrefix
    <2> QED
        BY <2>1, <2>6, Zenon DEF matches
<1> QED
    BY <1>4, <1>5, <1>6, Zenon

\* A stream whose patterns the manifest admits matches only topics of the manifest's list.
LEMMA AdmittedMatches ==
    ASSUME NEW s \in Subs, StreamTyped(s), StreamSafe(s), NEW topic \in Topics,
           matches(topics[s], topic)
    PROVE  matches(allow[s], topic)
<1>1. PICK p \in topics[s] : p = topic \/ (IsGlob(p) /\ HasPrefix(topic, CutStar(p)))
    BY Zenon DEF matches
<1>2. matches({p}, topic) /\ p \in Seq(STRING) /\ topic \in Seq(STRING) /\ allow[s] \in AllowLists
    BY <1>1, EventBusConstants, Zenon DEF matches, StreamTyped
<1>3. topicAllowed(p, allow[s])
    BY <1>1, Zenon DEF StreamSafe
<1> QED
    BY <1>2, <1>3, AllowedNarrows, Zenon

\* Taking the first event off a channel leaves the others, one place further up.
LEMMA RestShifts ==
    ASSUME NEW s \in Subs, feed[s] \in Seq(Stamped), feed[s] # << >>
    PROVE  /\ Rest(s, 1) \in Seq(Stamped)
           /\ Len(Rest(s, 1)) = Len(feed[s]) - 1
           /\ \A i \in 1..Len(Rest(s, 1)) : Rest(s, 1)[i] = feed[s][i + 1]
           /\ feed[s][1] \in Stamped /\ Len(feed[s]) \in Nat /\ Len(feed[s]) > 0
<1>1. Len(feed[s]) \in Nat /\ Len(feed[s]) > 0
    OBVIOUS
<1>2. SubSeq(feed[s], 1, 0) = << >>
    OBVIOUS
<1>3. /\ SubSeq(feed[s], 2, Len(feed[s])) \in Seq(Stamped)
      /\ Len(SubSeq(feed[s], 2, Len(feed[s]))) = Len(feed[s]) - 1
      /\ \A i \in 1..(Len(feed[s]) - 1) : SubSeq(feed[s], 2, Len(feed[s]))[i] = feed[s][i + 1]
    BY <1>1
<1>4. Rest(s, 1) = << >> \o SubSeq(feed[s], 2, Len(feed[s]))
    BY <1>2 DEF Rest
<1>5. Rest(s, 1) = SubSeq(feed[s], 2, Len(feed[s]))
    BY <1>3, <1>4
<1>6. feed[s][1] \in Stamped
    BY <1>1
<1> QED
    BY <1>1, <1>3, <1>5, <1>6, Zenon

----------------------------------------------------------------------------
(* The inductive invariant *)

\* Before any stream is open nothing is in flight.
LEMMA BusInitially ==
    BusInit => BusInv
<1> SUFFICES ASSUME BusInit PROVE BusInv
    BY Zenon
<1>1. BusTyped
    BY Zenon DEF BusInit, BusTyped
<1>2. ASSUME NEW s \in Subs PROVE StreamInv(s)
    BY DEF BusInit, StreamInv, StreamTyped, StreamSafe, StreamBelow, StreamOrdered
<1> QED
    BY <1>1, <1>2, Zenon DEF BusInv

\* A step that leaves a stream's own state and the counters alone preserves what holds of it.
LEMMA StreamKept ==
    ASSUME NEW s \in Subs, StreamInv(s),
           seq' = seq, allow' = allow, sub'[s] = sub[s] \/ (sub[s] = "open" /\ sub'[s] = "ending"),
           topics'[s] = topics[s], feed'[s] = feed[s], hand'[s] = hand[s], last'[s] = last[s]
    PROVE  StreamInv(s)'
<1>1. StreamTyped(s)' /\ StreamSafe(s)'
    BY Zenon DEF StreamInv, StreamTyped, StreamSafe, matches, topicAllowed
<1>2. StreamBelow(s)' /\ StreamOrdered(s)'
    BY Zenon DEF StreamInv, StreamBelow, StreamOrdered
<1> QED
    BY <1>1, <1>2, Zenon DEF StreamInv

\* Publish: the stamp is above everything any stream has of the topic.
LEMMA PublishKeeps ==
    ASSUME BusInv, NEW topic \in Topics, Publish(topic)
    PROVE  BusInv'
<1>1. seq' = [seq EXCEPT ![topic] = @ + 1] /\ seq \in [Topics -> Nat]
    BY Zenon DEF BusInv, BusTyped, Publish
<1>2. BusTyped'
    <2>1. seq' \in [Topics -> Nat]
        BY <1>1
    <2>2. feed' = [s \in Subs |-> feed'[s]]
        BY Zenon DEF Publish
    <2> QED
        BY <2>1, <2>2, Zenon DEF BusInv, BusTyped, Publish, busHistory
<1>3. ASSUME NEW s \in Subs PROVE StreamInv(s)'
    <2>1. StreamInv(s) /\ StreamTyped(s) /\ StreamSafe(s) /\ StreamBelow(s) /\ StreamOrdered(s)
        BY Zenon DEF BusInv, StreamInv
    <2>2. /\ allow' = allow /\ sub' = sub /\ topics' = topics /\ hand' = hand /\ last' = last
        BY Zenon DEF Publish, busHistory
    <2>3. \A t \in Topics : seq'[t] \in Nat /\ seq[t] \in Nat /\ seq[t] <= seq'[t]
        BY <1>1
    <2>4. /\ \A i \in 1..Len(feed[s]) : feed[s][i].topic \in Topics /\ feed[s][i].sequence \in Nat
          /\ \A i \in 1..Len(hand[s]) : hand[s][i].topic \in Topics /\ hand[s][i].sequence \in Nat
        <3>1. feed[s] \in Seq(Stamped) /\ hand[s] \in Seq(Stamped)
            BY <2>1, Zenon DEF StreamTyped
        <3>2. /\ \A i \in 1..Len(feed[s]) : feed[s][i] \in Stamped
              /\ \A i \in 1..Len(hand[s]) : hand[s][i] \in Stamped
            BY <3>1
        <3> QED
            BY <3>2, Zenon DEF Stamped
    <2>5. /\ \A i \in 1..Len(feed[s]) : feed[s][i].sequence <= seq'[feed[s][i].topic]
          /\ \A i \in 1..Len(hand[s]) : hand[s][i].sequence <= seq'[hand[s][i].topic]
          /\ \A t \in Topics : last[s][t] <= seq'[t]
        <3>1. \A i \in 1..Len(feed[s]) : feed[s][i].sequence <= seq'[feed[s][i].topic]
            BY <2>1, <2>3, <2>4, BoundRaised, SMTT(20) DEF StreamBelow
        <3>2. \A i \in 1..Len(hand[s]) : hand[s][i].sequence <= seq'[hand[s][i].topic]
            BY <2>1, <2>3, <2>4, BoundRaised, SMTT(20) DEF StreamBelow
        <3>3. \A t \in Topics : last[s][t] \in Nat /\ last[s][t] <= seq[t]
            BY <2>1, Zenon DEF StreamBelow, StreamTyped
        <3> QED
            BY <2>3, <3>1, <3>2, <3>3, BoundRaised, Zenon
    <2>6. CASE feed'[s] = feed[s]
        <3>1. StreamTyped(s)' /\ StreamSafe(s)'
            BY <2>1, <2>2, <2>6, Zenon DEF StreamTyped, StreamSafe, matches, topicAllowed
        <3>2. StreamOrdered(s)'
            BY <2>1, <2>2, <2>6, ZenonT(30) DEF StreamOrdered
        <3>3. StreamBelow(s)'
            BY <2>2, <2>5, <2>6, Zenon DEF StreamBelow
        <3> QED
            BY <3>1, <3>2, <3>3, Zenon DEF StreamInv
    <2>7. CASE /\ feed'[s] = Append(feed[s], Event(topic, seq[topic] + 1))
               /\ Registered(s) /\ matches(topics[s], topic)
        <3> DEFINE e == Event(topic, seq[topic] + 1)
        <3>1. /\ e \in Stamped /\ e.topic = topic /\ e.sequence = seq[topic] + 1
              /\ seq'[topic] = seq[topic] + 1
            BY <1>1 DEF Event, Stamped
        <3>2. /\ feed[s] \in Seq(Stamped) /\ hand[s] \in Seq(Stamped) /\ last[s] \in [Topics -> Nat]
            BY <2>1, Zenon DEF StreamTyped
        <3> HIDE DEF e
        <3>3. /\ feed'[s] \in Seq(Stamped) /\ Len(feed'[s]) = Len(feed[s]) + 1
              /\ Len(feed[s]) \in Nat
              /\ \A i \in 1..Len(feed[s]) : feed'[s][i] = feed[s][i] /\ feed[s][i] \in Stamped
              /\ feed'[s][Len(feed[s]) + 1] = e
            BY <2>7, <3>1, <3>2 DEF e
        <3>4. StreamTyped(s)'
            BY <2>1, <2>2, <3>3, Zenon DEF StreamTyped
        <3>5. StreamSafe(s)'
            <4>1. matches(allow[s], topic)
                BY <2>1, <2>7, AdmittedMatches, Zenon
            <4>2. \A i \in 1..Len(feed'[s]) : matches(allow[s], feed'[s][i].topic)
                <5>1. \A i \in 1..Len(feed[s]) : matches(allow[s], feed[s][i].topic)
                    BY <2>1, Zenon DEF StreamSafe
                <5>2. \A i \in 1..Len(feed'[s]) : i \in 1..Len(feed[s]) \/ i = Len(feed[s]) + 1
                    BY <3>3
                <5> QED BY <3>1, <3>3, <4>1, <5>1, <5>2, Zenon
            <4> QED
                BY <2>1, <2>2, <2>7, <4>2, Zenon DEF StreamSafe, Registered, topicAllowed, matches
        <3>6. StreamBelow(s)'
            <4>1. \A i \in 1..Len(feed'[s]) : feed'[s][i].sequence <= seq'[feed'[s][i].topic]
                <5>1. e.sequence <= seq'[e.topic]
                    BY <2>3, <3>1
                <5> QED
                    BY <2>5, <3>3, <5>1, IndexSplit, Zenon
            <4> QED
                BY <2>2, <2>5, <4>1, Zenon DEF StreamBelow
        <3>7. StreamOrdered(s)'
            <4>1. \A i \in 1..Len(feed'[s]) : feed'[s][i].sequence > last[s][feed'[s][i].topic]
                <5>1. e.sequence > last[s][e.topic]
                    BY <2>1, <2>3, <3>1, <3>2, BelowNext, Zenon DEF StreamBelow
                <5> QED
                    BY <2>1, <3>3, <5>1, IndexSplit, Zenon DEF StreamOrdered
            <4>2. ASSUME NEW i \in 1..Len(feed'[s]), NEW j \in 1..Len(feed'[s]),
                         i < j, feed'[s][i].topic = feed'[s][j].topic
                  PROVE  feed'[s][i].sequence < feed'[s][j].sequence
                <5>1. i \in 1..Len(feed[s]) /\ (j = Len(feed[s]) + 1 \/ j \in 1..Len(feed[s]))
                    BY <3>3, <4>2, IndexSplit, Zenon
                <5>2. CASE j \in 1..Len(feed[s])
                    BY <2>1, <3>3, <4>2, <5>1, <5>2, Zenon DEF StreamOrdered
                <5>3. CASE j = Len(feed[s]) + 1
                    <6>1. feed[s][i].topic = topic /\ feed'[s][i] = feed[s][i] /\ feed'[s][j] = e
                        BY <3>1, <3>3, <4>2, <5>1, <5>3, Zenon
                    <6>2. feed[s][i].sequence <= seq[topic]
                        BY <2>1, <5>1, <6>1, Zenon DEF StreamBelow
                    <6> QED
                        BY <2>3, <2>4, <3>1, <5>1, <6>1, <6>2, BelowNext, Zenon
                <5> QED
                    BY <5>1, <5>2, <5>3, Zenon
            <4>3. ASSUME NEW i \in 1..Len(hand[s]), NEW j \in 1..Len(feed'[s]),
                         hand[s][i].topic = feed'[s][j].topic
                  PROVE  hand[s][i].sequence < feed'[s][j].sequence
                <5>1. j = Len(feed[s]) + 1 \/ j \in 1..Len(feed[s])
                    BY <3>3, IndexSplit, Zenon
                <5>2. CASE j \in 1..Len(feed[s])
                    BY <2>1, <3>3, <4>3, <5>2, Zenon DEF StreamOrdered
                <5>3. CASE j = Len(feed[s]) + 1
                    <6>1. hand[s][i].topic = topic /\ feed'[s][j] = e
                        BY <3>1, <3>3, <4>3, <5>3, Zenon
                    <6>2. hand[s][i].sequence <= seq[topic]
                        BY <2>1, <6>1, Zenon DEF StreamBelow
                    <6> QED
                        BY <2>3, <2>4, <3>1, <6>1, <6>2, BelowNext, Zenon
                <5> QED
                    BY <5>1, <5>2, <5>3, Zenon
            <4>4. \A i \in 1..Len(hand[s]) : hand[s][i].sequence > last[s][hand[s][i].topic]
                BY <2>1, Zenon DEF StreamOrdered
            <4> QED
                BY <2>2, <4>1, <4>2, <4>3, <4>4, Zenon DEF StreamOrdered
        <3> QED
            BY <3>4, <3>5, <3>6, <3>7, Zenon DEF StreamInv
    <2> QED
        BY <2>6, <2>7, Zenon DEF Publish
<1> QED
    BY <1>2, <1>3, Zenon DEF BusInv

\* A step of one stream leaves the state of the others alone.
LEMMA OthersKept ==
    ASSUME BusInv, NEW s \in Subs, BusTyped', seq' = seq, allow' = allow,
           \A r \in Subs \ {s} : /\ sub'[r] = sub[r] /\ topics'[r] = topics[r] /\ feed'[r] = feed[r]
                                 /\ hand'[r] = hand[r] /\ last'[r] = last[r],
           StreamInv(s)'
    PROVE  BusInv'
<1>1. ASSUME NEW r \in Subs PROVE StreamInv(r)'
    <2>1. CASE r = s
        BY <2>1, Zenon
    <2>2. CASE r # s
        BY <2>2, StreamKept, Zenon DEF BusInv
    <2> QED
        BY <2>1, <2>2, Zenon
<1> QED
    BY <1>1, Zenon DEF BusInv

\* TakeEvent: the oldest event of the channel goes to the hand, the rest stay above it.
LEMMA TakeKeeps ==
    ASSUME BusInv, NEW s \in Subs, TakeEvent(s)
    PROVE  BusInv'
<1>1. StreamTyped(s) /\ StreamSafe(s) /\ StreamBelow(s) /\ StreamOrdered(s)
    BY Zenon DEF BusInv, StreamInv
<1>2. /\ seq' = seq /\ allow' = allow /\ sub' = sub /\ topics' = topics /\ last' = last
      /\ sub[s] = "open" /\ feed[s] # << >> /\ hand[s] = << >>
    BY Zenon DEF TakeEvent, Ready, busHistory
<1>3. feed[s] \in Seq(Stamped)
    BY <1>1, Zenon DEF StreamTyped
<1> DEFINE e == feed[s][1]
           r == Rest(s, 1)
<1>4. /\ r \in Seq(Stamped) /\ Len(r) = Len(feed[s]) - 1
      /\ \A i \in 1..Len(r) : r[i] = feed[s][i + 1]
      /\ e \in Stamped /\ Len(feed[s]) \in Nat /\ Len(feed[s]) > 0
    BY <1>2, <1>3, RestShifts, Zenon
<1>5. hand' = [hand EXCEPT ![s] = <<e>>] /\ feed' = [feed EXCEPT ![s] = r]
    BY Zenon DEF TakeEvent, Pick
<1> HIDE DEF e, r
<1>6. /\ BusTyped' /\ hand'[s] = <<e>> /\ feed'[s] = r
      /\ \A q \in Subs \ {s} : hand'[q] = hand[q] /\ feed'[q] = feed[q]
    BY <1>2, <1>5, Zenon DEF BusInv, BusTyped
<1>7. /\ \A i \in 1..Len(r) : i + 1 \in 1..Len(feed[s]) /\ 1 < i + 1
      /\ \A i, j \in 1..Len(r) : i < j => i + 1 < j + 1
      /\ 1 \in 1..Len(feed[s]) /\ Len(r) \in Nat
    BY <1>4, ShiftedIndex
<1>8. StreamTyped(s)'
    <2>1. <<e>> \in Seq(Stamped) /\ Len(<<e>>) = 1
        BY <1>4
    <2> QED
        BY <1>1, <1>2, <1>4, <1>6, <2>1 DEF StreamTyped
<1>9. StreamSafe(s)'
    <2>1. \A i \in 1..Len(r) : matches(allow[s], r[i].topic)
        BY <1>1, <1>4, <1>7, Zenon DEF StreamSafe
    <2>2. (\A p \in topics[s] : topicAllowed(p, allow[s]))'
        BY <1>1, <1>2, Zenon DEF StreamSafe, topicAllowed
    <2>3. (\A i \in 1..Len(feed[s]) : matches(allow[s], feed[s][i].topic))'
        BY <1>2, <1>6, <2>1, Zenon DEF matches
    <2> QED
        BY <1>2, <2>2, <2>3, Zenon DEF StreamSafe
<1>10. Len(<<e>>) = 1 /\ 1..1 = {1} /\ <<e>>[1] = e
    OBVIOUS
<1>11. StreamBelow(s)'
    <2>1. \A i \in 1..Len(r) : r[i].sequence <= seq[r[i].topic]
        BY <1>1, <1>4, <1>7, Zenon DEF StreamBelow
    <2>2. e.sequence <= seq[e.topic]
        BY <1>1, <1>7, Zenon DEF StreamBelow, e
    <2> QED
        BY <1>1, <1>2, <1>6, <1>10, <2>1, <2>2 DEF StreamBelow
<1>12. StreamOrdered(s)'
    <2>1. \A i \in 1..Len(r) : r[i].sequence > last[s][r[i].topic]
        BY <1>1, <1>4, <1>7, ZenonT(30) DEF StreamOrdered
    <2>2. \A i, j \in 1..Len(r) :
            i < j /\ r[i].topic = r[j].topic => r[i].sequence < r[j].sequence
        BY <1>1, <1>4, <1>7, ZenonT(30) DEF StreamOrdered
    <2>3. e.sequence > last[s][e.topic]
        BY <1>1, <1>7, Zenon DEF StreamOrdered, e
    <2>4. \A j \in 1..Len(r) : e.topic = r[j].topic => e.sequence < r[j].sequence
        BY <1>1, <1>4, <1>7, Zenon DEF StreamOrdered, e
    <2>5. \A i \in 1..Len(hand'[s]) : hand'[s][i] = e
        BY <1>6, <1>10, Zenon
    <2>6. \A i \in 1..Len(hand'[s]) :
            /\ hand'[s][i].sequence > last[s][hand'[s][i].topic]
            /\ \A j \in 1..Len(r) :
                hand'[s][i].topic = r[j].topic => hand'[s][i].sequence < r[j].sequence
        BY <2>3, <2>4, <2>5, Zenon
    <2> QED
        BY <1>2, <1>6, <2>1, <2>2, <2>6, Zenon DEF StreamOrdered
<1> QED
    BY <1>2, <1>6, <1>8, <1>9, <1>11, <1>12, OthersKept, Zenon DEF StreamInv

\* ReceiveEvent: the event received becomes the last one, everything behind it is above it.
LEMMA ReceiveKeeps ==
    ASSUME BusInv, NEW s \in Subs, ReceiveEvent(s)
    PROVE  BusInv'
<1>1. StreamTyped(s) /\ StreamSafe(s) /\ StreamBelow(s) /\ StreamOrdered(s)
    BY Zenon DEF BusInv, StreamInv
<1> DEFINE e == hand[s][1]
<1>2. /\ seq' = seq /\ allow' = allow /\ sub' = sub /\ topics' = topics /\ feed' = feed
      /\ sub[s] = "open" /\ hand[s] # << >>
      /\ last' = [last EXCEPT ![s][e.topic] = e.sequence] /\ hand' = [hand EXCEPT ![s] = << >>]
    BY Zenon DEF ReceiveEvent
<1>3. Len(hand[s]) = 1 /\ 1 \in 1..Len(hand[s]) /\ e \in Stamped
    <2>1. hand[s] \in Seq(Stamped) /\ Len(hand[s]) <= 1
        BY <1>1, Zenon DEF StreamTyped
    <2>2. Len(hand[s]) \in Nat /\ Len(hand[s]) > 0
        BY <1>2, <2>1
    <2>3. Len(hand[s]) = 1
        BY <2>1, <2>2, OneOrMore, NotMore, Zenon
    <2> QED
        BY <2>1, <2>3
<1>4. e.topic \in Topics /\ e.sequence \in Nat
    BY <1>3, Zenon DEF Stamped
<1> HIDE DEF e
<1>5. last[s] \in [Topics -> Nat] /\ feed[s] \in Seq(Stamped)
    BY <1>1, Zenon DEF StreamTyped
<1>6. /\ BusTyped' /\ hand'[s] = << >> /\ last'[s] = [last[s] EXCEPT ![e.topic] = e.sequence]
      /\ \A q \in Subs \ {s} : hand'[q] = hand[q] /\ last'[q] = last[q]
    BY <1>2, Zenon DEF BusInv, BusTyped
<1>7. /\ last'[s] \in [Topics -> Nat] /\ last'[s][e.topic] = e.sequence
      /\ \A t \in Topics \ {e.topic} : last'[s][t] = last[s][t]
    BY <1>4, <1>5, <1>6, Zenon
<1>8. << >> \in Seq(Stamped) /\ Len(<< >>) = 0 /\ 1..0 = {}
    OBVIOUS
<1>9. StreamTyped(s)'
    BY <1>1, <1>2, <1>6, <1>7, <1>8 DEF StreamTyped
<1>10. StreamSafe(s)'
    BY <1>1, <1>2, <1>6, Zenon DEF StreamSafe, topicAllowed, matches
<1>11. StreamBelow(s)'
    <2>1. e.sequence <= seq[e.topic]
        BY <1>1, <1>3, Zenon DEF StreamBelow, e
    <2>2. \A t \in Topics : last'[s][t] <= seq[t]
        BY <1>1, <1>7, <2>1, ZenonT(30) DEF StreamBelow
    <2> QED
        BY <1>1, <1>2, <1>6, <1>8, <2>2, Zenon DEF StreamBelow
<1>12. StreamOrdered(s)'
    <2>1. ASSUME NEW i \in 1..Len(feed[s])
          PROVE  feed[s][i].sequence > last'[s][feed[s][i].topic]
        <3>1. feed[s][i].topic \in Topics /\ feed[s][i].sequence \in Nat
            <4>1. feed[s][i] \in Stamped
                BY <1>5
            <4> QED
                BY <4>1, Zenon DEF Stamped
        <3>2. CASE feed[s][i].topic = e.topic
            <4>1. e.sequence < feed[s][i].sequence
                BY <1>1, <1>3, <3>2, Zenon DEF StreamOrdered, e
            <4> QED
                BY <1>4, <1>7, <3>1, <3>2, <4>1, Turned, Zenon
        <3>3. CASE feed[s][i].topic # e.topic
            BY <1>1, <1>7, <3>1, <3>3, Zenon DEF StreamOrdered
        <3> QED
            BY <3>2, <3>3, Zenon
    <2> QED
        BY <1>1, <1>2, <1>6, <1>8, <2>1, ZenonT(30) DEF StreamOrdered
<1> QED
    BY <1>2, <1>6, <1>9, <1>10, <1>11, <1>12, OthersKept, Zenon DEF StreamInv

\* CancelEvents changes nothing that is in flight.
LEMMA CancelKeeps ==
    ASSUME BusInv, NEW s \in Subs, CancelEvents(s)
    PROVE  BusInv'
<1>1. /\ seq' = seq /\ allow' = allow /\ topics' = topics /\ feed' = feed /\ hand' = hand
      /\ last' = last /\ sub[s] = "open" /\ sub' = [sub EXCEPT ![s] = "ending"]
    BY Zenon DEF CancelEvents, busHistory
<1>2. BusTyped' /\ sub'[s] = "ending" /\ \A q \in Subs \ {s} : sub'[q] = sub[q]
    BY <1>1, Zenon DEF BusInv, BusTyped
<1>3. ASSUME NEW q \in Subs PROVE StreamInv(q)'
    BY <1>1, <1>2, StreamKept, Zenon DEF BusInv
<1> QED
    BY <1>2, <1>3, Zenon DEF BusInv

\* CloseEvents empties the stream.
LEMMA CloseKeeps ==
    ASSUME BusInv, NEW s \in Subs, CloseEvents(s)
    PROVE  BusInv'
<1>1. StreamTyped(s) /\ seq \in [Topics -> Nat]
    BY Zenon DEF BusInv, BusTyped, StreamInv
<1>2. /\ seq' = seq /\ allow' = allow /\ sub' = [sub EXCEPT ![s] = "closed"]
      /\ topics' = [topics EXCEPT ![s] = {}] /\ feed' = [feed EXCEPT ![s] = << >>]
      /\ hand' = [hand EXCEPT ![s] = << >>] /\ last' = [last EXCEPT ![s] = [t \in Topics |-> 0]]
    BY Zenon DEF CloseEvents
<1>3. /\ BusTyped' /\ sub'[s] = "closed" /\ topics'[s] = {} /\ feed'[s] = << >>
      /\ hand'[s] = << >> /\ last'[s] = [t \in Topics |-> 0]
      /\ \A r \in Subs \ {s} : /\ sub'[r] = sub[r] /\ topics'[r] = topics[r] /\ feed'[r] = feed[r]
                               /\ hand'[r] = hand[r] /\ last'[r] = last[r]
    BY <1>2, Zenon DEF BusInv, BusTyped
<1>4. << >> \in Seq(Stamped) /\ Len(<< >>) = 0 /\ 1..0 = {}
    OBVIOUS
<1>5. StreamTyped(s)' /\ StreamSafe(s)'
    BY <1>1, <1>2, <1>3, <1>4, SMTT(20) DEF StreamTyped, StreamSafe
<1>6. StreamBelow(s)' /\ StreamOrdered(s)'
    BY <1>1, <1>2, <1>3, <1>4 DEF StreamBelow, StreamOrdered
<1> QED
    BY <1>2, <1>3, <1>5, <1>6, OthersKept, Zenon DEF StreamInv

\* Subscribe starts from the counters of the moment, with admitted patterns only.
LEMMA SubscribeKeeps ==
    ASSUME BusInv, NEW s \in Subs, NEW request \in Requests, Subscribe(s, request)
    PROVE  BusInv'
<1>1. StreamTyped(s) /\ StreamSafe(s) /\ seq \in [Topics -> Nat]
    BY Zenon DEF BusInv, BusTyped, StreamInv
<1>2. /\ seq' = seq /\ allow' = allow /\ feed' = feed /\ hand' = hand
      /\ sub' = [sub EXCEPT ![s] = "open"] /\ topics' = [topics EXCEPT ![s] = request]
      /\ last' = [last EXCEPT ![s] = seq] /\ sub[s] = "closed"
      /\ \A topic \in request : topicAllowed(topic, allow[s])
    BY Zenon DEF Subscribe
<1>3. /\ BusTyped' /\ sub'[s] = "open" /\ topics'[s] = request /\ last'[s] = seq
      /\ \A r \in Subs \ {s} : sub'[r] = sub[r] /\ topics'[r] = topics[r] /\ last'[r] = last[r]
    BY <1>2, Zenon DEF BusInv, BusTyped
<1>4. feed[s] = << >> /\ hand[s] = << >> /\ Len(<< >>) = 0 /\ 1..0 = {}
    BY <1>1, <1>2 DEF StreamSafe
<1>5. request \subseteq Seq(STRING)
    BY EventBusConstants, Zenon
<1>6. StreamTyped(s)'
    BY <1>1, <1>2, <1>3, <1>5, Zenon DEF StreamTyped
<1>7. StreamSafe(s)'
    <2>1. (\A p \in topics[s] : topicAllowed(p, allow[s]))'
        BY <1>2, <1>3, ZenonT(30) DEF topicAllowed
    <2> QED
        BY <1>2, <1>3, <1>4, <2>1, Zenon DEF StreamSafe
<1>8. StreamBelow(s)' /\ StreamOrdered(s)'
    BY <1>1, <1>2, <1>3, <1>4 DEF StreamBelow, StreamOrdered
<1> QED
    BY <1>2, <1>3, <1>6, <1>7, <1>8, OthersKept, Zenon DEF StreamInv

\* Every step of the process is a step of the bus or leaves it alone.
LEMMA StepsOfTheBus == [Next]_vars => BusNext \/ UNCHANGED busVars
BY Zenon DEF Next, vars, BusNext, ReadLoop, Environment, ReceiveStream, EventStream

\* BusInv is inductive over the whole process.
LEMMA BusPreserved == BusInv /\ [Next]_vars => BusInv'
<1> SUFFICES ASSUME BusInv, [Next]_vars PROVE BusInv'
    BY Zenon
<1>1. CASE BusNext
    BY <1>1, PublishKeeps, TakeKeeps, ReceiveKeeps, CloseKeeps, CancelKeeps, SubscribeKeeps, Zenon
        DEF BusNext, BusStep
<1>2. CASE UNCHANGED busVars
    <2>1. /\ seq' = seq /\ allow' = allow /\ sub' = sub /\ topics' = topics /\ feed' = feed
          /\ hand' = hand /\ last' = last
        BY <1>2, Zenon DEF busVars, subscription, busHistory
    <2>2. ASSUME NEW s \in Subs PROVE StreamInv(s)'
        BY <2>1, StreamKept, Zenon DEF BusInv
    <2> QED
        BY <2>1, <2>2, Zenon DEF BusInv, BusTyped
<1> QED
    BY <1>1, <1>2, StepsOfTheBus, Zenon

----------------------------------------------------------------------------
(* The results *)

\* The inductive invariant holds throughout the process (eventbus, hostserv's event streams and
\* the transport streams beside them).
THEOREM BusSafety == Spec => []BusInv
<1>1. Init => BusInv
    BY BusInitially, Zenon DEF Init
<1> QED
    BY <1>1, BusPreserved, PTL DEF Spec

\* A subscriber receives each topic's events in rising sequence and none twice (bus.go:20), for
\* every number of streams, topics and events and every channel capacity.
THEOREM InOrderAlways == Spec => []InSequence
<1>1. BusInv => InSequence
    BY Zenon DEF BusInv, StreamInv, StreamOrdered, InSequence
<1> QED
    BY <1>1, BusSafety, PTL

\* No stream carries an event its module's manifest does not list (hostserv.go:291), for every
\* set of manifests whose patterns have a star only at the end and for any requested pattern.
THEOREM NothingUnlisted == Spec => []OnlyAllowed
<1>1. BusInv => OnlyAllowed
    BY Zenon DEF BusInv, StreamInv, StreamSafe, OnlyAllowed
<1> QED
    BY <1>1, BusSafety, PTL

-----------------------------------------------------------------------------
(* Nothing is lost uncounted *)

\* Every event published to a topic that a stream asked for is in the stream's count, and a
\* stream that is closed counts nothing (bus.go:53).
CountInv ==
    /\ meant \in [Subs -> Nat] /\ got \in [Subs -> Nat] /\ dropped \in [Subs -> Nat]
    /\ \A s \in Subs : meant[s] = got[s] + Len(hand[s]) + Len(feed[s]) + dropped[s]

\* A number of at most one.
LEMMA OneAtMost == \A n \in Nat : n <= 1 => n \in {0, 1} /\ (n # 0 => n = 1)
OBVIOUS

\* The channel and the hand of a stream have a length, and one that holds something is not empty.
LEMMA StreamLengths ==
    ASSUME BusInv, NEW s \in Subs
    PROVE  /\ Len(feed[s]) \in Nat /\ Len(hand[s]) \in {0, 1}
           /\ hand[s] = << >> => Len(hand[s]) = 0
           /\ hand[s] # << >> => Len(hand[s]) = 1
<1>1. feed[s] \in Seq(Stamped) /\ hand[s] \in Seq(Stamped) /\ Len(hand[s]) <= 1
    BY Zenon DEF BusInv, StreamInv, StreamTyped
<1>2. Len(feed[s]) \in Nat /\ Len(hand[s]) \in Nat /\ (hand[s] = << >> <=> Len(hand[s]) = 0)
    BY <1>1
<1> QED BY <1>1, <1>2, OneAtMost, Zenon

\* Publish adds one to what is meant for a stream, and the channel or the loss takes it.
LEMMA PublishCounts ==
    ASSUME BusInv, CountInv, NEW topic \in Topics, Publish(topic)
    PROVE  CountInv'
<1>1. ASSUME NEW s \in Subs
      PROVE  /\ meant'[s] \in Nat /\ dropped'[s] \in Nat
             /\ meant'[s] = got[s] + Len(hand[s]) + Len(feed'[s]) + dropped'[s]
    <2> DEFINE wanted == Registered(s) /\ matches(topics[s], topic)
               full == Len(feed[s]) >= FeedCap
               e == Event(topic, seq[topic] + 1)
               f == Len(feed[s])
               h == Len(hand[s])
               f2 == Len(feed'[s])
    <2>1. /\ meant[s] \in Nat /\ got[s] \in Nat /\ dropped[s] \in Nat
          /\ meant[s] = got[s] + h + f + dropped[s]
        BY Zenon DEF CountInv
    <2>2. f \in Nat /\ h \in Nat /\ feed[s] \in Seq(Stamped)
        BY StreamLengths DEF BusInv, StreamInv, StreamTyped
    <2>3. /\ feed'[s] = IF wanted /\ ~full THEN Append(feed[s], e) ELSE feed[s]
          /\ dropped'[s] = IF wanted /\ full THEN dropped[s] + 1 ELSE dropped[s]
          /\ meant'[s] = IF wanted THEN meant[s] + 1 ELSE meant[s]
        BY Zenon DEF Publish, Loss
    <2> HIDE DEF wanted, full, e
    <2>4. f2 = IF wanted /\ ~full THEN f + 1 ELSE f
        BY <2>2, <2>3
    <2> HIDE DEF f, h, f2
    <2>5. PICK g \in Nat, n \in Nat, m \in Nat, d \in Nat :
            got[s] = g /\ h = n /\ f = m /\ dropped[s] = d
        BY <2>1, <2>2, Zenon
    <2>6. meant[s] = g + n + m + d
        BY <2>1, <2>5, Zenon
    <2>7. CASE ~wanted
        BY <2>1, <2>3, <2>4, <2>7, Zenon DEF f2, h
    <2>8. CASE wanted /\ full
        <3>1. meant'[s] = g + n + m + d + 1 /\ dropped'[s] = d + 1 /\ f2 = m
            BY <2>3, <2>4, <2>5, <2>6, <2>8, Zenon
        <3>2. meant'[s] \in Nat /\ dropped'[s] \in Nat /\ meant'[s] = g + n + m + (d + 1)
            BY <3>1
        <3> QED BY <2>5, <3>1, <3>2, Zenon DEF f2, h
    <2>9. CASE wanted /\ ~full
        <3>1. meant'[s] = g + n + m + d + 1 /\ dropped'[s] = d /\ f2 = m + 1
            BY <2>3, <2>4, <2>5, <2>6, <2>9, Zenon
        <3>2. meant'[s] \in Nat /\ dropped'[s] \in Nat /\ meant'[s] = g + n + (m + 1) + d
            BY <3>1
        <3> QED BY <2>5, <3>1, <3>2, Zenon DEF f2, h
    <2> QED BY <2>7, <2>8, <2>9, Zenon
<1>2. /\ meant' = [s \in Subs |-> meant'[s]] /\ dropped' = [s \in Subs |-> dropped'[s]]
      /\ got' = got /\ hand' = hand
    BY Zenon DEF Publish
<1>3. meant' \in [Subs -> Nat] /\ got' \in [Subs -> Nat] /\ dropped' \in [Subs -> Nat]
    BY <1>1, <1>2, Zenon DEF CountInv
<1> QED BY <1>1, <1>2, <1>3, Zenon DEF CountInv

\* What a stream does to itself moves an event along, or forgets the stream whole.
LEMMA StreamCounts ==
    ASSUME BusInv, CountInv, NEW s \in Subs,
           BusStep(s) \/ CancelEvents(s) \/ \E request \in Requests : Subscribe(s, request)
    PROVE  CountInv'
<1>1. /\ meant \in [Subs -> Nat] /\ got \in [Subs -> Nat] /\ dropped \in [Subs -> Nat]
      /\ \A q \in Subs : meant[q] = got[q] + Len(hand[q]) + Len(feed[q]) + dropped[q]
      /\ Len(feed[s]) \in Nat /\ Len(hand[s]) \in Nat
    BY StreamLengths DEF CountInv
<1>2. hand = [q \in Subs |-> hand[q]] /\ feed = [q \in Subs |-> feed[q]]
    BY Zenon DEF BusInv, BusTyped
<1>3. CASE TakeEvent(s)
    <2>1. /\ UNCHANGED <<meant, got, dropped>> /\ hand[s] = << >> /\ feed[s] # << >>
          /\ hand' = [hand EXCEPT ![s] = <<feed[s][1]>>] /\ feed' = [feed EXCEPT ![s] = Rest(s, 1)]
        BY <1>3, Zenon DEF TakeEvent, Ready, Pick, busHistory
    <2>2. feed[s] \in Seq(Stamped)
        BY Zenon DEF BusInv, StreamInv, StreamTyped
    <2>3. Len(Rest(s, 1)) = Len(feed[s]) - 1 /\ Len(feed[s]) > 0
        BY <2>1, <2>2, RestShifts, Zenon
    <2>4. /\ Len(hand[s]) = 0 /\ Len(hand'[s]) = 1 /\ Len(feed'[s]) = Len(feed[s]) - 1
          /\ \A q \in Subs \ {s} : hand'[q] = hand[q] /\ feed'[q] = feed[q]
        BY <1>2, <2>1, <2>3, Zenon
    <2> DEFINE f == Len(feed[s])
    <2>5. f > 0 /\ f \in Nat /\ meant[s] = got[s] + 0 + f + dropped[s]
        BY <1>1, <2>3, <2>4, Zenon
    <2> HIDE DEF f
    <2>6. meant[s] = got[s] + 1 + (f - 1) + dropped[s]
        BY <1>1, <2>5
    <2>7. \A q \in Subs : meant[q] = got[q] + Len(hand'[q]) + Len(feed'[q]) + dropped[q]
        BY <1>1, <2>4, <2>6, Zenon DEF f
    <2> QED BY <1>1, <2>1, <2>7, Zenon DEF CountInv
<1>4. CASE ReceiveEvent(s)
    <2>1. /\ UNCHANGED <<meant, feed, dropped>> /\ got' = [got EXCEPT ![s] = @ + 1]
          /\ hand' = [hand EXCEPT ![s] = << >>] /\ hand[s] # << >>
        BY <1>4, Zenon DEF ReceiveEvent
    <2>2. /\ Len(hand[s]) = 1 /\ Len(hand'[s]) = 0 /\ got'[s] = got[s] + 1
          /\ \A q \in Subs \ {s} : hand'[q] = hand[q] /\ got'[q] = got[q]
          /\ got' \in [Subs -> Nat]
        BY <1>1, <1>2, <2>1, StreamLengths, SMTT(20)
    <2> DEFINE f == Len(feed[s])
    <2>3. f \in Nat /\ meant[s] = got[s] + 1 + f + dropped[s]
        BY <1>1, <2>2, Zenon
    <2> HIDE DEF f
    <2>4. meant[s] = (got[s] + 1) + 0 + f + dropped[s]
        BY <1>1, <2>3
    <2>5. \A q \in Subs : meant[q] = got'[q] + Len(hand'[q]) + Len(feed[q]) + dropped[q]
        BY <1>1, <2>2, <2>4, Zenon DEF f
    <2> QED BY <1>1, <2>1, <2>2, <2>5, SMTT(20) DEF CountInv
<1>5. CASE CloseEvents(s)
    <2>1. /\ meant' = [meant EXCEPT ![s] = 0] /\ got' = [got EXCEPT ![s] = 0]
          /\ dropped' = [dropped EXCEPT ![s] = 0]
          /\ hand' = [hand EXCEPT ![s] = << >>] /\ feed' = [feed EXCEPT ![s] = << >>]
        BY <1>5, Zenon DEF CloseEvents
    <2>2. /\ meant' \in [Subs -> Nat] /\ got' \in [Subs -> Nat] /\ dropped' \in [Subs -> Nat]
          /\ meant'[s] = 0 /\ got'[s] = 0 /\ dropped'[s] = 0
          /\ \A q \in Subs \ {s} : meant'[q] = meant[q] /\ got'[q] = got[q] /\ dropped'[q] = dropped[q]
        BY <1>1, <2>1, Zenon
    <2>3. /\ Len(hand'[s]) = 0 /\ Len(feed'[s]) = 0
          /\ \A q \in Subs \ {s} : hand'[q] = hand[q] /\ feed'[q] = feed[q]
        BY <1>2, <2>1, Zenon
    <2>4. \A q \in Subs : meant'[q] = got'[q] + Len(hand'[q]) + Len(feed'[q]) + dropped'[q]
        <3>1. 0 = 0 + 0 + 0 + 0
            OBVIOUS
        <3> QED BY <1>1, <2>2, <2>3, <3>1, Zenon
    <2> QED BY <2>2, <2>4, Zenon DEF CountInv
<1>6. CASE CancelEvents(s) \/ \E request \in Requests : Subscribe(s, request)
    <2>1. UNCHANGED <<meant, got, dropped, hand, feed>>
        BY <1>6, Zenon DEF CancelEvents, Subscribe, busHistory
    <2> QED BY <1>1, <2>1, Zenon DEF CountInv
<1> QED BY <1>3, <1>4, <1>5, <1>6, Zenon DEF BusStep

\* The count is right at every step of the process.
LEMMA CountStep == BusInv /\ CountInv /\ [Next]_vars => CountInv'
<1> SUFFICES ASSUME BusInv, CountInv, [Next]_vars PROVE CountInv'
    BY Zenon
<1>1. CASE BusNext
    BY <1>1, PublishCounts, StreamCounts, Zenon DEF BusNext
<1>2. CASE UNCHANGED busVars
    <2>1. UNCHANGED <<meant, got, dropped, hand, feed>>
        BY <1>2, Zenon DEF busVars, subscription, busHistory
    <2> QED BY <2>1, Zenon DEF CountInv
<1> QED BY <1>1, <1>2, StepsOfTheBus, Zenon

-----------------------------------------------------------------------------
(* Inbound messages *)

\* What one receiver holds is in order, above what it received last, and below the message that
\* deliver still has for it: a message is offered to a receiver once.
ReceiverAt(r) ==
    /\ buffer[r] \in Seq(Nat) /\ lastIn[r] \in Nat /\ lastIn[r] <= arrived
    /\ \A i \in 1..Len(buffer[r]) : buffer[r][i] > lastIn[r] /\ buffer[r][i] <= arrived
    /\ \A i, j \in 1..Len(buffer[r]) : i < j => buffer[r][i] < buffer[r][j]
    /\ r \in targets =>
        lastIn[r] < carrying /\ \A i \in 1..Len(buffer[r]) : buffer[r][i] < carrying

InboundInv ==
    /\ arrived \in Nat /\ carrying \in Nat /\ carrying <= arrived
    /\ subs \subseteq Receivers /\ targets \subseteq Receivers
    /\ buffer = [r \in Receivers |-> buffer[r]] /\ lastIn = [r \in Receivers |-> lastIn[r]]
    /\ \A r \in Receivers : ReceiverAt(r)

\* The inbound side's own steps.
InboundNext ==
    \/ Deliver \/ DeliverOne
    \/ \E r \in Receivers : InboundStep(r) \/ OpenReceive(r) \/ CancelReceive(r)

\* A step that touches neither a receiver nor the message under way keeps what holds of it.
LEMMA ReceiverKept ==
    ASSUME NEW r \in Receivers, ReceiverAt(r), buffer'[r] = buffer[r], lastIn'[r] = lastIn[r],
           UNCHANGED <<arrived, carrying, targets>>
    PROVE  ReceiverAt(r)'
BY Zenon DEF ReceiverAt

\* Reading a message off the wire: its number is above every other.
LEMMA DeliverKeeps == InboundInv /\ Deliver => InboundInv'
<1> SUFFICES ASSUME InboundInv, Deliver PROVE InboundInv'
    BY Zenon
<1>1. /\ arrived \in Nat /\ arrived' = arrived + 1 /\ targets' = subs /\ carrying' \in {0, arrived'}
      /\ subs # {} => carrying' = arrived'
      /\ UNCHANGED <<subs, buffer, lastIn>>
    BY Zenon DEF InboundInv, Deliver
<1>2. ASSUME NEW r \in Receivers PROVE ReceiverAt(r)'
    <2>1. ReceiverAt(r)
        BY Zenon DEF InboundInv
    <2>2. \A n \in Nat : n <= arrived => n <= arrived' /\ n < arrived'
        BY <1>1
    <2>3. /\ buffer[r] \in Seq(Nat) /\ \A i \in 1..Len(buffer[r]) : buffer[r][i] \in Nat
        BY <2>1 DEF ReceiverAt
    <2> QED BY <1>1, <2>1, <2>2, <2>3, Zenon DEF ReceiverAt
<1>3. arrived' \in Nat /\ carrying' \in Nat /\ carrying' <= arrived'
    BY <1>1
<1> QED BY <1>1, <1>2, <1>3, Zenon DEF InboundInv

\* Offering it to one receiver: the end of its channel, once.
LEMMA DeliverOneKeeps == InboundInv /\ DeliverOne => InboundInv'
<1> SUFFICES ASSUME InboundInv, DeliverOne PROVE InboundInv'
    BY Zenon
<1>1. PICK r \in targets :
        /\ targets' = targets \ {r}
        /\ carrying' = IF targets' = {} THEN 0 ELSE carrying
        /\ \/ UNCHANGED buffer
           \/ buffer' = [buffer EXCEPT ![r] = IF Full(r) THEN @ ELSE Append(@, carrying)]
    BY Zenon DEF DeliverOne, Offer
<1>2. /\ UNCHANGED <<arrived, subs, lastIn>> /\ r \in Receivers /\ arrived \in Nat
      /\ carrying \in Nat /\ carrying <= arrived /\ targets \subseteq Receivers
      /\ buffer = [q \in Receivers |-> buffer[q]] /\ ReceiverAt(r)
    BY <1>1, Zenon DEF InboundInv, DeliverOne
<1>3. /\ carrying' \in Nat /\ carrying' <= arrived' /\ targets' \subseteq Receivers
      /\ \A q \in targets' : carrying' = carrying
      /\ buffer' = [q \in Receivers |-> buffer'[q]]
      /\ \A q \in Receivers : q # r => buffer'[q] = buffer[q]
    BY <1>1, <1>2
<1>4. ASSUME NEW q \in Receivers PROVE ReceiverAt(q)'
    <2>1. ReceiverAt(q)
        BY Zenon DEF InboundInv
    <2>2. CASE buffer'[q] = buffer[q]
        <3>1. /\ UNCHANGED <<arrived, lastIn>> /\ (q \in targets' => q \in targets)
              /\ q \in targets' => carrying' = carrying
            BY <1>1, <1>2, <1>3, Zenon
        <3> QED BY <2>1, <2>2, <3>1, Zenon DEF ReceiverAt
    <2>3. CASE q = r /\ buffer'[r] = Append(buffer[r], carrying)
        <3>1. /\ buffer[r] \in Seq(Nat) /\ lastIn[r] \in Nat /\ lastIn[r] < carrying
              /\ \A i \in 1..Len(buffer[r]) : buffer[r][i] \in Nat /\ buffer[r][i] < carrying
            BY <1>1, <1>2 DEF ReceiverAt
        <3>2. /\ buffer'[r] \in Seq(Nat) /\ Len(buffer'[r]) = Len(buffer[r]) + 1
              /\ Len(buffer[r]) \in Nat /\ buffer'[r][Len(buffer[r]) + 1] = carrying
              /\ \A i \in 1..Len(buffer[r]) : buffer'[r][i] = buffer[r][i]
            BY <1>2, <2>3, <3>1
        <3>3. \A i \in 1..Len(buffer'[r]) : buffer'[r][i] > lastIn[r] /\ buffer'[r][i] <= arrived
            <4>1. \A i \in 1..Len(buffer[r]) : buffer[r][i] > lastIn[r] /\ buffer[r][i] <= arrived
                BY <1>2, Zenon DEF ReceiverAt
            <4>2. carrying > lastIn[r] /\ carrying <= arrived
                BY <1>2, <3>1, Zenon
            <4> QED BY <3>2, <4>1, <4>2, IndexSplit, Zenon
        <3>4. ASSUME NEW i \in 1..Len(buffer'[r]), NEW j \in 1..Len(buffer'[r]), i < j
              PROVE  buffer'[r][i] < buffer'[r][j]
            <4>1. i \in 1..Len(buffer[r]) /\ (j = Len(buffer[r]) + 1 \/ j \in 1..Len(buffer[r]))
                BY <3>2, <3>4, IndexSplit, Zenon
            <4> QED BY <2>1, <2>3, <3>1, <3>2, <3>4, <4>1, Zenon DEF ReceiverAt
        <3>5. r \notin targets' /\ lastIn' = lastIn /\ arrived' = arrived
            BY <1>1, <1>2, Zenon
        <3> QED BY <2>1, <2>3, <3>2, <3>3, <3>4, <3>5, Zenon DEF ReceiverAt
    <2> QED BY <1>1, <1>2, <1>3, <2>2, <2>3, Zenon
<1> QED BY <1>2, <1>3, <1>4, Zenon DEF InboundInv

\* A stream forwards its oldest message, or comes, or goes.
LEMMA ReceiverKeeps ==
    ASSUME InboundInv, NEW r \in Receivers, InboundStep(r) \/ OpenReceive(r) \/ CancelReceive(r)
    PROVE  InboundInv'
<1>1. /\ UNCHANGED <<arrived, carrying, targets>> /\ subs' \subseteq Receivers
      /\ arrived \in Nat /\ carrying \in Nat /\ ReceiverAt(r)
    BY Zenon DEF InboundInv, InboundStep, Forward, Unregister, CloseChannel, OpenReceive,
       CancelReceive
<1>2. buffer = [q \in Receivers |-> buffer[q]] /\ lastIn = [q \in Receivers |-> lastIn[q]]
    BY Zenon DEF InboundInv
<1>3. /\ buffer[r] \in Seq(Nat) /\ lastIn[r] \in Nat
      /\ \A i \in 1..Len(buffer[r]) : buffer[r][i] \in Nat
    BY <1>1, SMTT(20) DEF ReceiverAt
<1>4. CASE UNCHANGED <<buffer, lastIn>>
    <2>1. ASSUME NEW q \in Receivers PROVE ReceiverAt(q)'
        BY <1>1, <1>4, ReceiverKept, Zenon DEF InboundInv
    <2> QED BY <1>1, <1>4, <2>1, Zenon DEF InboundInv
<1>5. CASE /\ lastIn' = [lastIn EXCEPT ![r] = Head(buffer[r])] /\ buffer[r] # << >>
           /\ buffer' = [buffer EXCEPT ![r] = Tail(@)]
    <2>1. /\ Len(buffer[r]) \in Nat /\ Len(buffer[r]) > 0
          /\ Tail(buffer[r]) \in Seq(Nat) /\ Len(Tail(buffer[r])) = Len(buffer[r]) - 1
          /\ Head(buffer[r]) = buffer[r][1]
          /\ \A i \in 1..Len(Tail(buffer[r])) : Tail(buffer[r])[i] = buffer[r][i + 1]
        BY <1>3, <1>5
    <2> DEFINE b == buffer[r]  t == Tail(buffer[r])
    <2>2. buffer'[r] = t /\ lastIn'[r] = b[1]
        BY <1>2, <1>5, <2>1, Zenon
    <2>3. /\ \A q \in Receivers : q # r => buffer'[q] = buffer[q] /\ lastIn'[q] = lastIn[q]
          /\ buffer' = [q \in Receivers |-> buffer'[q]] /\ lastIn' = [q \in Receivers |-> lastIn'[q]]
        BY <1>2, <1>5, Zenon
    <2>4. /\ \A i \in 1..Len(b) : b[i] \in Nat /\ b[i] <= arrived
          /\ \A i, j \in 1..Len(b) : i < j => b[i] < b[j]
          /\ r \in targets => \A i \in 1..Len(b) : b[i] < carrying
        BY <1>1, <1>3, Zenon DEF ReceiverAt
    <2>5. /\ 1 \in 1..Len(b) /\ \A i \in 1..Len(t) : i + 1 \in 1..Len(b) /\ 1 < i + 1
          /\ \A i, j \in 1..Len(t) : i < j => i + 1 < j + 1
        BY <2>1, ShiftedIndex
    <2>6. t \in Seq(Nat) /\ \A i \in 1..Len(t) : t[i] = b[i + 1]
        BY <2>1, Zenon
    <2> HIDE DEF b, t
    <2>7. /\ \A i \in 1..Len(t) : t[i] > b[1] /\ t[i] <= arrived
          /\ \A i, j \in 1..Len(t) : i < j => t[i] < t[j]
          /\ r \in targets => \A i \in 1..Len(t) : t[i] < carrying
        BY <2>4, <2>5, <2>6, Zenon
    <2>8. ReceiverAt(r)'
        <3>1. b[1] \in Nat /\ b[1] <= arrived /\ (r \in targets => b[1] < carrying)
            BY <2>4, <2>5, Zenon
        <3> QED BY <1>1, <2>2, <2>6, <2>7, <3>1, Zenon DEF ReceiverAt
    <2>9. ASSUME NEW q \in Receivers, q # r PROVE ReceiverAt(q)'
        BY <1>1, <2>3, <2>9, ReceiverKept, Zenon DEF InboundInv
    <2> QED BY <1>1, <2>3, <2>8, <2>9, Zenon DEF InboundInv
<1>6. CASE buffer' = [buffer EXCEPT ![r] = << >>] /\ lastIn' = [lastIn EXCEPT ![r] = 0]
    <2>1. /\ buffer'[r] = << >> /\ lastIn'[r] = 0
          /\ \A q \in Receivers : q # r => buffer'[q] = buffer[q] /\ lastIn'[q] = lastIn[q]
          /\ buffer' = [q \in Receivers |-> buffer'[q]] /\ lastIn' = [q \in Receivers |-> lastIn'[q]]
        BY <1>2, <1>6, Zenon
    <2>2. 0 <= arrived /\ (r \in targets => 0 < carrying)
        BY <1>1, <1>3 DEF ReceiverAt
    <2>3. ReceiverAt(r)'
        <3>1. << >> \in Seq(Nat) /\ Len(<< >>) = 0 /\ 1..0 = {} /\ 0 \in Nat
            OBVIOUS
        <3> QED BY <1>1, <2>1, <2>2, <3>1, Zenon DEF ReceiverAt
    <2>4. ASSUME NEW q \in Receivers, q # r PROVE ReceiverAt(q)'
        BY <1>1, <2>1, <2>4, ReceiverKept, Zenon DEF InboundInv
    <2> QED BY <1>1, <2>1, <2>3, <2>4, Zenon DEF InboundInv
<1> QED
    BY <1>4, <1>5, <1>6, Zenon
        DEF InboundStep, Forward, Unregister, CloseChannel, OpenReceive, CancelReceive

\* Every step of the process is an inbound step or leaves the inbound side alone.
LEMMA InboundSteps == [Next]_vars => InboundNext \/ UNCHANGED inboundVars
BY Zenon DEF Next, vars, InboundNext, ReadLoop, Environment, ReceiveStream, EventStream

\* InboundInv is inductive over the whole process.
LEMMA InboundStepKeeps == InboundInv /\ [Next]_vars => InboundInv'
<1> SUFFICES ASSUME InboundInv, [Next]_vars PROVE InboundInv'
    BY Zenon
<1>1. CASE InboundNext
    BY <1>1, DeliverKeeps, DeliverOneKeeps, ReceiverKeeps, Zenon DEF InboundNext
<1>2. CASE UNCHANGED inboundVars
    BY <1>2, ReceiverKept, Zenon DEF inboundVars, InboundInv
<1> QED BY <1>1, <1>2, InboundSteps, Zenon

-----------------------------------------------------------------------------
(* The streams a module is given *)

\* What a module is given on its streams it can trust: listed topics only (hostserv.go:291), events
\* and inbound messages in order and none twice (bus.go:20, transport.go:113), no event gone
\* uncounted (bus.go:53); for every number of streams and receivers and every capacity.
THEOREM StreamsAlwaysFaithful == Spec => []StreamsFaithful
<1>1. Init => CountInv
    BY DEF Init, BusInit, CountInv
<1>2. Init => InboundInv
    BY DEF Init, InboundInit, InboundInv, ReceiverAt
<1>3. CountInv => LossesCounted
    BY Zenon DEF CountInv, LossesCounted
<1>4. InboundInv => InboundInOrder
    BY Zenon DEF InboundInv, ReceiverAt, InboundInOrder
<1>5. OnlyAllowed /\ InSequence /\ LossesCounted /\ InboundInOrder => StreamsFaithful
    BY Zenon DEF StreamsFaithful
<1>6. Spec => []CountInv
    BY <1>1, BusSafety, CountStep, PTL DEF Spec
<1>7. Spec => []InboundInv
    BY <1>2, InboundStepKeeps, PTL DEF Spec
<1> QED BY <1>3, <1>4, <1>5, <1>6, <1>7, InOrderAlways, NothingUnlisted, PTL

-----------------------------------------------------------------------------
(* The log stream of a module.                                             *)

Sends == [record : Streams, by : Handlers, on : Streams]
Emitted == [record : Streams, by : Handlers]

\* What the variables hold, and what the state of the connection says of them.
LogShape ==
    /\ logged \in 0..MaxRecords /\ connected \in BOOLEAN /\ seen \in BOOLEAN
    /\ handler \in [Handlers -> HandlerStates \cup {NoHandler}]
    /\ sending \in SUBSET Sends
    /\ wire \in [Streams -> Seq(Sends)]
    /\ coreLog \in Seq(Emitted)
    /\ stderr \in SUBSET Streams /\ taken \in SUBSET Streams
    /\ seen => ~connected
    /\ ~connected => \A s \in Streams : wire[s] = << >>
    /\ \A h \in Handlers : handler[h] # NoHandler /\ handler[h].broken => seen

\* What a handler sends goes over its stream, one record at a time.
Over(state, s) == state # NoHandler /\ state.stream = s

OneStream ==
    /\ \A send \in sending : Over(handler[send.by], send.on)
    /\ \A s \in Streams : \A i \in 1..Len(wire[s]) : Over(handler[wire[s][i].by], s)
    /\ \A a, b \in sending : a.by = b.by \/ a.record = b.record => a = b

\* A handler's records are at core, on the wire and under way in this order.
Before(a, b) == a.by = b.by => a.record < b.record

InOrder ==
    /\ \A i, j \in 1..Len(coreLog) : i < j => Before(coreLog[i], coreLog[j])
    /\ \A s \in Streams : \A i, j \in 1..Len(wire[s]) : i < j => Before(wire[s][i], wire[s][j])
    /\ \A k \in 1..Len(coreLog) :
          /\ \A s \in Streams : \A i \in 1..Len(wire[s]) : Before(coreLog[k], wire[s][i])
          /\ \A send \in sending : Before(coreLog[k], send)
    /\ \A s \in Streams : \A i \in 1..Len(wire[s]) :
          \A send \in sending : Before(wire[s][i], send)

\* Where a record is.
Wired(r) == \E s \in Streams : \E i \in 1..Len(wire[s]) : wire[s][i].record = r
Cored(r) == \E i \in 1..Len(coreLog) : coreLog[i].record = r
Going(r) == \E send \in sending : send.record = r

Placed ==
    /\ \A r \in Streams : r <= logged <=> Going(r) \/ r \in stderr \/ r \in taken
    /\ \A r \in Streams : Wired(r) \/ Cored(r) => r \in taken
    /\ \A r \in stderr : ~Going(r) /\ r \notin taken
    /\ \A r \in taken : ~Going(r)
    /\ connected /\ ~raced => \A r \in taken : Wired(r) \/ Cored(r)

LogInv == LogShape /\ OneStream /\ InOrder /\ Placed

\* What Append leaves at an index.
LEMMA Appended ==
    ASSUME NEW S, NEW q \in Seq(S), NEW x \in S
    PROVE  /\ Append(q, x) \in Seq(S) /\ Len(q) \in Nat /\ Len(Append(q, x)) = Len(q) + 1
           /\ \A i \in 1..Len(q) : Append(q, x)[i] = q[i]
           /\ Append(q, x)[Len(q) + 1] = x
    OBVIOUS

\* What Tail leaves at an index.
LEMMA Tailed ==
    ASSUME NEW S, NEW q \in Seq(S), q # << >>
    PROVE  /\ Tail(q) \in Seq(S) /\ Len(q) \in Nat \ {0} /\ Len(Tail(q)) = Len(q) - 1
           /\ \A i \in 1..Len(Tail(q)) : Tail(q)[i] = q[i + 1]
           /\ Head(q) = q[1] /\ q[1] \in S
    OBVIOUS

\* A record sent is the last on its stream.
LEMMA WireGrows ==
    ASSUME wire \in [Streams -> Seq(Sends)], NEW send \in Sends,
           wire' = [wire EXCEPT ![send.on] = Append(@, send)]
    PROVE  /\ wire' \in [Streams -> Seq(Sends)]
           /\ \A s \in Streams : \A i \in 1..Len(wire[s]) :
                 i \in 1..Len(wire'[s]) /\ wire'[s][i] = wire[s][i]
           /\ \A s \in Streams : \A i \in 1..Len(wire'[s]) :
                 \/ i \in 1..Len(wire[s])
                 \/ s = send.on /\ wire'[s][i] = send /\ \A j \in 1..Len(wire'[s]) : ~(i < j)
           /\ \E i \in 1..Len(wire'[send.on]) : wire'[send.on][i] = send
<1> DEFINE o == send.on
           q == wire[o]
<1>1. o \in Streams /\ q \in Seq(Sends)
    BY ZenonT(30) DEF Sends
<1>2. /\ wire'[o] = Append(q, send)
      /\ \A s \in Streams : s # o => wire'[s] = wire[s]
    BY <1>1, Zenon
<1>3. /\ Append(q, send) \in Seq(Sends) /\ Len(q) \in Nat /\ Len(Append(q, send)) = Len(q) + 1
      /\ \A i \in 1..Len(q) : Append(q, send)[i] = q[i]
      /\ Append(q, send)[Len(q) + 1] = send
    BY <1>1, Appended
<1>4. wire' \in [Streams -> Seq(Sends)]
    BY <1>1, <1>3, Zenon
<1> HIDE DEF q
<1>5. PICK n \in Nat : n = Len(q)
    BY <1>3, Zenon
<1>6. Len(wire'[o]) = n + 1 /\ (\A i \in 1..n : wire'[o][i] = q[i]) /\ wire'[o][n + 1] = send
    BY <1>2, <1>3, <1>5, Zenon
<1>7. /\ \A i \in 1..n : i \in 1..(n + 1)
      /\ \A i \in 1..(n + 1) : i \in 1..n \/ i = n + 1
      /\ \A j \in 1..(n + 1) : ~(n + 1 < j)
      /\ n + 1 \in 1..(n + 1)
    OBVIOUS
<1>8. /\ \A i \in 1..Len(q) : i \in 1..Len(wire'[o]) /\ wire'[o][i] = q[i]
      /\ \A i \in 1..Len(wire'[o]) : \/ i \in 1..Len(q)
                                     \/ wire'[o][i] = send /\ \A j \in 1..Len(wire'[o]) : ~(i < j)
      /\ \E i \in 1..Len(wire'[o]) : wire'[o][i] = send
    BY <1>5, <1>6, <1>7, Zenon
<1> QED BY <1>2, <1>4, <1>8, Zenon DEF q

\* What is received was the first on its stream.
LEMMA WireShrinks ==
    ASSUME wire \in [Streams -> Seq(Sends)], NEW t \in Streams, wire[t] # << >>,
           wire' = [wire EXCEPT ![t] = Tail(@)]
    PROVE  /\ wire' \in [Streams -> Seq(Sends)] /\ 1 \in 1..Len(wire[t])
           /\ Head(wire[t]) = wire[t][1] /\ wire[t][1] \in Sends
           /\ \A s \in Streams : s # t => wire'[s] = wire[s]
           /\ \A i \in 1..Len(wire'[t]) : /\ i + 1 \in 1..Len(wire[t]) /\ i \in Nat /\ 1 < i + 1
                                          /\ wire'[t][i] = wire[t][i + 1]
           /\ \A i \in 1..Len(wire[t]) :
                 i = 1 \/ (i - 1 \in 1..Len(wire'[t]) /\ wire'[t][i - 1] = wire[t][i])
<1> DEFINE q == wire[t]
<1>1. q \in Seq(Sends) /\ q # << >>
    BY Zenon
<1>2. /\ wire'[t] = Tail(q)
      /\ \A s \in Streams : s # t => wire'[s] = wire[s]
    BY Zenon
<1>3. /\ Tail(q) \in Seq(Sends) /\ Len(q) \in Nat \ {0} /\ Len(Tail(q)) = Len(q) - 1
      /\ \A i \in 1..Len(Tail(q)) : Tail(q)[i] = q[i + 1]
      /\ Head(q) = q[1] /\ q[1] \in Sends
    BY <1>1, Tailed, Zenon
<1>4. wire' \in [Streams -> Seq(Sends)]
    BY <1>3, Zenon
<1> HIDE DEF q
<1>5. PICK n \in Nat : Len(q) = n + 1 /\ Len(wire'[t]) = n
    <2>1. \A l \in Nat \ {0} : l - 1 \in Nat /\ l = (l - 1) + 1
        OBVIOUS
    <2> QED BY <1>2, <1>3, <2>1, Zenon
<1>6. \A i \in 1..n : wire'[t][i] = q[i + 1]
    BY <1>2, <1>3, <1>5, Zenon
<1>7. 1 \in 1..Len(q)
    BY <1>5
<1>8. \A i \in 1..Len(wire'[t]) : i + 1 \in 1..Len(q) /\ i \in Nat /\ 1 < i + 1 /\ wire'[t][i] = q[i + 1]
    BY <1>5, <1>6, SMTT(20)
<1>9. \A i \in 1..Len(q) : i = 1 \/ (i - 1 \in 1..Len(wire'[t]) /\ wire'[t][i - 1] = q[i])
    <2> SUFFICES ASSUME NEW i \in 1..(n + 1), i # 1
                 PROVE  i - 1 \in 1..n /\ wire'[t][i - 1] = q[i]
        BY <1>5
    <2>1. PICK j \in Nat : i = j + 1 /\ j \in 1..n /\ i - 1 = j
        OBVIOUS
    <2> QED BY <1>6, <2>1, ZenonT(30)
<1> QED BY <1>2, <1>3, <1>4, <1>7, <1>8, <1>9, ZenonT(30) DEF q

\* The shape, step by step.
LEMMA LogShapeKept ==
    ASSUME LogInv, LogNext
    PROVE  LogShape'
<1>0. LogShape /\ OneStream
    BY Zenon DEF LogInv
<1>1. ASSUME NEW h \in Handlers, Handle(h) PROVE LogShape'
    <2> DEFINE on == IF handler[h].stream = NoStream THEN logged' ELSE handler[h].stream
    <2>1. /\ handler[h] # NoHandler /\ logged < MaxRecords /\ logged' = logged + 1
          /\ handler' = [handler EXCEPT ![h].stream = IF @ = NoStream THEN on ELSE @]
          /\ sending' = sending \cup {[record |-> logged', by |-> h, on |-> on]}
          /\ UNCHANGED <<wire, coreLog, stderr, connected, seen, taken>>
        BY <1>1, Zenon DEF Handle, ends, Unlocked, Kept
    <2>2. logged' \in 0..MaxRecords /\ logged' \in Streams
        BY <1>0, <2>1, LogAssumption DEF LogShape, Streams
    <2>3. handler[h] \in HandlerStates
        BY <1>0, <2>1, Zenon DEF LogShape
    <2>4. on \in Streams
        BY <2>2, <2>3 DEF HandlerStates
    <2>5. [handler[h] EXCEPT !.stream = on] \in HandlerStates
        BY <2>3, <2>4 DEF HandlerStates
    <2>6. [handler[h] EXCEPT !.stream = on].broken = handler[h].broken
        BY <2>3 DEF HandlerStates
    <2>7. handler' = [handler EXCEPT ![h] = [handler[h] EXCEPT !.stream = on]]
        BY <2>1, ZenonT(30)
    <2>8. [record |-> logged', by |-> h, on |-> on] \in Sends
        BY <2>2, <2>4 DEF Sends
    <2> HIDE DEF on
    <2>9. handler' \in [Handlers -> HandlerStates \cup {NoHandler}]
        BY <1>0, <2>5, <2>7, Zenon DEF LogShape
    <2>10. \A g \in Handlers : handler'[g] # NoHandler /\ handler'[g].broken => seen
        BY <1>0, <2>1, <2>6, <2>7, Zenon DEF LogShape
    <2> QED BY <1>0, <2>1, <2>2, <2>8, <2>9, <2>10, Zenon DEF LogShape
<1>2. ASSUME NEW h \in Handlers, FallBack(h) PROVE LogShape'
    <2>1. /\ handler[h] # NoHandler /\ logged < MaxRecords /\ logged' = logged + 1
          /\ handler[h].broken \/ seen
          /\ handler' = [handler EXCEPT ![h].broken = TRUE]
          /\ stderr' = stderr \cup {logged'}
          /\ UNCHANGED <<sending, wire, coreLog, connected, seen, taken>>
        BY <1>2, Zenon DEF FallBack, Unlocked
    <2>2. logged' \in 0..MaxRecords /\ logged' \in Streams
        BY <1>0, <2>1, LogAssumption DEF LogShape, Streams
    <2>3. handler[h] \in HandlerStates
        BY <1>0, <2>1, Zenon DEF LogShape
    <2>4. [handler[h] EXCEPT !.broken = TRUE] \in HandlerStates
        BY <2>3, ZenonT(30) DEF HandlerStates
    <2>5. handler' = [handler EXCEPT ![h] = [handler[h] EXCEPT !.broken = TRUE]]
        BY <2>1
    <2>6. handler' \in [Handlers -> HandlerStates \cup {NoHandler}]
        BY <1>0, <2>4, <2>5, Zenon DEF LogShape
    <2>7. \A g \in Handlers : handler'[g] # NoHandler /\ handler'[g].broken => seen
        BY <1>0, <2>1, <2>5, Zenon DEF LogShape
    <2> QED BY <1>0, <2>1, <2>2, <2>6, <2>7, Zenon DEF LogShape
<1>3. ASSUME NEW send \in sending, Sent(send) PROVE LogShape'
    <2>1. /\ ~seen /\ sending' = sending \ {send}
          /\ \/ connected /\ wire' = [wire EXCEPT ![send.on] = Append(@, send)]
             \/ UNCHANGED wire
          /\ taken' = taken \cup {send.record}
          /\ UNCHANGED <<handler, coreLog, stderr, connected, seen, logged>>
        BY <1>3, Zenon DEF Sent, ends
    <2>2. send \in Sends /\ wire \in [Streams -> Seq(Sends)]
        BY <1>0, Zenon DEF LogShape
    <2>3. send.record \in Streams
        BY <2>2 DEF Sends
    <2>4. wire' \in [Streams -> Seq(Sends)] /\ taken' \in SUBSET Streams
        BY <1>0, <2>1, <2>2, <2>3, WireGrows, Zenon DEF LogShape
    <2> QED BY <1>0, <2>1, <2>4, Zenon DEF LogShape
<1>4. ASSUME NEW send \in sending, SendFails(send) PROVE LogShape'
    <2>1. /\ seen /\ sending' = sending \ {send} /\ stderr' = stderr \cup {send.record}
          /\ handler' = [handler EXCEPT ![send.by] = [stream |-> NoStream, broken |-> TRUE]]
          /\ UNCHANGED <<wire, coreLog, connected, seen, logged, taken>>
        BY <1>4, Zenon DEF SendFails, Fallback
    <2>2. send \in Sends
        BY <1>0, Zenon DEF LogShape
    <2>3. send.record \in Streams /\ send.by \in Handlers
        BY <2>2 DEF Sends
    <2>4. [stream |-> NoStream, broken |-> TRUE] \in HandlerStates
        BY DEF HandlerStates
    <2>5. handler' \in [Handlers -> HandlerStates \cup {NoHandler}]
        BY <1>0, <2>1, <2>4, Zenon DEF LogShape
    <2> QED BY <1>0, <2>1, <2>3, <2>5, Zenon DEF LogShape
<1>5. ASSUME NEW h \in Handlers, NEW d \in Derived, With(h, d) PROVE LogShape'
    <2>1. /\ handler[h] # NoHandler
          /\ handler' = [handler EXCEPT ![d] = [stream |-> handler[h].stream, broken |-> FALSE]]
          /\ UNCHANGED <<sending, wire, coreLog, stderr, connected, seen, logged, taken>>
        BY <1>5, Zenon DEF With, ends, Unlocked
    <2>2. handler[h] \in HandlerStates
        BY <1>0, <2>1, Zenon DEF LogShape
    <2>3. /\ [stream |-> handler[h].stream, broken |-> FALSE] \in HandlerStates
          /\ ~[stream |-> handler[h].stream, broken |-> FALSE].broken
        BY <2>2 DEF HandlerStates
    <2>4. handler' \in [Handlers -> HandlerStates \cup {NoHandler}]
        BY <1>0, <2>1, <2>3, Zenon DEF LogShape
    <2>5. \A g \in Handlers : handler'[g] # NoHandler /\ handler'[g].broken => seen
        BY <1>0, <2>1, <2>3, Zenon DEF LogShape
    <2> QED BY <1>0, <2>1, <2>4, <2>5, Zenon DEF LogShape
<1>6. ASSUME NEW t \in Streams, Receive(t) PROVE LogShape'
    <2> DEFINE e == [record |-> Head(wire[t]).record, by |-> Head(wire[t]).by]
    <2>1. /\ wire[t] # << >> /\ wire' = [wire EXCEPT ![t] = Tail(@)]
          /\ coreLog' = Append(coreLog, e)
          /\ UNCHANGED <<handler, sending, stderr, connected, seen, logged, taken>>
        BY <1>6, Zenon DEF Receive
    <2>2. wire \in [Streams -> Seq(Sends)] /\ coreLog \in Seq(Emitted) /\ connected
        BY <1>0, <2>1, ZenonT(30) DEF LogShape
    <2>3. wire' \in [Streams -> Seq(Sends)] /\ Head(wire[t]) \in Sends
        BY <2>1, <2>2, WireShrinks, SMTT(20)
    <2>4. e \in Emitted
        BY <2>3, SMTT(20) DEF Sends, Emitted
    <2> HIDE DEF e
    <2>5. coreLog' \in Seq(Emitted)
        BY <2>1, <2>2, <2>4, Appended, SMTT(20)
    <2> QED BY <1>0, <2>1, <2>2, <2>3, <2>5, Zenon DEF LogShape
<1>7. CASE Disconnect
    <2>1. /\ connected' = FALSE /\ wire' = [s \in Streams |-> << >>]
          /\ UNCHANGED <<handler, sending, coreLog, stderr, seen, logged, taken>>
        BY <1>7, Zenon DEF Disconnect, ends
    <2>2. << >> \in Seq(Sends)
        OBVIOUS
    <2>3. wire' \in [Streams -> Seq(Sends)]
        BY <2>1, <2>2, Zenon
    <2> QED BY <1>0, <2>1, <2>3, Zenon DEF LogShape
<1>8. CASE Notice
    <2>1. /\ ~connected /\ seen' = TRUE
          /\ UNCHANGED <<handler, sending, wire, coreLog, stderr, connected, logged, taken>>
        BY <1>8, Zenon DEF Notice, ends
    <2> QED BY <1>0, <2>1, Zenon DEF LogShape
<1> QED BY <1>1, <1>2, <1>3, <1>4, <1>5, <1>6, <1>7, <1>8, Zenon DEF LogNext

\* What is on its way was logged.
LEMMA LoggedBefore ==
    ASSUME LogInv
    PROVE  /\ \A send \in sending : /\ send.record \in Streams /\ send.record <= logged
                                    /\ send.by \in Handlers /\ send.on \in Streams
           /\ \A s \in Streams : \A i \in 1..Len(wire[s]) :
                 /\ wire[s][i].record \in Streams /\ wire[s][i].record <= logged
                 /\ wire[s][i].by \in Handlers
           /\ \A i \in 1..Len(coreLog) :
                 coreLog[i].record \in Streams /\ coreLog[i].record <= logged
<1>0. LogShape /\ Placed
    BY Zenon DEF LogInv
<1>1. ASSUME NEW send \in sending
      PROVE  send.record \in Streams /\ send.record <= logged /\ send.by \in Handlers /\ send.on \in Streams
    <2>1. send \in Sends
        BY <1>0, Zenon DEF LogShape
    <2>2. send.record \in Streams /\ send.by \in Handlers /\ send.on \in Streams
        BY <2>1 DEF Sends
    <2> QED BY <1>0, <2>2, Zenon DEF Placed, Going
<1>2. ASSUME NEW s \in Streams, NEW i \in 1..Len(wire[s])
      PROVE  /\ wire[s][i].record \in Streams /\ wire[s][i].record <= logged
             /\ wire[s][i].by \in Handlers
    <2>1. wire[s][i] \in Sends
        BY <1>0, SMTT(20) DEF LogShape
    <2>2. wire[s][i].record \in Streams /\ wire[s][i].by \in Handlers
        BY <2>1 DEF Sends
    <2> QED BY <1>0, <2>2, Zenon DEF Placed, Wired
<1>3. ASSUME NEW i \in 1..Len(coreLog) PROVE coreLog[i].record \in Streams /\ coreLog[i].record <= logged
    <2>1. coreLog[i] \in Emitted
        BY <1>0, SMTT(20) DEF LogShape
    <2>2. coreLog[i].record \in Streams
        BY <2>1 DEF Emitted
    <2> QED BY <1>0, <2>2, Zenon DEF Placed, Cored
<1> QED BY <1>1, <1>2, <1>3, Zenon

\* A stream changes hands only where the handler has nothing under way.
LEMMA OneStreamKept ==
    ASSUME LogInv, LogNext
    PROVE  OneStream'
<1>0. LogShape /\ OneStream
    BY Zenon DEF LogInv
<1>1. ASSUME NEW h \in Handlers, Handle(h) PROVE OneStream'
    <2> DEFINE on == IF handler[h].stream = NoStream THEN logged' ELSE handler[h].stream
               new == [record |-> logged', by |-> h, on |-> on]
    <2>1. /\ handler[h] # NoHandler /\ \A send \in sending : send.by # h
          /\ logged' = logged + 1
          /\ handler' = [handler EXCEPT ![h].stream = IF @ = NoStream THEN on ELSE @]
          /\ sending' = sending \cup {new} /\ wire' = wire
        BY <1>1, Zenon DEF Handle, ends, Unlocked, Kept
    <2>2. handler[h] \in HandlerStates
        BY <1>0, <2>1, Zenon DEF LogShape
    <2>3. [handler[h] EXCEPT !.stream = on].stream = on
        BY <2>2, SMTT(20) DEF HandlerStates
    <2>4. handler' = [handler EXCEPT ![h] = [handler[h] EXCEPT !.stream = on]]
        BY <2>1, ZenonT(30)
    <2>5. handler'[h] \in HandlerStates
        <3>1. on \in Streams
            BY <1>0, <1>1, <2>2, LogShapeKept, LogAssumption DEF LogShape, HandlerStates, Handle,
               Streams
        <3>2. [handler[h] EXCEPT !.stream = on] \in HandlerStates
            BY <2>2, <3>1 DEF HandlerStates
        <3> QED BY <1>0, <2>4, <3>2, Zenon DEF LogShape
    <2>6. handler'[h] # NoHandler /\ handler'[h].stream = on
        BY <1>0, <2>3, <2>4, <2>5, LogAssumption, Zenon DEF LogShape
    <2>7. new.by = h /\ new.on = on /\ new.record = logged'
        OBVIOUS
    <2>8. \A send \in sending : send.record # logged'
        BY <1>0, <2>1, LoggedBefore DEF LogShape, Streams
    <2>9. \A g \in Handlers : g # h => handler'[g] = handler[g]
        BY <1>0, <2>4, Zenon DEF LogShape
    <2> HIDE DEF on, new
    <2>10. Over(handler'[h], on) /\ \A g \in Handlers, s \in Streams : Over(handler[g], s) => Over(handler'[g], s)
        <3>1. Over(handler'[h], on)
            BY <2>6, Zenon DEF Over
        <3>2. ASSUME NEW g \in Handlers, NEW s \in Streams, Over(handler[g], s) PROVE Over(handler'[g], s)
            <4>1. CASE g = h
                BY <2>6, <3>2, <4>1, LogAssumption, Zenon DEF Over, on
            <4> QED BY <2>9, <3>2, <4>1, Zenon DEF Over
        <3> QED BY <3>1, <3>2, Zenon
    <2>11. ASSUME NEW a \in sending', NEW b \in sending', a.by = b.by \/ a.record = b.record
           PROVE  a = b
        <3>1. CASE a \in sending /\ b \in sending
            BY <1>0, <2>11, <3>1, Zenon DEF OneStream
        <3>2. CASE a = new /\ b \in sending
            BY <2>1, <2>7, <2>8, <2>11, <3>2, Zenon
        <3>3. CASE a \in sending /\ b = new
            BY <2>1, <2>7, <2>8, <2>11, <3>3, Zenon
        <3> QED BY <2>1, <3>1, <3>2, <3>3, Zenon
    <2>12. ASSUME NEW send \in sending' PROVE Over(handler'[send.by], send.on)
        <3>1. CASE send \in sending
            BY <1>0, <2>10, <3>1, LoggedBefore, Zenon DEF OneStream
        <3> QED BY <2>1, <2>7, <2>10, <3>1, Zenon
    <2>13. ASSUME NEW s \in Streams, NEW i \in 1..Len(wire[s]) PROVE Over(handler'[wire[s][i].by], s)
        BY <1>0, <2>10, LoggedBefore, Zenon DEF OneStream
    <2> QED BY <2>1, <2>11, <2>12, <2>13, Zenon DEF OneStream
<1>2. ASSUME NEW h \in Handlers, FallBack(h) PROVE OneStream'
    <2>1. /\ handler[h] # NoHandler
          /\ handler' = [handler EXCEPT ![h].broken = TRUE] /\ UNCHANGED <<sending, wire>>
        BY <1>2, Zenon DEF FallBack, Unlocked
    <2>2. handler[h] \in HandlerStates
        BY <1>0, <2>1, Zenon DEF LogShape
    <2>3. /\ [handler[h] EXCEPT !.broken = TRUE].stream = handler[h].stream
          /\ [handler[h] EXCEPT !.broken = TRUE] \in HandlerStates
        BY <2>2, ZenonT(30) DEF HandlerStates
    <2>4. handler' = [handler EXCEPT ![h] = [handler[h] EXCEPT !.broken = TRUE]]
        BY <2>1
    <2>5. \A g \in Handlers, s \in Streams : Over(handler[g], s) => Over(handler'[g], s)
        BY <1>0, <2>3, <2>4, LogAssumption, Zenon DEF LogShape, Over
    <2> QED BY <1>0, <2>1, <2>5, LoggedBefore, Zenon DEF OneStream
<1>3. ASSUME NEW send \in sending, Sent(send) PROVE OneStream'
    <2>1. /\ sending' = sending \ {send} /\ handler' = handler
          /\ wire' = [wire EXCEPT ![send.on] = Append(@, send)] \/ wire' = wire
        BY <1>3, Zenon DEF Sent, ends
    <2>2. send \in Sends /\ wire \in [Streams -> Seq(Sends)]
        BY <1>0, Zenon DEF LogShape
    <2>5. \A g, s : Over(handler[g], s) => Over(handler'[g], s)
        BY <2>1, Zenon DEF Over
    <2>3. CASE wire' = wire
        BY <1>0, <2>1, <2>3, <2>5, Zenon DEF OneStream
    <2>4. CASE wire' = [wire EXCEPT ![send.on] = Append(@, send)]
        <3>1. ASSUME NEW s \in Streams, NEW i \in 1..Len(wire'[s]) PROVE Over(handler[wire'[s][i].by], s)
            <4>1. \/ i \in 1..Len(wire[s]) /\ wire'[s][i] = wire[s][i]
                  \/ s = send.on /\ wire'[s][i] = send
                <5>1. i \in 1..Len(wire[s]) => wire'[s][i] = wire[s][i]
                    BY <2>2, <2>4, WireGrows, Zenon
                <5>2. \A t \in Streams : \A k \in 1..Len(wire'[t]) :
                         \/ k \in 1..Len(wire[t])
                         \/ t = send.on /\ wire'[t][k] = send /\ \A j \in 1..Len(wire'[t]) : ~(k < j)
                    BY <2>2, <2>4, WireGrows, Zenon
                <5> QED BY <5>1, <5>2, Zenon
            <4> QED BY <1>0, <4>1, ZenonT(30) DEF OneStream
        <3> QED BY <1>0, <2>1, <2>5, <3>1, Zenon DEF OneStream
    <2> QED BY <2>1, <2>3, <2>4, Zenon
<1>4. ASSUME NEW send \in sending, SendFails(send) PROVE OneStream'
    <2>1. /\ seen /\ sending' = sending \ {send} /\ wire' = wire
          /\ handler' = [handler EXCEPT ![send.by] = [stream |-> NoStream, broken |-> TRUE]]
        BY <1>4, Zenon DEF SendFails
    <2>2. \A g \in Handlers : g # send.by => handler'[g] = handler[g]
        BY <1>0, <2>1, Zenon DEF LogShape
    <2>3. \A s \in Streams : wire[s] = << >>
        BY <1>0, <2>1, Zenon DEF LogShape
    <2>4. \A s \in Streams : 1..Len(wire[s]) = {}
        <3>1. Len(<< >>) = 0 /\ 1..0 = {}
            OBVIOUS
        <3> QED BY <2>3, <3>1, Zenon
    <2>5. ASSUME NEW other \in sending' PROVE Over(handler'[other.by], other.on)
        <3>1. other \in sending /\ other.by # send.by
            BY <1>0, <2>1, Zenon DEF OneStream
        <3> QED BY <1>0, <2>2, <3>1, LoggedBefore, Zenon DEF OneStream, Over
    <2> QED BY <1>0, <2>1, <2>4, <2>5, Zenon DEF OneStream
<1>5. ASSUME NEW h \in Handlers, NEW d \in Derived, With(h, d) PROVE OneStream'
    <2>1. /\ handler[d] = NoHandler /\ UNCHANGED <<sending, wire>>
          /\ handler' = [handler EXCEPT ![d] = [stream |-> handler[h].stream, broken |-> FALSE]]
        BY <1>5, Zenon DEF With, ends, Unlocked
    <2>2. \A g \in Handlers, s \in Streams : Over(handler[g], s) => Over(handler'[g], s)
        BY <1>0, <2>1, Zenon DEF LogShape, Over
    <2> QED BY <1>0, <2>1, <2>2, LoggedBefore, Zenon DEF OneStream
<1>6. ASSUME NEW t \in Streams, Receive(t) PROVE OneStream'
    <2>1. wire[t] # << >> /\ wire' = [wire EXCEPT ![t] = Tail(@)] /\ UNCHANGED <<handler, sending>>
        BY <1>6, Zenon DEF Receive
    <2>2. wire \in [Streams -> Seq(Sends)]
        BY <1>0, Zenon DEF LogShape
    <2>3. \A g, s : Over(handler[g], s) => Over(handler'[g], s)
        BY <2>1, Zenon DEF Over
    <2>4. ASSUME NEW s \in Streams, NEW i \in 1..Len(wire'[s]) PROVE Over(handler[wire'[s][i].by], s)
        <3>1. \E j \in 1..Len(wire[s]) : wire'[s][i] = wire[s][j]
            <4>1. CASE s = t
                BY <2>1, <2>2, <4>1, WireShrinks, SMTT(20)
            <4>2. CASE s # t
                <5>1. wire'[s] = wire[s]
                    BY <2>1, <2>2, <4>2, Zenon
                <5> QED BY <5>1, Zenon
            <4> QED BY <4>1, <4>2, Zenon
        <3> QED BY <1>0, <3>1, Zenon DEF OneStream
    <2> QED BY <1>0, <2>1, <2>3, <2>4, Zenon DEF OneStream
<1>7. CASE Disconnect
    <2>1. wire' = [s \in Streams |-> << >>] /\ UNCHANGED <<handler, sending>>
        BY <1>7, Zenon DEF Disconnect, ends
    <2>2. Len(<< >>) = 0 /\ 1..0 = {}
        OBVIOUS
    <2>3. \A s \in Streams : 1..Len(wire'[s]) = {}
        BY <2>1, <2>2, Zenon
    <2>4. \A g, s : Over(handler[g], s) => Over(handler'[g], s)
        BY <2>1, Zenon DEF Over
    <2> QED BY <1>0, <2>1, <2>3, <2>4, Zenon DEF OneStream
<1>8. CASE Notice
    <2>1. UNCHANGED <<handler, sending, wire>>
        BY <1>8, Zenon DEF Notice
    <2>2. \A g, s : Over(handler[g], s) => Over(handler'[g], s)
        BY <2>1, Zenon DEF Over
    <2> QED BY <1>0, <2>1, <2>2, Zenon DEF OneStream
<1> QED BY <1>1, <1>2, <1>3, <1>4, <1>5, <1>6, <1>7, <1>8, ZenonT(30) DEF LogNext

\* The order of a handler's records is kept on their way.
LEMMA InOrderKept ==
    ASSUME LogInv, LogNext
    PROVE  InOrder'
<1>0. LogShape /\ OneStream /\ InOrder
    BY Zenon DEF LogInv
<1>1. ASSUME NEW h \in Handlers, Handle(h) PROVE InOrder'
    <2>1. PICK on \in {logged', handler[h].stream} :
                /\ logged' = logged + 1 /\ UNCHANGED <<wire, coreLog>>
                /\ sending' = sending \cup {[record |-> logged', by |-> h, on |-> on]}
        BY <1>1, Zenon DEF Handle, ends
    <2> DEFINE new == [record |-> logged', by |-> h, on |-> on]
    <2>2. new.record = logged + 1 /\ logged \in Nat
        BY <1>0, <2>1 DEF LogShape
    <2>3. sending' = sending \cup {new}
        BY <2>1, Zenon
    <2> HIDE DEF new
    <2>4. \A r \in Streams : r <= logged => r < new.record
        BY <2>2 DEF Streams
    <2>5. ASSUME NEW k \in 1..Len(coreLog), NEW send \in sending' PROVE Before(coreLog[k], send)
        <3>1. CASE send = new
            BY <2>4, <3>1, LoggedBefore, Zenon DEF Before
        <3> QED BY <1>0, <2>3, <3>1, Zenon DEF InOrder
    <2>6. ASSUME NEW s \in Streams, NEW i \in 1..Len(wire[s]), NEW send \in sending'
          PROVE  Before(wire[s][i], send)
        <3>1. CASE send = new
            BY <2>4, <3>1, LoggedBefore, Zenon DEF Before
        <3> QED BY <1>0, <2>3, <3>1, Zenon DEF InOrder
    <2> QED BY <1>0, <2>1, <2>5, <2>6, Zenon DEF InOrder
<1>2. ASSUME UNCHANGED <<wire, coreLog>>, \A send \in sending' : send \in sending
      PROVE  InOrder'
    BY <1>0, <1>2, Zenon DEF InOrder
<1>3. ASSUME NEW send \in sending, Sent(send) PROVE InOrder'
    <2>1. /\ sending' = sending \ {send} /\ coreLog' = coreLog
          /\ wire' = [wire EXCEPT ![send.on] = Append(@, send)] \/ wire' = wire
        BY <1>3, Zenon DEF Sent, ends
    <2>2. send \in Sends /\ wire \in [Streams -> Seq(Sends)]
        BY <1>0, Zenon DEF LogShape
    <2>3. CASE wire' = wire
        BY <1>2, <2>1, <2>3, Zenon
    <2>4. CASE wire' = [wire EXCEPT ![send.on] = Append(@, send)]
        <3>1. ASSUME NEW s \in Streams, NEW i \in 1..Len(wire'[s])
              PROVE  \/ i \in 1..Len(wire[s]) /\ wire'[s][i] = wire[s][i]
                     \/ s = send.on /\ wire'[s][i] = send /\ \A j \in 1..Len(wire'[s]) : ~(i < j)
            BY <2>2, <2>4, WireGrows, ZenonT(30)
        <3>2. ASSUME NEW s \in Streams, NEW i \in 1..Len(wire'[s]), NEW j \in 1..Len(wire'[s]), i < j
              PROVE  Before(wire'[s][i], wire'[s][j])
            <4>1. i \in 1..Len(wire[s]) /\ wire'[s][i] = wire[s][i]
                BY <3>1, <3>2, Zenon
            <4>2. CASE j \in 1..Len(wire[s]) /\ wire'[s][j] = wire[s][j]
                BY <1>0, <3>2, <4>1, <4>2, Zenon DEF InOrder
            <4>3. CASE wire'[s][j] = send
                BY <1>0, <4>1, <4>3, Zenon DEF InOrder
            <4> QED BY <3>1, <4>2, <4>3, Zenon
        <3>3. ASSUME NEW k \in 1..Len(coreLog), NEW s \in Streams, NEW i \in 1..Len(wire'[s])
              PROVE  Before(coreLog[k], wire'[s][i])
            BY <1>0, <3>1, Zenon DEF InOrder
        <3>4. ASSUME NEW s \in Streams, NEW i \in 1..Len(wire'[s]), NEW other \in sending'
              PROVE  Before(wire'[s][i], other)
            <4>1. other \in sending /\ other.by # send.by
                BY <1>0, <2>1, Zenon DEF OneStream
            <4>2. CASE wire'[s][i] = send
                BY <4>1, <4>2, Zenon DEF Before
            <4> QED BY <1>0, <3>1, <4>1, <4>2, Zenon DEF InOrder
        <3> QED BY <1>0, <2>1, <3>2, <3>3, <3>4, ZenonT(30) DEF InOrder
    <2> QED BY <2>1, <2>3, <2>4, Zenon
<1>4. ASSUME NEW t \in Streams, Receive(t) PROVE InOrder'
    <2> DEFINE e == [record |-> Head(wire[t]).record, by |-> Head(wire[t]).by]
               n == Len(coreLog)
    <2>1. /\ wire[t] # << >> /\ wire' = [wire EXCEPT ![t] = Tail(@)]
          /\ coreLog' = Append(coreLog, e) /\ sending' = sending
        BY <1>4, Zenon DEF Receive
    <2>2. wire \in [Streams -> Seq(Sends)] /\ coreLog \in Seq(Emitted)
        BY <1>0, <2>1, ZenonT(30) DEF LogShape
    <2>3. /\ 1 \in 1..Len(wire[t]) /\ Head(wire[t]) = wire[t][1] /\ wire[t][1] \in Sends
          /\ \A s \in Streams : s # t => wire'[s] = wire[s]
          /\ \A i \in 1..Len(wire'[t]) : /\ i + 1 \in 1..Len(wire[t]) /\ i \in Nat /\ 1 < i + 1
                                         /\ wire'[t][i] = wire[t][i + 1]
        BY <2>1, <2>2, WireShrinks, SMTT(20)
    <2>4. e \in Emitted /\ e.by = wire[t][1].by /\ e.record = wire[t][1].record
        BY <2>3, ZenonT(30) DEF Sends, Emitted
    <2> HIDE DEF e
    <2>5. ASSUME NEW k \in 1..Len(coreLog')
          PROVE  \/ k \in 1..n /\ coreLog'[k] = coreLog[k]
                 \/ coreLog'[k] = e /\ \A j \in 1..Len(coreLog') : ~(k < j)
        <3>1. /\ n \in Nat /\ Len(coreLog') = n + 1
              /\ \A i \in 1..n : coreLog'[i] = coreLog[i]
              /\ coreLog'[n + 1] = e
            <4>1. /\ Len(coreLog) \in Nat /\ Len(Append(coreLog, e)) = Len(coreLog) + 1
                  /\ \A i \in 1..Len(coreLog) : Append(coreLog, e)[i] = coreLog[i]
                  /\ Append(coreLog, e)[Len(coreLog) + 1] = e
                BY <2>2, <2>4
            <4> QED BY <2>1, <4>1, Zenon
        <3> HIDE DEF n
        <3>2. k \in 1..n \/ (k = n + 1 /\ \A j \in 1..Len(coreLog') : ~(k < j))
            BY <3>1
        <3> QED BY <3>1, <3>2, Zenon
    <2>6. ASSUME NEW s \in Streams, NEW i \in 1..Len(wire'[s])
          PROVE  \E j \in 1..Len(wire[s]) : wire'[s][i] = wire[s][j] /\ (s = t => 1 < j)
        <3>1. CASE s = t
            BY <2>3, <3>1, Zenon
        <3> QED BY <2>3, <3>1, Zenon
    <2>7. ASSUME NEW i \in 1..Len(coreLog'), NEW j \in 1..Len(coreLog'), i < j
          PROVE  Before(coreLog'[i], coreLog'[j])
        <3>1. i \in 1..n /\ coreLog'[i] = coreLog[i]
            BY <2>5, <2>7, Zenon
        <3>2. CASE j \in 1..n /\ coreLog'[j] = coreLog[j]
            BY <1>0, <2>7, <3>1, <3>2, Zenon DEF InOrder
        <3>3. CASE coreLog'[j] = e
            <4>1. Before(coreLog[i], wire[t][1])
                BY <1>0, <2>3, <3>1, Zenon DEF InOrder
            <4> QED BY <2>4, <3>1, <3>3, <4>1, Zenon DEF Before
        <3> QED BY <2>5, <3>2, <3>3, Zenon
    <2>8. ASSUME NEW k \in 1..Len(coreLog'), NEW s \in Streams, NEW i \in 1..Len(wire'[s])
          PROVE  Before(coreLog'[k], wire'[s][i])
        <3>1. PICK j \in 1..Len(wire[s]) : wire'[s][i] = wire[s][j] /\ (s = t => 1 < j)
            BY <2>6, Zenon
        <3>2. CASE k \in 1..n /\ coreLog'[k] = coreLog[k]
            BY <1>0, <3>1, <3>2, Zenon DEF InOrder
        <3>3. CASE coreLog'[k] = e
            <4>1. CASE s = t
                <5>1. Before(wire[t][1], wire[t][j])
                    BY <1>0, <2>3, <3>1, <4>1, Zenon DEF InOrder
                <5> QED BY <2>4, <3>1, <3>3, <4>1, <5>1, Zenon DEF Before
            <4>2. CASE s # t
                <5>1. wire[s][j].by # wire[t][1].by
                    <6>1. Over(handler[wire[s][j].by], s) /\ Over(handler[wire[t][1].by], t)
                        BY <1>0, <2>3, Zenon DEF OneStream
                    <6> QED BY <4>2, <6>1, Zenon DEF Over
                <5> QED BY <2>4, <3>1, <3>3, <5>1, Zenon DEF Before
            <4> QED BY <4>1, <4>2, Zenon
        <3> QED BY <2>5, <3>2, <3>3, Zenon
    <2>9. ASSUME NEW k \in 1..Len(coreLog'), NEW send \in sending PROVE Before(coreLog'[k], send)
        <3>1. CASE coreLog'[k] = e
            <4>1. Before(wire[t][1], send)
                BY <1>0, <2>3, Zenon DEF InOrder
            <4> QED BY <2>4, <3>1, <4>1, Zenon DEF Before
        <3> QED BY <1>0, <2>5, <3>1, Zenon DEF InOrder
    <2>10. ASSUME NEW s \in Streams, NEW i \in 1..Len(wire'[s]), NEW send \in sending
           PROVE  Before(wire'[s][i], send)
        BY <1>0, <2>6, ZenonT(30) DEF InOrder
    <2>11. ASSUME NEW s \in Streams, NEW i \in 1..Len(wire'[s]), NEW j \in 1..Len(wire'[s]), i < j
           PROVE  Before(wire'[s][i], wire'[s][j])
        <3>1. CASE s = t
            <4>1. /\ i + 1 \in 1..Len(wire[t]) /\ wire'[t][i] = wire[t][i + 1]
                  /\ j + 1 \in 1..Len(wire[t]) /\ wire'[t][j] = wire[t][j + 1]
                  /\ i \in Nat /\ j \in Nat
                BY <2>3, <3>1, Zenon
            <4>2. i + 1 < j + 1
                BY <2>11, <4>1
            <4> QED BY <1>0, <3>1, <4>1, <4>2, Zenon DEF InOrder
        <3>2. CASE s # t
            <4>1. wire'[s] = wire[s]
                BY <2>3, <3>2, Zenon
            <4> QED BY <1>0, <2>11, <4>1, Zenon DEF InOrder
        <3> QED BY <3>1, <3>2, Zenon
    <2> QED BY <2>1, <2>7, <2>8, <2>9, <2>10, <2>11, ZenonT(30) DEF InOrder
<1>5. CASE Disconnect
    <2>1. wire' = [s \in Streams |-> << >>] /\ UNCHANGED <<coreLog, sending>>
        BY <1>5, Zenon DEF Disconnect, ends
    <2>2. Len(<< >>) = 0 /\ 1..0 = {}
        OBVIOUS
    <2>3. \A s \in Streams : 1..Len(wire'[s]) = {}
        BY <2>1, <2>2, Zenon
    <2> QED BY <1>0, <2>1, <2>3, Zenon DEF InOrder
<1>6. ASSUME NEW h \in Handlers, FallBack(h) PROVE InOrder'
    BY <1>2, <1>6, Zenon DEF FallBack
<1>7. ASSUME NEW send \in sending, SendFails(send) PROVE InOrder'
    BY <1>2, <1>7, Zenon DEF SendFails
<1>8. ASSUME NEW h \in Handlers, NEW d \in Derived, With(h, d) PROVE InOrder'
    BY <1>2, <1>8, Zenon DEF With, ends
<1>9. CASE Notice
    BY <1>2, <1>9, Zenon DEF Notice, ends
<1> QED BY <1>1, <1>3, <1>4, <1>5, <1>6, <1>7, <1>8, <1>9, ZenonT(30) DEF LogNext

\* No step loses a record, and none puts one in two places.
LEMMA PlacedKept ==
    ASSUME LogInv, LogNext
    PROVE  Placed'
<1>0. LogShape /\ OneStream /\ Placed
    BY Zenon DEF LogInv
<1>1. ASSUME logged' = logged + 1, logged < MaxRecords
      PROVE  /\ logged' \in Streams /\ ~(logged' <= logged)
             /\ \A r \in Streams : r <= logged' <=> r <= logged \/ r = logged'
    BY <1>0, <1>1, LogAssumption DEF LogShape, Streams
<1>2. ASSUME NEW h \in Handlers, Handle(h) PROVE Placed'
    <2>1. PICK on \in {logged', handler[h].stream} :
                /\ logged' = logged + 1 /\ logged < MaxRecords
                /\ UNCHANGED <<wire, coreLog, stderr, taken, connected>> /\ (raced => raced')
                /\ sending' = sending \cup {[record |-> logged', by |-> h, on |-> on]}
        BY <1>2, Zenon DEF Handle, ends
    <2> DEFINE new == [record |-> logged', by |-> h, on |-> on]
    <2>2. new.record = logged' /\ sending' = sending \cup {new}
        BY <2>1
    <2> HIDE DEF new
    <2>3. \A r \in Streams : /\ Going(r)' <=> Going(r) \/ r = logged'
                             /\ Wired(r)' <=> Wired(r)
                             /\ Cored(r)' <=> Cored(r)
        BY <2>1, <2>2, Zenon DEF Going, Wired, Cored
    <2>4. \A r \in stderr \cup taken : r \in Streams /\ r # logged'
        BY <1>0, <1>1, <2>1, Zenon DEF Placed, LogShape
    <2>5. /\ \A r \in stderr' : ~Going(r)' /\ r \notin taken'
          /\ \A r \in taken' : ~Going(r)'
        BY <1>0, <2>1, <2>3, <2>4, ZenonT(30) DEF Placed
    <2>6. \A r \in Streams : r <= logged' <=> Going(r)' \/ r \in stderr' \/ r \in taken'
        BY <1>0, <1>1, <2>1, <2>3, ZenonT(30) DEF Placed
    <2>7. /\ \A r \in Streams : Wired(r)' \/ Cored(r)' => r \in taken'
          /\ connected' /\ ~raced' => \A r \in taken' : Wired(r)' \/ Cored(r)'
        BY <1>0, <2>1, <2>3, <2>4, ZenonT(30) DEF Placed
    <2> QED BY <2>5, <2>6, <2>7, Zenon DEF Placed
<1>3. ASSUME NEW h \in Handlers, FallBack(h) PROVE Placed'
    <2>1. /\ logged' = logged + 1 /\ logged < MaxRecords /\ stderr' = stderr \cup {logged'}
          /\ UNCHANGED <<sending, wire, coreLog, connected, taken, raced>>
        BY <1>3, Zenon DEF FallBack
    <2>2. \A r : (Going(r)' <=> Going(r)) /\ (Wired(r)' <=> Wired(r)) /\ (Cored(r)' <=> Cored(r))
        BY <2>1, Zenon DEF Going, Wired, Cored
    <2>3. ~Going(logged') /\ logged' \notin taken
        BY <1>0, <1>1, <2>1, Zenon DEF Placed
    <2>4. \A r \in stderr' : ~Going(r)' /\ r \notin taken'
        BY <1>0, <2>1, <2>2, <2>3, Zenon DEF Placed
    <2>5. \A r \in Streams : r <= logged' <=> Going(r)' \/ r \in stderr' \/ r \in taken'
        BY <1>0, <1>1, <2>1, <2>2, ZenonT(30) DEF Placed
    <2> QED BY <1>0, <2>1, <2>2, <2>4, <2>5, Zenon DEF Placed
<1>4. ASSUME NEW send \in sending, sending' = sending \ {send}
      PROVE  /\ send.record \in Streams /\ Going(send.record)
             /\ \A r : Going(r)' <=> Going(r) /\ r # send.record
    BY <1>0, <1>4, LoggedBefore, Zenon DEF OneStream, Going
<1>5. ASSUME NEW send \in sending, Sent(send) PROVE Placed'
    <2>1. /\ sending' = sending \ {send}
          /\ taken' = taken \cup {send.record}
          /\ \/ wire' = [wire EXCEPT ![send.on] = Append(@, send)]
             \/ (~connected \/ raced) /\ UNCHANGED wire
          /\ UNCHANGED <<coreLog, stderr, connected, logged, raced>>
        BY <1>5, Zenon DEF Sent, ends
    <2>2. \A r : Cored(r)' <=> Cored(r)
        BY <2>1, Zenon DEF Cored
    <2>3. /\ send.record \in Streams /\ Going(send.record)
          /\ \A r : Going(r)' <=> Going(r) /\ r # send.record
        BY <1>4, <2>1, Zenon
    <2>4. /\ \A r \in stderr' : ~Going(r)' /\ r \notin taken'
          /\ \A r \in taken' : ~Going(r)'
        BY <1>0, <2>1, <2>3, ZenonT(30) DEF Placed
    <2>5. \A r \in Streams : r <= logged' <=> Going(r)' \/ r \in stderr' \/ r \in taken'
        BY <1>0, <2>1, <2>3, ZenonT(30) DEF Placed
    <2>6. CASE wire' = [wire EXCEPT ![send.on] = Append(@, send)]
        <3>1. send \in Sends /\ wire \in [Streams -> Seq(Sends)]
            BY <1>0, Zenon DEF LogShape
        <3>2. send.on \in Streams
            BY LoggedBefore, Zenon
        <3>3. ASSUME NEW r PROVE Wired(r)' <=> Wired(r) \/ r = send.record
            <4>1. ASSUME Wired(r) PROVE Wired(r)'
                <5>1. PICK s \in Streams : \E i \in 1..Len(wire[s]) : wire[s][i].record = r
                    BY <4>1, Zenon DEF Wired
                <5>2. PICK i \in 1..Len(wire[s]) : wire[s][i].record = r
                    BY <5>1, ZenonT(30)
                <5>3. i \in 1..Len(wire'[s]) /\ wire'[s][i] = wire[s][i]
                    BY <2>6, <3>1, WireGrows, ZenonT(30)
                <5> QED BY <5>2, <5>3, Zenon DEF Wired
            <4>2. \E i \in 1..Len(wire'[send.on]) : wire'[send.on][i] = send
                BY <2>6, <3>1, WireGrows, Zenon
            <4>3. ASSUME Wired(r)' PROVE Wired(r) \/ r = send.record
                <5>1. PICK s \in Streams : \E i \in 1..Len(wire'[s]) : wire'[s][i].record = r
                    BY <4>3, Zenon DEF Wired
                <5>2. PICK i \in 1..Len(wire'[s]) : wire'[s][i].record = r
                    BY <5>1, Zenon
                <5>3. (i \in 1..Len(wire[s]) /\ wire'[s][i] = wire[s][i]) \/ wire'[s][i] = send
                    <6>1. i \in 1..Len(wire[s]) => wire'[s][i] = wire[s][i]
                        BY <2>6, <3>1, WireGrows, Zenon
                    <6>2. \A t \in Streams : \A k \in 1..Len(wire'[t]) :
                             \/ k \in 1..Len(wire[t])
                             \/ /\ t = send.on /\ wire'[t][k] = send
                                /\ \A j \in 1..Len(wire'[t]) : ~(k < j)
                        BY <2>6, <3>1, WireGrows, Zenon
                    <6> QED BY <6>1, <6>2, Zenon
                <5> QED BY <5>2, <5>3, Zenon DEF Wired
            <4> QED BY <3>2, <4>1, <4>2, <4>3, Zenon DEF Wired
        <3>4. \A r \in Streams : Wired(r)' \/ Cored(r)' => r \in taken'
            BY <1>0, <2>1, <2>2, <3>3, ZenonT(30) DEF Placed
        <3>5. connected' /\ ~raced' => \A r \in taken' : Wired(r)' \/ Cored(r)'
            BY <1>0, <2>1, <2>2, <3>3, ZenonT(30) DEF Placed
        <3> QED BY <2>4, <2>5, <3>4, <3>5, Zenon DEF Placed
    <2>7. CASE (~connected \/ raced) /\ UNCHANGED wire
        <3>1. \A r : Wired(r)' <=> Wired(r)
            BY <2>7, Zenon DEF Wired
        <3>2. \A r \in Streams : Wired(r)' \/ Cored(r)' => r \in taken'
            BY <1>0, <2>1, <2>2, <3>1, ZenonT(30) DEF Placed
        <3>3. ~(connected' /\ ~raced')
            BY <2>1, <2>7, Zenon
        <3> QED BY <2>4, <2>5, <3>2, <3>3, Zenon DEF Placed
    <2> QED BY <2>1, <2>6, <2>7, Zenon
<1>6. ASSUME NEW send \in sending, SendFails(send) PROVE Placed'
    <2>1. /\ sending' = sending \ {send} /\ stderr' = stderr \cup {send.record}
          /\ UNCHANGED <<wire, coreLog, connected, logged, taken, raced>>
        BY <1>6, Zenon DEF SendFails, Fallback
    <2>2. \A r : (Cored(r)' <=> Cored(r)) /\ (Wired(r)' <=> Wired(r))
        BY <2>1, Zenon DEF Cored, Wired
    <2>3. /\ send.record \in Streams /\ Going(send.record)
          /\ \A r : Going(r)' <=> Going(r) /\ r # send.record
        BY <1>4, <2>1, Zenon
    <2>4. /\ \A r \in stderr' : ~Going(r)' /\ r \notin taken'
          /\ \A r \in taken' : ~Going(r)'
        BY <1>0, <2>1, <2>3, ZenonT(30) DEF Placed
    <2>5. \A r \in Streams : r <= logged' <=> Going(r)' \/ r \in stderr' \/ r \in taken'
        BY <1>0, <2>1, <2>3, ZenonT(30) DEF Placed
    <2> QED BY <1>0, <2>1, <2>2, <2>4, <2>5, ZenonT(30) DEF Placed
<1>7. ASSUME NEW t \in Streams, Receive(t) PROVE Placed'
    <2> DEFINE e == [record |-> Head(wire[t]).record, by |-> Head(wire[t]).by]
    <2>1. /\ wire[t] # << >> /\ wire' = [wire EXCEPT ![t] = Tail(@)]
          /\ coreLog' = Append(coreLog, e)
          /\ UNCHANGED <<sending, stderr, connected, logged, taken, raced>>
        BY <1>7, Zenon DEF Receive
    <2>2. wire \in [Streams -> Seq(Sends)] /\ coreLog \in Seq(Emitted)
        BY <1>0, <2>1, ZenonT(30) DEF LogShape
    <2>3. /\ 1 \in 1..Len(wire[t]) /\ Head(wire[t]) = wire[t][1] /\ wire[t][1] \in Sends
          /\ \A s \in Streams : s # t => wire'[s] = wire[s]
        BY <2>1, <2>2, WireShrinks, SMTT(20)
    <2>4. /\ \A i \in 1..Len(wire'[t]) : i + 1 \in 1..Len(wire[t]) /\ wire'[t][i] = wire[t][i + 1]
          /\ \A i \in 1..Len(wire[t]) :
                 i = 1 \/ (i - 1 \in 1..Len(wire'[t]) /\ wire'[t][i - 1] = wire[t][i])
        BY <2>1, <2>2, WireShrinks, ZenonT(30)
    <2>5. e \in Emitted /\ e.record = wire[t][1].record
        BY <2>3, ZenonT(30) DEF Sends, Emitted
    <2> HIDE DEF e
    <2>6. \A r : Going(r)' <=> Going(r)
        BY <2>1, Zenon DEF Going
    <2>7. Wired(e.record)
        BY <2>3, <2>5, Zenon DEF Wired
    <2>8. ASSUME NEW r PROVE (Wired(r)' => Wired(r)) /\ (Wired(r) => Wired(r)' \/ r = e.record)
        <3>1. ASSUME NEW s \in Streams, NEW i \in 1..Len(wire'[s]), wire'[s][i].record = r
              PROVE  Wired(r)
            <4>1. CASE s = t
                BY <2>4, <3>1, <4>1, Zenon DEF Wired
            <4>2. CASE s # t
                <5>1. wire'[s] = wire[s]
                    BY <2>3, <4>2, Zenon
                <5> QED BY <3>1, <5>1, Zenon DEF Wired
            <4> QED BY <4>1, <4>2, Zenon
        <3>2. ASSUME NEW s \in Streams, NEW i \in 1..Len(wire[s]), wire[s][i].record = r
              PROVE  Wired(r)' \/ r = e.record
            <4>1. CASE s = t
                BY <2>4, <2>5, <3>2, <4>1, Zenon DEF Wired
            <4>2. CASE s # t
                <5>1. wire'[s] = wire[s]
                    BY <2>3, <4>2, Zenon
                <5> QED BY <3>2, <5>1, Zenon DEF Wired
            <4> QED BY <4>1, <4>2, Zenon
        <3> QED BY <3>1, <3>2, Zenon DEF Wired
    <2>9. ASSUME NEW r PROVE Cored(r)' <=> Cored(r) \/ r = e.record
        <3> DEFINE n == Len(coreLog)
        <3>1. n \in Nat /\ Len(coreLog') = n + 1 /\ coreLog'[n + 1] = e
              /\ \A i \in 1..n : coreLog'[i] = coreLog[i]
            BY <2>1, <2>2, <2>5, Appended, SMTT(20)
        <3> HIDE DEF n
        <3>2. /\ n + 1 \in 1..(n + 1)
              /\ \A i \in 1..(n + 1) : i \in 1..n \/ i = n + 1
              /\ \A i \in 1..n : i \in 1..(n + 1)
            BY <3>1
        <3> QED BY <3>1, <3>2, Zenon DEF Cored, n
    <2>10. \A r \in Streams : Wired(r)' \/ Cored(r)' => r \in taken'
        BY <1>0, <2>1, <2>7, <2>8, <2>9, ZenonT(30) DEF Placed
    <2>11. connected' /\ ~raced' => \A r \in taken' : Wired(r)' \/ Cored(r)'
        BY <1>0, <2>1, <2>8, <2>9, ZenonT(30) DEF Placed
    <2> QED BY <1>0, <2>1, <2>6, <2>10, <2>11, ZenonT(30) DEF Placed
<1>8. CASE Disconnect
    <2>1. /\ connected' = FALSE /\ wire' = [s \in Streams |-> << >>]
          /\ UNCHANGED <<sending, coreLog, stderr, logged, taken>>
        BY <1>8, Zenon DEF Disconnect, ends
    <2>2. Len(<< >>) = 0 /\ 1..0 = {}
        OBVIOUS
    <2>3. \A r : ~Wired(r)' /\ (Going(r)' <=> Going(r)) /\ (Cored(r)' <=> Cored(r))
        BY <2>1, <2>2, Zenon DEF Wired, Going, Cored
    <2> QED BY <1>0, <2>1, <2>3, ZenonT(30) DEF Placed
<1>9. ASSUME UNCHANGED <<sending, wire, coreLog, stderr, connected, logged, taken, raced>> PROVE Placed'
    <2>1. \A r : (Going(r)' <=> Going(r)) /\ (Wired(r)' <=> Wired(r)) /\ (Cored(r)' <=> Cored(r))
        BY <1>9, Zenon DEF Going, Wired, Cored
    <2> QED BY <1>0, <1>9, <2>1, Zenon DEF Placed
<1>10. ASSUME NEW h \in Handlers, NEW d \in Derived, With(h, d) PROVE Placed'
    BY <1>9, <1>10, Zenon DEF With, ends
<1>11. CASE Notice
    BY <1>9, <1>11, Zenon DEF Notice, ends
<1> QED BY <1>2, <1>3, <1>5, <1>6, <1>7, <1>8, <1>10, <1>11, ZenonT(30) DEF LogNext

\* Whatever the handlers derived, the streams and the moment the connection
\* ends: a record a module logged is on stderr unless Send took it, what Send
\* took is at core or on its way while the connection holds and no two Sends
\* overlapped, and core has each handler's records in the order they were logged.
THEOREM LogsAlwaysAccounted == LogSpec => []LogsAccounted
<1>1. LogInit => LogInv
    <2> SUFFICES ASSUME LogInit PROVE LogInv
        OBVIOUS
    <2>1. /\ handler = [h \in Handlers |-> IF h = Root THEN [stream |-> NoStream, broken |-> FALSE]
                                                       ELSE NoHandler]
          /\ sending = {} /\ wire = [s \in Streams |-> << >>]
          /\ coreLog = << >> /\ stderr = {} /\ taken = {}
          /\ connected = TRUE /\ seen = FALSE /\ logged = 0
        BY Zenon DEF LogInit
    <2>2. Len(<< >>) = 0 /\ 1..0 = {} /\ << >> \in Seq(Sends) /\ << >> \in Seq(Emitted)
        OBVIOUS
    <2>3. \A s \in Streams : 1..Len(wire[s]) = {}
        BY <2>1, <2>2, Zenon
    <2>4. 1..Len(coreLog) = {}
        BY <2>1, <2>2, Zenon
    <2>5. /\ [stream |-> NoStream, broken |-> FALSE] \in HandlerStates
          /\ [stream |-> NoStream, broken |-> FALSE].broken = FALSE
        BY SMTT(20) DEF HandlerStates
    <2>6. logged \in 0..MaxRecords /\ \A r \in Streams : ~(r <= logged)
        BY <2>1, LogAssumption DEF Streams
    <2>7. /\ handler \in [Handlers -> HandlerStates \cup {NoHandler}]
          /\ \A h \in Handlers : handler[h] # NoHandler => handler[h].broken = FALSE
        BY <2>1, <2>5, Zenon
    <2>8. LogShape
        BY <2>1, <2>2, <2>6, <2>7, Zenon DEF LogShape
    <2>9. OneStream /\ InOrder
        BY <2>1, <2>3, <2>4, Zenon DEF OneStream, InOrder
    <2>10. Placed
        BY <2>1, <2>3, <2>4, <2>6, Zenon DEF Placed, Wired, Cored, Going
    <2> QED BY <2>8, <2>9, <2>10, Zenon DEF LogInv
<1>2. LogInv /\ [LogNext]_logVars => LogInv'
    <2> SUFFICES ASSUME LogInv, [LogNext]_logVars PROVE LogInv'
        BY Zenon
    <2>1. CASE LogNext
        BY <2>1, LogShapeKept, OneStreamKept, InOrderKept, PlacedKept, Zenon DEF LogInv
    <2>2. CASE UNCHANGED logVars
        <3>1. UNCHANGED <<handler, sending, wire, coreLog, stderr, connected, seen, logged, taken, raced>>
            BY <2>2, Zenon DEF logVars, ends
        <3>2. LogShape' /\ OneStream' /\ InOrder'
            BY <3>1, Zenon DEF LogInv, LogShape, OneStream, InOrder
        <3>3. Placed'
            <4>1. \A r : (Going(r)' <=> Going(r)) /\ (Wired(r)' <=> Wired(r)) /\ (Cored(r)' <=> Cored(r))
                BY <3>1, Zenon DEF Going, Wired, Cored
            <4> QED BY <3>1, <4>1, Zenon DEF LogInv, Placed
        <3> QED BY <3>2, <3>3, Zenon DEF LogInv
    <2> QED BY <2>1, <2>2, Zenon
<1>3. LogInv => LogsAccounted
    <2> SUFFICES ASSUME LogInv PROVE LogsAccounted
        OBVIOUS
    <2>0. LogShape /\ InOrder /\ Placed
        BY Zenon DEF LogInv
    <2>1. \A r : /\ r \in OnWire <=> Wired(r)
                 /\ r \in AtCore <=> Cored(r)
                 /\ r \in UnderWay <=> Going(r)
        <3>1. ASSUME NEW r PROVE r \in OnWire <=> Wired(r)
            BY SMTT(20) DEF OnWire, Wired
        <3>2. ASSUME NEW r PROVE (r \in AtCore <=> Cored(r)) /\ (r \in UnderWay <=> Going(r))
            BY SMT DEF AtCore, UnderWay, Cored, Going
        <3> QED BY <3>1, <3>2, Zenon
    <2>2. \A r : Wired(r) \/ Cored(r) \/ Going(r) => r \in Streams
        BY LoggedBefore, Zenon DEF Wired, Cored, Going
    <2>3. /\ 1..logged \subseteq Streams
          /\ \A r \in Streams : r <= logged <=> r \in 1..logged
        BY <2>0, LogAssumption DEF LogShape, Streams
    <2>4. stderr \subseteq Streams /\ taken \subseteq Streams
        BY <2>0, Zenon DEF LogShape
    <2>5. 1..logged = UnderWay \cup stderr \cup taken
        <3>1. ASSUME NEW r \in Streams PROVE r \in 1..logged <=> r \in UnderWay \cup stderr \cup taken
            BY <2>0, <2>1, <2>3, Zenon DEF Placed
        <3>2. UnderWay \cup stderr \cup taken \subseteq Streams
            BY <2>1, <2>2, <2>4, Zenon
        <3> QED BY <2>3, <3>1, <3>2, Zenon
    <2>6. stderr \cap (UnderWay \cup taken) = {} /\ UnderWay \cap taken = {}
        BY <2>0, <2>1, <2>4, Zenon DEF Placed
    <2>7. OnWire \cup AtCore \subseteq taken
        BY <2>0, <2>1, <2>2, Zenon DEF Placed
    <2>8. connected /\ ~raced => taken \subseteq OnWire \cup AtCore
        BY <2>0, <2>1, Zenon DEF Placed
    <2> QED BY <2>0, <2>5, <2>6, <2>7, <2>8, Zenon DEF LogsAccounted, InOrder, Before
<1> QED BY <1>1, <1>2, <1>3, PTL DEF LogSpec

=============================================================================
