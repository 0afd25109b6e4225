-------------------------- MODULE TransportProofs ---------------------------
(* The mux keeps the promise of MessageQueue, and delivers no message      *)
(* twice but for a fault, for every number of calls, flushes, peers and    *)
(* faults and every queue cap.                                             *)
EXTENDS Transport, FiniteSetTheorems, WellFoundedInduction, TLAPS

Shape ==
    /\ queue = [j \in DOMAIN queue |-> queue[j]]
    /\ DOMAIN queue \subseteq Nat
    /\ \A j \in DOMAIN queue : queue[j] \in Calls
    /\ nextID \in Nat
    /\ seeded \in BOOLEAN
    /\ pc \in [Threads -> {"idle", "refused", "put", "cap", "drop", "flush", "get",
                           "resend", "delete", "return", "done", "dead"}]
    /\ key \in [Calls -> Nat]
    /\ todo \in [Threads -> SUBSET Nat]
    /\ held \in [Threads -> Calls \cup {None}]
    /\ receipts \in [Calls -> Nat]
    /\ answer \in [Calls -> {"none", "delivered", "queued", "failed"}]

\* flush is under way; it has read a message and not yet deleted it.
Draining(t) == pc[t] \in {"get", "resend", "delete"}
Carrying(t) == pc[t] \in {"resend", "delete"}

\* Stored keys are below the counter, a message has one key, and the key of a Put under way
\* is nobody else's.
Keys ==
    /\ \A i, j \in DOMAIN queue : queue[i] = queue[j] => i = j
    /\ seeded => \A j \in DOMAIN queue : j <= nextID
    /\ \A t \in Threads : pc[t] \in {"refused", "put", "cap", "drop", "flush"} => t \in Calls
    /\ \A c \in Calls : pc[c] \in {"idle", "refused", "put"} =>
        \A j \in DOMAIN queue : queue[j] # c
    /\ \A c \in Calls : pc[c] \in {"cap", "drop"} => seeded
    /\ \A c \in Calls : pc[c] = "put" =>
        /\ seeded /\ key[c] <= nextID /\ key[c] \notin DOMAIN queue
        /\ \A d \in Calls : d # c /\ pc[d] = "put" => key[d] # key[c]
        /\ \A t \in Threads : Draining(t) => key[c] \notin todo[t]

\* Only the holder of flushMu drains; while it carries a message, the key it will delete
\* holds that message or nothing.
Drain ==
    /\ \A t \in Threads : Draining(t) =>
        /\ flushMu = t
        /\ seeded => \A k \in todo[t] : k <= nextID
        /\ ~seeded => todo[t] \subseteq DOMAIN queue
    /\ \A t \in Threads : Carrying(t) =>
        /\ held[t] \in Calls
        /\ pc[held[t]] \notin {"idle", "refused", "put"}
        /\ \A k \in Oldest(todo[t]) : \A j \in DOMAIN queue : queue[j] = held[t] <=> j = k
    /\ \A t \in Threads : pc[t] = "delete" => receipts[held[t]] > 0

\* What a call may answer when it returns.
Kept(c) ==
    receipts[c] > 0 \/ c \in discarded \/ c \in unstored \/ \E j \in DOMAIN queue : queue[j] = c

Answers ==
    \A c \in Calls :
        /\ pc[c] # "done" => answer[c] = "none"
        /\ pc[c] \in {"cap", "drop"} => key[c] > 0 /\ Kept(c)
        /\ pc[c] = "put" => key[c] > 0
        /\ pc[c] \in {"idle", "refused", "flush", "get", "resend", "delete"} => key[c] = 0
        /\ pc[c] \in {"flush", "get", "resend", "delete"} => receipts[c] > 0
        /\ pc[c] = "return" => IF key[c] > 0 THEN Kept(c) ELSE receipts[c] > 0

\* A stored message that its peer already has is blurred or about to be deleted.
Once ==
    /\ \A m \in Calls : receipts[m] > 1 => m \in blurred
    /\ \A c \in Calls : pc[c] = "idle" => receipts[c] = 0
    /\ \A c \in Calls : pc[c] \in {"refused", "put"} => receipts[c] = 0 \/ c \in blurred
    /\ \A j \in DOMAIN queue : \/ receipts[queue[j]] = 0
                               \/ queue[j] \in blurred
                               \/ \E t \in Threads : pc[t] = "delete" /\ held[t] = queue[j]
    /\ \A t \in Threads : pc[t] = "resend" => receipts[held[t]] = 0 \/ held[t] \in blurred

Inv == Shape /\ Keys /\ Drain /\ Answers /\ Once

\* The goroutines are the calls of Send and those of Flush, and None is neither.
LEMMA CallsAreThreads == Calls \subseteq Threads /\ None \notin Threads
BY TransportConstants, Zenon DEF Threads

\* A set of keys has one oldest member at most.
LEMMA OldestIsOne ==
    ASSUME NEW S \in SUBSET Nat, NEW i \in Oldest(S), NEW j \in Oldest(S)
    PROVE  i = j
BY DEF Oldest

\* Every step keeps the queue, the counter and the goroutines' locals in their sets.
LEMMA ShapeStep == Inv /\ [Next]_vars => Shape'
<1> SUFFICES ASSUME Inv, [Next]_vars PROVE Shape'
    BY Zenon
<1> USE CallsAreThreads DEF Inv
<1>1. CASE UNCHANGED vars
    BY <1>1 DEF vars, mux, locals, history, Shape
<1>2. CASE Crash
    BY <1>2, ZenonT(30) DEF Crash, Fault, Running, mux, Shape
<1>3. ASSUME NEW c \in Threads, Step(c) PROVE Shape'
  <2>1. CASE Unavailable(c)
      BY <2>1, ZenonT(30) DEF Unavailable, Goto, mux, history, Shape
  <2>2. CASE AllocateKey(c)
    <3>0. PICK n \in {nextID} \cup DOMAIN queue : nextID' = n + 1
      BY <2>2, Zenon DEF AllocateKey, NextKey
    <3>a. nextID' \in Nat
      BY <3>0 DEF Shape
    <3>1. nextID' \in Nat /\ key' \in [Calls -> Nat]
      BY <2>2, <3>a, Zenon DEF AllocateKey, Shape
    <3>2. seeded' \in BOOLEAN
      BY <2>2, Zenon DEF AllocateKey
    <3> QED
      BY <2>2, <3>1, <3>2 DEF AllocateKey, Goto, Shape
  <2>3. CASE Put(c)
    BY <2>3 DEF Put, Goto, mux, Shape, Keys
  <2>4. CASE PutFails(c)
      BY <2>4 DEF PutFails, Fault, Goto, mux, history, Shape
  <2>5. CASE ListForCap(c)
      BY <2>5 DEF ListForCap, Excess, List, Goto, mux, history, Shape
  <2>6. CASE DropOldest(c)
      BY <2>6 DEF DropOldest, Delete, Without, MessageAt, Fault, Goto, mux, history, Shape
  <2>7. CASE FlushAfterSend(c)
      BY <2>7 DEF FlushAfterSend, ListForFlush, List, Goto, mux, history, Shape
  <2>8. CASE FlushSkips(c)
      BY <2>8 DEF FlushSkips, Goto, mux, history, Shape
  <2>9. CASE FlushUnreadable(c)
      BY <2>9 DEF FlushUnreadable, MessageAt, Without, Fault, Goto, mux, history, Shape
  <2>10. CASE FlushGets(c)
      BY <2>10 DEF FlushGets, MessageAt, Goto, mux, history, Shape
  <2>11. CASE FlushSends(c)
    BY <2>11 DEF FlushSends, Goto, mux, Shape, Drain, Carrying, Draining
  <2>12. CASE FlushStops(c)
      BY <2>12 DEF FlushStops, Unlock, NotReceived, ReplyLost, Fault, Goto, mux, history,
         Shape
  <2>13. CASE FlushDeletes(c)
      BY <2>13 DEF FlushDeletes, Delete, Without, MessageAt, Fault, Goto, mux, history,
         Shape
  <2>14. CASE FlushEnds(c)
      BY <2>14 DEF FlushEnds, Unlock, Goto, mux, history, Shape
  <2>15. CASE Return(c)
      BY <2>15 DEF Return, Goto, mux, history, Shape
  <2> QED
    BY <1>3, <2>1, <2>2, <2>3, <2>4, <2>5, <2>6, <2>7, <2>8, <2>9, <2>10, <2>11, <2>12,
       <2>13, <2>14, <2>15 DEF Step, SendStep, FlushStep
<1>4. ASSUME NEW c \in Threads, NEW p \in Peers, PeerAccepts(c, p) PROVE Shape'
    BY <1>4 DEF PeerAccepts, Begin, Goto, mux, history, Shape
<1>5. ASSUME NEW c \in Threads, NEW p \in Peers, PeerRefuses(c, p) PROVE Shape'
    BY <1>5 DEF PeerRefuses, Begin, NotReceived, ReplyLost, Fault, Goto, mux, history, Shape
<1>6. ASSUME NEW c \in Threads, NEW p \in Peers, Flush(c, p) PROVE Shape'
    BY <1>6 DEF Flush, ListForFlush, List, Goto, mux, history, Shape
<1> QED
    BY <1>1, <1>2, <1>3, <1>4, <1>5, <1>6 DEF Next

\* Every step keeps the keys apart: seedNextIDLocked starts above what is stored, and the
\* counter only grows until core dies.
LEMMA KeysStep == Inv /\ [Next]_vars => Keys'
<1> SUFFICES ASSUME Inv, [Next]_vars PROVE Keys'
    BY Zenon
<1> USE CallsAreThreads DEF Inv
<1>1. CASE UNCHANGED vars
    BY <1>1 DEF vars, mux, locals, history, Shape, Keys, Drain, Carrying, Draining
<1>2. CASE Crash
    BY <1>2 DEF Crash, Fault, Running, mux, Shape, Keys, Drain, Carrying, Draining
<1>3. ASSUME NEW c \in Threads, Step(c) PROVE Keys'
  <2>1. CASE Unavailable(c)
      BY <2>1, SMTT(20) DEF Unavailable, Goto, mux, history, Shape, Keys, Drain, Carrying, Draining
  <2>2. CASE AllocateKey(c)
      BY <2>2, SMTT(20) DEF AllocateKey, Seed, NextKey, Goto, mux, history, Shape, Keys, Drain,
         Carrying, Draining
  <2>3. CASE Put(c)
      BY <2>3, SMTT(20) DEF Put, Goto, mux, history, Shape, Keys, Drain, Carrying, Draining
  <2>4. CASE PutFails(c)
      BY <2>4, SMTT(20) DEF PutFails, Fault, Goto, mux, history, Shape, Keys, Drain, Carrying,
         Draining
  <2>5. CASE ListForCap(c)
      BY <2>5, SMTT(20) DEF ListForCap, Goto, mux, history, Shape, Keys, Drain, Carrying, Draining
  <2>6. CASE DropOldest(c)
      BY <2>6, SMTT(20) DEF DropOldest, Delete, Without, MessageAt, Fault, Goto, mux, history,
         Shape,
         Keys, Drain, Carrying, Draining
  <2>7. CASE FlushAfterSend(c)
      BY <2>7, SMTT(20) DEF FlushAfterSend, ListForFlush, List, Goto, mux, history, Shape, Keys,
         Drain,
         Carrying, Draining
  <2>8. CASE FlushSkips(c)
      BY <2>8, SMTT(20) DEF FlushSkips, Goto, mux, history, Shape, Keys, Drain, Carrying, Draining
  <2>9. CASE FlushUnreadable(c)
      BY <2>9, SMTT(20) DEF FlushUnreadable, MessageAt, Without, Fault, Goto, mux, history, Shape,
         Keys, Drain, Carrying, Draining
  <2>10. CASE FlushGets(c)
      BY <2>10, SMTT(20) DEF FlushGets, MessageAt, Goto, mux, history, Shape, Keys, Drain,
         Carrying, Draining
  <2>11. CASE FlushSends(c)
      BY <2>11, SMTT(20) DEF FlushSends, Goto, mux, history, Shape, Keys, Drain, Carrying, Draining
  <2>12. CASE FlushStops(c)
      BY <2>12, SMTT(20) DEF FlushStops, Unlock, NotReceived, ReplyLost, Fault, Goto, mux, history,
         Shape, Keys, Drain, Carrying, Draining
  <2>13. CASE FlushDeletes(c)
      BY <2>13, SMTT(20) DEF FlushDeletes, Delete, Without, MessageAt, Fault, Goto, mux, history,
         Shape, Keys, Drain, Carrying, Draining
  <2>14. CASE FlushEnds(c)
      BY <2>14, SMTT(20) DEF FlushEnds, Unlock, Goto, mux, history, Shape, Keys, Drain, Carrying,
         Draining
  <2>15. CASE Return(c)
      BY <2>15, SMTT(20) DEF Return, Goto, mux, history, Shape, Keys, Drain, Carrying, Draining
  <2> QED
    BY <1>3, <2>1, <2>2, <2>3, <2>4, <2>5, <2>6, <2>7, <2>8, <2>9, <2>10, <2>11, <2>12,
       <2>13, <2>14, <2>15, ZenonT(30) DEF Step, SendStep, FlushStep
<1>4. ASSUME NEW c \in Threads, NEW p \in Peers, PeerAccepts(c, p) PROVE Keys'
    BY <1>4, SMTT(20) DEF PeerAccepts, Begin, Goto, mux, history, Shape, Keys, Drain, Carrying,
       Draining
<1>5. ASSUME NEW c \in Threads, NEW p \in Peers, PeerRefuses(c, p) PROVE Keys'
    BY <1>5, SMTT(20) DEF PeerRefuses, Begin, NotReceived, ReplyLost, Fault, Goto, mux, history,
       Shape, Keys, Drain, Carrying, Draining
<1>6. ASSUME NEW c \in Threads, NEW p \in Peers, Flush(c, p) PROVE Keys'
    BY <1>6 DEF Flush, ListForFlush, List, Goto, mux, history, Shape, Keys, Drain, Carrying,
       Draining
<1> QED
    BY <1>1, <1>2, <1>3, <1>4, <1>5, <1>6, Zenon DEF Next

\* flushMu admits one drain at a time.
LEMMA OneDrain ==
    ASSUME Drain, NEW t \in Threads, Draining(t)
    PROVE  flushMu = t /\ \A u \in Threads : Draining(u) \/ Carrying(u) => u = t
<1>1. \A u \in Threads : Draining(u) => flushMu = u
    BY Zenon DEF Drain
<1>2. \A u \in Threads : Carrying(u) => Draining(u)
    BY Zenon DEF Carrying, Draining
<1> QED BY <1>1, <1>2, Zenon

\* What a drain holds while it carries a message.
LEMMA Carries ==
    ASSUME Drain, NEW t \in Threads, Carrying(t)
    PROVE  /\ held[t] \in Calls
           /\ pc[held[t]] \notin {"idle", "refused", "put"}
           /\ \A k \in Oldest(todo[t]) : \A j \in DOMAIN queue : queue[j] = held[t] <=> j = k
           /\ pc[t] = "delete" => receipts[held[t]] > 0
BY Zenon DEF Drain

\* A new drain finds no other, and lists keys that enqueue has given out.
LEMMA ListingKeepsDrain ==
    ASSUME Inv, NEW c \in Threads, ListForFlush(c)
    PROVE  Drain'
<1> USE DEF Inv
<1>1. /\ UNCHANGED <<queue, nextID, seeded, held, receipts>>
      /\ flushMu = None /\ flushMu' = c
      /\ todo' = [todo EXCEPT ![c] = DOMAIN queue] /\ pc' = [pc EXCEPT ![c] = "get"]
    BY Zenon DEF ListForFlush, FlushMuFree, List, Goto
<1>2. \A t \in Threads : ~Draining(t) /\ (t # c => pc'[t] = pc[t])
  <2>1. \A t \in Threads : Draining(t) => flushMu = t
    BY Zenon DEF Drain
  <2>2. \A t \in Threads : t # c => pc'[t] = pc[t]
    BY <1>1, Zenon DEF Shape
  <2> QED BY <1>1, <2>1, <2>2, CallsAreThreads, Zenon
<1>3. pc'[c] = "get" /\ todo'[c] = DOMAIN queue
    BY <1>1, Zenon DEF Shape
<1>4. \A t \in Threads : Draining(t)' => t = c
    BY <1>2, Zenon DEF Draining
<1>5. \A t \in Threads : ~Carrying(t)' /\ pc'[t] # "delete"
    BY <1>2, <1>3, Zenon DEF Draining, Carrying
<1>6. seeded => \A k \in DOMAIN queue : k <= nextID
    BY Zenon DEF Keys
<1> QED BY <1>1, <1>3, <1>4, <1>5, <1>6, Zenon DEF Drain

\* Every step keeps the key a drain will delete at the message it has sent.
LEMMA DrainStep == Inv /\ [Next]_vars => Drain'
<1> SUFFICES ASSUME Inv, [Next]_vars PROVE Drain'
    BY Zenon
<1> USE CallsAreThreads DEF Inv
<1>1. CASE UNCHANGED vars
    BY <1>1 DEF vars, mux, locals, history, Shape, Keys, Drain, Carrying, Draining
<1>2. CASE Crash
    BY <1>2, Zenon DEF Crash, Fault, Running, mux, Shape, Keys, Drain, Carrying, Draining
<1>3. ASSUME NEW c \in Threads, Step(c) PROVE Drain'
  <2>1. CASE Unavailable(c)
      BY <2>1, SMTT(20) DEF Unavailable, Goto, mux, history, Shape, Keys, Drain, Carrying, Draining
  <2>2. CASE AllocateKey(c)
      BY <2>2 DEF AllocateKey, Seed, NextKey, Goto, mux, history, Shape, Keys, Drain,
         Carrying, Draining
  <2>3. CASE Put(c)
    <3>1. /\ pc[c] = "put" /\ c \in Calls /\ pc' = [pc EXCEPT ![c] = "cap"]
          /\ UNCHANGED <<nextID, seeded, flushMu, todo, held, receipts>>
      BY <2>3, Zenon DEF Put, Goto, mux, Keys
    <3>2. key[c] \notin DOMAIN queue /\ seeded /\ \A t \in Threads : Draining(t) => key[c] \notin todo[t]
      BY <3>1, Zenon DEF Keys
    <3>3. /\ DOMAIN queue' = DOMAIN queue \cup {key[c]} /\ queue'[key[c]] = c
          /\ \A j \in DOMAIN queue : queue'[j] = queue[j]
      BY <2>3, <3>2, Zenon DEF Put
    <3>4. pc'[c] = "cap" /\ \A t \in Threads : t # c => pc'[t] = pc[t]
      BY <3>1, CallsAreThreads, Zenon DEF Shape
    <3>5. \A t \in Threads : /\ Draining(t)' => Draining(t)
                             /\ Carrying(t)' => Carrying(t) /\ Draining(t)
                             /\ pc'[t] = "delete" => pc[t] = "delete"
      BY <3>4, Zenon DEF Draining, Carrying
    <3>6. \A t \in Threads : Carrying(t) => held[t] # c /\ pc'[held[t]] \notin {"idle", "refused", "put"}
      BY <3>1, <3>4, CallsAreThreads, ZenonT(30) DEF Drain
    <3>7. ASSUME NEW t \in Threads, Carrying(t), Draining(t), NEW k \in Oldest(todo[t]),
                 NEW j \in DOMAIN queue'
          PROVE  queue'[j] = held[t] <=> j = k
      <4>1. k # key[c]
        BY <3>2, <3>7, Zenon DEF Oldest
      <4>2. \A i \in DOMAIN queue : queue[i] = held[t] <=> i = k
        BY <3>7, Carries, Zenon
      <4>3. held[t] # c
        BY <3>6, <3>7, Zenon
      <4> QED BY <3>3, <4>1, <4>2, <4>3
    <3>8. \A t \in Threads : Draining(t) => flushMu = t /\ \A k \in todo[t] : k <= nextID
      BY <3>2, Zenon DEF Drain
    <3>9. \A t \in Threads : pc[t] = "delete" => Carrying(t)
      BY Zenon DEF Carrying
    <3>10. \A t \in Threads : Carrying(t) => held[t] \in Calls /\ (pc[t] = "delete" => receipts[held[t]] > 0)
      BY Carries, Zenon
    <3>11. seeded' /\ UNCHANGED <<nextID, flushMu, todo, held, receipts>>
      BY <3>1, <3>2, Zenon
    <3>12. \A t \in Threads : Draining(t)' =>
              /\ flushMu' = t
              /\ seeded' => \A k \in todo'[t] : k <= nextID'
              /\ ~seeded' => todo'[t] \subseteq DOMAIN queue'
      BY <3>5, <3>8, <3>11, Zenon
    <3>13. ASSUME NEW t \in Threads, Carrying(t)'
           PROVE  /\ held'[t] \in Calls
                  /\ pc'[held'[t]] \notin {"idle", "refused", "put"}
                  /\ \A k \in Oldest(todo'[t]) : \A j \in DOMAIN queue' : queue'[j] = held'[t] <=> j = k
      <4>1. Carrying(t) /\ Draining(t)
        BY <3>5, <3>13, Zenon
      <4>2. \A k \in Oldest(todo[t]) : \A j \in DOMAIN queue' : queue'[j] = held[t] <=> j = k
        BY <3>7, <4>1, Zenon
      <4>3. held[t] \in Calls /\ pc'[held[t]] \notin {"idle", "refused", "put"}
        BY <3>6, <3>10, <4>1, Zenon
      <4> QED BY <3>11, <4>2, <4>3, Zenon
    <3>14. \A t \in Threads : pc'[t] = "delete" => receipts'[held'[t]] > 0
      BY <3>5, <3>9, <3>10, <3>11, ZenonT(30)
    <3> QED
      BY <3>12, <3>13, <3>14, Zenon DEF Drain
  <2>4. CASE PutFails(c)
      BY <2>4, SMTT(20) DEF PutFails, Fault, Goto, mux, history, Shape, Keys, Drain, Carrying,
         Draining
  <2>5. CASE ListForCap(c)
      BY <2>5, SMTT(20) DEF ListForCap, Goto, mux, history, Shape, Keys, Drain, Carrying, Draining
  <2>6. CASE DropOldest(c)
      BY <2>6 DEF DropOldest, Delete, Without, MessageAt, Fault, Goto, mux, history, Shape,
         Keys, Drain, Carrying, Draining
  <2>7. CASE FlushAfterSend(c)
      BY <2>7, ListingKeepsDrain, Zenon DEF FlushAfterSend
  <2>8. CASE FlushSkips(c)
      BY <2>8, SMTT(20) DEF FlushSkips, Goto, mux, history, Shape, Keys, Drain, Carrying, Draining
  <2>9. CASE FlushUnreadable(c)
      BY <2>9, SMTT(20) DEF FlushUnreadable, MessageAt, Without, Fault, Goto, mux, history, Shape,
         Keys, Drain, Carrying, Draining
  <2>10. CASE FlushGets(c)
    <3>1. PICK k \in Oldest(todo[c]) : \E m \in MessageAt(k) : held' = [held EXCEPT ![c] = m]
      BY <2>10, Zenon DEF FlushGets
    <3>2. k \in DOMAIN queue /\ held' = [held EXCEPT ![c] = queue[k]]
      BY <3>1, Zenon DEF MessageAt
    <3>3. \A i \in Oldest(todo[c]) : i = k
      BY <3>1, OldestIsOne DEF Shape
    <3>4. queue[k] \in Calls /\ \A j \in DOMAIN queue : queue[j] = queue[k] <=> j = k
      BY <3>2, Zenon DEF Shape, Keys
    <3>5. pc[queue[k]] \notin {"idle", "refused", "put"}
      BY <3>2, <3>4, Zenon DEF Keys
    <3>6. /\ UNCHANGED <<queue, nextID, seeded, flushMu, todo, receipts>>
          /\ pc' = [pc EXCEPT ![c] = "resend"] /\ pc[c] = "get"
      BY <2>10, Zenon DEF FlushGets, Goto, mux
    <3>7. pc'[queue[k]] \notin {"idle", "refused", "put"} /\ \A t \in Threads : t # c => pc'[t] = pc[t]
      BY <3>4, <3>5, <3>6, Zenon DEF Shape
    <3>8. flushMu = c /\ \A t \in Threads : Carrying(t) => t = c
      BY <3>6, OneDrain, Zenon DEF Draining
    <3>9. held'[c] = queue[k] /\ \A t \in Threads : Draining(t)' => Draining(t)
      BY <3>2, <3>6, <3>7, Zenon DEF Shape, Draining
    <3>10. \A t \in Threads : Carrying(t)' => t = c
      BY <3>7, <3>8, Zenon DEF Carrying
    <3> QED
      BY <3>3, <3>4, <3>6, <3>7, <3>9, <3>10, SMTT(20) DEF Drain, Carrying
  <2>11. CASE FlushSends(c)
      BY <2>11, SMTT(20) DEF FlushSends, Goto, mux, history, Shape, Keys, Drain, Carrying, Draining
  <2>12. CASE FlushStops(c)
      BY <2>12, SMTT(20) DEF FlushStops, Unlock, NotReceived, ReplyLost, Fault, Goto, mux, history,
         Shape, Keys, Drain, Carrying, Draining
  <2>13. CASE FlushDeletes(c)
      BY <2>13, SMTT(20) DEF FlushDeletes, Delete, Without, MessageAt, Fault, Goto, mux, history,
         Shape, Keys, Drain, Carrying, Draining
  <2>14. CASE FlushEnds(c)
      BY <2>14, SMTT(20) DEF FlushEnds, Unlock, Goto, mux, history, Shape, Keys, Drain, Carrying,
         Draining
  <2>15. CASE Return(c)
      BY <2>15, SMTT(20) DEF Return, Goto, mux, history, Shape, Keys, Drain, Carrying, Draining
  <2> QED
    BY <1>3, <2>1, <2>2, <2>3, <2>4, <2>5, <2>6, <2>7, <2>8, <2>9, <2>10, <2>11, <2>12,
       <2>13, <2>14, <2>15, ZenonT(30) DEF Step, SendStep, FlushStep
<1>4. ASSUME NEW c \in Threads, NEW p \in Peers, PeerAccepts(c, p) PROVE Drain'
    BY <1>4, SMTT(20) DEF PeerAccepts, Begin, Goto, mux, history, Shape, Keys, Drain, Carrying,
       Draining
<1>5. ASSUME NEW c \in Threads, NEW p \in Peers, PeerRefuses(c, p) PROVE Drain'
    BY <1>5 DEF PeerRefuses, Begin, NotReceived, ReplyLost, Fault, Goto, mux, history,
       Shape, Keys, Drain, Carrying, Draining
<1>6. ASSUME NEW c \in Threads, NEW p \in Peers, Flush(c, p) PROVE Drain'
    BY <1>6, ListingKeepsDrain, Zenon DEF Flush
<1> QED
    BY <1>1, <1>2, <1>3, <1>4, <1>5, <1>6, Zenon DEF Next

\* Every step keeps what enqueue and flush rely on when Send returns.
LEMMA AnswersStep == Inv /\ [Next]_vars => Answers'
<1> SUFFICES ASSUME Inv, [Next]_vars PROVE Answers'
    BY Zenon
<1> USE CallsAreThreads DEF Inv
<1>1. CASE UNCHANGED vars
    BY <1>1 DEF vars, mux, locals, history, Shape, Keys, Drain, Answers, Carrying, Draining, Kept
<1>2. CASE Crash
    BY <1>2, ZenonT(30) DEF Crash, Fault, Running, mux, Shape, Keys, Drain, Answers, Carrying,
       Draining, Kept
<1>3. ASSUME NEW c \in Threads, Step(c) PROVE Answers'
  <2>1. CASE Unavailable(c)
      BY <2>1, SMTT(20) DEF Unavailable, Goto, mux, history, Shape, Keys, Drain, Answers, Carrying,
         Kept
  <2>2. CASE AllocateKey(c)
      BY <2>2, SMTT(20) DEF AllocateKey, Seed, NextKey, Goto, mux, history, Shape, Keys, Drain,
         Answers, Carrying, Draining, Kept
  <2>3. CASE Put(c)
      BY <2>3, SMTT(20) DEF Put, Goto, mux, history, Shape, Keys, Drain, Answers, Carrying,
         Draining, Kept
  <2>4. CASE PutFails(c)
      BY <2>4, SMTT(20) DEF PutFails, Fault, Goto, mux, history, Shape, Keys, Drain, Answers,
         Carrying, Draining, Kept
  <2>5. CASE ListForCap(c)
      BY <2>5 DEF ListForCap, Goto, mux, history, Shape, Keys, Drain, Answers, Carrying,
         Kept
  <2>6. CASE DropOldest(c)
    <3>a. discarded \subseteq discarded' /\ receipts' = receipts /\ unstored' = unstored
      BY <2>6, Zenon DEF DropOldest, Delete
    <3>b. ASSUME NEW j \in DOMAIN queue
          PROVE  (j \in DOMAIN queue' /\ queue'[j] = queue[j]) \/ queue[j] \in discarded'
      BY <2>6, Zenon DEF DropOldest, Delete, Without, MessageAt
    <3>1. \A d \in Calls : Kept(d) => Kept(d)'
      BY <3>a, <3>b, Zenon DEF Kept
    <3>2. key[c] > 0 /\ Kept(c) /\ c \in Calls
      BY <2>6, Zenon DEF DropOldest, Keys, Answers
    <3> QED
      BY <2>6, <3>1, <3>2, ZenonT(30) DEF DropOldest, Goto, Shape, Answers
  <2>7. CASE FlushAfterSend(c)
      BY <2>7 DEF FlushAfterSend, ListForFlush, List, Goto, mux, history, Shape, Keys, Drain,
         Answers, Carrying, Draining, Kept
  <2>8. CASE FlushSkips(c)
      BY <2>8, SMTT(20) DEF FlushSkips, Goto, mux, history, Shape, Keys, Drain, Answers, Carrying,
         Kept
  <2>9. CASE FlushUnreadable(c)
    <3>a. discarded \subseteq discarded' /\ receipts' = receipts /\ unstored' = unstored
      BY <2>9, Zenon DEF FlushUnreadable
    <3>b. ASSUME NEW j \in DOMAIN queue
          PROVE  (j \in DOMAIN queue' /\ queue'[j] = queue[j]) \/ queue[j] \in discarded'
      BY <2>9, ZenonT(30) DEF FlushUnreadable, Without, MessageAt
    <3>1. \A d \in Calls : Kept(d) => Kept(d)'
      BY <3>a, <3>b DEF Kept
    <3> QED
      BY <2>9, <3>1 DEF FlushUnreadable, Goto, Shape, Answers
  <2>10. CASE FlushGets(c)
      BY <2>10, SMTT(20) DEF FlushGets, MessageAt, Goto, mux, history, Shape, Keys, Drain, Answers,
         Carrying, Draining, Kept
  <2>11. CASE FlushSends(c)
      BY <2>11, SMTT(20) DEF FlushSends, Goto, mux, history, Shape, Keys, Drain, Answers, Carrying,
         Kept
  <2>12. CASE FlushStops(c)
      BY <2>12 DEF FlushStops, Unlock, NotReceived, ReplyLost, Fault, Goto, mux, history,
         Shape, Keys, Drain, Answers, Carrying, Draining, Kept
  <2>13. CASE FlushDeletes(c)
    <3>1. PICK k \in Oldest(todo[c]) : Delete(k, {})
      BY <2>13, Zenon DEF FlushDeletes
    <3>2. \A j \in DOMAIN queue : j = k => receipts[queue[j]] > 0
      <4>1. pc[c] = "delete" /\ Carrying(c)
        BY <2>13, Zenon DEF FlushDeletes, Carrying
      <4>2. receipts[held[c]] > 0 /\ \A j \in DOMAIN queue : queue[j] = held[c] <=> j = k
        BY <3>1, <4>1, Carries, Zenon
      <4> QED BY <4>2, Zenon
    <3>3. receipts' = receipts /\ discarded' = discarded /\ unstored' = unstored
      BY <2>13, <3>1, Zenon DEF FlushDeletes, Delete
    <3>4. \A j \in DOMAIN queue : j # k => j \in DOMAIN queue' /\ queue'[j] = queue[j]
      BY <3>1, Zenon DEF Delete, Without
    <3>5. \A d \in Calls : Kept(d) => Kept(d)'
      BY <3>2, <3>3, <3>4, ZenonT(30) DEF Kept
    <3> QED
      BY <2>13, <3>5, Zenon DEF FlushDeletes, Goto, mux, Shape, Answers
  <2>14. CASE FlushEnds(c)
      BY <2>14, SMTT(20) DEF FlushEnds, Unlock, Goto, mux, history, Shape, Keys, Drain, Answers,
         Carrying, Draining, Kept
  <2>15. CASE Return(c)
      BY <2>15, SMTT(20) DEF Return, Goto, mux, history, Shape, Keys, Drain, Answers, Carrying,
         Draining, Kept
  <2> QED
    BY <1>3, <2>1, <2>2, <2>3, <2>4, <2>5, <2>6, <2>7, <2>8, <2>9, <2>10, <2>11, <2>12,
       <2>13, <2>14, <2>15, Zenon DEF Step, SendStep, FlushStep
<1>4. ASSUME NEW c \in Threads, NEW p \in Peers, PeerAccepts(c, p) PROVE Answers'
    BY <1>4, SMTT(20) DEF PeerAccepts, Begin, Goto, mux, history, Shape, Keys, Drain, Answers,
       Carrying, Draining, Kept
<1>5. ASSUME NEW c \in Threads, NEW p \in Peers, PeerRefuses(c, p) PROVE Answers'
    BY <1>5, SMTT(20) DEF PeerRefuses, Begin, NotReceived, ReplyLost, Fault, Goto, mux, history,
       Shape, Keys, Drain, Answers, Carrying, Draining, Kept
<1>6. ASSUME NEW c \in Threads, NEW p \in Peers, Flush(c, p) PROVE Answers'
    BY <1>6, TransportConstants DEF Flush, ListForFlush, List, Goto, history, Shape, Answers, Kept
<1> QED
    BY <1>1, <1>2, <1>3, <1>4, <1>5, <1>6, SMTT(20) DEF Next

\* Every step keeps a delivered message out of the queue, but for a fault.
LEMMA OnceStep == Inv /\ [Next]_vars => Once'
<1> SUFFICES ASSUME Inv, [Next]_vars PROVE Once'
    BY Zenon
<1> USE CallsAreThreads DEF Inv
<1>1. CASE UNCHANGED vars
    BY <1>1, SMTT(20) DEF vars, mux, locals, history, Shape, Keys, Drain, Once, Carrying, Draining
<1>2. CASE Crash
    BY <1>2 DEF Crash, Fault, Running, mux, Shape, Keys, Drain, Once, Carrying, Draining
<1>3. ASSUME NEW c \in Threads, Step(c) PROVE Once'
  <2>1. CASE Unavailable(c)
      BY <2>1, SMTT(20) DEF Unavailable, Goto, mux, history, Shape, Keys, Drain, Once, Carrying,
         Draining
  <2>2. CASE AllocateKey(c)
      BY <2>2 DEF AllocateKey, Seed, NextKey, Goto, mux, history, Shape, Keys, Drain, Once,
         Carrying, Draining
  <2>3. CASE Put(c)
    <3>1. /\ pc[c] = "put" /\ c \in Calls /\ pc' = [pc EXCEPT ![c] = "cap"]
          /\ UNCHANGED <<held, receipts, blurred>>
      BY <2>3, Zenon DEF Put, Goto, history, Keys
    <3>2. key[c] \notin DOMAIN queue
      BY <3>1, Zenon DEF Keys
    <3>3. \A j \in DOMAIN queue' : queue'[j] = c \/ (j \in DOMAIN queue /\ queue'[j] = queue[j])
      BY <2>3, <3>2, Zenon DEF Put
    <3>4. pc'[c] = "cap" /\ \A t \in Threads : t # c => pc'[t] = pc[t]
      BY <3>1, CallsAreThreads, Zenon DEF Shape
    <3>5. receipts[c] = 0 \/ c \in blurred
      BY <3>1, Zenon DEF Once
    <3>6. \A j \in DOMAIN queue : \/ receipts[queue[j]] = 0
                                  \/ queue[j] \in blurred
                                  \/ \E t \in Threads : pc'[t] = "delete" /\ held[t] = queue[j]
      <4>1. \A t \in Threads : pc[t] = "delete" => pc'[t] = "delete"
        BY <3>1, <3>4, Zenon
      <4> QED BY <4>1, Zenon DEF Once
    <3>7. \A t \in Threads : /\ pc'[t] \in {"idle", "refused", "put", "resend"} => pc'[t] = pc[t]
      BY <3>4, Zenon
    <3>8. /\ \A m \in Calls : receipts[m] > 1 => m \in blurred
          /\ \A t \in Threads : pc'[t] = "resend" => receipts[held[t]] = 0 \/ held[t] \in blurred
      BY <3>7, Zenon DEF Once
    <3>9. /\ \A d \in Calls : pc'[d] = "idle" => receipts[d] = 0
          /\ \A d \in Calls : pc'[d] \in {"refused", "put"} => receipts[d] = 0 \/ d \in blurred
      BY <3>7, CallsAreThreads, Zenon DEF Once
    <3>10. \A j \in DOMAIN queue' : \/ receipts'[queue'[j]] = 0
                                    \/ queue'[j] \in blurred'
                                    \/ \E t \in Threads : pc'[t] = "delete" /\ held'[t] = queue'[j]
      BY <3>1, <3>3, <3>5, <3>6, ZenonT(30)
    <3> QED
      BY <3>1, <3>8, <3>9, <3>10, Zenon DEF Once
  <2>4. CASE PutFails(c)
      BY <2>4 DEF PutFails, Fault, Goto, mux, history, Shape, Keys, Drain, Once, Carrying, Draining
  <2>5. CASE ListForCap(c)
      BY <2>5 DEF ListForCap, Goto, mux, history, Shape, Keys, Drain, Once, Carrying, Draining
  <2>6. CASE DropOldest(c)
      BY <2>6 DEF DropOldest, Delete, Without, MessageAt, Fault, Goto, mux, history, Shape,
         Keys, Drain, Once, Carrying, Draining
  <2>7. CASE FlushAfterSend(c)
      BY <2>7 DEF FlushAfterSend, ListForFlush, List, Goto, mux, history, Shape, Keys, Drain,
         Once, Carrying, Draining
  <2>8. CASE FlushSkips(c)
      BY <2>8 DEF FlushSkips, Goto, mux, history, Shape, Keys, Drain, Once, Carrying, Draining
  <2>9. CASE FlushUnreadable(c)
      BY <2>9, SMTT(20) DEF FlushUnreadable, MessageAt, Without, Fault, Goto, mux, history, Shape,
         Keys, Drain, Once, Carrying, Draining
  <2>10. CASE FlushGets(c)
      BY <2>10, SMTT(20) DEF FlushGets, MessageAt, Goto, mux, history, Shape, Keys, Drain, Once,
         Carrying, Draining
  <2>11. CASE FlushSends(c)
      BY <2>11, SMTT(20) DEF FlushSends, Goto, mux, history, Shape, Keys, Drain, Once, Carrying,
         Draining
  <2>12. CASE FlushStops(c)
      BY <2>12, SMTT(20) DEF FlushStops, Unlock, NotReceived, ReplyLost, Fault, Goto, mux, history,
         Shape, Keys, Drain, Once, Carrying, Draining
  <2>13. CASE FlushDeletes(c)
    <3>1. \A t \in Threads : pc[t] = "delete" => t = c
      BY <2>13, OneDrain, Zenon DEF FlushDeletes, Draining
    <3>0. PICK k \in Oldest(todo[c]) : Delete(k, {})
      BY <2>13, Zenon DEF FlushDeletes
    <3>2. \A j \in DOMAIN queue' : j \in DOMAIN queue /\ queue'[j] = queue[j]
      BY <3>0, Zenon DEF Delete, Without
    <3>5. \A j \in DOMAIN queue : queue[j] = held[c] => j = k
      BY <2>13, <3>0, ZenonT(30) DEF FlushDeletes, Drain, Carrying
    <3>3. \A j \in DOMAIN queue' : queue[j] = held[c] => queue[j] \in blurred'
      BY <3>0, <3>2, <3>5, Zenon DEF Delete, Without, MessageAt
    <3>4. blurred \subseteq blurred'
      BY <2>13, Zenon DEF FlushDeletes, Delete
    <3> QED
      BY <2>13, <3>1, <3>2, <3>3, <3>4, SMTT(20) DEF FlushDeletes, Goto, Shape, Once
  <2>14. CASE FlushEnds(c)
      BY <2>14 DEF FlushEnds, Unlock, Goto, mux, history, Shape, Keys, Drain, Once, Carrying,
         Draining
  <2>15. CASE Return(c)
      BY <2>15 DEF Return, Goto, mux, history, Shape, Keys, Drain, Once, Carrying, Draining
  <2> QED
    BY <1>3, <2>1, <2>2, <2>3, <2>4, <2>5, <2>6, <2>7, <2>8, <2>9, <2>10, <2>11, <2>12,
       <2>13, <2>14, <2>15, Zenon DEF Step, SendStep, FlushStep
<1>4. ASSUME NEW c \in Threads, NEW p \in Peers, PeerAccepts(c, p) PROVE Once'
    BY <1>4, SMTT(20) DEF PeerAccepts, Begin, Goto, mux, history, Shape, Keys, Drain, Once,
       Carrying, Draining
<1>5. ASSUME NEW c \in Threads, NEW p \in Peers, PeerRefuses(c, p) PROVE Once'
    BY <1>5, SMTT(20) DEF PeerRefuses, Begin, NotReceived, ReplyLost, Fault, Goto, mux, history,
       Shape, Keys, Drain, Once, Carrying, Draining
<1>6. ASSUME NEW c \in Threads, NEW p \in Peers, Flush(c, p) PROVE Once'
    BY <1>6 DEF Flush, ListForFlush, List, Goto, mux, history, Shape, Keys, Drain, Once, Carrying,
       Draining
<1> QED
    BY <1>1, <1>2, <1>3, <1>4, <1>5, <1>6, Zenon DEF Next

\* The invariant holds initially and every step of the mux preserves it.
THEOREM Invariance == Spec => []Inv
<1>1. Init => Inv
  <2> SUFFICES ASSUME Init PROVE Inv
    BY Zenon
  <2> USE CallsAreThreads DEF Init
  <2>1. DOMAIN queue = {}
    OBVIOUS
  <2>2. seeded \in BOOLEAN
    BY Zenon
  <2>3. queue = [j \in DOMAIN queue |-> queue[j]]
    OBVIOUS
  <2>4. Shape
    BY <2>1, <2>2, <2>3 DEF Shape
  <2>5. Keys /\ Drain
    BY <2>1, Zenon DEF Keys, Drain, Carrying, Draining
  <2>6. Answers /\ Once
    BY <2>1 DEF Answers, Once, Kept
  <2> QED
    BY <2>4, <2>5, <2>6, Zenon DEF Inv
<1>2. Inv /\ [Next]_vars => Inv'
  BY ShapeStep, KeysStep, DrainStep, AnswersStep, OnceStep, SMTT(20) DEF Inv
<1> QED
  BY <1>1, <1>2, PTL DEF Spec

\* However sends, caps, drains, crashes and lost replies interleave, a message reaches its
\* peer twice only after a fault between its sending and its deletion (flushMu in flush).
THEOREM DeliveredOnce == Spec => []NoDoubleDelivery
<1>1. Inv => NoDoubleDelivery
  BY Zenon DEF Inv, Once, NoDoubleDelivery
<1> QED
  BY <1>1, Invariance, PTL

\* What is stored is the range of the queue.
LEMMA StoredIs == Stored = {queue[j] : j \in DOMAIN queue}
BY Zenon DEF Stored, Range

----------------------------------------------------------------------------
(* The order of a drain. *)

\* The peer of m received it, given the receipts and the blurred messages, or may have.
Had(got, blur, m) == got[m] > 0 \/ m \in blur

Traced ==
    /\ peer \in [Threads -> Peers \cup {None}]
    /\ behind \in [Calls -> SUBSET Calls]
    /\ \A x \in Calls : \A m \in behind[x] :
        /\ peer[m] = peer[x]
        /\ pc[m] \notin {"idle", "refused", "put"} /\ pc[x] \notin {"idle", "refused"}

\* A stored message has a larger key than those it is behind, and so will one whose Put is
\* under way.
Ascending ==
    /\ \A i, j \in DOMAIN queue : queue[j] \in behind[queue[i]] => j < i
    /\ \A c \in Calls : pc[c] = "put" =>
        \A j \in DOMAIN queue : queue[j] \in behind[c] => j < key[c]

\* Of the messages ahead of one a drain will visit, it will visit those that its peer has
\* not had; of those ahead of the one it carries, its peer has had all.
Swept ==
    /\ \A t \in Threads : Draining(t) =>
        \A i, j \in DOMAIN queue :
            i \in todo[t] /\ peer[queue[i]] = peer[t] /\ queue[j] \in behind[queue[i]] =>
                j \in todo[t] \/ Had(receipts, blurred, queue[j])
    /\ \A t \in Threads : Carrying(t) =>
        \A j \in DOMAIN queue : queue[j] \in behind[held[t]] => Had(receipts, blurred, queue[j])

Order == Traced /\ Ascending /\ Swept

\* A step that stores nothing, and lets a drain pass by only what its peer has had or what
\* is for another peer.
StoreShrinks ==
    /\ \A j \in DOMAIN queue' : j \in DOMAIN queue /\ queue'[j] = queue[j]
    /\ \A m \in Calls : Had(receipts, blurred, m) => Had(receipts', blurred', m)
CallsAdvance ==
    /\ behind' = behind
    /\ peer' \in [Threads -> Peers \cup {None}]
    /\ \A t \in Threads : pc[t] # "idle" => peer'[t] = peer[t]
    /\ \A d \in Calls : pc[d] \notin {"idle", "refused", "put"} =>
        pc'[d] \notin {"idle", "refused", "put"}
    /\ \A d \in Calls : pc[d] \notin {"idle", "refused"} => pc'[d] \notin {"idle", "refused"}
    /\ \A d \in Calls : pc'[d] = "put" => pc[d] = "put" /\ key'[d] = key[d]
DrainsAdvance ==
    /\ \A t \in Threads : Draining(t)' =>
        \/ DOMAIN queue \subseteq todo'[t]
        \/ /\ Draining(t) /\ todo'[t] \subseteq todo[t]
           /\ \A j \in DOMAIN queue' : j \in todo[t] /\ j \notin todo'[t] =>
                Had(receipts', blurred', queue[j]) \/ peer[queue[j]] # peer[t]
    /\ \A t \in Threads : Carrying(t)' =>
        \/ Carrying(t) /\ held'[t] = held[t]
        \/ \A j \in DOMAIN queue : queue[j] \in behind[held'[t]] => Had(receipts, blurred, queue[j])

\* Such a step keeps the order.
LEMMA AdvanceKeepsOrder ==
    ASSUME Inv, Order, StoreShrinks, CallsAdvance, DrainsAdvance
    PROVE  Order'
<1>1. \A j \in DOMAIN queue : queue[j] \in Calls /\ queue[j] \in Threads
    BY CallsAreThreads, Zenon DEF Inv, Shape
<1>2. \A j \in DOMAIN queue : pc[queue[j]] # "idle"
    BY <1>1, Zenon DEF Inv, Keys
<1>3. \A j \in DOMAIN queue : peer'[queue[j]] = peer[queue[j]]
    BY <1>1, <1>2, Zenon DEF CallsAdvance
<1>4. Traced'
  <2>1. peer' \in [Threads -> Peers \cup {None}] /\ behind' \in [Calls -> SUBSET Calls]
    BY Zenon DEF Order, Traced, CallsAdvance
  <2>2. ASSUME NEW x \in Calls, NEW m \in behind'[x]
        PROVE  /\ peer'[m] = peer'[x]
               /\ pc'[m] \notin {"idle", "refused", "put"} /\ pc'[x] \notin {"idle", "refused"}
    <3>1. m \in behind[x] /\ m \in Calls /\ x \in Threads /\ m \in Threads
      BY <2>1, CallsAreThreads, Zenon DEF CallsAdvance
    <3>2. /\ peer[m] = peer[x]
          /\ pc[m] \notin {"idle", "refused", "put"} /\ pc[x] \notin {"idle", "refused"}
      BY <3>1, Zenon DEF Order, Traced
    <3>3. peer'[m] = peer[m] /\ peer'[x] = peer[x]
      BY <3>1, <3>2, Zenon DEF CallsAdvance
    <3> QED BY <3>1, <3>2, <3>3, Zenon DEF CallsAdvance
  <2> QED BY <2>1, <2>2, Zenon DEF Traced
<1>5. Ascending'
  <2>1. \A i, j \in DOMAIN queue' : queue'[j] \in behind'[queue'[i]] => j < i
    BY Zenon DEF StoreShrinks, CallsAdvance, Order, Ascending
  <2>2. \A c \in Calls : pc'[c] = "put" =>
            \A j \in DOMAIN queue' : queue'[j] \in behind'[c] => j < key'[c]
    BY Zenon DEF StoreShrinks, CallsAdvance, Order, Ascending
  <2> QED BY <2>1, <2>2, Zenon DEF Ascending
<1>6. ASSUME NEW t \in Threads, Draining(t)', NEW i \in DOMAIN queue', NEW j \in DOMAIN queue',
             i \in todo'[t], peer'[queue'[i]] = peer'[t], queue'[j] \in behind'[queue'[i]]
      PROVE  j \in todo'[t] \/ Had(receipts', blurred', queue'[j])
  <2>1. /\ i \in DOMAIN queue /\ queue'[i] = queue[i] /\ j \in DOMAIN queue /\ queue'[j] = queue[j]
        /\ queue[j] \in behind[queue[i]]
    BY <1>6, Zenon DEF StoreShrinks, CallsAdvance
  <2>2. CASE DOMAIN queue \subseteq todo'[t]
    BY <2>1, <2>2, Zenon
  <2>3. CASE /\ Draining(t) /\ todo'[t] \subseteq todo[t]
             /\ \A k \in DOMAIN queue' : k \in todo[t] /\ k \notin todo'[t] =>
                    Had(receipts', blurred', queue[k]) \/ peer[queue[k]] # peer[t]
    <3>1. pc[t] # "idle"
      BY <2>3, Zenon DEF Draining
    <3>2. peer[queue[i]] = peer[t] /\ i \in todo[t]
      BY <1>3, <1>6, <2>1, <2>3, <3>1, ZenonT(30) DEF CallsAdvance
    <3>3. j \in todo[t] \/ Had(receipts, blurred, queue[j])
      BY <2>1, <2>3, <3>2, Zenon DEF Order, Swept
    <3>4. peer[queue[j]] = peer[t]
      BY <1>1, <2>1, <3>2, Zenon DEF Order, Traced
    <3>5. Had(receipts, blurred, queue[j]) => Had(receipts', blurred', queue[j])
      BY <1>1, <2>1, Zenon DEF StoreShrinks
    <3> QED BY <1>6, <2>1, <2>3, <3>3, <3>4, <3>5, ZenonT(30)
  <2> QED BY <1>6, <2>2, <2>3, Zenon DEF DrainsAdvance
<1>7. ASSUME NEW t \in Threads, Carrying(t)', NEW j \in DOMAIN queue', queue'[j] \in behind'[held'[t]]
      PROVE  Had(receipts', blurred', queue'[j])
  <2>1. j \in DOMAIN queue /\ queue'[j] = queue[j] /\ queue[j] \in behind[held'[t]]
    BY <1>7, Zenon DEF StoreShrinks, CallsAdvance
  <2>2. Had(receipts, blurred, queue[j])
    BY <1>7, <2>1, Zenon DEF DrainsAdvance, Order, Swept
  <2> QED BY <1>1, <2>1, <2>2, Zenon DEF StoreShrinks
<1>8. Swept'
  BY <1>6, <1>7, Zenon DEF Swept
<1> QED BY <1>4, <1>5, <1>8, Zenon DEF Order

\* AllocateKey gives the message a key above all stored ones, and it is behind those of its
\* peer.
LEMMA AllocateKeepsOrder ==
    ASSUME Inv, Order, NEW c \in Threads, AllocateKey(c)
    PROVE  Order'
<1>1. c \in Calls /\ pc[c] = "refused"
    BY Zenon DEF AllocateKey, Inv, Keys
<1>2. /\ UNCHANGED <<queue, peer, todo, held, receipts, blurred>>
      /\ pc' = [pc EXCEPT ![c] = "put"] /\ key' = [key EXCEPT ![c] = nextID']
      /\ behind' = [behind EXCEPT ![c] = {m \in Stored : peer[m] = peer[c]}]
    BY Zenon DEF AllocateKey, Goto
<1>3. /\ pc'[c] = "put" /\ key'[c] = nextID'
      /\ \A t \in Threads : t # c => pc'[t] = pc[t]
      /\ \A d \in Calls : d # c => key'[d] = key[d] /\ behind'[d] = behind[d]
      /\ behind'[c] = {m \in Stored : peer[m] = peer[c]}
    BY <1>1, <1>2, CallsAreThreads, Zenon DEF Inv, Shape, Order, Traced
<1>4. \A j \in DOMAIN queue : /\ queue[j] \in Calls /\ queue[j] # c
                              /\ pc[queue[j]] \notin {"idle", "refused", "put"}
    BY <1>1, Zenon DEF Inv, Shape, Keys
<1>5. \A m \in Stored : \E j \in DOMAIN queue : queue[j] = m
    BY Zenon DEF Stored, Range
<1>6. \A j \in DOMAIN queue : j < nextID'
  <2>1. PICK n \in {nextID} \cup DOMAIN queue : Seed(n) /\ nextID' = n + 1
    BY Zenon DEF AllocateKey, NextKey
  <2>2. \A j \in DOMAIN queue : j <= n
    <3>1. CASE seeded
      BY <2>1, <3>1, Zenon DEF Seed, Inv, Keys
    <3>2. CASE ~seeded
      BY <2>1, <3>2, Zenon DEF Seed
    <3> QED BY <3>1, <3>2, Zenon
  <2>3. n \in Nat /\ DOMAIN queue \subseteq Nat
    BY <2>1, Zenon DEF Inv, Shape
  <2> QED BY <2>1, <2>2, <2>3, SMTT(20)
<1>7. Traced'
  <2>0. \A m \in Stored : m \in Calls
    BY <1>4, <1>5, Zenon
  <2>1. behind'[c] \in SUBSET Calls
    BY <1>3, <2>0, Zenon
  <2>2. behind' \in [Calls -> SUBSET Calls]
    BY <1>2, <1>3, <2>1, Zenon DEF Order, Traced
  <2>3. ASSUME NEW x \in Calls, NEW m \in behind'[x]
        PROVE  /\ peer'[m] = peer'[x]
               /\ pc'[m] \notin {"idle", "refused", "put"} /\ pc'[x] \notin {"idle", "refused"}
    <3>1. CASE x = c
      <4>1. m \in Stored /\ peer[m] = peer[c]
        BY <1>3, <2>3, <3>1, Zenon
      <4>2. m \in Calls /\ m # c /\ pc[m] \notin {"idle", "refused", "put"}
        BY <1>4, <1>5, <4>1, Zenon
      <4> QED BY <1>2, <1>3, <3>1, <4>1, <4>2, CallsAreThreads, ZenonT(30)
    <3>2. CASE x # c
      <4>1. m \in behind[x] /\ m \in Calls
        BY <1>3, <2>2, <2>3, <3>2, Zenon
      <4>2. /\ peer[m] = peer[x]
            /\ pc[m] \notin {"idle", "refused", "put"} /\ pc[x] \notin {"idle", "refused"}
        BY <4>1, Zenon DEF Order, Traced
      <4>3. m # c
        BY <1>1, <4>2, Zenon
      <4> QED BY <1>2, <1>3, <3>2, <4>1, <4>2, <4>3, CallsAreThreads, ZenonT(30)
    <3> QED BY <3>1, <3>2, Zenon
  <2> QED BY <1>2, <2>2, <2>3, Zenon DEF Order, Traced
<1>8. Ascending'
  <2>1. \A i, j \in DOMAIN queue' : queue'[j] \in behind'[queue'[i]] => j < i
    BY <1>2, <1>3, <1>4, ZenonT(30) DEF Order, Ascending
  <2>2. \A d \in Calls : pc'[d] = "put" =>
            \A j \in DOMAIN queue' : queue'[j] \in behind'[d] => j < key'[d]
    <3>1. \A d \in Calls : d # c /\ pc'[d] = "put" => pc[d] = "put"
      BY <1>3, CallsAreThreads, Zenon
    <3>2. \A d \in Calls : d # c /\ pc'[d] = "put" =>
              \A j \in DOMAIN queue : queue[j] \in behind[d] => j < key[d]
      BY <3>1, Zenon DEF Order, Ascending
    <3> QED BY <1>2, <1>3, <1>6, <3>2, Zenon
  <2> QED BY <2>1, <2>2, Zenon DEF Ascending
<1>9. Swept'
  <2>1. \A t \in Threads : (Draining(t)' => Draining(t)) /\ (Carrying(t)' => Carrying(t))
    BY <1>3, Zenon DEF Draining, Carrying
  <2>2. \A t \in Threads : Carrying(t) => held[t] \in Calls /\ held[t] # c
    BY <1>1, Carries, ZenonT(30) DEF Inv
  <2>3. \A t \in Threads : Draining(t)' =>
            \A i, j \in DOMAIN queue' :
                i \in todo'[t] /\ peer'[queue'[i]] = peer'[t] /\ queue'[j] \in behind'[queue'[i]] =>
                    j \in todo'[t] \/ Had(receipts', blurred', queue'[j])
    <3>1. \A j \in DOMAIN queue : behind'[queue[j]] = behind[queue[j]]
      BY <1>3, <1>4, Zenon
    <3>2. \A t \in Threads : Draining(t)' =>
              \A i, j \in DOMAIN queue :
                  i \in todo[t] /\ peer[queue[i]] = peer[t] /\ queue[j] \in behind[queue[i]] =>
                      j \in todo[t] \/ Had(receipts, blurred, queue[j])
      BY <2>1, Zenon DEF Order, Swept
    <3> QED BY <1>2, <3>1, <3>2, SMTT(20)
  <2>4. \A t \in Threads : Carrying(t)' =>
            \A j \in DOMAIN queue' : queue'[j] \in behind'[held'[t]] =>
                Had(receipts', blurred', queue'[j])
    <3>1. \A t \in Threads : Carrying(t)' => behind'[held[t]] = behind[held[t]]
      BY <1>3, <2>1, <2>2, Zenon
    <3>2. \A t \in Threads : Carrying(t)' =>
              \A j \in DOMAIN queue : queue[j] \in behind[held[t]] => Had(receipts, blurred, queue[j])
      BY <2>1, Zenon DEF Order, Swept
    <3> QED BY <1>2, <3>1, <3>2, SMTT(20)
  <2> QED BY <2>3, <2>4, Zenon DEF Swept
<1> QED BY <1>7, <1>8, <1>9, Zenon DEF Order

\* Put stores a message that nothing is behind yet, under a key no drain has listed.
LEMMA PutKeepsOrder ==
    ASSUME Inv, Order, NEW c \in Threads, Put(c)
    PROVE  Order'
<1>1. c \in Calls /\ pc[c] = "put"
    BY Zenon DEF Put, Inv, Keys
<1>2. /\ UNCHANGED <<peer, key, todo, held, receipts, blurred, behind>>
      /\ pc' = [pc EXCEPT ![c] = "cap"]
    BY Zenon DEF Put, Goto, history
<1>3. pc'[c] = "cap" /\ \A t \in Threads : t # c => pc'[t] = pc[t]
    BY <1>1, <1>2, Zenon DEF Inv, Shape
<1>4. key[c] \notin DOMAIN queue /\ \A t \in Threads : Draining(t) => key[c] \notin todo[t]
    BY <1>1, Zenon DEF Inv, Keys
<1>5. \A j \in DOMAIN queue' : \/ j = key[c] /\ queue'[j] = c
                               \/ j \in DOMAIN queue /\ queue'[j] = queue[j]
    BY <1>4, Zenon DEF Put
<1>6. \A x \in Calls : c \notin behind[x]
    BY <1>1, Zenon DEF Order, Traced
<1>7. \A j \in DOMAIN queue : queue[j] \in Calls
    BY Zenon DEF Inv, Shape
<1>8. Traced'
  <2>1. ASSUME NEW x \in Calls, NEW m \in behind[x]
        PROVE  /\ peer[m] = peer[x]
               /\ pc'[m] \notin {"idle", "refused", "put"} /\ pc'[x] \notin {"idle", "refused"}
    <3>1. m \in Threads /\ x \in Threads
      BY CallsAreThreads, Zenon DEF Order, Traced
    <3>2. /\ peer[m] = peer[x]
          /\ pc[m] \notin {"idle", "refused", "put"} /\ pc[x] \notin {"idle", "refused"}
      BY Zenon DEF Order, Traced
    <3> QED BY <1>3, <3>1, <3>2, Zenon
  <2> QED BY <1>2, <2>1, Zenon DEF Order, Traced
<1>9. Ascending'
  <2>1. ASSUME NEW i \in DOMAIN queue', NEW j \in DOMAIN queue', queue'[j] \in behind[queue'[i]]
        PROVE  j < i
    <3>1. queue'[i] \in Calls
      BY <1>1, <1>5, <1>7, Zenon
    <3>2. j \in DOMAIN queue /\ queue'[j] = queue[j]
      BY <1>5, <1>6, <2>1, <3>1, Zenon
    <3>3. CASE i = key[c] /\ queue'[i] = c
      BY <1>1, <2>1, <3>2, <3>3, Zenon DEF Order, Ascending
    <3>4. CASE i \in DOMAIN queue /\ queue'[i] = queue[i]
      BY <2>1, <3>2, <3>4, Zenon DEF Order, Ascending
    <3> QED BY <1>5, <3>3, <3>4, Zenon
  <2>2. ASSUME NEW d \in Calls, pc'[d] = "put", NEW j \in DOMAIN queue', queue'[j] \in behind[d]
        PROVE  j < key[d]
    <3>1. j \in DOMAIN queue /\ queue'[j] = queue[j] /\ pc[d] = "put"
      BY <1>3, <1>5, <1>6, <2>2, CallsAreThreads, Zenon
    <3> QED BY <2>2, <3>1, Zenon DEF Order, Ascending
  <2> QED BY <1>2, <2>1, <2>2, Zenon DEF Ascending
<1>10. Swept'
  <2>1. \A t \in Threads : (Draining(t)' => Draining(t)) /\ (Carrying(t)' => Carrying(t))
    BY <1>3, Zenon DEF Draining, Carrying
  <2>2. ASSUME NEW t \in Threads, Draining(t)', NEW i \in DOMAIN queue', NEW j \in DOMAIN queue',
               i \in todo[t], peer[queue'[i]] = peer[t], queue'[j] \in behind[queue'[i]]
        PROVE  j \in todo[t] \/ Had(receipts, blurred, queue'[j])
    <3>1. i \in DOMAIN queue /\ queue'[i] = queue[i]
      BY <1>4, <1>5, <2>1, <2>2, Zenon
    <3>2. j \in DOMAIN queue /\ queue'[j] = queue[j]
      BY <1>5, <1>6, <1>7, <2>2, <3>1, Zenon
    <3> QED BY <2>1, <2>2, <3>1, <3>2, Zenon DEF Order, Swept
  <2>3. ASSUME NEW t \in Threads, Carrying(t)', NEW j \in DOMAIN queue', queue'[j] \in behind[held[t]]
        PROVE  Had(receipts, blurred, queue'[j])
    <3>1. Carrying(t) /\ held[t] \in Calls
      BY <2>1, <2>3, Carries, Zenon DEF Inv
    <3>2. j \in DOMAIN queue /\ queue'[j] = queue[j]
      BY <1>5, <1>6, <2>3, <3>1, Zenon
    <3> QED BY <2>3, <3>1, <3>2, Zenon DEF Order, Swept
  <2> QED BY <1>2, <2>2, <2>3, Zenon DEF Swept
<1> QED BY <1>8, <1>9, <1>10, Zenon DEF Order

\* A drain that starts has everything stored in its list.
LEMMA ListingKeepsOrder ==
    ASSUME Inv, Order, NEW c \in Threads, ListForFlush(c), pc[c] \in {"idle", "flush"},
           peer' \in [Threads -> Peers \cup {None}],
           \A t \in Threads : pc[t] # "idle" => peer'[t] = peer[t],
           pc[c] = "idle" => c \notin Calls
    PROVE  Order'
<1>1. /\ UNCHANGED <<queue, key, held, receipts, blurred, behind>>
      /\ todo' = [todo EXCEPT ![c] = DOMAIN queue] /\ pc' = [pc EXCEPT ![c] = "get"]
    BY Zenon DEF ListForFlush, List, Goto, history
<1>2. /\ pc'[c] = "get" /\ todo'[c] = DOMAIN queue
      /\ \A t \in Threads : t # c => pc'[t] = pc[t] /\ todo'[t] = todo[t]
    BY <1>1, Zenon DEF Inv, Shape
<1>3. StoreShrinks
    BY <1>1, Zenon DEF StoreShrinks
<1>4. CallsAdvance
    BY <1>1, <1>2, CallsAreThreads, Zenon DEF CallsAdvance
<1>5. DrainsAdvance
    BY <1>1, <1>2, Zenon DEF DrainsAdvance, Draining, Carrying
<1> QED BY <1>3, <1>4, <1>5, AdvanceKeepsOrder, Zenon

\* Every step keeps the order of the keys, and lets a drain pass by nothing for its peer
\* that the peer may not have had.
LEMMA OrderStep ==
    ASSUME Inv, Order, [Next]_vars
    PROVE  Order'
<1> USE CallsAreThreads
<1>1. CASE UNCHANGED vars
    BY <1>1, ZenonT(30) DEF vars, mux, locals, history, Order, Traced, Ascending, Swept, Had,
       Draining,
       Carrying
<1>2. CASE Crash
  <2>1. /\ UNCHANGED <<queue, peer, receipts, behind>> /\ blurred \subseteq blurred'
        /\ pc' = [t \in Threads |-> IF t \in Running THEN "dead" ELSE pc[t]]
    BY <1>2, Zenon DEF Crash
  <2>2. \A t \in Threads : pc'[t] = "dead" \/ (pc'[t] = pc[t] /\ pc[t] \in {"idle", "done", "dead"})
    BY <2>1, Zenon DEF Running
  <2>3. StoreShrinks
    BY <2>1, Zenon DEF StoreShrinks, Had
  <2>4. CallsAdvance
    BY <2>1, <2>2, Zenon DEF CallsAdvance, Order, Traced
  <2>5. DrainsAdvance
    BY <2>2, Zenon DEF DrainsAdvance, Draining, Carrying
  <2> QED BY <2>3, <2>4, <2>5, AdvanceKeepsOrder, Zenon
<1>3. ASSUME NEW c \in Threads, Step(c) PROVE Order'
  <2>1. CASE Unavailable(c)
    <3>1. StoreShrinks
      BY <2>1, SMTT(20) DEF Unavailable, mux, history, StoreShrinks, Had, Inv, Shape, Drain,
         Carrying
    <3>2. CallsAdvance
      BY <2>1 DEF Unavailable, mux, history, Goto, CallsAdvance, Inv, Shape, Keys, Order, Traced
    <3>3. DrainsAdvance
      BY <2>1 DEF Unavailable, mux, history, Goto, DrainsAdvance, Draining, Carrying, Inv, Shape
    <3> QED BY <3>1, <3>2, <3>3, AdvanceKeepsOrder, ZenonT(30)
  <2>2. CASE PutFails(c)
    <3>1. StoreShrinks
      BY <2>2, SMTT(20) DEF PutFails, mux, Fault, StoreShrinks, Had, Inv, Shape, Drain, Carrying
    <3>2. CallsAdvance
      BY <2>2 DEF PutFails, mux, Fault, Goto, CallsAdvance, Inv, Shape, Keys, Order, Traced
    <3>3. DrainsAdvance
      BY <2>2 DEF PutFails, mux, Fault, Goto, DrainsAdvance, Draining, Carrying, Inv, Shape
    <3> QED BY <3>1, <3>2, <3>3, AdvanceKeepsOrder, ZenonT(30)
  <2>3. CASE ListForCap(c)
    <3>1. StoreShrinks
      BY <2>3, SMTT(20) DEF ListForCap, mux, history, StoreShrinks, Had, Inv, Shape, Drain, Carrying
    <3>2. CallsAdvance
      BY <2>3 DEF ListForCap, mux, history, Goto, CallsAdvance, Inv, Shape, Keys, Order, Traced
    <3>3. DrainsAdvance
      BY <2>3 DEF ListForCap, mux, history, Goto, DrainsAdvance, Draining, Carrying, Inv, Shape
    <3> QED BY <3>1, <3>2, <3>3, AdvanceKeepsOrder, Zenon
  <2>4. CASE FlushSends(c)
    <3>1. StoreShrinks
      BY <2>4, SMTT(20) DEF FlushSends, mux, history, StoreShrinks, Had, Inv, Shape, Drain, Carrying
    <3>2. CallsAdvance
      BY <2>4, SMTT(20) DEF FlushSends, mux, history, Goto, CallsAdvance, Inv, Shape, Keys, Order,
         Traced
    <3>3. DrainsAdvance
      BY <2>4 DEF FlushSends, mux, history, Goto, DrainsAdvance, Draining, Carrying, Inv, Shape
    <3> QED BY <3>1, <3>2, <3>3, AdvanceKeepsOrder, Zenon
  <2>5. CASE FlushStops(c)
    <3>1. StoreShrinks
      BY <2>5, SMTT(20) DEF FlushStops, Unlock, NotReceived, ReplyLost, Fault, StoreShrinks, Had,
         Inv, Shape, Drain, Carrying
    <3>2. CallsAdvance
      BY <2>5, SMTT(20) DEF FlushStops, Unlock, NotReceived, ReplyLost, Fault, Goto, CallsAdvance,
         Inv, Shape, Keys, Order, Traced
    <3>3. DrainsAdvance
      BY <2>5 DEF FlushStops, Unlock, NotReceived, ReplyLost, Fault, Goto, DrainsAdvance,
         Draining, Carrying, Inv, Shape
    <3> QED BY <3>1, <3>2, <3>3, AdvanceKeepsOrder, Zenon
  <2>6. CASE FlushEnds(c)
    <3>1. StoreShrinks
      BY <2>6, SMTT(20) DEF FlushEnds, Unlock, history, StoreShrinks, Had, Inv, Shape, Drain,
         Carrying
    <3>2. CallsAdvance
      BY <2>6, SMTT(20) DEF FlushEnds, Unlock, history, Goto, CallsAdvance, Inv, Shape, Keys,
         Order, Traced
    <3>3. DrainsAdvance
      BY <2>6 DEF FlushEnds, Unlock, history, Goto, DrainsAdvance, Draining, Carrying, Inv, Shape
    <3> QED BY <3>1, <3>2, <3>3, AdvanceKeepsOrder, ZenonT(30)
  <2>7. CASE Return(c)
    <3>1. StoreShrinks
      BY <2>7, SMTT(20) DEF Return, mux, history, StoreShrinks, Had, Inv, Shape, Drain, Carrying
    <3>2. CallsAdvance
      BY <2>7, SMTT(20) DEF Return, mux, history, Goto, CallsAdvance, Inv, Shape, Keys, Order,
         Traced
    <3>3. DrainsAdvance
      BY <2>7 DEF Return, mux, history, Goto, DrainsAdvance, Draining, Carrying, Inv, Shape
    <3> QED BY <3>1, <3>2, <3>3, AdvanceKeepsOrder, ZenonT(30)
  <2>8. CASE AllocateKey(c)
    BY <2>8, AllocateKeepsOrder, Zenon
  <2>9. CASE Put(c)
    BY <2>9, PutKeepsOrder, Zenon
  <2>10. CASE FlushAfterSend(c)
    BY <2>10, ListingKeepsOrder, Zenon DEF FlushAfterSend, Order, Traced
  <2>11. CASE DropOldest(c)
    <3>1. PICK k \in Oldest(todo[c]) : /\ Delete(k, MessageAt(k))
                                       /\ todo' = [todo EXCEPT ![c] = todo[c] \ {k}]
                                       /\ pc' = [pc EXCEPT ![c] = IF todo[c] = {k} THEN "return" ELSE "drop"]
      BY <2>11, Zenon DEF DropOldest, Goto
    <3>2. UNCHANGED <<peer, key, held, receipts, behind>> /\ pc[c] = "drop"
      BY <2>11, Zenon DEF DropOldest
    <3>3. /\ \A j \in DOMAIN queue' : j \in DOMAIN queue /\ queue'[j] = queue[j]
          /\ blurred \subseteq blurred'
      BY <3>1, Zenon DEF Delete, Without
    <3>4. /\ pc'[c] \in {"return", "drop"}
          /\ \A t \in Threads : t # c => pc'[t] = pc[t] /\ todo'[t] = todo[t]
      BY <3>1, Zenon DEF Inv, Shape
    <3>5. StoreShrinks
      BY <3>2, <3>3, Zenon DEF StoreShrinks, Had
    <3>6. CallsAdvance
      BY <3>2, <3>4, Zenon DEF CallsAdvance, Order, Traced
    <3>7. DrainsAdvance
      BY <3>2, <3>4, Zenon DEF DrainsAdvance, Draining, Carrying
    <3> QED BY <3>5, <3>6, <3>7, AdvanceKeepsOrder, Zenon
  <2>12. CASE FlushSkips(c)
    <3>1. PICK k \in Oldest(todo[c]) : /\ \A m \in MessageAt(k) : peer[m] # peer[c]
                                       /\ todo' = [todo EXCEPT ![c] = todo[c] \ {k}]
      BY <2>12, Zenon DEF FlushSkips
    <3>2. /\ UNCHANGED <<peer, key, receipts, behind>> /\ Draining(c)
          /\ \A t \in Threads : t # c => pc'[t] = pc[t] /\ held'[t] = held[t]
          /\ pc'[c] = "get"
      BY <2>12, Zenon DEF FlushSkips, Goto, history, Draining, Inv, Shape
    <3>3. /\ \A j \in DOMAIN queue' : j \in DOMAIN queue /\ queue'[j] = queue[j]
          /\ blurred \subseteq blurred'
      BY <2>12, <3>1, Zenon DEF FlushSkips, history, Delete, Without
    <3>4. /\ todo'[c] \subseteq todo[c] /\ \A j \in todo[c] : j \notin todo'[c] => j = k
          /\ \A t \in Threads : t # c => todo'[t] = todo[t]
      BY <3>1, Zenon DEF Inv, Shape
    <3>5. k \in DOMAIN queue' => Had(receipts', blurred', queue[k]) \/ peer[queue[k]] # peer[c]
      BY <2>12, <3>1, <3>3, Zenon DEF MessageAt, FlushSkips
    <3>6. StoreShrinks
      BY <3>2, <3>3, Zenon DEF StoreShrinks, Had
    <3>7. CallsAdvance
      BY <3>2, Zenon DEF CallsAdvance, Order, Traced
    <3>8. DrainsAdvance
      <4>1. \A t \in Threads : Draining(t)' =>
                /\ Draining(t) /\ todo'[t] \subseteq todo[t]
                /\ \A j \in DOMAIN queue' : j \in todo[t] /\ j \notin todo'[t] =>
                        Had(receipts', blurred', queue[j]) \/ peer[queue[j]] # peer[t]
        BY <3>2, <3>4, <3>5, Zenon DEF Draining
      <4>2. \A t \in Threads : Carrying(t)' => Carrying(t) /\ held'[t] = held[t]
        BY <3>2, Zenon DEF Carrying
      <4> QED BY <4>1, <4>2, Zenon DEF DrainsAdvance
    <3> QED BY <3>6, <3>7, <3>8, AdvanceKeepsOrder, Zenon
  <2>13. CASE FlushUnreadable(c)
    <3>1. PICK k \in Oldest(todo[c]) : /\ blurred' = blurred \cup MessageAt(k)
                                       /\ queue' = queue \/ queue' = Without(queue, k)
                                       /\ todo' = [todo EXCEPT ![c] = todo[c] \ {k}]
      BY <2>13, Zenon DEF FlushUnreadable
    <3>2. /\ UNCHANGED <<peer, key, receipts, behind>> /\ Draining(c)
          /\ \A t \in Threads : t # c => pc'[t] = pc[t] /\ held'[t] = held[t]
          /\ pc'[c] = "get"
      BY <2>13, Zenon DEF FlushUnreadable, Goto, history, Draining, Inv, Shape
    <3>3. /\ \A j \in DOMAIN queue' : j \in DOMAIN queue /\ queue'[j] = queue[j]
          /\ blurred \subseteq blurred'
      BY <2>13, <3>1, Zenon DEF FlushUnreadable, history, Delete, Without
    <3>4. /\ todo'[c] \subseteq todo[c] /\ \A j \in todo[c] : j \notin todo'[c] => j = k
          /\ \A t \in Threads : t # c => todo'[t] = todo[t]
      BY <3>1, Zenon DEF Inv, Shape
    <3>5. k \in DOMAIN queue' => Had(receipts', blurred', queue[k]) \/ peer[queue[k]] # peer[c]
      BY <2>13, <3>1, <3>3, Zenon DEF MessageAt, Had
    <3>6. StoreShrinks
      BY <3>2, <3>3, Zenon DEF StoreShrinks, Had
    <3>7. CallsAdvance
      BY <3>2, Zenon DEF CallsAdvance, Order, Traced
    <3>8. DrainsAdvance
      <4>1. \A t \in Threads : Draining(t)' =>
                /\ Draining(t) /\ todo'[t] \subseteq todo[t]
                /\ \A j \in DOMAIN queue' : j \in todo[t] /\ j \notin todo'[t] =>
                        Had(receipts', blurred', queue[j]) \/ peer[queue[j]] # peer[t]
        BY <3>2, <3>4, <3>5, Zenon DEF Draining
      <4>2. \A t \in Threads : Carrying(t)' => Carrying(t) /\ held'[t] = held[t]
        BY <3>2, Zenon DEF Carrying
      <4> QED BY <4>1, <4>2, Zenon DEF DrainsAdvance
    <3> QED BY <3>6, <3>7, <3>8, AdvanceKeepsOrder, ZenonT(30)
  <2>14. CASE FlushDeletes(c)
    <3>1. PICK k \in Oldest(todo[c]) : /\ Delete(k, {})
                                       /\ todo' = [todo EXCEPT ![c] = todo[c] \ {k}]
      BY <2>14, Zenon DEF FlushDeletes
    <3>2. /\ UNCHANGED <<peer, key, receipts, behind>> /\ Draining(c)
          /\ \A t \in Threads : t # c => pc'[t] = pc[t] /\ held'[t] = held[t]
          /\ pc'[c] = "get"
      BY <2>14, Zenon DEF FlushDeletes, Goto, history, Draining, Inv, Shape
    <3>3. /\ \A j \in DOMAIN queue' : j \in DOMAIN queue /\ queue'[j] = queue[j]
          /\ blurred \subseteq blurred'
      BY <2>14, <3>1, Zenon DEF FlushDeletes, history, Delete, Without
    <3>4. /\ todo'[c] \subseteq todo[c] /\ \A j \in todo[c] : j \notin todo'[c] => j = k
          /\ \A t \in Threads : t # c => todo'[t] = todo[t]
      BY <3>1, Zenon DEF Inv, Shape
    <3>5. k \in DOMAIN queue' => Had(receipts', blurred', queue[k]) \/ peer[queue[k]] # peer[c]
      BY <2>14, <3>1, <3>3, Zenon DEF Delete, Without, MessageAt, Had
    <3>6. StoreShrinks
      BY <3>2, <3>3, Zenon DEF StoreShrinks, Had
    <3>7. CallsAdvance
      BY <3>2, Zenon DEF CallsAdvance, Order, Traced
    <3>8. DrainsAdvance
      <4>1. \A t \in Threads : Draining(t)' =>
                /\ Draining(t) /\ todo'[t] \subseteq todo[t]
                /\ \A j \in DOMAIN queue' : j \in todo[t] /\ j \notin todo'[t] =>
                        Had(receipts', blurred', queue[j]) \/ peer[queue[j]] # peer[t]
        BY <3>2, <3>4, <3>5, ZenonT(30) DEF Draining
      <4>2. \A t \in Threads : Carrying(t)' => Carrying(t) /\ held'[t] = held[t]
        BY <3>2, Zenon DEF Carrying
      <4> QED BY <4>1, <4>2, Zenon DEF DrainsAdvance
    <3> QED BY <3>6, <3>7, <3>8, AdvanceKeepsOrder, ZenonT(30)
  <2>15. CASE FlushGets(c)
    <3>1. PICK k \in Oldest(todo[c]) : \E m \in MessageAt(k) : peer[m] = peer[c] /\ held' = [held EXCEPT ![c] = m]
      BY <2>15, Zenon DEF FlushGets
    <3>2. k \in DOMAIN queue /\ k \in todo[c] /\ peer[queue[k]] = peer[c] /\ held' = [held EXCEPT ![c] = queue[k]]
      BY <3>1, Zenon DEF MessageAt, Oldest
    <3>3. /\ UNCHANGED <<queue, peer, key, todo, receipts, blurred, behind>> /\ pc[c] = "get"
          /\ pc' = [pc EXCEPT ![c] = "resend"]
      BY <2>15, Zenon DEF FlushGets, Goto, history
    <3>4. /\ pc'[c] = "resend" /\ held'[c] = queue[k]
          /\ \A t \in Threads : t # c => pc'[t] = pc[t] /\ held'[t] = held[t]
      BY <3>2, <3>3, Zenon DEF Inv, Shape
    <3>5. ASSUME NEW j \in DOMAIN queue, queue[j] \in behind[queue[k]]
          PROVE  Had(receipts, blurred, queue[j])
      <4>1. j < k
        BY <3>2, <3>5, Zenon DEF Order, Ascending
      <4>2. j \in Nat /\ k \in Nat
        BY <3>2, <3>5, Zenon DEF Inv, Shape
      <4>3. j \notin todo[c]
        BY <3>1, <4>1, <4>2, SMTT(20) DEF Oldest
      <4>4. Draining(c)
        BY <3>3, Zenon DEF Draining
      <4> QED BY <3>2, <3>5, <4>3, <4>4, ZenonT(30) DEF Order, Swept
    <3>6. StoreShrinks
      BY <3>3, Zenon DEF StoreShrinks
    <3>7. CallsAdvance
      BY <3>3, <3>4, Zenon DEF CallsAdvance, Order, Traced
    <3>8. DrainsAdvance
      <4>1. \A t \in Threads : Draining(t)' => Draining(t) /\ todo'[t] = todo[t]
        BY <3>3, <3>4, Zenon DEF Draining
      <4>2. \A t \in Threads : Carrying(t)' =>
                \/ Carrying(t) /\ held'[t] = held[t]
                \/ \A j \in DOMAIN queue : queue[j] \in behind[held'[t]] => Had(receipts, blurred, queue[j])
        BY <3>4, <3>5, Zenon DEF Carrying
      <4> QED BY <4>1, <4>2, Zenon DEF DrainsAdvance
    <3> QED BY <3>6, <3>7, <3>8, AdvanceKeepsOrder, ZenonT(30)
  <2> QED
    BY <1>3, <2>1, <2>2, <2>3, <2>4, <2>5, <2>6, <2>7, <2>8, <2>9, <2>10, <2>11, <2>12, <2>13,
       <2>14, <2>15,
       ZenonT(30) DEF Step, SendStep, FlushStep
<1>4. ASSUME NEW c \in Threads, NEW p \in Peers, PeerAccepts(c, p) PROVE Order'
  <2>1. StoreShrinks
    BY <1>4, SMTT(20) DEF PeerAccepts, Begin, history, mux, StoreShrinks, Had, Inv, Shape
  <2>2. CallsAdvance
    BY <1>4, SMTT(20) DEF PeerAccepts, Begin, history, mux, Goto, CallsAdvance, Inv, Shape, Order,
       Traced
  <2>3. DrainsAdvance
    BY <1>4 DEF PeerAccepts, Begin, history, mux, Goto, DrainsAdvance, Draining, Carrying, Inv,
       Shape
  <2> QED BY <2>1, <2>2, <2>3, AdvanceKeepsOrder, Zenon
<1>5. ASSUME NEW c \in Threads, NEW p \in Peers, PeerRefuses(c, p) PROVE Order'
  <2>1. StoreShrinks
    BY <1>5, SMTT(20) DEF PeerRefuses, Begin, NotReceived, ReplyLost, Fault, mux, StoreShrinks,
       Had, Inv, Shape
  <2>2. CallsAdvance
    BY <1>5, SMTT(20) DEF PeerRefuses, Begin, NotReceived, ReplyLost, Fault, mux, Goto,
       CallsAdvance, Inv, Shape, Order, Traced
  <2>3. DrainsAdvance
    BY <1>5 DEF PeerRefuses, Begin, NotReceived, ReplyLost, Fault, mux, Goto, DrainsAdvance,
       Draining, Carrying, Inv, Shape
  <2> QED BY <2>1, <2>2, <2>3, AdvanceKeepsOrder, Zenon
<1>6. ASSUME NEW c \in Threads, NEW p \in Peers, Flush(c, p) PROVE Order'
  <2>1. /\ peer' \in [Threads -> Peers \cup {None}]
        /\ \A t \in Threads : pc[t] # "idle" => peer'[t] = peer[t]
    BY <1>6, Zenon DEF Flush, Order, Traced
  <2>2. c \notin Calls
    BY <1>6, TransportConstants, Zenon DEF Flush
  <2> QED BY <1>6, <2>1, <2>2, ListingKeepsOrder, Zenon DEF Flush
<1> QED BY <1>1, <1>2, <1>3, <1>4, <1>5, <1>6, ZenonT(30) DEF Next

\* flush delivers a peer's messages in the order they were queued, for every interleaving of
\* sends, caps and drains and whatever crashes, lost replies and store faults come between:
\* of what was stored for the peer when a message was enqueued, nothing that is still stored
\* is passed by.
THEOREM AlwaysInOrder == Spec => DrainsInOrder
<1> DEFINE InOrder == \A c \in Threads : pc[c] = "resend" /\ pc'[c] = "delete" =>
                \A m \in behind[held[c]] \cap Stored : receipts[m] > 0 \/ m \in blurred
<1>1. Init => Order
  <2> SUFFICES ASSUME Init PROVE Order
    BY Zenon
  <2>1. DOMAIN queue = {}
    BY DEF Init
  <2>2. Traced
    BY CallsAreThreads, Zenon DEF Init, Traced
  <2> QED BY <2>1, <2>2, Zenon DEF Init, Order, Ascending, Swept, Draining, Carrying
<1>2. Order => InOrder
  BY StoredIs, Zenon DEF Order, Swept, Carrying, Had
<1>3. Inv /\ Order /\ [Next]_vars => Order'
  BY OrderStep, Zenon
<1> QED
  BY <1>1, <1>2, <1>3, Invariance, PTL DEF Spec, DrainsInOrder

----------------------------------------------------------------------------
(* The bound of the queue. *)

\* Sets of numbers have a least member.
LEMMA LeastNat ==
    ASSUME NEW S \in SUBSET Nat, S # {}
    PROVE  \E n \in S : \A m \in S : n <= m
<1> DEFINE R == {pair \in Nat \X Nat : pair[1] < pair[2]}
<1>1. IsWellFoundedOn(R, Nat)
    BY NatLessThanWellFounded DEF OpToRel
<1>2. PICK n \in S : \A m \in S : ~(<<m, n>> \in R)
    <2> HIDE DEF R
    <2> QED BY <1>1, WFMin, Zenon
<1>3. ASSUME NEW m \in S PROVE n <= m
    <2>1. m \in Nat /\ n \in Nat /\ <<m, n>> \notin R
        BY <1>2
    <2> QED BY <2>1
<1> QED BY <1>3, Zenon

\* One element more counts one more.
LEMMA OneMore ==
    ASSUME NEW S, IsFiniteSet(S), NEW x, x \notin S
    PROVE  IsFiniteSet(S \cup {x}) /\ Cardinality(S \cup {x}) = Cardinality(S) + 1
BY FS_AddElement, Zenon

\* A part of a finite set is finite and no larger.
LEMMA Fewer ==
    ASSUME NEW S, IsFiniteSet(S), NEW T \in SUBSET S
    PROVE  IsFiniteSet(T) /\ Cardinality(T) \in Nat /\ Cardinality(S) \in Nat
           /\ Cardinality(T) <= Cardinality(S)
BY FS_Subset, FS_CardinalityType, Zenon

\* enforceCap leaves MaxQueued keys of those it listed, or all when they are fewer.
LEMMA ExcessLeaves ==
    ASSUME NEW S \in SUBSET Nat, IsFiniteSet(S)
    PROVE  Cardinality(S \ Excess(S)) <= MaxQueued
<1> DEFINE R == S \ Excess(S)
<1>1. IsFiniteSet(R) /\ R \subseteq S /\ R \subseteq Nat
    BY Fewer, ZenonT(30)
<1>2. CASE R = {}
    BY <1>2, FS_EmptySet, TransportConstants
<1>3. CASE R # {}
  <2>1. PICK n \in R : \A m \in R : n <= m
    BY <1>1, <1>3, LeastNat, Zenon
  <2> DEFINE Y == {j \in S : j > n}
  <2>2. n \in S /\ n \in Nat /\ ~(Cardinality(Y) >= MaxQueued)
    BY <1>1, <2>1, Zenon DEF Excess
  <2>3. R \ {n} \subseteq Y
    <3> SUFFICES ASSUME NEW m \in R, m # n PROVE m \in Y
      BY Zenon
    <3>1. n <= m /\ m \in S /\ m \in Nat
      BY <1>1, <2>1, Zenon
    <3>2. m > n
      BY <2>2, <3>1
    <3> QED BY <3>1, <3>2, Zenon
  <2>4. IsFiniteSet(Y) /\ Cardinality(Y) \in Nat
    BY Fewer
  <2>5. IsFiniteSet(R \ {n}) /\ Cardinality(R \ {n}) \in Nat /\ Cardinality(R \ {n}) <= Cardinality(Y)
    <3> HIDE DEF R, Y
    <3> QED BY <2>3, <2>4, Fewer, Zenon
  <2>6. Cardinality(R) = Cardinality(R \ {n}) + 1
    <3>1. (R \ {n}) \cup {n} = R /\ n \notin R \ {n}
      BY <2>1, Zenon
    <3> HIDE DEF R
    <3> QED BY <2>5, <3>1, OneMore, Zenon
  <2> HIDE DEF R, Y
  <2> QED BY <2>2, <2>4, <2>5, <2>6, TransportConstants DEF R
<1> QED BY <1>2, <1>3, Zenon

\* The Sends between their Put and the end of their enforceCap.
Active == {c \in Calls : pc[c] \in {"cap", "drop"}}

\* For a Send that is dropping, later are the Sends that stored their message after it had
\* listed the keys and are not done with the cap either: what the queue holds beyond the cap
\* and the keys it has still to drop is theirs, and so are the later ones of those.
Within(keys, list, dropping, active, later) ==
    \A c \in dropping :
        /\ later[c] \subseteq active \ {c}
        /\ Cardinality(keys \ list[c]) <= MaxQueued + Cardinality(later[c])
        /\ \A d \in later[c] : d \in dropping => later[d] \subseteq later[c]

Dropping == {c \in Calls : pc[c] = "drop"}

Bounded ==
    /\ faults \in Nat
    /\ faults = 0 =>
        /\ IsFiniteSet(DOMAIN queue) /\ IsFiniteSet(Active)
        /\ Cardinality(DOMAIN queue) <= MaxQueued + Cardinality(Active)
        /\ \E later \in [Calls -> SUBSET Calls] :
            Within(DOMAIN queue, todo, Dropping, Active, later)

\* A step that stores nothing and leaves the Sends at the cap where they are keeps the
\* bound.
LEMMA QuietKeepsBound ==
    ASSUME Bounded, faults' \in Nat,
           faults' = 0 =>
               /\ faults = 0 /\ DOMAIN queue' \subseteq DOMAIN queue
               /\ Active' = Active /\ Dropping' = Dropping
               /\ \A c \in Dropping : DOMAIN queue' \ todo'[c] \subseteq DOMAIN queue \ todo[c]
    PROVE  Bounded'
<1> SUFFICES ASSUME faults' = 0
             PROVE  /\ IsFiniteSet(DOMAIN queue') /\ IsFiniteSet(Active')
                    /\ Cardinality(DOMAIN queue') <= MaxQueued + Cardinality(Active')
                    /\ \E later \in [Calls -> SUBSET Calls] :
                            Within(DOMAIN queue', todo', Dropping', Active', later)
    BY Zenon DEF Bounded
<1> DEFINE K == DOMAIN queue  L == DOMAIN queue'
<1>1. /\ L \subseteq K /\ Active' = Active /\ Dropping' = Dropping
      /\ \A c \in Dropping : L \ todo'[c] \subseteq K \ todo[c]
    BY Zenon
<1>2. IsFiniteSet(K) /\ IsFiniteSet(Active) /\ Cardinality(K) <= MaxQueued + Cardinality(Active)
    BY Zenon DEF Bounded
<1>3. PICK later \in [Calls -> SUBSET Calls] : Within(K, todo, Dropping, Active, later)
    BY Zenon DEF Bounded
<1> HIDE DEF K, L
<1>4. IsFiniteSet(L) /\ Cardinality(L) <= Cardinality(K) /\ Cardinality(L) \in Nat /\ Cardinality(K) \in Nat
    BY <1>1, <1>2, Fewer, Zenon
<1>5. Cardinality(L) <= MaxQueued + Cardinality(Active)
    BY <1>2, <1>4, Fewer, FS_CardinalityType, TransportConstants, SMTT(20)
<1>6. ASSUME NEW c \in Dropping
      PROVE  Cardinality(L \ todo'[c]) <= MaxQueued + Cardinality(later[c])
  <2>1. Cardinality(K \ todo[c]) <= MaxQueued + Cardinality(later[c]) /\ later[c] \subseteq Active
    BY <1>3, <1>6, Zenon DEF Within
  <2>2. L \ todo'[c] \subseteq K \ todo[c] /\ IsFiniteSet(K \ todo[c])
    <3>1. L \ todo'[c] \subseteq K \ todo[c] /\ K \ todo[c] \subseteq K
      BY <1>1, <1>6, Zenon
    <3> QED BY <1>2, <3>1, Fewer, Zenon
  <2>3. /\ Cardinality(L \ todo'[c]) <= Cardinality(K \ todo[c])
        /\ Cardinality(L \ todo'[c]) \in Nat /\ Cardinality(K \ todo[c]) \in Nat
    BY <2>2, Fewer, Zenon
  <2>4. Cardinality(later[c]) \in Nat
    BY <1>2, <2>1, Fewer, Zenon
  <2> QED BY <2>1, <2>3, <2>4, TransportConstants, SMTT(20)
<1>7. Within(L, todo', Dropping', Active', later)
    BY <1>1, <1>3, <1>6, Zenon DEF Within
<1> QED BY <1>1, <1>2, <1>3, <1>4, <1>5, <1>7, ZenonT(30) DEF L

\* Put adds a key and a Send that will see to the cap; it is later than all that drop.
LEMMA PutKeepsBound ==
    ASSUME Inv, Bounded, NEW c \in Threads, Put(c)
    PROVE  Bounded'
<1>1. c \in Calls /\ pc[c] = "put" /\ key[c] \notin DOMAIN queue
    BY Zenon DEF Put, Inv, Keys
<1>2. faults' = faults /\ todo' = todo /\ pc' = [pc EXCEPT ![c] = "cap"]
    BY Zenon DEF Put, Goto, history
<1>3. DOMAIN queue' = DOMAIN queue \cup {key[c]}
    BY Zenon DEF Put
<1>4. pc'[c] = "cap" /\ \A d \in Calls : d # c => pc'[d] = pc[d]
    BY <1>1, <1>2, CallsAreThreads, Zenon DEF Inv, Shape
<1>5. /\ Active' = Active \cup {c} /\ c \notin Active
      /\ Dropping' = Dropping /\ c \notin Dropping /\ Dropping \subseteq Calls
    BY <1>1, <1>4, Zenon DEF Active, Dropping
<1> SUFFICES ASSUME faults' = 0
             PROVE  /\ IsFiniteSet(DOMAIN queue') /\ IsFiniteSet(Active')
                    /\ Cardinality(DOMAIN queue') <= MaxQueued + Cardinality(Active')
                    /\ \E later \in [Calls -> SUBSET Calls] :
                            Within(DOMAIN queue', todo', Dropping', Active', later)
    BY <1>2, Zenon DEF Bounded
<1> DEFINE K == DOMAIN queue  L == DOMAIN queue'
<1>6. IsFiniteSet(K) /\ IsFiniteSet(Active) /\ Cardinality(K) <= MaxQueued + Cardinality(Active)
    BY <1>2, Zenon DEF Bounded
<1>7. PICK later \in [Calls -> SUBSET Calls] : Within(K, todo, Dropping, Active, later)
    BY <1>2, Zenon DEF Bounded
<1>8. L = K \cup {key[c]} /\ key[c] \notin K
    BY <1>1, <1>3, Zenon
<1> HIDE DEF K, L
<1>9. /\ IsFiniteSet(L) /\ Cardinality(L) = Cardinality(K) + 1
      /\ IsFiniteSet(Active') /\ Cardinality(Active') = Cardinality(Active) + 1
    BY <1>5, <1>6, <1>8, OneMore, Zenon
<1>10. Cardinality(L) <= MaxQueued + Cardinality(Active')
    BY <1>6, <1>9, FS_CardinalityType, TransportConstants, SMTT(20)
<1> DEFINE after == [d \in Calls |-> (later[d] \cup {c}) \cap Calls]
<1>11. after \in [Calls -> SUBSET Calls] /\ \A d \in Calls : after[d] = later[d] \cup {c}
    BY <1>1, <1>7, Zenon
<1> HIDE DEF after
<1>12. ASSUME NEW d \in Dropping
       PROVE  /\ after[d] \subseteq Active' \ {d}
              /\ Cardinality(L \ todo'[d]) <= MaxQueued + Cardinality(after[d])
              /\ \A e \in after[d] : e \in Dropping' => after[e] \subseteq after[d]
  <2>1. /\ later[d] \subseteq Active \ {d}
        /\ Cardinality(K \ todo[d]) <= MaxQueued + Cardinality(later[d])
        /\ \A e \in later[d] : e \in Dropping => later[e] \subseteq later[d]
        /\ after[d] = later[d] \cup {c} /\ d # c
    BY <1>5, <1>7, <1>11, Zenon DEF Within
  <2>2. after[d] \subseteq Active' \ {d}
    BY <1>5, <2>1, Zenon
  <2>3. IsFiniteSet(later[d]) /\ c \notin later[d]
    <3>1. later[d] \subseteq Active
      BY <2>1, Zenon
    <3> QED BY <1>5, <1>6, <3>1, Fewer, Zenon
  <2>4. Cardinality(after[d]) = Cardinality(later[d]) + 1 /\ Cardinality(later[d]) \in Nat
    BY <2>1, <2>3, OneMore, FS_CardinalityType, Zenon
  <2>5. IsFiniteSet(K \ todo[d]) /\ Cardinality(K \ todo[d]) \in Nat
    <3>1. K \ todo[d] \subseteq K
      BY Zenon
    <3> QED BY <1>6, <3>1, Fewer, Zenon
  <2>6. key[c] \notin K \ todo[d] /\ L \ todo[d] \subseteq (K \ todo[d]) \cup {key[c]}
    BY <1>8, Zenon
  <2>7. /\ IsFiniteSet((K \ todo[d]) \cup {key[c]})
        /\ Cardinality((K \ todo[d]) \cup {key[c]}) = Cardinality(K \ todo[d]) + 1
    BY <2>5, <2>6, OneMore, Zenon
  <2>8. /\ Cardinality(L \ todo[d]) <= Cardinality((K \ todo[d]) \cup {key[c]})
        /\ Cardinality(L \ todo[d]) \in Nat
    BY <2>6, <2>7, Fewer, ZenonT(30)
  <2>9. Cardinality(L \ todo[d]) <= MaxQueued + Cardinality(after[d])
    BY <2>1, <2>4, <2>5, <2>7, <2>8, TransportConstants, SMTT(20)
  <2>10. \A e \in after[d] : e \in Dropping => after[e] \subseteq after[d]
    BY <1>5, <1>11, <2>1, Zenon
  <2> QED BY <1>2, <1>5, <2>2, <2>9, <2>10, ZenonT(30)
<1>13. Within(L, todo', Dropping', Active', after)
    BY <1>5, <1>12, Zenon DEF Within
<1> QED BY <1>9, <1>10, <1>11, <1>13, Zenon DEF L

\* A Send leaves the cap when what is stored is accounted for by those that stay: either it
\* found no excess, or it has dropped what it found and the rest belongs to later ones.
LEMMA LeavingKeepsBound ==
    ASSUME Inv, Bounded, NEW c \in Calls, c \in Active, faults' = faults,
           IsFiniteSet(DOMAIN queue'), DOMAIN queue' \subseteq DOMAIN queue,
           Active' = Active \ {c}, Dropping' = Dropping \ {c},
           \A d \in Calls : d # c => todo'[d] = todo[d],
           faults = 0 => \E later \in [Calls -> SUBSET Calls] :
               /\ Within(DOMAIN queue, todo, Dropping, Active, later)
               /\ \/ Cardinality(DOMAIN queue') <= MaxQueued
                  \/ /\ c \in Dropping
                     /\ Cardinality(DOMAIN queue') <= MaxQueued + Cardinality(later[c])
    PROVE  Bounded'
<1> SUFFICES ASSUME faults' = 0
             PROVE  /\ IsFiniteSet(DOMAIN queue') /\ IsFiniteSet(Active')
                    /\ Cardinality(DOMAIN queue') <= MaxQueued + Cardinality(Active')
                    /\ \E later \in [Calls -> SUBSET Calls] :
                            Within(DOMAIN queue', todo', Dropping', Active', later)
    BY Zenon DEF Bounded
<1> DEFINE K == DOMAIN queue  L == DOMAIN queue'
<1>1. PICK later \in [Calls -> SUBSET Calls] :
           /\ Within(K, todo, Dropping, Active, later)
           /\ \/ Cardinality(L) <= MaxQueued
              \/ c \in Dropping /\ Cardinality(L) <= MaxQueued + Cardinality(later[c])
    BY Zenon
<1>2. IsFiniteSet(K) /\ IsFiniteSet(Active) /\ IsFiniteSet(L) /\ L \subseteq K /\ Dropping \subseteq Calls
    BY Zenon DEF Bounded, Dropping
<1> HIDE DEF K, L
<1>3. IsFiniteSet(Active') /\ Cardinality(L) \in Nat /\ Cardinality(Active') \in Nat
  <2>1. Active' \subseteq Active
    BY Zenon
  <2> QED BY <1>2, <2>1, Fewer, FS_CardinalityType, Zenon
<1> DEFINE after == [d \in Calls |-> later[d] \ {c}]
<1>4. after \in [Calls -> SUBSET Calls] /\ \A d \in Calls : after[d] = later[d] \ {c}
    BY <1>1, Zenon
<1> HIDE DEF after
\* A set of calls that stay at the cap, and holds the later ones of c, accounts for the rest.
<1>5. ASSUME NEW S \in SUBSET Active', c \in Dropping => later[c] \subseteq S
      PROVE  Cardinality(L) <= MaxQueued + Cardinality(S)
  <2>1. IsFiniteSet(S) /\ Cardinality(S) \in Nat
    BY <1>3, Fewer, ZenonT(30)
  <2>2. CASE Cardinality(L) <= MaxQueued
    BY <1>3, <2>1, <2>2, TransportConstants, SMTT(20)
  <2>3. CASE c \in Dropping /\ Cardinality(L) <= MaxQueued + Cardinality(later[c])
    <3>1. Cardinality(later[c]) <= Cardinality(S) /\ Cardinality(later[c]) \in Nat
      BY <1>5, <2>1, <2>3, Fewer, ZenonT(30)
    <3> QED BY <1>3, <2>1, <2>3, <3>1, TransportConstants, SMTT(20)
  <2> QED BY <1>1, <2>2, <2>3, ZenonT(30)
<1>6. Cardinality(L) <= MaxQueued + Cardinality(Active')
  <2>1. c \in Dropping => later[c] \subseteq Active'
    BY <1>1, Zenon DEF Within
  <2> QED BY <1>5, <2>1, Zenon
<1>7. ASSUME NEW d \in Dropping'
      PROVE  /\ after[d] \subseteq Active' \ {d}
             /\ Cardinality(L \ todo'[d]) <= MaxQueued + Cardinality(after[d])
             /\ \A e \in after[d] : e \in Dropping' => after[e] \subseteq after[d]
  <2>1. d \in Dropping /\ d # c /\ d \in Calls /\ todo'[d] = todo[d] /\ after[d] = later[d] \ {c}
    BY <1>2, <1>4, <1>7, ZenonT(30)
  <2>2. /\ later[d] \subseteq Active \ {d}
        /\ Cardinality(K \ todo[d]) <= MaxQueued + Cardinality(later[d])
        /\ \A e \in later[d] : e \in Dropping => later[e] \subseteq later[d]
    BY <1>1, <2>1, Zenon DEF Within
  <2>3. after[d] \subseteq Active' \ {d} /\ after[d] \subseteq Active'
    BY <2>1, <2>2, Zenon
  <2>4. \A e \in after[d] : e \in Dropping' => after[e] \subseteq after[d]
    BY <1>2, <1>4, <2>1, <2>2, ZenonT(30)
  <2>5. Cardinality(L \ todo[d]) \in Nat /\ Cardinality(L \ todo[d]) <= Cardinality(L)
    <3>1. L \ todo[d] \subseteq L
      BY Zenon
    <3> QED BY <1>2, <3>1, Fewer, Zenon
  <2>6. IsFiniteSet(after[d]) /\ Cardinality(after[d]) \in Nat
    BY <1>3, <2>3, Fewer, ZenonT(30)
  <2>7. CASE c \in later[d]
    <3>1. c \in Dropping => later[c] \subseteq after[d]
      <4>1. c \in Dropping => c \notin later[c] /\ later[c] \subseteq later[d]
        BY <1>1, <2>2, <2>7, Zenon DEF Within
      <4> QED BY <2>1, <4>1, Zenon
    <3>2. Cardinality(L) <= MaxQueued + Cardinality(after[d])
      BY <1>5, <2>3, <3>1, Zenon
    <3> QED BY <1>3, <2>1, <2>3, <2>4, <2>5, <2>6, <3>2, TransportConstants, SMTT(20)
  <2>8. CASE c \notin later[d]
    <3>1. after[d] = later[d]
      BY <2>1, <2>8, Zenon
    <3>2. L \ todo[d] \subseteq K \ todo[d] /\ K \ todo[d] \subseteq K
      BY <1>2, Zenon
    <3>3. IsFiniteSet(K \ todo[d]) /\ Cardinality(K \ todo[d]) \in Nat
      BY <1>2, <3>2, Fewer, Zenon
    <3>4. Cardinality(L \ todo[d]) <= Cardinality(K \ todo[d])
      BY <3>2, <3>3, Fewer, ZenonT(30)
    <3>5. Cardinality(L \ todo[d]) <= MaxQueued + Cardinality(after[d])
      BY <2>2, <2>5, <2>6, <3>1, <3>3, <3>4, TransportConstants, SMTT(20)
    <3> QED BY <2>1, <2>3, <2>4, <3>5, Zenon
  <2> QED BY <2>7, <2>8, ZenonT(30)
<1>8. Within(L, todo', Dropping', Active', after)
    BY <1>7, Zenon DEF Within
<1> QED BY <1>2, <1>3, <1>4, <1>6, <1>8, Zenon DEF L

\* The listing of enforceCap accounts for all but MaxQueued of what is stored.
LEMMA ListForCapKeepsBound ==
    ASSUME Inv, Bounded, NEW c \in Threads, ListForCap(c)
    PROVE  Bounded'
<1> DEFINE K == DOMAIN queue  E == Excess(K)
<1>1. c \in Calls /\ pc[c] = "cap"
    BY Zenon DEF ListForCap, Inv, Keys
<1>2. /\ faults' = faults /\ queue' = queue /\ todo' = [todo EXCEPT ![c] = E]
      /\ pc' = [pc EXCEPT ![c] = IF E # {} THEN "drop" ELSE "return"]
    BY Zenon DEF ListForCap, Goto, history, List
<1>3. /\ pc'[c] = IF E # {} THEN "drop" ELSE "return"
      /\ todo'[c] = E
      /\ \A d \in Calls : d # c => pc'[d] = pc[d] /\ todo'[d] = todo[d]
    BY <1>1, <1>2, CallsAreThreads, Zenon DEF Inv, Shape
<1>4. K \in SUBSET Nat /\ c \in Active /\ c \notin Dropping /\ Dropping \subseteq Calls
    BY <1>1, Zenon DEF Inv, Shape, Active, Dropping
<1>5. CASE faults # 0
    BY <1>2, <1>5, QuietKeepsBound, Zenon DEF Bounded
<1>6. CASE faults = 0
  <2>1. IsFiniteSet(K) /\ IsFiniteSet(Active) /\ Cardinality(K) <= MaxQueued + Cardinality(Active)
    BY <1>6, Zenon DEF Bounded
  <2>2. PICK later \in [Calls -> SUBSET Calls] : Within(K, todo, Dropping, Active, later)
    BY <1>6, Zenon DEF Bounded
  <2>3. Cardinality(K \ E) <= MaxQueued
    BY <1>4, <2>1, ExcessLeaves, Zenon
  <2>4. CASE E = {}
    <3>1. pc'[c] = "return"
      BY <1>3, <2>4, Zenon
    <3>2. Active' = Active \ {c} /\ Dropping' = Dropping \ {c}
      BY <1>1, <1>3, <3>1, Zenon DEF Active, Dropping
    <3>3. K \ E = K
      BY <2>4, Zenon
    <3>4. Cardinality(K) <= MaxQueued
      BY <2>3, <3>3, Zenon
    <3> HIDE DEF E
    <3> QED BY <1>1, <1>2, <1>3, <1>4, <2>1, <2>2, <3>2, <3>4, LeavingKeepsBound, ZenonT(30)
  <2>5. CASE E # {}
    <3>1. pc'[c] = "drop"
      BY <1>3, <2>5, Zenon
    <3>2. Active' = Active /\ Dropping' = Dropping \cup {c}
      BY <1>1, <1>3, <3>1, Zenon DEF Active, Dropping
    <3> DEFINE after == [later EXCEPT ![c] = {}]
    <3>3. /\ after \in [Calls -> SUBSET Calls] /\ after[c] = {}
          /\ \A d \in Calls : d # c => after[d] = later[d]
      BY <1>1, <2>2, Zenon
    <3> HIDE DEF after, E
    <3>4. ASSUME NEW d \in Dropping'
          PROVE  /\ after[d] \subseteq Active \ {d}
                 /\ Cardinality(K \ todo'[d]) <= MaxQueued + Cardinality(after[d])
                 /\ \A e \in after[d] : e \in Dropping' => after[e] \subseteq after[d]
      <4>1. CASE d = c
        <5>1. Cardinality(after[d]) = 0 /\ todo'[d] = E
          BY <1>3, <3>3, <4>1, FS_EmptySet, ZenonT(30)
        <5>2. Cardinality(K \ E) <= MaxQueued + 0
          BY <2>3, TransportConstants, SMTT(20)
        <5> QED BY <3>3, <4>1, <5>1, <5>2, Zenon
      <4>2. CASE d # c
        <5>1. d \in Dropping /\ d \in Calls /\ after[d] = later[d] /\ todo'[d] = todo[d]
          BY <1>3, <1>4, <3>2, <3>3, <3>4, <4>2, ZenonT(30)
        <5>2. /\ later[d] \subseteq Active \ {d} /\ later[d] \subseteq Calls
              /\ Cardinality(K \ todo[d]) <= MaxQueued + Cardinality(later[d])
              /\ \A e \in later[d] : e \in Dropping => later[e] \subseteq later[d]
          BY <2>2, <5>1, Zenon DEF Within
        <5>3. ASSUME NEW e \in after[d], e \in Dropping' PROVE after[e] \subseteq after[d]
          <6>1. CASE e = c
            BY <3>3, <6>1, Zenon
          <6>2. CASE e # c
            BY <3>2, <3>3, <5>1, <5>2, <5>3, <6>2, ZenonT(30)
          <6> QED BY <6>1, <6>2, Zenon
        <5> QED BY <5>1, <5>2, <5>3, Zenon
      <4> QED BY <4>1, <4>2, Zenon
    <3>5. Within(K, todo', Dropping', Active', after)
      BY <3>2, <3>4, Zenon DEF Within
    <3> QED BY <1>2, <2>1, <3>2, <3>3, <3>5, ZenonT(30) DEF Bounded
  <2> QED BY <2>4, <2>5, Zenon
<1> QED BY <1>5, <1>6, Zenon

\* A Send that has dropped its last key leaves the rest to the later ones.
LEMMA DropKeepsBound ==
    ASSUME Inv, Bounded, NEW c \in Threads, DropOldest(c)
    PROVE  Bounded'
<1> DEFINE K == DOMAIN queue  L == DOMAIN queue'
<1>1. c \in Calls /\ pc[c] = "drop"
    BY Zenon DEF DropOldest, Inv, Keys
<1>2. PICK k \in Oldest(todo[c]) : /\ Delete(k, MessageAt(k))
                                   /\ todo' = [todo EXCEPT ![c] = todo[c] \ {k}]
                                   /\ pc' = [pc EXCEPT ![c] = IF todo[c] = {k} THEN "return" ELSE "drop"]
    BY Zenon DEF DropOldest, Goto
<1>3. /\ pc'[c] = IF todo[c] = {k} THEN "return" ELSE "drop"
      /\ todo'[c] = todo[c] \ {k}
      /\ \A d \in Calls : d # c => pc'[d] = pc[d] /\ todo'[d] = todo[d]
    BY <1>1, <1>2, CallsAreThreads, Zenon DEF Inv, Shape
<1>4. c \in Active /\ c \in Dropping /\ Dropping \subseteq Calls
    BY <1>1, Zenon DEF Active, Dropping
<1>5. CASE faults # 0
  <2>1. faults' = faults \/ faults' = faults + 1
    BY <1>2, Zenon DEF Delete, Fault
  <2>2. faults' \in Nat /\ faults' # 0
    BY <1>5, <2>1, SMTT(20) DEF Bounded
  <2> QED BY <2>2, QuietKeepsBound, Zenon
<1>6. CASE faults = 0 /\ faults' = faults + 1
  <2>1. faults' \in Nat /\ faults' # 0
    BY <1>6
  <2> QED BY <2>1, QuietKeepsBound, Zenon
<1>7. CASE faults = 0 /\ queue' = Without(queue, k) /\ faults' = faults
  <2>1. L = K \ {k}
    BY <1>7, Zenon DEF Without
  <2>2. CASE todo[c] = {k}
    <3>1. pc'[c] = "return"
      BY <1>3, <2>2, Zenon
    <3>2. Active' = Active \ {c} /\ Dropping' = Dropping \ {c}
      BY <1>1, <1>3, <3>1, ZenonT(30) DEF Active, Dropping
    <3>3. PICK later \in [Calls -> SUBSET Calls] : Within(K, todo, Dropping, Active, later)
      BY <1>7, Zenon DEF Bounded
    <3>4. Cardinality(L) <= MaxQueued + Cardinality(later[c])
      BY <1>4, <2>1, <2>2, <3>3, ZenonT(30) DEF Within
    <3>5. IsFiniteSet(L) /\ L \subseteq K
      <4>1. IsFiniteSet(K) /\ L \subseteq K
        BY <1>7, <2>1, Zenon DEF Bounded
      <4> HIDE DEF K, L
      <4> QED BY <4>1, Fewer, Zenon
    <3> QED BY <1>1, <1>3, <1>4, <1>7, <3>2, <3>3, <3>4, <3>5, LeavingKeepsBound, ZenonT(30)
  <2>3. CASE todo[c] # {k}
    <3>1. pc'[c] = "drop"
      BY <1>3, <2>3, Zenon
    <3>2. Active' = Active /\ Dropping' = Dropping
      BY <1>1, <1>3, <3>1, ZenonT(30) DEF Active, Dropping
    <3>3. \A d \in Dropping : L \ todo'[d] \subseteq K \ todo[d]
      BY <1>3, <1>4, <2>1, Zenon
    <3>4. faults' \in Nat /\ L \subseteq K
      BY <1>7, <2>1, Zenon DEF Bounded
    <3> QED BY <1>7, <3>2, <3>3, <3>4, QuietKeepsBound, ZenonT(30)
  <2> QED BY <2>2, <2>3, Zenon
<1> QED BY <1>2, <1>5, <1>6, <1>7, ZenonT(30) DEF Delete, Fault

\* Every step keeps the queue within the cap and what the Sends at the cap account for.
LEMMA BoundedStep ==
    ASSUME Inv, Bounded, [Next]_vars
    PROVE  Bounded'
<1> USE CallsAreThreads
<1> DEFINE Quiet == /\ \A d \in Calls : pc'[d] \in {"cap", "drop"} \/ pc[d] \in {"cap", "drop"} =>
                            pc'[d] = pc[d] /\ todo'[d] = todo[d]
                    /\ faults' = faults /\ DOMAIN queue' \subseteq DOMAIN queue
<1>0. ASSUME Quiet \/ faults' = faults + 1 PROVE Bounded'
  <2>1. CASE faults' = faults + 1
    <3>1. faults' \in Nat /\ faults' # 0
      BY <2>1 DEF Bounded
    <3> QED BY <3>1, QuietKeepsBound, Zenon
  <2>2. CASE Quiet
    <3>1. Active' = Active /\ Dropping' = Dropping
      BY <2>2, Zenon DEF Active, Dropping
    <3>2. \A d \in Dropping : todo'[d] = todo[d]
      BY <2>2, Zenon DEF Dropping
    <3>3. \A d \in Dropping : DOMAIN queue' \ todo'[d] \subseteq DOMAIN queue \ todo[d]
      BY <2>2, <3>2, Zenon
    <3> QED BY <2>2, <3>1, <3>3, QuietKeepsBound, ZenonT(30) DEF Bounded
  <2> QED BY <1>0, <2>1, <2>2, Zenon
<1>1. CASE UNCHANGED vars
    BY <1>0, <1>1, Zenon DEF vars, locals, history
<1>2. CASE Crash
    BY <1>0, <1>2, Zenon DEF Crash, Fault
<1>3. ASSUME NEW c \in Threads, Step(c) PROVE Bounded'
  <2>1. CASE Unavailable(c)
    <3>1. Quiet \/ faults' = faults + 1
      BY <2>1 DEF Unavailable, history, Goto, Inv, Shape
    <3> QED BY <1>0, <3>1, ZenonT(30)
  <2>2. CASE AllocateKey(c)
    <3>1. Quiet \/ faults' = faults + 1
      BY <2>2 DEF AllocateKey, Goto, Inv, Shape
    <3> QED BY <1>0, <3>1, ZenonT(30)
  <2>3. CASE PutFails(c)
    <3>1. Quiet \/ faults' = faults + 1
      BY <2>3 DEF PutFails, Fault, Goto, Inv, Shape
    <3> QED BY <1>0, <3>1, ZenonT(30)
  <2>4. CASE FlushAfterSend(c)
    <3>1. Quiet \/ faults' = faults + 1
      BY <2>4 DEF FlushAfterSend, ListForFlush, history, Goto, Inv, Shape
    <3> QED BY <1>0, <3>1, ZenonT(30)
  <2>5. CASE FlushSkips(c)
    <3>1. Quiet \/ faults' = faults + 1
      BY <2>5 DEF FlushSkips, history, Goto, Inv, Shape
    <3> QED BY <1>0, <3>1, Zenon
  <2>6. CASE FlushUnreadable(c)
    <3>1. Quiet \/ faults' = faults + 1
      BY <2>6 DEF FlushUnreadable, Fault, Goto, Inv, Shape
    <3> QED BY <1>0, <3>1, ZenonT(30)
  <2>7. CASE FlushGets(c)
    <3>1. Quiet \/ faults' = faults + 1
      BY <2>7 DEF FlushGets, history, Goto, Inv, Shape
    <3> QED BY <1>0, <3>1, ZenonT(30)
  <2>8. CASE FlushSends(c)
    <3>1. Quiet \/ faults' = faults + 1
      BY <2>8 DEF FlushSends, history, Goto, Inv, Shape
    <3> QED BY <1>0, <3>1, ZenonT(30)
  <2>9. CASE FlushStops(c)
    <3>1. Quiet \/ faults' = faults + 1
      BY <2>9 DEF FlushStops, Unlock, NotReceived, ReplyLost, Fault, Goto, Inv, Shape
    <3> QED BY <1>0, <3>1, ZenonT(30)
  <2>10. CASE FlushDeletes(c)
    <3>1. Quiet \/ faults' = faults + 1
      BY <2>10, SMTT(20) DEF FlushDeletes, Delete, Without, Fault, Goto, Inv, Shape
    <3> QED BY <1>0, <3>1, ZenonT(30)
  <2>11. CASE FlushEnds(c)
    <3>1. Quiet \/ faults' = faults + 1
      BY <2>11 DEF FlushEnds, Unlock, history, Goto, Inv, Shape
    <3> QED BY <1>0, <3>1, ZenonT(30)
  <2>12. CASE Return(c)
    <3>1. Quiet \/ faults' = faults + 1
      BY <2>12 DEF Return, history, Goto, Inv, Shape
    <3> QED BY <1>0, <3>1, ZenonT(30)
  <2>13. CASE Put(c)
    BY <2>13, PutKeepsBound, Zenon
  <2>14. CASE ListForCap(c)
    BY <2>14, ListForCapKeepsBound, Zenon
  <2>15. CASE DropOldest(c)
    BY <2>15, DropKeepsBound, Zenon
  <2> QED
    BY <1>3, <2>1, <2>2, <2>3, <2>4, <2>5, <2>6, <2>7, <2>8, <2>9, <2>10, <2>11, <2>12, <2>13,
       <2>14, <2>15,
       ZenonT(30) DEF Step, SendStep, FlushStep
<1>4. ASSUME NEW c \in Threads, NEW p \in Peers, PeerAccepts(c, p) PROVE Bounded'
  <2>1. Quiet \/ faults' = faults + 1
    BY <1>4 DEF PeerAccepts, Begin, history, Goto, Inv, Shape
  <2> QED BY <1>0, <2>1, ZenonT(30)
<1>5. ASSUME NEW c \in Threads, NEW p \in Peers, PeerRefuses(c, p) PROVE Bounded'
  <2>1. Quiet \/ faults' = faults + 1
    BY <1>5 DEF PeerRefuses, Begin, NotReceived, ReplyLost, Fault, Goto, Inv, Shape
  <2> QED BY <1>0, <2>1, ZenonT(30)
<1>6. ASSUME NEW c \in Threads, NEW p \in Peers, Flush(c, p) PROVE Bounded'
  <2>1. Quiet \/ faults' = faults + 1
    BY <1>6 DEF Flush, ListForFlush, history, Goto, Inv, Shape
  <2> QED BY <1>0, <2>1, ZenonT(30)
<1> QED BY <1>1, <1>2, <1>3, <1>4, <1>5, <1>6, ZenonT(30) DEF Next

\* Until something outside the mux fails, the offline queue exceeds MaxQueued only by the
\* messages of Sends that have not finished their enforceCap, however many of them list and
\* drop the same keys at once.
THEOREM AlwaysBounded == Spec => []QueueBounded
<1>1. Init => Bounded
  <2> SUFFICES ASSUME Init PROVE Bounded
    BY Zenon
  <2>1. DOMAIN queue = {} /\ faults \in Nat
    BY DEF Init
  <2>2. Active = {} /\ Dropping = {}
    BY CallsAreThreads, Zenon DEF Init, Active, Dropping
  <2>3. 0 <= MaxQueued + 0
    BY TransportConstants
  <2>4. [c \in Calls |-> {}] \in [Calls -> SUBSET Calls]
    BY Zenon
  <2>5. Within({}, todo, {}, {}, [c \in Calls |-> {}])
    BY Zenon DEF Within
  <2> QED BY <2>1, <2>2, <2>3, <2>4, <2>5, FS_EmptySet, ZenonT(30) DEF Bounded
<1>2. Inv /\ Bounded /\ [Next]_vars => Bounded'
  BY BoundedStep, Zenon
<1>3. Bounded => QueueBounded
  BY Zenon DEF Bounded, QueueBounded, Active
<1> QED
  BY <1>1, <1>2, <1>3, Invariance, PTL DEF Spec

----------------------------------------------------------------------------
(* The refinement. *)

Received == {m \in Calls : receipts[m] > 0}

\* A step that leaves the store, the receipts, what was given up and the answers alone is a
\* stuttering step of MessageQueue.
LEMMA Stutters ==
    UNCHANGED <<queue, receipts, discarded, unstored, answer>> => UNCHANGED Promise!vars
BY StoredIs, Zenon DEF Promise!vars, Stored, Range

\* A message that reaches its peer - sent, resent, or sent with the reply lost - arrives.
LEMMA Arrives ==
    ASSUME Shape, NEW m \in Calls,
           receipts' = [receipts EXCEPT ![m] = @ + 1],
           UNCHANGED <<queue, discarded, unstored, answer>>
    PROVE  Promise!Arrive(m)
<1>1. Received' = Received \cup {m}
  BY SMTT(20) DEF Received, Shape
<1> QED
  BY <1>1, Zenon DEF Promise!Arrive, Received, Stored, Range

\* Deleting the key of one message removes that message only.
LEMMA Removes ==
    ASSUME Shape, Keys, NEW k \in DOMAIN queue, queue' = Without(queue, k)
    PROVE  Stored' = Stored \ {queue[k]}
BY DEF Shape, Keys, Without, Stored, Range

\* Deleting a key that is not there changes nothing.
LEMMA RemovesNothing ==
    ASSUME Shape, NEW k, k \notin DOMAIN queue, queue' = Without(queue, k)
    PROVE  queue' = queue
BY DEF Shape, Without

\* Deleting a key and giving up what it held - over the cap, or unparseable - discards that
\* message, or nothing when the key is already gone.
LEMMA Discards ==
    ASSUME Shape, Keys, NEW k, queue' = Without(queue, k),
           discarded' = discarded \cup MessageAt(k), UNCHANGED <<receipts, unstored, answer>>
    PROVE  (\E m \in Calls : Promise!Discard(m)) \/ UNCHANGED Promise!vars
<1>1. CASE k \in DOMAIN queue
  <2>1. MessageAt(k) = {queue[k]} /\ queue[k] \in Calls /\ queue[k] \in Stored
    BY <1>1, StoredIs, SMTT(20) DEF MessageAt, Shape
  <2> QED
    BY <1>1, <2>1, Removes, ZenonT(30) DEF Promise!Discard
<1>2. CASE k \notin DOMAIN queue
  <2>1. MessageAt(k) = {}
    BY <1>2, Zenon DEF MessageAt
  <2> QED
    BY <1>2, <2>1, RemovesNothing, Stutters, SMTT(20)
<1> QED
  BY <1>1, <1>2, Zenon

\* Every step of the mux is a step of MessageQueue or leaves what it promises alone.
LEMMA StepKeepsPromise == Inv /\ [Next]_vars => [Promise!Next]_(Promise!vars)
<1> SUFFICES ASSUME Inv, [Next]_vars
             PROVE  Promise!Next \/ UNCHANGED Promise!vars
    BY Zenon
<1> USE CallsAreThreads DEF Inv
<1>1. CASE UNCHANGED vars
    BY <1>1, Stutters, Zenon DEF vars, history
<1>2. CASE Crash
    BY <1>2, Stutters, ZenonT(30) DEF Crash
<1>3. ASSUME NEW c \in Threads, Step(c) PROVE Promise!Next \/ UNCHANGED Promise!vars
  <2>1. CASE Unavailable(c)
    <3>1. c \in Calls /\ answer[c] = "none" /\ c \notin Stored
      BY <2>1, StoredIs, ZenonT(30) DEF Unavailable, Keys, Answers
    <3>2. Promise!Failed(c) /\ UNCHANGED <<queue, receipts, discarded, unstored>>
      BY <2>1, <3>1, SMTT(20) DEF Unavailable, Promise!Failed, history
    <3> QED
      BY <3>1, <3>2, SMTT(20) DEF Promise!Next, Promise!Answer, Stored, Range
  <2>2. CASE AllocateKey(c)
    BY <2>2, Stutters, ZenonT(30) DEF AllocateKey
  <2>3. CASE Put(c)
    <3>1. c \in Calls /\ answer[c] = "none" /\ key[c] \notin DOMAIN queue
      BY <2>3, Zenon DEF Put, Keys, Answers
    <3>2. Stored' = Stored \cup {c}
      BY <2>3, <3>1, ZenonT(30) DEF Put, Stored, Range
    <3> QED
      BY <2>3, <3>1, <3>2, SMTT(20) DEF Put, history, Promise!Next, Promise!Keep
  <2>4. CASE PutFails(c)
    <3>1. c \in Calls /\ c \notin Stored /\ answer[c] = "none"
      BY <2>4, StoredIs, ZenonT(30) DEF PutFails, Keys, Answers
    <3>2. Stored' = Stored
      BY <2>4, Zenon DEF PutFails, Stored, Range
    <3> QED
      BY <2>4, <3>1, <3>2, ZenonT(30) DEF PutFails, Promise!Next, Promise!NotStored
  <2>5. CASE ListForCap(c)
    BY <2>5, Stutters, ZenonT(30) DEF ListForCap, history
  <2>6. CASE DropOldest(c)
    BY <2>6, Stutters, Discards, ZenonT(30) DEF DropOldest, Delete, Promise!Next
  <2>7. CASE FlushAfterSend(c)
    BY <2>7, Stutters, Zenon DEF FlushAfterSend, ListForFlush, history
  <2>8. CASE FlushSkips(c)
    BY <2>8, Stutters, ZenonT(30) DEF FlushSkips, history
  <2>9. CASE FlushUnreadable(c)
    BY <2>9, Stutters, Discards, ZenonT(30) DEF FlushUnreadable, Promise!Next
  <2>10. CASE FlushGets(c)
    BY <2>10, Stutters, ZenonT(30) DEF FlushGets, history
  <2>11. CASE FlushSends(c)
    BY <2>11, Arrives, ZenonT(30) DEF FlushSends, history, Drain, Carrying, Draining, Promise!Next
  <2>12. CASE FlushStops(c)
    BY <2>12, Arrives, Stutters, ZenonT(30)
       DEF FlushStops, NotReceived, ReplyLost, Drain, Carrying, Draining, Promise!Next
  <2>13. CASE FlushDeletes(c)
    <3>0. PICK k \in Oldest(todo[c]) : Delete(k, {})
      BY <2>13, Zenon DEF FlushDeletes
    <3>3. UNCHANGED <<receipts, unstored, answer>> /\ discarded' = discarded
      BY <2>13, <3>0, Zenon DEF FlushDeletes, Delete
    <3>1. CASE queue' = queue
      BY <3>1, <3>3, Stutters, Zenon
    <3>2. CASE queue' = Without(queue, k)
      <4>1. CASE k \in DOMAIN queue
        <5>1. held[c] \in Calls /\ queue[k] = held[c] /\ receipts[held[c]] > 0
          BY <2>13, <3>0, <4>1, ZenonT(30) DEF FlushDeletes, Drain, Carrying
        <5>2. Stored' = Stored \ {held[c]} /\ held[c] \in Stored
          BY <3>2, <4>1, <5>1, Removes, StoredIs, SMTT(20)
        <5> QED
          BY <3>3, <5>1, <5>2, ZenonT(30) DEF Promise!Next, Promise!Forget
      <4>2. CASE k \notin DOMAIN queue
        BY <3>2, <3>3, <4>2, RemovesNothing, Stutters, ZenonT(30)
      <4> QED
        BY <4>1, <4>2, ZenonT(30)
    <3> QED
      BY <3>0, <3>1, <3>2, Zenon DEF Delete
  <2>14. CASE FlushEnds(c)
    BY <2>14, Stutters, ZenonT(30) DEF FlushEnds, history
  <2>15. CASE Return(c)
    <3>1. CASE c \notin Calls
      <4>1. answer' = answer
        BY <2>15, <3>1, SMTT(20) DEF Return, Shape
      <4> QED
        BY <2>15, <4>1, Stutters, SMTT(20) DEF Return, history
    <3>2. CASE c \in Calls
      <4>1. answer[c] = "none"
        BY <2>15, <3>2, SMTT(20) DEF Return, Answers
      <4>2. key[c] > 0 => c \in Stored \cup Received \cup discarded \cup unstored
        BY <2>15, <3>2, StoredIs, SMTT(20) DEF Return, Answers, Kept, Received
      <4>3. ~(key[c] > 0) => c \in Received
        BY <2>15, <3>2, Zenon DEF Return, Answers, Received
      <4>4. answer' = [answer EXCEPT ![c] = IF key[c] > 0 THEN "queued" ELSE "delivered"]
        BY <2>15, <3>2, Zenon DEF Return, Shape
      <4>5. Promise!Delivered(c) \/ Promise!Queued(c)
        BY <4>1, <4>2, <4>3, <4>4, Zenon DEF Promise!Delivered, Promise!Queued, Received
      <4> QED
        BY <2>15, <3>2, <4>5, ZenonT(30) DEF Return, history, Promise!Next, Promise!Answer, Stored,
           Range
    <3> QED
      BY <3>1, <3>2, ZenonT(30)
  <2> QED
    BY <1>3, <2>1, <2>2, <2>3, <2>4, <2>5, <2>6, <2>7, <2>8, <2>9, <2>10, <2>11, <2>12,
       <2>13, <2>14, <2>15, SMTT(20) DEF Step, SendStep, FlushStep
<1>4. ASSUME NEW c \in Threads, NEW p \in Peers, PeerAccepts(c, p)
      PROVE  Promise!Next \/ UNCHANGED Promise!vars
    BY <1>4, Arrives, ZenonT(30) DEF PeerAccepts, Begin, history, Promise!Next
<1>5. ASSUME NEW c \in Threads, NEW p \in Peers, PeerRefuses(c, p)
      PROVE  Promise!Next \/ UNCHANGED Promise!vars
    BY <1>5, Arrives, Stutters, ZenonT(30)
       DEF PeerRefuses, Begin, NotReceived, ReplyLost, Promise!Next
<1>6. ASSUME NEW c \in Threads, NEW p \in Peers, Flush(c, p)
      PROVE  Promise!Next \/ UNCHANGED Promise!vars
    BY <1>6, Stutters, ZenonT(30) DEF Flush, ListForFlush, history
<1> QED
    BY <1>1, <1>2, <1>3, <1>4, <1>5, <1>6, SMTT(20) DEF Next

\* The mux implements MessageQueue: for every interleaving of sends, caps, drains and
\* crashes, an answered message was received, is stored, was deleted over the cap, or was
\* not taken by the store, and one that was stored leaves it no other way.
THEOREM Refinement == Spec => KeepsPromise
<1>1. Init => Promise!Init
  BY StoredIs DEF Init, Promise!Init
<1>2. Inv /\ [Next]_vars => [Promise!Next]_(Promise!vars)
  BY StepKeepsPromise, Zenon
<1> QED
  BY <1>1, <1>2, Invariance, PTL DEF Spec, KeepsPromise, Promise!Spec
=============================================================================
