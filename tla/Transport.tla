----------------------------- MODULE Transport ------------------------------
(* Core's channel mux, outbound (internal/transport/transport.go): Send    *)
(* tries the peer, keeps an undeliverable queue_offline message in the     *)
(* encrypted store under a growing key, drops the oldest over the cap, and *)
(* after every successful send drains the queue of that peer in key order. *)
(* Each Send or Flush is a goroutine; the step boundaries are its peer     *)
(* calls, its store transactions and its mutexes.  A crash of core ends    *)
(* every goroutine and empties the mux; the store survives.                *)
EXTENDS Naturals, FiniteSets, Functions

CONSTANTS
    Calls,      \* calls of Send, each with its own message
    Flushers,   \* calls of Flush, made when a peer connects
    Peers,      \* PEER_GATEWEAVE, PEER_HYPERVISOR
    MaxQueued,  \* Mux.MaxQueued
    MaxFaults,  \* bound: crashes, lost replies and failed store transactions in one behaviour
    None

ASSUME TransportConstants ==
    /\ MaxQueued \in Nat \ {0}
    /\ MaxFaults \in Nat
    /\ None \notin Calls \cup Flushers
    /\ Calls \cap Flushers = {}

Threads == Calls \cup Flushers

VARIABLES
    \* the store's core.transport namespace
    queue,      \* key number -> message (the call that sent it)
    \* the mux
    nextID, seeded,
    flushMu,    \* the call holding flushMu, or None
    \* the goroutines
    pc,
    peer,       \* the peer argument
    key,        \* key allocated by enqueue
    todo,       \* keys still to visit of the slice of enforceCap or of flush
    held,       \* the message flush has read and is sending, or None
    \* outside
    receipts,   \* how often each message reached its peer
    answer,     \* what Send returned
    \* history
    discarded,  \* messages deleted over the cap, or because they do not parse
    unstored,   \* messages the store did not take
    blurred,    \* messages whose sending or deletion ended in a crash, a lost reply or a store fault
    behind,     \* messages for the same peer already stored when this one's key was allocated
    faults      \* crashes, lost replies and failed store transactions so far

mux == <<nextID, seeded, flushMu>>
locals == <<pc, peer, key, todo, held>>
history == <<discarded, unstored, blurred, behind, faults>>
vars == <<queue, mux, locals, receipts, answer, history>>

Init ==
    /\ queue = << >>
    /\ nextID = 0 /\ seeded = FALSE /\ flushMu = None
    /\ pc = [t \in Threads |-> "idle"]
    /\ peer = [t \in Threads |-> None]
    /\ key = [c \in Calls |-> 0]
    /\ todo = [t \in Threads |-> {}]
    /\ held = [t \in Threads |-> None]
    /\ receipts = [c \in Calls |-> 0]
    /\ answer = [c \in Calls |-> "none"]
    /\ discarded = {} /\ unstored = {} /\ blurred = {}
    /\ behind = [c \in Calls |-> {}]
    /\ faults = 0

----------------------------------------------------------------------------
(* The store, as the mux uses it. *)

Stored == Range(queue)
Without(q, k) == [j \in DOMAIN q \ {k} |-> q[j]]

\* List: the bucket's keys.  A read-only bbolt transaction fails only on a closed database,
\* so its errors are left out.
List == DOMAIN queue

Oldest_NewestFirst(keys) == {k \in keys : \A j \in keys : j <= k}

\* A loop over sorted keys comes to the smallest one left: they are zero-padded, so that
\* sort.Strings is number order.
Oldest(keys) == {k \in keys : \A j \in keys : k <= j}

\* Something outside the mux goes wrong.
Fault ==
    /\ faults < MaxFaults
    /\ faults' = faults + 1

MessageAt(k) == {queue[j] : j \in DOMAIN queue \cap {k}}

\* Delete, whose error every caller ignores; gone is what the caller means to discard.
Delete(k, gone) ==
    \/ /\ queue' = Without(queue, k)
       /\ discarded' = discarded \cup gone
       /\ UNCHANGED <<blurred, faults>>
    \/ /\ Fault
       /\ blurred' = blurred \cup MessageAt(k)
       /\ UNCHANGED <<queue, discarded>>

Goto(c, l) == pc' = [pc EXCEPT ![c] = l]

----------------------------------------------------------------------------
(* Send *)

\* Send reaches the mux with a message for p.
Begin(c, p) ==
    /\ c \in Calls
    /\ pc[c] = "idle"
    /\ peer' = [peer EXCEPT ![c] = p]

\* p.Send returns nil.
PeerAccepts(c, p) ==
    /\ Begin(c, p)
    /\ receipts' = [receipts EXCEPT ![c] = @ + 1]
    /\ Goto(c, "flush")
    /\ UNCHANGED <<queue, mux, key, todo, held, answer, history>>

\* A send that returns an error may have reached the peer all the same: the reply was lost or
\* came after the 30 s timeout.
NotReceived == UNCHANGED <<receipts, blurred, faults>>
ReplyLost(m) ==
    /\ Fault
    /\ receipts' = [receipts EXCEPT ![m] = @ + 1]
    /\ blurred' = blurred \cup {m}

\* p.Send returns an error, or there is no such peer.
PeerRefuses(c, p) ==
    /\ Begin(c, p)
    /\ NotReceived \/ ReplyLost(c)
    /\ Goto(c, "refused")
    /\ UNCHANGED <<queue, mux, key, todo, held, answer, discarded, unstored, behind>>

\* Without queueOffline the caller gets ErrUnavailable; with it AllocateKey follows.
Unavailable(c) ==
    /\ pc[c] = "refused"
    /\ answer' = [answer EXCEPT ![c] = "failed"]
    /\ Goto(c, "done")
    /\ UNCHANGED <<queue, mux, peer, key, todo, held, receipts, history>>

----------------------------------------------------------------------------
(* enqueue *)

Seed_Forgotten(n) == n = nextID

\* seedNextIDLocked: on first use the counter continues after the largest stored key.
Seed(n) == IF seeded THEN n = nextID ELSE \A k \in {nextID} \cup DOMAIN queue : k <= n

NextKey(n) == n + 1

\* The key is allocated under mu, before the message is stored.
AllocateKey(c) ==
    /\ pc[c] = "refused"
    /\ seeded' = TRUE
    /\ \E n \in {nextID} \cup DOMAIN queue :
        /\ Seed(n)
        /\ nextID' = NextKey(n)
    /\ key' = [key EXCEPT ![c] = nextID']
    /\ behind' = [behind EXCEPT ![c] = {m \in Stored : peer[m] = peer[c]}]
    /\ Goto(c, "put")
    /\ UNCHANGED <<queue, flushMu, peer, todo, held, receipts, answer, discarded, unstored, blurred,
                   faults>>

Put(c) ==
    /\ pc[c] = "put"
    /\ queue' = [j \in DOMAIN queue \cup {key[c]} |-> IF j = key[c] THEN c ELSE queue[j]]
    /\ Goto(c, "cap")
    /\ UNCHANGED <<mux, peer, key, todo, held, receipts, answer, history>>

\* The failure is logged, the message gone, and Send still answers as if it were queued.
PutFails(c) ==
    /\ pc[c] = "put"
    /\ Fault
    /\ unstored' = unstored \cup {c}
    /\ Goto(c, "return")
    /\ UNCHANGED <<queue, mux, peer, key, todo, held, receipts, answer, discarded, blurred, behind>>

----------------------------------------------------------------------------
(* enforceCap *)

Excess_OffByOne(keys) == {k \in keys : Cardinality({j \in keys : j > k}) > MaxQueued}

\* keys[:over], which has over = len(keys) - MaxQueued members: those with at least
\* MaxQueued younger ones.
Excess(keys) == {k \in keys : Cardinality({j \in keys : j > k}) >= MaxQueued}

\* One listing decides which keys are over the cap; they are deleted one by one.
ListForCap(c) ==
    /\ pc[c] = "cap"
    /\ todo' = [todo EXCEPT ![c] = Excess(List)]
    /\ Goto(c, IF Excess(List) # {} THEN "drop" ELSE "return")
    /\ UNCHANGED <<queue, mux, peer, key, held, receipts, answer, history>>

DropOldest(c) ==
    /\ pc[c] = "drop"
    /\ \E k \in Oldest(todo[c]) :
        /\ Delete(k, MessageAt(k))
        /\ todo' = [todo EXCEPT ![c] = @ \ {k}]
        /\ Goto(c, IF todo[c] = {k} THEN "return" ELSE "drop")
    /\ UNCHANGED <<nextID, seeded, flushMu, peer, key, held, receipts, answer, unstored, behind>>

----------------------------------------------------------------------------
(* flush *)

FlushMuFree_NoMutex == TRUE

FlushMuFree == flushMu = None

\* The drain works through the keys listed once it holds flushMu.
ListForFlush(c) ==
    /\ FlushMuFree
    /\ flushMu' = c
    /\ todo' = [todo EXCEPT ![c] = List]
    /\ Goto(c, "get")
    /\ UNCHANGED <<queue, nextID, seeded, key, held, receipts, answer, history>>

\* After a successful send.
FlushAfterSend(c) ==
    /\ pc[c] = "flush"
    /\ ListForFlush(c)
    /\ UNCHANGED peer

\* Flush, when a peer connects.
Flush(c, p) ==
    /\ c \in Flushers
    /\ pc[c] = "idle"
    /\ peer' = [peer EXCEPT ![c] = p]
    /\ ListForFlush(c)

\* Gone meanwhile, or for the other peer: skip it.
FlushSkips(c) ==
    /\ pc[c] = "get"
    /\ \E k \in Oldest(todo[c]) :
        /\ \A m \in MessageAt(k) : peer[m] # peer[c]
        /\ todo' = [todo EXCEPT ![c] = @ \ {k}]
    /\ UNCHANGED <<queue, mux, pc, peer, key, held, receipts, answer, history>>

\* The value cannot be read, and is left, or not be parsed, and is deleted and counted.
FlushUnreadable(c) ==
    /\ pc[c] = "get"
    /\ Fault
    /\ \E k \in Oldest(todo[c]) :
        /\ MessageAt(k) # {}
        /\ blurred' = blurred \cup MessageAt(k)
        /\ \/ UNCHANGED <<queue, discarded>>
           \/ queue' = Without(queue, k) /\ discarded' = discarded \cup MessageAt(k)
        /\ todo' = [todo EXCEPT ![c] = @ \ {k}]
    /\ UNCHANGED <<nextID, seeded, flushMu, pc, peer, key, held, receipts, answer, unstored, behind>>

FlushGets(c) ==
    /\ pc[c] = "get"
    /\ \E k \in Oldest(todo[c]) : \E m \in MessageAt(k) :
        /\ peer[m] = peer[c]
        /\ held' = [held EXCEPT ![c] = m]
    /\ Goto(c, "resend")
    /\ UNCHANGED <<queue, mux, peer, key, todo, receipts, answer, history>>

FlushSends(c) ==
    /\ pc[c] = "resend"
    /\ receipts' = [receipts EXCEPT ![held[c]] = @ + 1]
    /\ Goto(c, "delete")
    /\ UNCHANGED <<queue, mux, peer, key, todo, held, answer, history>>

Unlock_Leaks(c) ==
    /\ Goto(c, "return")
    /\ UNCHANGED flushMu

\* flushMu is released by defer.
Unlock(c) ==
    /\ flushMu' = None
    /\ Goto(c, "return")

\* The peer went away again; the rest stays queued.
FlushStops(c) ==
    /\ pc[c] = "resend"
    /\ NotReceived \/ ReplyLost(held[c])
    /\ held' = [held EXCEPT ![c] = None]
    /\ Unlock(c)
    /\ UNCHANGED <<queue, nextID, seeded, peer, key, todo, answer, discarded, unstored, behind>>

FlushDeletes(c) ==
    /\ pc[c] = "delete"
    /\ \E k \in Oldest(todo[c]) :
        /\ Delete(k, {})
        /\ todo' = [todo EXCEPT ![c] = @ \ {k}]
    /\ held' = [held EXCEPT ![c] = None]
    /\ Goto(c, "get")
    /\ UNCHANGED <<mux, peer, key, receipts, answer, unstored, behind>>

FlushEnds(c) ==
    /\ pc[c] = "get" /\ todo[c] = {}
    /\ Unlock(c)
    /\ UNCHANGED <<queue, nextID, seeded, peer, key, todo, held, receipts, answer, history>>

\* Send returns (delivered, nil): delivered after a flush, not delivered after enqueue.
\* Flush returns nothing.
Return(c) ==
    /\ pc[c] = "return"
    /\ answer' = [m \in Calls |->
        IF m # c THEN answer[m] ELSE IF key[c] > 0 THEN "queued" ELSE "delivered"]
    /\ key' = [m \in Calls |-> IF m = c THEN 0 ELSE key[m]]
    /\ todo' = [todo EXCEPT ![c] = {}]
    /\ Goto(c, "done")
    /\ UNCHANGED <<queue, mux, peer, held, receipts, history>>

----------------------------------------------------------------------------

Running == {t \in Threads : pc[t] \notin {"idle", "done", "dead"}}

\* Core dies and starts again with a new mux over the same store.
Crash ==
    /\ Fault
    /\ nextID' = 0 /\ seeded' = FALSE /\ flushMu' = None
    /\ blurred' = blurred \cup {held[t] : t \in {u \in Running : pc[u] = "delete"}}
    /\ pc' = [t \in Threads |-> IF t \in Running THEN "dead" ELSE pc[t]]
    /\ todo' = [t \in Threads |-> {}]
    /\ held' = [t \in Threads |-> None]
    /\ key' = [c \in Calls |-> 0]
    /\ UNCHANGED <<queue, peer, receipts, answer, discarded, unstored, behind>>

SendStep(c) ==
    \/ Unavailable(c) \/ AllocateKey(c) \/ Put(c) \/ PutFails(c) \/ ListForCap(c) \/ DropOldest(c)

FlushStep(c) ==
    \/ FlushAfterSend(c) \/ FlushSkips(c) \/ FlushUnreadable(c) \/ FlushGets(c)
    \/ FlushSends(c) \/ FlushStops(c) \/ FlushDeletes(c) \/ FlushEnds(c)

Step(c) == SendStep(c) \/ FlushStep(c) \/ Return(c)

Next == Crash \/ \E c \in Threads :
    \/ Step(c)
    \/ \E p \in Peers : PeerAccepts(c, p) \/ PeerRefuses(c, p) \/ Flush(c, p)

Spec == Init /\ [][Next]_vars

\* A started call proceeds: every peer call is bounded by its 30 s timeout, bbolt
\* transactions end, and Go's mutexes do not starve a waiter.
FairSpec == Spec /\ \A c \in Threads : WF_vars(Step(c))

----------------------------------------------------------------------------

\* A message reaches its peer twice only when a crash, a lost reply or a failed store
\* transaction came between its sending and its deletion: concurrent Sends, whose flushes
\* list the same keys, never deliver a queued message twice (flushMu, transport.go:50).
NoDoubleDelivery == \A m \in Calls : receipts[m] > 1 => m \in blurred

\* Without crashes and store faults the offline queue exceeds MaxQueued only by the messages
\* of Sends that are still between their Put and the end of their enforceCap, however
\* enqueues, caps and drains overlap (transport.go:225).
QueueBounded ==
    faults = 0 =>
        Cardinality(DOMAIN queue) <=
            MaxQueued + Cardinality({c \in Calls : pc[c] \in {"cap", "drop"}})

\* flush delivers a peer's messages in the order they were queued, across concurrent Sends,
\* partial drains and restarts: when one is sent, every message for that peer that was
\* stored before it was enqueued has been received or is gone (transport.go:257).
DrainsInOrder ==
    [][\A c \in Threads : pc[c] = "resend" /\ pc'[c] = "delete" =>
        \A m \in behind[held[c]] \cap Stored : receipts[m] > 0 \/ m \in blurred]_vars

\* Every Send and Flush returns unless core dies: no wait on flushMu lasts for ever
\* (transport.go:252).
SendReturns == \A c \in Threads : pc[c] # "idle" ~> pc[c] \in {"done", "dead"}

\* "True when the message was handed to the peer; false when queued"
\* (proto/weave/agent/v1/transport.proto:42): a message answered queued is in the store, or
\* has left it for its peer or for the cap.
QueuedIsKept ==
    \A m \in Calls : answer[m] = "queued" => m \in Stored \cup discarded \/ receipts[m] > 0

\* The mux implements what a module can count on: an answered message was received, is
\* stored, or was deleted over the cap, and leaves the store no other way - not through a
\* restarted key counter, not through two overlapping drains; only the store can lose one,
\* when it does not take it, and the module is not told (transport.go:84, transport.go:216).
Promise == INSTANCE MessageQueue WITH
    Messages <- Calls,
    pending <- Stored,
    received <- {m \in Calls : receipts[m] > 0}

\* Transport implements MessageQueue (transport.go:84).
KeepsPromise == Promise!Spec
=============================================================================
