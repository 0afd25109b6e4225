------------------------------- MODULE Policy -------------------------------
(* Policy delivery: internal/policy/policy.go (the fetch loop, the diffing *)
(* apply, the watchers) with hostserv's policyServer.Watch stream of each  *)
(* module, over a GateWeave that publishes, and is restored from backups.  *)
(* The cache is a place of the store; Services.tla connects the two.       *)
EXTENDS Naturals

CONSTANTS
    Modules,
    Governed,       \* the modules that have, and watch, a policy
    Contents,       \* policy documents of one module
    Nothing,        \* no document, no stream data yet
    MaxRevision     \* bound: revisions GateWeave gives out

VARIABLES
    gateweave,      \* the document GateWeave serves
    publishes,      \* history: how often it changed
    published,      \* history: every <<revision, module, content>> it served
    \* Manager
    revision, docs,
    poll,           \* Run: "off", "wait", "fetched", "wake" or "cache"
    fetched,        \* the document in the loop's hands
    wake,           \* watchers still to be woken by apply
    bell,           \* a watcher's one-slot channel is full
    watching,       \* watchers registered
    \* policyServer.Watch, one stream per module
    stream,         \* "closed", "get", "send" or "wait"
    hand,           \* what Get returned
    last,           \* what was sent last, or none yet
    view            \* what the module received last

manager == <<revision, docs, poll, fetched, wake>>
streams == <<stream, hand, last, view>>
watch == <<bell, watching>>
server == <<gateweave, publishes, published>>
policyVars == <<server, manager, streams, watch>>

NoDocs == [m \in Modules |-> Nothing]
Document(r, d) == [revision |-> r, modules |-> d]
Served(doc) == {<<doc.revision, m, doc.modules[m]>> : m \in Modules}

PolicyInit ==
    /\ gateweave = Document(0, NoDocs)
    /\ publishes = 0
    /\ published = Served(gateweave)
    /\ revision = 0 /\ docs = NoDocs
    /\ poll = "off" /\ fetched = Nothing /\ wake = {}
    /\ bell = [m \in Modules |-> FALSE] /\ watching = {}
    /\ stream = [m \in Modules |-> "closed"]
    /\ hand = [m \in Modules |-> Nothing]
    /\ last = [m \in Modules |-> <<>>]
    /\ view = [m \in Modules |-> <<>>]

\* GateWeave changes a document, or comes back from a backup with an older revision.
Publish ==
    /\ publishes < MaxRevision
    /\ publishes' = publishes + 1
    /\ \E m \in Governed, c \in Contents \cup {Nothing}, r \in 0..gateweave.revision :
        /\ gateweave.modules[m] # c
        /\ gateweave' = Document(r + 1, [gateweave.modules EXCEPT ![m] = c])
    /\ published' = published \cup Served(gateweave')
    /\ UNCHANGED <<manager, streams, watch>>

----------------------------------------------------------------------------
(* Manager *)

\* fetch: the answer is GateWeave's document at that moment. A fetch that fails only
\* lengthens the wait before the next one.
Fetch ==
    /\ poll = "wait"
    /\ fetched' = gateweave
    /\ poll' = "fetched"
    /\ UNCHANGED <<server, revision, docs, wake, streams, watch>>

Merged_KeepsRemoved(doc) ==
    [m \in Modules |-> IF doc.modules[m] = Nothing THEN docs[m] ELSE doc.modules[m]]

\* Modules missing from the document lose theirs.
Merged(doc) == doc.modules

Changed(doc) == {m \in Modules : docs[m] # Merged(doc)[m]}

\* The part of apply under the lock; a document of the same revision is left alone.
Install(doc) ==
    IF doc.revision = revision
    THEN UNCHANGED <<revision, docs, wake>>
    ELSE /\ revision' = doc.revision
         /\ docs' = Merged(doc)
         /\ wake' = Changed(doc) \cap watching

Apply ==
    /\ poll = "fetched"
    /\ Install(fetched)
    /\ \/ fetched.revision = revision /\ poll' = "wait" /\ fetched' = Nothing
       \/ fetched.revision # revision /\ poll' = "wake" /\ UNCHANGED fetched
    /\ UNCHANGED <<server, streams, watch>>

Ring_Lost(m) == UNCHANGED bell

\* The send to the one-slot channel does not block.
Ring(m) == bell' = [bell EXCEPT ![m] = TRUE]

WakeOne ==
    /\ poll = "wake"
    /\ \E m \in wake :
        /\ wake' = wake \ {m}
        /\ Ring(m)
    /\ UNCHANGED <<server, revision, docs, poll, fetched, watching, streams>>

WakeEnds ==
    /\ poll = "wake"
    /\ wake = {}
    /\ poll' = "cache"
    /\ UNCHANGED <<server, revision, docs, fetched, wake, streams, watch>>

\* The cache write, last; Services.tla adds the store's side.
Cached ==
    /\ poll = "cache"
    /\ poll' = "wait"
    /\ fetched' = Nothing
    /\ UNCHANGED <<server, revision, docs, wake, streams, watch>>

----------------------------------------------------------------------------
(* Manager.Watch and policyServer.Watch *)

\* The watcher is registered before the first Get.
Open(m) ==
    /\ stream[m] = "closed"
    /\ m \notin watching
    /\ watching' = watching \cup {m}
    /\ bell' = [bell EXCEPT ![m] = FALSE]
    /\ stream' = [stream EXCEPT ![m] = "get"]
    /\ last' = [last EXCEPT ![m] = <<>>]
    /\ view' = [view EXCEPT ![m] = <<>>]
    /\ UNCHANGED <<server, manager, hand>>

\* Get returns revision and document under one lock.
Get(m) ==
    /\ stream[m] = "get"
    /\ \/ /\ last[m] = <<>> \/ last[m] # <<docs[m]>>
          /\ hand' = [hand EXCEPT ![m] = <<revision, docs[m]>>]
          /\ stream' = [stream EXCEPT ![m] = "send"]
       \/ /\ last[m] = <<docs[m]>>
          /\ stream' = [stream EXCEPT ![m] = "wait"]
          /\ UNCHANGED hand
    /\ UNCHANGED <<server, manager, last, view, watch>>

Send(m) ==
    /\ stream[m] = "send"
    /\ view' = [view EXCEPT ![m] = hand[m]]
    /\ last' = [last EXCEPT ![m] = <<hand[m][2]>>]
    /\ hand' = [hand EXCEPT ![m] = Nothing]
    /\ stream' = [stream EXCEPT ![m] = "wait"]
    /\ UNCHANGED <<server, manager, watch>>

Woken(m) ==
    /\ stream[m] = "wait"
    /\ bell[m]
    /\ bell' = [bell EXCEPT ![m] = FALSE]
    /\ stream' = [stream EXCEPT ![m] = "get"]
    /\ UNCHANGED <<server, manager, hand, last, view, watching>>

\* The module's context ends; its watcher goes a moment later.
Close(m) ==
    /\ stream[m] # "closed"
    /\ stream' = [stream EXCEPT ![m] = "closed"]
    /\ view' = [view EXCEPT ![m] = <<>>]
    /\ last' = [last EXCEPT ![m] = <<>>]
    /\ hand' = [hand EXCEPT ![m] = Nothing]
    /\ UNCHANGED <<server, manager, watch>>

Unwatch(m) ==
    /\ stream[m] = "closed"
    /\ m \in watching
    /\ watching' = watching \ {m}
    /\ UNCHANGED <<server, manager, streams, bell>>

PolicyStep == Fetch \/ Apply \/ WakeOne \/ WakeEnds

StreamStep(m) == Get(m) \/ Send(m) \/ Woken(m) \/ Unwatch(m)

\* Core dies.
PolicyCrash ==
    /\ revision' = 0 /\ docs' = NoDocs
    /\ poll' = "off" /\ fetched' = Nothing /\ wake' = {}
    /\ bell' = [m \in Modules |-> FALSE] /\ watching' = {}
    /\ stream' = [m \in Modules |-> "closed"]
    /\ hand' = [m \in Modules |-> Nothing]
    /\ last' = [m \in Modules |-> <<>>]
    /\ view' = [m \in Modules |-> <<>>]
    /\ UNCHANGED server
=============================================================================
