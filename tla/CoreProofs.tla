---------------------------- MODULE CoreProofs -----------------------------
(***************************************************************************)
(* Proofs about what core serves, for any keys, buffers, modules,          *)
(* documents and bounds: the sealed store, the policy engine and the       *)
(* device identity (Services), the module that a policy governs            *)
(* (Sysinfo), and the channel to the hypervisor (Hypervisor).              *)
(***************************************************************************)
EXTENDS Hypervisor, Services, Sysinfo, FiniteSetTheorems, TLAPS

-----------------------------------------------------------------------------
(* The channel to the hypervisor: only a response to a challenge of this   *)
(* connection opens it, and every challenge is checked at most once.       *)

\* The frames in the wire and the one being written.
WireOK ==
    /\ in \in Seq(Frames) /\ Len(in) <= InCap
    /\ out \in Seq(Frames) /\ Len(out) <= OutCap
    /\ reply \in Seq(Frames) /\ (loop = "reply" <=> Len(reply) = 1)
    /\ loop \in {"read", "reply", "ended"}

\* The values the ends hold.
EndsOK ==
    /\ trusted \in {VMKey, NoKey} /\ hostKey \in Keys
    /\ nonce \in 0..MaxNonces /\ challenge \in 0..MaxNonces
    /\ sender \in {"idle", "write", "flush"} /\ stored \in 0..MaxStored
    /\ belief \in {"out", "began", "challenged", "signed", "in"}
    /\ faults \in 0..MaxFaults

\* An outstanding challenge was issued on this connection and has not been
\* checked yet; no challenge was checked twice.
Outstanding ==
    /\ issued \subseteq 1..MaxNonces
    /\ checks \in [1..MaxNonces -> 0..1]
    /\ nonce # NoNonce => nonce \in issued /\ checks[nonce] = 0

\* The channel is closed, or a response to a challenge of this connection
\* opened it.
Opened ==
    /\ ok \in BOOLEAN
    /\ OpenedByThisHandshake

\* The inductive invariant.
Inv == WireOK /\ EndsOK /\ Outstanding /\ Opened

-----------------------------------------------------------------------------

\* What the fields of a frame hold, by its kind.
LEMMA FrameFields ==
    /\ \A f \in Frames : f.kind = "response" => f.key \in Keys /\ f.nonce \in 0..MaxNonces
    /\ \A f \in Frames : f.kind = "challenge" => f.nonce \in 1..MaxNonces
BY Zenon DEF Frames

\* The frames the two ends make are frames.
LEMMA FramesMade ==
    /\ \A kind \in {"begin", "hello", "op", "malformed", "strange", "garbled", "broken"} :
          Frame(kind) \in Frames
    /\ \A n \in 1..MaxNonces : Challenge(n) \in Frames
    /\ \A k \in Keys, n \in 0..MaxNonces : Response(k, n) \in Frames
    /\ Result(TRUE) \in Frames /\ Result(FALSE) \in Frames
<1>1. \A kind \in {"begin", "hello", "op", "malformed", "strange", "garbled", "broken"} :
          Frame(kind) \in Frames
    BY Zenon DEF Frames, Frame
<1>2. \A n \in 1..MaxNonces : Challenge(n) \in Frames
    BY Zenon DEF Frames, Challenge
<1>3. \A k \in Keys, n \in 0..MaxNonces : Response(k, n) \in Frames
    BY Zenon DEF Frames, Response
<1>4. \A b \in BOOLEAN : Result(b) \in Frames
    BY Zenon DEF Frames, Result
<1> QED BY <1>1, <1>2, <1>3, <1>4, Zenon

\* Initially the wire is empty and the channel closed.
LEMMA InitInv == Init => Inv
<1> SUFFICES ASSUME Init PROVE Inv
    BY Zenon
<1> USE HypervisorConstants
<1>1. WireOK
    BY DEF Init, WireOK
<1>2. EndsOK
    BY DEF Init, EndsOK, NoNonce
<1>3. Outstanding
    BY DEF Init, Outstanding, NoNonce
<1>4. Opened
    BY Zenon DEF Init, Opened, OpenedByThisHandshake
<1> QED BY <1>1, <1>2, <1>3, <1>4, Zenon DEF Inv

\* A sequence within its capacity stays so when its head is taken, and when
\* an element is appended below the capacity.
LEMMA WithinCapacity ==
    ASSUME NEW S, NEW s \in Seq(S), NEW cap \in Nat, Len(s) <= cap
    PROVE  /\ s # << >> => Tail(s) \in Seq(S) /\ Len(Tail(s)) <= cap
           /\ \A x \in S : Len(s) < cap => Append(s, x) \in Seq(S) /\ Len(Append(s, x)) <= cap
OBVIOUS

\* The read loop holds no frame, or the one it is writing.
LEMMA ReplySlot ==
    /\ << >> \in Seq(Frames) /\ Len(<< >>) # 1
    /\ \A f \in Frames : <<f>> \in Seq(Frames) /\ Len(<<f>>) = 1
OBVIOUS

\* Every step takes a frame from the wire to the guest, adds one below the
\* capacity, or leaves it alone.
LEMMA InStep ==
    ASSUME WireOK, EndsOK, [Next]_vars
    PROVE  in' \in Seq(Frames) /\ Len(in') <= InCap
<1>1. CASE in # << >> /\ in' = Tail(in)
    BY <1>1, WithinCapacity, HypervisorConstants, Zenon DEF WireOK
<1>2. CASE \E f \in Frames : Len(in) < InCap /\ in' = Append(in, f)
    BY <1>2, WithinCapacity, HypervisorConstants, Zenon DEF WireOK
<1>3. CASE in' = in
    BY <1>3, Zenon DEF WireOK
<1>4. ASSUME Loop \/ Sender \/ ModuleSend \/ Reconnect \/ HostReads \/ HostTimesOut \/ UNCHANGED vars
      PROVE  (in # << >> /\ in' = Tail(in)) \/ in' = in
    BY <1>4, Zenon DEF Loop, HandleBegin, HandleBeginFails, HandleResponse, HandleMalformed,
       Ignore,
                Deliver, Refuse, StreamFails, ReadFrame, Reply, Sender, SenderWrites, FlushOne,
                FlushEnds, ModuleSend, Reconnect, HostReads, HostTimesOut, vars, wire
<1>5. ASSUME HostBegins \/ HostSigns \/ HostAsks \/ Noise
      PROVE  \E f \in Frames : Len(in) < InCap /\ in' = Append(in, f)
    BY <1>5, FramesMade, Zenon DEF EndsOK, HostBegins, HostSigns, HostAsks, Noise, HostWrites
<1> QED BY <1>1, <1>2, <1>3, <1>4, <1>5, Zenon DEF Next

\* The same for the wire to the host.
LEMMA OutStep ==
    ASSUME WireOK, [Next]_vars
    PROVE  out' \in Seq(Frames) /\ Len(out') <= OutCap
<1>1. CASE out # << >> /\ out' = Tail(out)
    BY <1>1, WithinCapacity, HypervisorConstants, Zenon DEF WireOK
<1>2. CASE \E f \in Frames : Len(out) < OutCap /\ out' = Append(out, f)
    BY <1>2, WithinCapacity, HypervisorConstants, Zenon DEF WireOK
<1>3. CASE out' = out
    BY <1>3, Zenon DEF WireOK
<1>4. CASE Reply
    <2>0. reply \in Seq(Frames) /\ Len(reply) = 1
        BY <1>4, Zenon DEF WireOK, Reply
    <2>1. reply[1] \in Frames
        BY <2>0
    <2> QED BY <1>2, <1>4, <2>1, Zenon DEF Reply, WriteFrame
<1>5. CASE SenderWrites \/ FlushOne
    BY <1>2, <1>5, FramesMade, Zenon DEF SenderWrites, FlushOne, WriteFrame
<1>6. CASE HostReads
    BY <1>1, <1>6, Zenon DEF HostReads
<1>7. CASE /\ ~Reply /\ ~SenderWrites /\ ~FlushOne /\ ~HostReads
    BY <1>3, <1>7, Zenon DEF Next, Loop, HandleBegin, HandleBeginFails, HandleResponse,
       HandleMalformed,
                Ignore, Deliver, Refuse, StreamFails, Sender, FlushEnds, ModuleSend, Reconnect,
                HostBegins, HostSigns, HostAsks, HostTimesOut, Noise, vars, wire
<1> QED BY <1>4, <1>5, <1>6, <1>7, Zenon

\* The read loop is in reply exactly while it holds a frame.
LEMMA ReplyStep ==
    ASSUME WireOK, [Next]_vars
    PROVE  /\ reply' \in Seq(Frames) /\ (loop' = "reply" <=> Len(reply') = 1)
           /\ loop' \in {"read", "reply", "ended"}
<1>1. CASE \E f \in Frames : Answer(f)
    BY <1>1, ReplySlot, Zenon DEF Answer
<1>2. CASE Silent
    BY <1>2, Zenon DEF WireOK, Silent
<1>3. CASE HandleBegin
    <2>1. \E f \in Frames : Answer(f)
        BY <1>3, FramesMade, Zenon DEF HandleBegin, Unused
    <2> QED BY <1>1, <2>1, Zenon
<1>4. CASE HandleResponse
    <2>1. Answer(Result(TRUE)) \/ Answer(Result(FALSE))
        BY <1>4, Zenon DEF HandleResponse
    <2> QED BY <1>1, <2>1, FramesMade, Zenon
<1>5. CASE HandleBeginFails \/ HandleMalformed \/ Refuse
    <2>1. Answer(Result(FALSE))
        BY <1>5, Zenon DEF HandleBeginFails, HandleMalformed, Refuse, Refusal
    <2> QED BY <1>1, <2>1, FramesMade, Zenon
<1>6. CASE StreamFails
    BY <1>6, Zenon DEF WireOK, StreamFails, ReadFrame
<1>7. CASE Reply \/ Reconnect
    BY <1>7, ReplySlot, Zenon DEF Reply, Reconnect
<1>8. CASE \/ Ignore \/ Deliver \/ Sender \/ ModuleSend \/ HostBegins \/ HostSigns \/ HostReads
           \/ HostAsks \/ HostTimesOut \/ Noise \/ UNCHANGED vars
    <2>1. Silent
        BY <1>8, Zenon DEF Ignore, Deliver, Sender, SenderWrites, FlushOne, FlushEnds, ModuleSend,
                    HostBegins, HostSigns, HostReads, HostAsks, HostTimesOut, Noise, Silent, vars
    <2> QED BY <1>2, <2>1, Zenon
<1> QED BY <1>3, <1>4, <1>5, <1>6, <1>7, <1>8, ZenonT(30) DEF Next, Loop

\* Every step keeps the wire well formed and within its capacity.
LEMMA WireStep ==
    ASSUME WireOK, EndsOK, [Next]_vars
    PROVE  WireOK'
BY InStep, OutStep, ReplyStep, Zenon DEF WireOK

\* Every step keeps the values of the ends in their ranges.
LEMMA EndsStep ==
    ASSUME WireOK, EndsOK, [Next]_vars
    PROVE  EndsOK'
<1> USE HypervisorConstants
<1>1. CASE HandleBegin
    BY <1>1, SMTT(20) DEF EndsOK, HandleBegin, Unused, host, keyring
<1>2. CASE HandleResponse
    BY <1>2 DEF EndsOK, HandleResponse, Consumed, NoNonce, host, keyring
<1>3. CASE HostReads
    <2>1. out \in Seq(Frames) /\ out # << >>
        BY <1>3, Zenon DEF WireOK, HostReads
    <2>2. Head(out) \in Frames
        BY <2>1
    <2>3. challenge' # challenge => Head(out).kind = "challenge" /\ challenge' = Head(out).nonce
        BY <1>3, ZenonT(30) DEF HostReads
    <2>4. \A n \in 1..MaxNonces : n \in 0..MaxNonces
        OBVIOUS
    <2>5. challenge' \in 0..MaxNonces
        BY <2>2, <2>3, <2>4, FrameFields, Zenon DEF EndsOK
    <2> QED BY <1>3, <2>5, ZenonT(30) DEF EndsOK, HostReads, auth, keyring
<1>4. CASE Reconnect
    BY <1>4 DEF EndsOK, Reconnect, Fault, NoNonce, host, keyring
<1>5. CASE HandleBeginFails \/ HandleMalformed \/ Ignore \/ Deliver \/ Refuse \/ StreamFails \/ Reply
    <2>1. faults' \in 0..MaxFaults
        <3>1. faults' = faults \/ Fault
            BY <1>5, ZenonT(30) DEF HandleBeginFails, HandleMalformed, Ignore, Deliver, Refuse,
               StreamFails,
                        Reply
        <3> QED BY <3>1 DEF EndsOK, Fault
    <2> QED BY <1>5, <2>1, Zenon DEF EndsOK, HandleBeginFails, HandleMalformed, Ignore, Deliver,
        Refuse,
                    StreamFails, Reply, auth, host, keyring
<1>6. CASE Sender \/ ModuleSend
    <2>1. \/ stored' = stored
          \/ stored < MaxStored /\ stored' = stored + 1
          \/ stored > 0 /\ stored' = stored - 1
        BY <1>6, Zenon DEF Sender, SenderWrites, FlushOne, FlushEnds, ModuleSend
    <2>2. stored \in 0..MaxStored
        BY Zenon DEF EndsOK
    <2>3. stored' \in 0..MaxStored
        BY <2>1, <2>2
    <2>4. sender' \in {sender, "idle", "write", "flush"}
        BY <1>6, Zenon DEF Sender, SenderWrites, FlushOne, FlushEnds, ModuleSend
    <2>5. UNCHANGED <<auth, host, keyring, faults>>
        BY <1>6, Zenon DEF Sender, SenderWrites, FlushOne, FlushEnds, ModuleSend
    <2> QED BY <2>3, <2>4, <2>5, Zenon DEF EndsOK, auth, host, keyring
<1>7. CASE HostBegins \/ HostSigns \/ HostAsks \/ HostTimesOut \/ Noise \/ UNCHANGED vars
    <2>1. faults' = faults \/ Fault
        BY <1>7, Zenon DEF HostBegins, HostSigns, HostAsks, HostTimesOut, Noise, vars
    <2>2. faults' \in 0..MaxFaults
        BY <2>1 DEF EndsOK, Fault
    <2>3. belief' \in {belief, "began", "signed", "out"}
        BY <1>7, Zenon DEF HostBegins, HostSigns, HostAsks, HostTimesOut, Noise, vars, host
    <2>4. challenge' = challenge
        BY <1>7, Zenon DEF HostBegins, HostSigns, HostAsks, HostTimesOut, Noise, vars, host
    <2>5. UNCHANGED <<auth, sender, stored, keyring>>
        BY <1>7, Zenon DEF HostBegins, HostSigns, HostAsks, HostTimesOut, Noise, vars
    <2> QED BY <2>2, <2>3, <2>4, <2>5, Zenon DEF EndsOK, auth, keyring
<1> QED BY <1>1, <1>2, <1>3, <1>4, <1>5, <1>6, <1>7, ZenonT(30) DEF Next, Loop

\* Every step but HandleBegin, HandleResponse and Reconnect leaves channelAuth
\* and its history alone.
LEMMA AuthUntouched ==
    ASSUME [Next]_vars, ~HandleBegin, ~HandleResponse, ~Reconnect
    PROVE  UNCHANGED <<nonce, ok, trusted, issued, openedBy, checks>>
BY Zenon DEF Next, Loop, HandleBeginFails, HandleMalformed, Ignore, Deliver, Refuse, StreamFails,
   Reply,
       Sender, SenderWrites, FlushOne, FlushEnds, ModuleSend, HostBegins, HostSigns, HostReads,
       HostAsks, HostTimesOut, Noise, vars, auth, keyring, history

\* Every step keeps the outstanding challenge unchecked.
LEMMA OutstandingStep ==
    ASSUME EndsOK, Outstanding, [Next]_vars
    PROVE  Outstanding'
<1> USE HypervisorConstants
<1>1. CASE HandleBegin
    <2>1. PICK n \in 1..MaxNonces :
             /\ nonce' = n /\ issued' = (issued \ Unused) \cup {n}
             /\ checks' = [checks EXCEPT ![n] = 0]
        BY <1>1, Zenon DEF HandleBegin, Unused
    <2>2. checks' \in [1..MaxNonces -> 0..1] /\ checks'[n] = 0
        BY <2>1 DEF Outstanding
    <2>3. issued' \subseteq 1..MaxNonces /\ n \in issued'
        BY <2>1, Zenon DEF Outstanding
    <2> QED BY <2>1, <2>2, <2>3, Zenon DEF Outstanding
<1>2. CASE HandleResponse
    <2>1. \A n \in 1..MaxNonces : checks'[n] \in 0..1
        BY <1>2, SMTT(20) DEF EndsOK, Outstanding, HandleResponse, NoNonce
    <2>2. checks' \in [1..MaxNonces -> 0..1]
        BY <1>2, <2>1, Zenon DEF HandleResponse
    <2> QED BY <1>2, <2>2, Zenon DEF Outstanding, HandleResponse, Consumed
<1>3. CASE Reconnect
    BY <1>3, Zenon DEF Outstanding, Reconnect
<1>4. CASE UNCHANGED <<nonce, ok, trusted, issued, openedBy, checks>>
    BY <1>4, Zenon DEF Outstanding
<1> QED BY <1>1, <1>2, <1>3, <1>4, AuthUntouched, Zenon

\* Every step keeps the channel closed unless this handshake opened it.
LEMMA OpenedStep ==
    ASSUME EndsOK, Outstanding, Opened, [Next]_vars
    PROVE  Opened'
<1> USE HypervisorConstants
<1>1. CASE HandleBegin
    BY <1>1, Zenon DEF Opened, OpenedByThisHandshake, HandleBegin
<1>2. CASE HandleResponse
    <2>1. CASE Verify(Head(in))
        <3>1. Head(in).key = VMKey /\ Head(in).nonce \in issued
            BY <2>1, Zenon DEF EndsOK, Outstanding, Verify
        <3>2. <<Head(in).key, Head(in).nonce \in issued>> = <<VMKey, TRUE>>
            BY <3>1, Zenon
        <3>3. ok' = TRUE /\ openedBy' = openedBy \cup {<<Head(in).key, Head(in).nonce \in issued>>}
            BY <1>2, <2>1, Zenon DEF HandleResponse
        <3> QED BY <3>2, <3>3, Zenon DEF Opened, OpenedByThisHandshake
    <2>2. CASE ~Verify(Head(in))
        <3>1. UNCHANGED <<ok, openedBy>>
            BY <1>2, <2>2, Zenon DEF HandleResponse
        <3> QED BY <3>1, Zenon DEF Opened, OpenedByThisHandshake
    <2> QED BY <2>1, <2>2, Zenon
<1>3. CASE Reconnect
    BY <1>3, Zenon DEF Opened, OpenedByThisHandshake, Reconnect
<1>4. CASE UNCHANGED <<nonce, ok, trusted, issued, openedBy, checks>>
    BY <1>4, Zenon DEF Opened, OpenedByThisHandshake
<1> QED BY <1>1, <1>2, <1>3, <1>4, AuthUntouched, Zenon

\* Inv is an invariant.
LEMMA Invariance == Spec => []Inv
<1>1. Inv /\ [Next]_vars => Inv'
    BY WireStep, EndsStep, OutstandingStep, OpenedStep, Zenon DEF Inv
<1> QED BY <1>1, InitInv, PTL DEF Spec

\* Every variable keeps its range and the wire its capacity; the read loop is
\* in reply exactly while it has a frame to write.
THEOREM TypeCorrect == Spec => []TypeOK
<1>1. Inv => TypeOK
    <2> SUFFICES ASSUME Inv PROVE TypeOK
        BY Zenon
    <2>1. openedBy \subseteq Keys \X BOOLEAN
        <3>1. <<VMKey, TRUE>> \in Keys \X BOOLEAN
            BY HypervisorConstants, Zenon
        <3> QED BY <3>1, Zenon DEF Inv, Opened, OpenedByThisHandshake
    <2>2. checks \in [1..MaxNonces -> Nat]
        BY DEF Inv, Outstanding
    <2>3. ok \in BOOLEAN
        BY Zenon DEF Inv, Opened
    <2> QED BY <2>1, <2>2, <2>3, Zenon DEF Inv, WireOK, EndsOK, Outstanding, TypeOK
<1> QED BY <1>1, Invariance, PTL

\* The channel opens only to a signature of this VM's key over a challenge
\* issued on this very connection.
THEOREM OpenedFresh == Spec => []OpenedByThisHandshake
<1>1. Inv => OpenedByThisHandshake
    BY Zenon DEF Inv, Opened
<1> QED BY <1>1, Invariance, PTL

\* No challenge is ever checked against two responses.
THEOREM SingleUse == Spec => []NonceSingleUse
<1>1. Inv => NonceSingleUse
    BY DEF Inv, Outstanding, NonceSingleUse
<1> QED BY <1>1, Invariance, PTL

-----------------------------------------------------------------------------
(* The store, the policy engine and the device identity.                   *)

Up == {"open", "loaded", "running"}

\* The store and core's progress: a key is in the file before a record is
\* sealed under it, and the open store holds that key.
StoreInv ==
    /\ core \in {"down", "keyed"} \cup Up
    /\ db \in [Places -> Records \cup {Absent}] /\ keyFile \in Nat \cup {Absent} /\ made \in Nat
    /\ wrote \in [Modules -> Values \cup {Absent}]
    /\ core \in Up => keyFile # Absent /\ master = keyFile
    /\ core = "keyed" => keyFile = Absent /\ master \in Nat
    /\ keyFile = Absent => \A p \in Places : db[p] = Absent
    /\ poll \in {"off", "wait", "fetched", "wake", "cache"}
    /\ poll # "off" => core \in {"loaded", "running"}
    /\ StoreKeeps

\* Documents: what is in the loop's hands, and what the cache holds.
ServedDoc(doc) == doc \in Documents /\ Served(doc) \subseteq published
ServedPair(m, r, d) == <<r, m, d>> \in published \cup {<<0, m, Nothing>>}

DocsInv ==
    /\ ServedDoc(gateweave) /\ publishes \in Nat
    /\ poll \in {"fetched", "wake", "cache"} => ServedDoc(fetched)
    /\ \A m \in Modules : ServedPair(m, revision, docs[m])
    /\ db[PolicyPlace] # Absent =>
          db[PolicyPlace].value = Garbage \/ ServedDoc(db[PolicyPlace].value)
    /\ stream \in [Modules -> {"closed", "get", "send", "wait"}]
    /\ DOMAIN hand = Modules
    /\ DOMAIN view = Modules
    /\ \A m \in Modules : stream[m] = "send" => ServedPair(m, hand[m][1], hand[m][2])
    /\ ViewIsPublished

\* The state record, once there is one worth keeping.
Recorded == db[IdentityPlace] # Absent /\ db[IdentityPlace].value # Garbage

IdentityInv ==
    /\ enrol \in {"off", "loaded", "post", "verify", "done"}
    /\ priv \in Nat /\ keysMade \in Nat /\ offer.device \in Nat \cup {NoDevice}
    /\ IsFiniteSet(assigned)
    /\ db[IdentityPlace] # Absent =>
          db[IdentityPlace].value = Garbage \/ db[IdentityPlace].value \in DeviceStates
    /\ enrol # "off" => core \in {"loaded", "running"} /\ Recorded /\ Value(IdentityPlace).key = priv
    /\ enrol = "verify" /\ offer.signed = offer.device => Issued(offer.device)
    /\ confirmed # NoDevice => Recorded
    /\ ~config.insecure /\ Recorded /\ Value(IdentityPlace).device # NoDevice =>
          Issued(Value(IdentityPlace).device)
    /\ device # NoDevice => enrol # "off"
    /\ IdentityKept

ServicesInv == StoreInv /\ DocsInv /\ IdentityInv

Sealable == Values \cup {Garbage} \cup Documents \cup DeviceStates
Polling == poll \in {"off", "wait", "fetched", "wake", "cache"}
            /\ (poll # "off" => core \in {"loaded", "running"})

\* A sealed value is a record, and opens with the key it is sealed under.
LEMMA Seals ==
    ASSUME NEW place \in Places, NEW v \in Sealable, master \in Nat
    PROVE  /\ seal(place, v) \in Records /\ seal(place, v) # Absent
           /\ seal(place, v).under = master /\ seal(place, v).bound = place
           /\ seal(place, v).value = v
<1>1. seal(place, v) \in Records
    BY DEF seal, Records, Sealable
<1>2. seal(place, v) # Absent
    BY <1>1, ServicesConstants, Zenon
<1> QED BY <1>1, <1>2 DEF seal

\* A step that does not touch the store keeps its invariant.
LEMMA StoreUntouched ==
    ASSUME StoreInv, UNCHANGED <<store, core, wrote>>, Polling'
    PROVE  StoreInv'
<1>1. UNCHANGED <<db, keyFile, master, made, core, wrote>>
    BY Zenon DEF store
<1>2. StoreKeeps'
    BY <1>1, Zenon DEF StoreInv, StoreKeeps
<1> QED BY <1>1, <1>2, Zenon DEF StoreInv, Polling

\* Core's own records do not disturb the others.
LEMMA CorePuts ==
    ASSUME StoreInv, core \in Up, NEW place \in {PolicyPlace, IdentityPlace}, NEW v \in Sealable,
           Put(place, v), UNCHANGED <<core, wrote>>, Polling'
    PROVE  StoreInv'
<1>1. /\ place \in Places /\ \A m \in Modules : Place(m) \in Places /\ Place(m) # place
    BY ServicesConstants, Zenon
<1>2. keyFile \in Nat /\ master = keyFile /\ keyFile # Absent
    BY Zenon DEF StoreInv
<1>3. /\ seal(place, v) \in Records /\ seal(place, v).under = keyFile
      /\ seal(place, v).bound = place
    BY <1>1, <1>2, Seals, ZenonT(30)
<1>4. /\ db' = [db EXCEPT ![place] = seal(place, v)] /\ DOMAIN db = Places
      /\ UNCHANGED <<keyFile, master, made>>
    BY Zenon DEF Put, StoreInv
<1>5. \A p \in Places : db'[p] = IF p = place THEN seal(place, v) ELSE db[p]
    BY <1>4, Zenon
<1>6. db' \in [Places -> Records \cup {Absent}]
    BY <1>3, <1>4, Zenon DEF StoreInv
<1>7. \A p \in Places : db'[p] # Absent => db'[p].under = keyFile' /\ db'[p].bound = p
    BY <1>3, <1>4, <1>5, Zenon DEF StoreInv, StoreKeeps
<1>8. \A m \in Modules : db'[Place(m)] = db[Place(m)]
    BY <1>1, <1>5, Zenon
<1>9. StoreKeeps'
    BY <1>7, <1>8, Zenon DEF StoreInv, StoreKeeps
<1> QED BY <1>2, <1>4, <1>6, <1>9, Zenon DEF StoreInv, Polling

\* A module's call changes its own record only.
LEMMA ModuleStores ==
    ASSUME StoreInv, NEW m \in Modules, core = "running", NEW v \in Values \cup {Absent},
           UNCHANGED <<keyFile, master, made, core, poll>>, wrote' = [wrote EXCEPT ![m] = v],
           NEW r, db' = [db EXCEPT ![Place(m)] = r],
           \/ r = Absent /\ v = Absent
           \/ r = seal(Place(m), v) /\ v \in Values
    PROVE  StoreInv'
<1>1. /\ \A n \in Modules : Place(n) \in Places
      /\ \A n \in Modules : Place(n) = Place(m) => n = m
    BY ServicesConstants, Zenon
<1>2. keyFile \in Nat /\ master = keyFile /\ keyFile # Absent
    BY Zenon DEF StoreInv, Up
<1>3. \/ r = Absent /\ v = Absent
      \/ /\ r \in Records /\ r # Absent /\ r.under = keyFile /\ r.bound = Place(m) /\ r.value = v
    <2>1. CASE v \in Values
        <3>1. v \in Sealable /\ Place(m) \in Places
            BY <1>1, <2>1, Zenon DEF Sealable
        <3>2. /\ seal(Place(m), v) \in Records /\ seal(Place(m), v) # Absent
              /\ seal(Place(m), v).under = master /\ seal(Place(m), v).bound = Place(m)
              /\ seal(Place(m), v).value = v
            BY <1>2, <3>1, Seals, Zenon
        <3> QED BY <1>2, <3>2, Zenon
    <2> QED BY <2>1, Zenon
<1>4. DOMAIN db = Places /\ DOMAIN wrote = Modules
    BY Zenon DEF StoreInv
<1>5. \A p \in Places : db'[p] = IF p = Place(m) THEN r ELSE db[p]
    BY <1>4, Zenon
<1>6. \A n \in Modules : wrote'[n] = IF n = m THEN v ELSE wrote[n]
    BY <1>4, Zenon
<1>7. db' \in [Places -> Records \cup {Absent}] /\ wrote' \in [Modules -> Values \cup {Absent}]
    BY <1>3, <1>4, Zenon DEF StoreInv
<1>8. \A p \in Places : db'[p] # Absent => db'[p].under = keyFile' /\ db'[p].bound = p
    BY <1>3, <1>4, <1>5, Zenon DEF StoreInv, StoreKeeps
<1>9. ASSUME NEW n \in Modules
      PROVE  \/ wrote'[n] = Absent /\ db'[Place(n)] = Absent
             \/ db'[Place(n)] # Absent /\ db'[Place(n)].value = wrote'[n]
    <2>1. CASE n = m
        BY <1>1, <1>3, <1>5, <1>6, <2>1, ZenonT(30)
    <2>2. CASE n # m
        BY <1>1, <1>5, <1>6, <2>2, Zenon DEF StoreInv, StoreKeeps
    <2> QED BY <2>1, <2>2, Zenon
<1>10. StoreKeeps'
    BY <1>8, <1>9, Zenon DEF StoreKeeps
<1> QED BY <1>2, <1>7, <1>10, Zenon DEF StoreInv, Polling

\* Every step keeps the store readable, and every module's last write in it.
LEMMA StoreStep ==
    ASSUME ServicesInv, ServicesNext
    PROVE  StoreInv'
<1>0. StoreInv /\ Polling
    BY Zenon DEF ServicesInv, StoreInv, Polling
<1>1. CASE OpenStore
    <2>1. CASE LoadKey
        <3>1. /\ core = "down" /\ core' = "open" /\ UNCHANGED <<db, keyFile, made, wrote, poll>>
              /\ keyFile # Absent /\ master' = keyFile
            BY <1>1, <2>1, Zenon DEF OpenStore, LoadKey, CreateKey, policyVars, manager
        <3>2. StoreKeeps'
            BY <1>0, <3>1, Zenon DEF StoreInv, StoreKeeps
        <3> QED BY <1>0, <3>1, <3>2 DEF StoreInv, Up
    <2>2. CASE CreateKey
        <3>1. made + 1 \in Nat
            BY <1>0 DEF StoreInv
        <3>2. /\ core = "down" /\ core' = "keyed" /\ UNCHANGED <<db, keyFile, wrote, poll>>
              /\ keyFile = Absent /\ made' \in Nat /\ master' \in Nat
            BY <1>1, <2>2, <3>1, Zenon DEF OpenStore, CreateKey, LoadKey, policyVars, manager
        <3>3. poll = "off"
            BY <1>0, <3>2, SMTT(20) DEF Polling
        <3> QED BY <1>0, <3>2, <3>3, SMTT(20) DEF StoreInv, StoreKeeps, Up
    <2> QED BY <1>1, <2>1, <2>2, Zenon DEF OpenStore
<1>2. CASE StoreOpens
    <2>1. /\ core = "keyed" /\ core' = "open" /\ UNCHANGED <<db, master, made, wrote, poll>>
          /\ keyFile' = master
        BY <1>2, Zenon DEF StoreOpens, RenameKey, policyVars, manager
    <2>2. master \in Nat /\ (\A p \in Places : db[p] = Absent) /\ poll = "off"
        BY <1>0, <2>1 DEF StoreInv
    <2>3. master # Absent
        BY <2>2, ServicesConstants, Zenon
    <2>4. StoreKeeps'
        BY <1>0, <2>1, <2>2, Zenon DEF StoreInv, StoreKeeps
    <2> QED BY <1>0, <2>1, <2>2, <2>3, <2>4, SMTT(20) DEF StoreInv, Up
<1>3. CASE LoadPolicy
    <2>1. /\ core = "open" /\ core' = "loaded" /\ poll' \in {"off", "wait"}
          /\ UNCHANGED <<db, keyFile, master, made, wrote>>
        BY <1>3, Zenon DEF LoadPolicy, store
    <2>2. StoreKeeps'
        BY <1>0, <2>1, ZenonT(30) DEF StoreInv, StoreKeeps
    <2> QED BY <1>0, <2>1, <2>2, SMTT(20) DEF StoreInv, Up
<1>4. CASE Start
    <2>1. /\ core = "loaded" /\ core' = "running"
          /\ UNCHANGED <<db, keyFile, master, made, wrote, poll>>
        BY <1>4, Zenon DEF Start, store, policyVars, manager
    <2>2. StoreKeeps'
        BY <1>0, <2>1, ZenonT(30) DEF StoreInv, StoreKeeps
    <2> QED BY <1>0, <2>1, <2>2, SMTT(20) DEF StoreInv, Up
<1>5. CASE CoreCrash
    <2>1. core' = "down" /\ poll' = "off" /\ UNCHANGED <<db, keyFile, made, wrote>>
        BY <1>5, Zenon DEF CoreCrash, PolicyCrash
    <2>2. StoreKeeps'
        BY <1>0, <2>1, Zenon DEF StoreInv, StoreKeeps
    <2> QED BY <1>0, <2>1, <2>2, SMTT(20) DEF StoreInv, Up
<1>6. CASE LoadIdentity \/ Enroll
    <2>1. UNCHANGED <<store, core, wrote, poll>>
        BY <1>6, Zenon DEF LoadIdentity, Enroll, policyVars, manager
    <2>2. Polling'
        BY <1>0, <2>1, Zenon DEF Polling
    <2> QED BY <1>0, <2>1, <2>2, StoreUntouched, Zenon
<1>7. CASE CreateIdentity
    <2>1. /\ core = "loaded" /\ UNCHANGED <<core, wrote, poll>>
          /\ Put(IdentityPlace, enrolmentState(keysMade', NoDevice)) /\ keysMade' = keysMade + 1
        BY <1>7, Zenon DEF CreateIdentity, SaveNewKey, policyVars, manager
    <2>2. keysMade' \in Nat
        BY <2>1 DEF ServicesInv, IdentityInv
    <2>3. enrolmentState(keysMade', NoDevice) \in Sealable
        BY <2>2 DEF enrolmentState, Sealable, DeviceStates
    <2>4. Polling' /\ core \in Up
        BY <1>0, <2>1, Zenon DEF Polling, Up
    <2> QED BY <1>0, <2>1, <2>3, <2>4, CorePuts, Zenon
<1>8. CASE EnrollSaves
    <2>1. /\ core = "loaded" /\ UNCHANGED <<core, wrote, poll>>
          /\ Put(IdentityPlace, enrolmentState(priv, offer.device))
        BY <1>8, Zenon DEF EnrollSaves, SavedAssignment, policyVars, manager
    <2>2. priv \in Nat /\ offer.device \in Nat \cup {NoDevice}
        BY Zenon DEF ServicesInv, IdentityInv
    <2>3. enrolmentState(priv, offer.device) \in Sealable
        BY <2>2 DEF enrolmentState, Sealable, DeviceStates
    <2>4. Polling' /\ core \in Up
        BY <1>0, <2>1, Zenon DEF Polling, Up
    <2> QED BY <1>0, <2>1, <2>3, <2>4, CorePuts, Zenon
<1>9. CASE PollPolicy
    <2>1. UNCHANGED <<store, core, wrote>>
        BY <1>9, Zenon DEF PollPolicy
    <2>2. poll # "off" /\ poll' \in {"wait", "fetched", "wake", "cache"}
        BY <1>9, Zenon DEF PollPolicy, PolicyStep, Fetch, Apply, WakeOne, WakeEnds
    <2>3. Polling'
        BY <1>0, <2>1, <2>2 DEF Polling
    <2> QED BY <1>0, <2>1, <2>3, StoreUntouched, Zenon
<1>10. CASE CachePolicy
    <2>1. poll = "cache" /\ poll' = "wait" /\ UNCHANGED <<core, wrote>>
        BY <1>10, Zenon DEF CachePolicy, Cached
    <2>2. Polling' /\ core \in Up
        BY <1>0, <2>1 DEF Polling, Up
    <2>3. CASE Put(PolicyPlace, fetched)
        <3>1. fetched \in Sealable
            BY <2>1 DEF ServicesInv, DocsInv, ServedDoc, Sealable
        <3> QED BY <1>0, <2>1, <2>2, <2>3, <3>1, CorePuts, ZenonT(30)
    <2>4. CASE UNCHANGED store
        BY <1>0, <2>1, <2>2, <2>4, StoreUntouched, Zenon
    <2> QED BY <1>10, <2>3, <2>4, Zenon DEF CachePolicy
<1>11. CASE Publish /\ UNCHANGED <<store, identityVars, core, wrote, failures>>
    <2>1. UNCHANGED <<store, core, wrote, poll>>
        BY <1>11, Zenon DEF Publish, manager
    <2>2. Polling'
        BY <1>0, <2>1, Zenon DEF Polling
    <2> QED BY <1>0, <2>1, <2>2, StoreUntouched, Zenon
<1>12. ASSUME NEW m \in Modules, WatchPolicy(m) \/ ModuleComes(m) PROVE StoreInv'
    <2>1. UNCHANGED <<store, core, wrote, poll>>
        BY <1>12, Zenon DEF WatchPolicy, ModuleComes, StreamStep, Get, Send, Woken, Unwatch, Open,
                           Close, manager
    <2>2. Polling'
        BY <1>0, <2>1, Zenon DEF Polling
    <2> QED BY <1>0, <2>1, <2>2, StoreUntouched, ZenonT(30)
<1>13. ASSUME NEW m \in Modules, ModulePuts(m) PROVE StoreInv'
    <2>1. PICK v \in Values : Put(Place(m), v) /\ wrote' = [wrote EXCEPT ![m] = v]
        BY <1>13, Zenon DEF ModulePuts, ModulePlace
    <2>2. /\ core = "running" /\ UNCHANGED <<keyFile, master, made, core, poll>>
          /\ db' = [db EXCEPT ![Place(m)] = seal(Place(m), v)]
        BY <1>13, <2>1, Zenon DEF ModulePuts, Put, policyVars, manager
    <2> QED BY <1>0, <2>1, <2>2, ModuleStores, Zenon
<1>14. ASSUME NEW m \in Modules, ModuleDeletes(m) PROVE StoreInv'
    <2>1. /\ core = "running" /\ UNCHANGED <<keyFile, master, made, core, poll>>
          /\ db' = [db EXCEPT ![Place(m)] = Absent] /\ wrote' = [wrote EXCEPT ![m] = Absent]
        BY <1>14, Zenon DEF ModuleDeletes, ModulePlace, Delete, policyVars, manager
    <2> QED BY <1>0, <2>1, ModuleStores, Zenon
<1> QED BY <1>1, <1>2, <1>3, <1>4, <1>5, <1>6, <1>7, <1>8, <1>9, <1>10, <1>11, <1>12, <1>13,
           <1>14, ZenonT(30) DEF ServicesNext, Starting

\* The documents are not disturbed by what the other services do.
LEMMA DocsUntouched ==
    ASSUME DocsInv, UNCHANGED policyVars, db'[PolicyPlace] = db[PolicyPlace]
    PROVE  DocsInv'
<1>1. /\ UNCHANGED <<gateweave, publishes, published, revision, docs, poll, fetched, wake>>
      /\ UNCHANGED <<stream, hand, view>>
    BY Zenon DEF policyVars, server, manager, streams
<1>2. \A doc : ServedDoc(doc)' <=> ServedDoc(doc)
    BY <1>1, Zenon DEF ServedDoc
<1> QED BY <1>1, Zenon DEF DocsInv, ServedDoc, ServedPair, ViewIsPublished

\* The pairs of a document GateWeave served.
LEMMA ServedDocPairs ==
    ASSUME NEW doc, ServedDoc(doc), NEW m \in Modules
    PROVE  ServedPair(m, doc.revision, doc.modules[m])
<1>1. <<doc.revision, m, doc.modules[m]>> \in Served(doc)
    BY Zenon DEF Served
<1> QED BY <1>1, Zenon DEF ServedDoc, ServedPair

\* Installing a document GateWeave served, or leaving the one there is.
LEMMA InstallServed ==
    ASSUME DocsInv, NEW doc, ServedDoc(doc), Install(doc), UNCHANGED published
    PROVE  \A m \in Modules : ServedPair(m, revision, docs[m])'
<1> TAKE m \in Modules
<1>1. CASE doc.revision = revision
    BY <1>1, Zenon DEF Install, DocsInv, ServedPair
<1>2. CASE doc.revision # revision
    <2>1. revision' = doc.revision /\ docs' = doc.modules
        BY <1>2, Zenon DEF Install, Merged
    <2> QED BY <2>1, ServedDocPairs, Zenon DEF ServedPair
<1> QED BY <1>1, <1>2, Zenon

\* Every step keeps what the modules see among what GateWeave served.
LEMMA DocsStep ==
    ASSUME ServicesInv, ServicesNext
    PROVE  DocsInv'
<1>0. DocsInv /\ StoreInv
    BY Zenon DEF ServicesInv
<1>c. PolicyPlace # IdentityPlace /\ PolicyPlace \in Places /\ IdentityPlace \in Places
    BY ServicesConstants, Zenon
<1>1. CASE OpenStore \/ StoreOpens \/ Start \/ LoadIdentity
    <2>1. UNCHANGED <<db, policyVars>>
        BY <1>1, Zenon DEF OpenStore, StoreOpens, Start, LoadIdentity, LoadKey, CreateKey,
                          RenameKey, store
    <2> QED BY <1>0, <2>1, DocsUntouched, Zenon
<1>2. CASE Enroll
    <2>1. UNCHANGED <<store, policyVars>>
        BY <1>2, Zenon DEF Enroll
    <2>2. UNCHANGED db
        BY <2>1, Zenon DEF store
    <2> QED BY <1>0, <2>1, <2>2, DocsUntouched, Zenon
<1>3. CASE CreateIdentity \/ EnrollSaves
    <2>1. PICK v : Put(IdentityPlace, v)
        BY <1>3, Zenon DEF CreateIdentity, EnrollSaves, SaveNewKey
    <2>2. UNCHANGED policyVars
        BY <1>3, Zenon DEF CreateIdentity, EnrollSaves
    <2>3. db'[PolicyPlace] = db[PolicyPlace]
        BY <1>0, <1>c, <2>1, Zenon DEF Put, StoreInv
    <2> QED BY <1>0, <2>2, <2>3, DocsUntouched, Zenon
<1>4. ASSUME NEW m \in Modules, ModulePuts(m) \/ ModuleDeletes(m) PROVE DocsInv'
    <2>1. PICK r : db' = [db EXCEPT ![Place(m)] = r]
        BY <1>4, Zenon DEF ModulePuts, ModuleDeletes, ModulePlace, Put, Delete
    <2>2. UNCHANGED policyVars
        BY <1>4, Zenon DEF ModulePuts, ModuleDeletes
    <2>3. Place(m) # PolicyPlace
        BY ServicesConstants, Zenon
    <2>4. db'[PolicyPlace] = db[PolicyPlace]
        BY <1>0, <1>c, <2>1, <2>3, Zenon DEF StoreInv
    <2> QED BY <1>0, <2>2, <2>4, DocsUntouched, Zenon
<1>5. CASE LoadPolicy
    <2>1. /\ UNCHANGED <<gateweave, publishes, published, db, stream, hand, view>>
          /\ poll' \in {"off", "wait"} /\ core = "open"
        BY <1>5, Zenon DEF LoadPolicy, store, server, streams
    <2>2. \A m \in Modules : ServedPair(m, revision, docs[m])'
        <3>1. CASE Usable(PolicyPlace) /\ Install(Value(PolicyPlace))
            <4>1. ServedDoc(Value(PolicyPlace))
                BY <1>0, <3>1, Zenon DEF DocsInv, Usable, Found, Value
            <4> QED BY <1>0, <2>1, <3>1, <4>1, InstallServed, Zenon
        <3>2. CASE UNCHANGED <<revision, docs, wake>>
            BY <1>0, <2>1, <3>2, Zenon DEF DocsInv, ServedPair
        <3> QED BY <1>5, <3>1, <3>2, Zenon DEF LoadPolicy
    <2>3. poll' \notin {"fetched", "wake", "cache"}
        BY <2>1
    <2> QED BY <1>0, <2>1, <2>2, <2>3, Zenon DEF DocsInv, ServedDoc, ServedPair, ViewIsPublished
<1>6. CASE CoreCrash
    <2>1. /\ UNCHANGED <<gateweave, publishes, published, db>>
          /\ revision' = 0 /\ docs' = NoDocs /\ poll' = "off"
          /\ stream' = [m \in Modules |-> "closed"] /\ hand' = [m \in Modules |-> Nothing]
          /\ view' = [m \in Modules |-> << >>]
        BY <1>6, Zenon DEF CoreCrash, PolicyCrash, server
    <2>2. \A m \in Modules : ServedPair(m, revision, docs[m])'
        BY <2>1, Zenon DEF ServedPair, NoDocs
    <2>3. \A m \in Modules : view'[m] = << >> /\ stream'[m] = "closed"
        BY <2>1, Zenon
    <2>4. /\ stream' \in [Modules -> {"closed", "get", "send", "wait"}]
          /\ DOMAIN hand' = Modules /\ DOMAIN view' = Modules
        BY <2>1, Zenon
    <2>5. \A m \in Modules : stream'[m] # "send"
        BY <2>3
    <2>6. poll' \notin {"fetched", "wake", "cache"}
        BY <2>1
    <2> QED BY <1>0, <2>1, <2>2, <2>3, <2>4, <2>5, <2>6, ZenonT(30)
            DEF DocsInv, ServedDoc, ViewIsPublished
<1>7. CASE CachePolicy
    <2>1. /\ UNCHANGED <<gateweave, publishes, published, revision, docs, stream, hand, view>>
          /\ poll = "cache" /\ poll' = "wait" /\ ServedDoc(fetched)
        BY <1>0, <1>7, Zenon DEF CachePolicy, Cached, server, streams, DocsInv
    <2>2. db'[PolicyPlace] # Absent =>
             db'[PolicyPlace].value = Garbage \/ ServedDoc(db'[PolicyPlace].value)
        <3>1. CASE Put(PolicyPlace, fetched)
            <4>1. db'[PolicyPlace] = seal(PolicyPlace, fetched)
                BY <1>0, <1>c, <3>1, ZenonT(30) DEF Put, StoreInv
            <4>2. seal(PolicyPlace, fetched).value = fetched
                BY DEF seal
            <4> QED BY <2>1, <4>1, <4>2, Zenon
        <3>2. CASE UNCHANGED store
            BY <1>0, <3>2, Zenon DEF store, DocsInv
        <3> QED BY <1>7, <3>1, <3>2, Zenon DEF CachePolicy
    <2>3. poll' \notin {"fetched", "wake", "cache"}
        BY <2>1
    <2> QED BY <1>0, <2>1, <2>2, <2>3, Zenon DEF DocsInv, ServedDoc, ServedPair, ViewIsPublished
<1>8. CASE PollPolicy
    <2>1. /\ UNCHANGED <<gateweave, publishes, published, stream, hand, view, db>>
        BY <1>8, Zenon DEF PollPolicy, PolicyStep, Fetch, Apply, WakeOne, WakeEnds, server,
                          streams, store
    <2>2. ServedDoc(fetched') \/ poll' = "wait"
        BY <1>0, <1>8, Zenon DEF PollPolicy, PolicyStep, Fetch, Apply, WakeOne, WakeEnds, DocsInv
    <2>3. \A m \in Modules : ServedPair(m, revision, docs[m])'
        <3>1. CASE Apply
            BY <1>0, <2>1, <3>1, InstallServed, Zenon DEF Apply, DocsInv
        <3>2. CASE UNCHANGED <<revision, docs>>
            BY <1>0, <2>1, <3>2, Zenon DEF DocsInv, ServedPair
        <3> QED BY <1>8, <3>1, <3>2, Zenon DEF PollPolicy, PolicyStep, Fetch, WakeOne, WakeEnds
    <2>4. poll' \in {"fetched", "wake", "cache"} => ServedDoc(fetched')
        BY <2>2
    <2> QED BY <1>0, <2>1, <2>3, <2>4, ZenonT(30) DEF DocsInv, ServedDoc, ServedPair,
               ViewIsPublished
<1>9. CASE Publish /\ UNCHANGED <<store, identityVars, core, wrote, failures>>
    <2>1. /\ UNCHANGED <<revision, docs, poll, fetched, stream, hand, view, db>>
          /\ publishes' = publishes + 1 /\ published' = published \cup Served(gateweave')
        BY <1>9, ZenonT(30) DEF Publish, manager, streams, store
    <2>2. gateweave' \in Documents /\ publishes' \in Nat
        <3>1. PICK m \in Governed, c \in Contents \cup {Nothing}, r \in 0..gateweave.revision :
                 gateweave' = Document(r + 1, [gateweave.modules EXCEPT ![m] = c])
            BY <1>9, Zenon DEF Publish
        <3>2. gateweave \in Documents /\ publishes \in Nat
            BY <1>0, Zenon DEF DocsInv, ServedDoc
        <3>3. [gateweave.modules EXCEPT ![m] = c] \in [Modules -> Contents \cup {Nothing}]
            BY <3>2, ZenonT(30) DEF Documents
        <3>4. r + 1 \in Nat /\ publishes + 1 \in Nat
            BY <3>2 DEF Documents
        <3> QED BY <2>1, <3>1, <3>3, <3>4, SMTT(20) DEF Document, Documents
    <2>3. ServedDoc(gateweave)'
        BY <2>1, <2>2, Zenon DEF ServedDoc
    <2>4. ASSUME NEW doc, ServedDoc(doc) PROVE doc \in Documents /\ Served(doc) \subseteq published'
        BY <2>1, <2>4, Zenon DEF ServedDoc
    <2>5. ASSUME NEW m \in Modules, NEW r, NEW d, ServedPair(m, r, d)
          PROVE  <<r, m, d>> \in published' \cup {<<0, m, Nothing>>}
        BY <2>1, <2>5, Zenon DEF ServedPair
    <2>6. ViewIsPublished'
        BY <1>0, <2>1, Zenon DEF DocsInv, ViewIsPublished
    <2>7. \A m \in Modules : ServedPair(m, revision, docs[m])'
        BY <1>0, <2>1, <2>5, Zenon DEF DocsInv, ServedPair
    <2>8. \A m \in Modules : stream'[m] = "send" => ServedPair(m, hand[m][1], hand[m][2])'
        BY <1>0, <2>1, <2>5, Zenon DEF DocsInv, ServedPair
    <2> QED BY <1>0, <2>1, <2>2, <2>3, <2>4, <2>6, <2>7, <2>8, ZenonT(30) DEF DocsInv, ServedDoc
<1>10. ASSUME NEW m \in Modules, WatchPolicy(m) \/ ModuleComes(m) PROVE DocsInv'
    <2>1. /\ UNCHANGED <<gateweave, publishes, published, revision, docs, poll, fetched, db>>
        BY <1>10, ZenonT(30) DEF WatchPolicy, ModuleComes, StreamStep, Get, Send, Woken, Unwatch,
           Open,
                           Close, manager, server, store
    <2>2. /\ stream' \in [Modules -> {"closed", "get", "send", "wait"}]
          /\ DOMAIN hand' = Modules /\ DOMAIN view' = Modules
        BY <1>0, <1>10, ZenonT(30) DEF WatchPolicy, ModuleComes, StreamStep, Get, Send, Woken,
           Unwatch, Open,
                           Close, streams, DocsInv
    <2>3. \A n \in Modules \ {m} :
             stream'[n] = stream[n] /\ hand'[n] = hand[n] /\ view'[n] = view[n]
        BY <1>0, <1>10, ZenonT(30) DEF WatchPolicy, ModuleComes, StreamStep, Get, Send, Woken,
           Unwatch, Open,
                           Close, streams, DocsInv
    <2>4. stream'[m] = "send" => ServedPair(m, hand'[m][1], hand'[m][2])
        <3>1. CASE Get(m) /\ stream'[m] = "send"
            <4>1. hand'[m] = <<revision, docs[m]>>
                BY <1>0, <3>1, ZenonT(30) DEF Get, DocsInv
            <4>2. hand'[m][1] = revision /\ hand'[m][2] = docs[m]
                BY <4>1
            <4>3. ServedPair(m, revision, docs[m])
                BY <1>0, Zenon DEF DocsInv
            <4> QED BY <4>2, <4>3, Zenon
        <3>2. CASE ~Get(m) /\ stream'[m] = "send"
            <4>1. stream[m] = "send" /\ hand' = hand
                BY <1>0, <1>10, <3>2, ZenonT(30) DEF WatchPolicy, ModuleComes, StreamStep, Send,
                   Woken,
                              Unwatch, Open, Close, streams, DocsInv
            <4> QED BY <1>0, <4>1, ZenonT(30) DEF DocsInv
        <3> QED BY <3>1, <3>2, ZenonT(30)
    <2>5. view'[m] # << >> => ServedPair(m, view'[m][1], view'[m][2])
        <3>1. CASE Send(m)
            <4>1. view'[m] = hand[m] /\ stream[m] = "send"
                BY <1>0, <3>1, Zenon DEF Send, DocsInv
            <4> QED BY <1>0, <4>1, Zenon DEF DocsInv
        <3>2. CASE ~Send(m)
            <4>1. view'[m] \in {view[m], << >>}
                BY <1>0, <1>10, <3>2, ZenonT(30) DEF WatchPolicy, ModuleComes, StreamStep, Get, Woken,
                              Unwatch, Open, Close, streams, DocsInv
            <4> QED BY <1>0, <4>1, ZenonT(30) DEF DocsInv, ViewIsPublished, ServedPair
        <3> QED BY <3>1, <3>2, Zenon
    <2>6. ViewIsPublished'
        BY <1>0, <2>1, <2>3, <2>5, Zenon DEF DocsInv, ViewIsPublished, ServedPair
    <2>7. \A n \in Modules : (stream[n] = "send" => ServedPair(n, hand[n][1], hand[n][2]))'
        BY <1>0, <2>1, <2>3, <2>4, Zenon DEF DocsInv, ServedPair
    <2> QED BY <1>0, <2>1, <2>2, <2>6, <2>7, Zenon DEF DocsInv, ServedDoc, ServedPair
<1> QED BY <1>1, <1>2, <1>3, <1>4, <1>5, <1>6, <1>7, <1>8, <1>9, <1>10,
           ZenonT(30) DEF ServicesNext, Starting

\* The identity is not disturbed by what the other services do.
LEMMA IdentityUntouched ==
    ASSUME IdentityInv, UNCHANGED <<identityVars, core>>, db'[IdentityPlace] = db[IdentityPlace]
    PROVE  IdentityInv'
<1>1. UNCHANGED <<config, priv, device, enrol, offer, assigned, keysMade, confirmed>>
    BY Zenon DEF identityVars, provider, enrolment, registry
<1>2. IdentityKept'
    BY <1>1, Zenon DEF IdentityInv, IdentityKept, Value, WhoAmI, Issued
<1> QED BY <1>1, <1>2, Zenon DEF IdentityInv, Recorded, Value, Issued

\* While core is up the record at a place can be opened.
LEMMA RecordsOpen ==
    ASSUME StoreInv, core \in Up, NEW place \in Places
    PROVE  ~Unreadable(place) /\ (Usable(place) <=> db[place] # Absent /\ db[place].value # Garbage)
<1>1. db[place] # Absent => open(place, db[place])
    BY Zenon DEF StoreInv, StoreKeeps, open
<1> QED BY <1>1, Zenon DEF Unreadable, Usable, Found, Value

\* What the state record is after a save.
LEMMA StateSaved ==
    ASSUME StoreInv, core \in Up, NEW k \in Nat, NEW d \in Nat \cup {NoDevice},
           Put(IdentityPlace, enrolmentState(k, d))
    PROVE  /\ Recorded' /\ Value(IdentityPlace)'.key = k /\ Value(IdentityPlace)'.device = d
           /\ Value(IdentityPlace)' \in DeviceStates
<1>1. IdentityPlace \in Places /\ master \in Nat
    BY ServicesConstants, Zenon DEF StoreInv
<1>2. enrolmentState(k, d) \in DeviceStates /\ enrolmentState(k, d).key = k
      /\ enrolmentState(k, d).device = d
    BY DEF enrolmentState, DeviceStates
<1>3. enrolmentState(k, d) # Garbage
    BY <1>2, ServicesConstants, Zenon
<1>4. enrolmentState(k, d) \in Sealable
    BY <1>2, Zenon DEF Sealable
<1>5. db'[IdentityPlace] = seal(IdentityPlace, enrolmentState(k, d))
    BY <1>1, Zenon DEF Put, StoreInv
<1>6. /\ seal(IdentityPlace, enrolmentState(k, d)) # Absent
      /\ seal(IdentityPlace, enrolmentState(k, d)).value = enrolmentState(k, d)
    BY <1>1, <1>4, Seals, ZenonT(30)
<1> QED BY <1>2, <1>3, <1>5, <1>6, Zenon DEF Recorded, Value

\* Every step keeps the device's identity.
LEMMA IdentityStep ==
    ASSUME ServicesInv, ServicesNext
    PROVE  IdentityInv'
<1>0. IdentityInv /\ StoreInv
    BY Zenon DEF ServicesInv
<1>c. PolicyPlace # IdentityPlace /\ PolicyPlace \in Places /\ IdentityPlace \in Places
    BY ServicesConstants, Zenon
<1>1. CASE OpenStore \/ StoreOpens \/ LoadPolicy
    <2>1. UNCHANGED <<db, identityVars>>
        BY <1>1, Zenon DEF OpenStore, StoreOpens, LoadPolicy, LoadKey, CreateKey, RenameKey, store
    <2>2. UNCHANGED <<config, priv, device, enrol, offer, assigned, keysMade, confirmed>>
        BY <2>1, Zenon DEF identityVars, provider, enrolment, registry
    <2>3. core \in {"down", "keyed", "open"}
        BY <1>1, Zenon DEF OpenStore, StoreOpens, LoadPolicy
    <2>4. core \notin {"loaded", "running"}
        BY <2>3
    <2>5. enrol' = "off"
        BY <1>0, <2>2, <2>4, ZenonT(30) DEF IdentityInv
    <2>6. IdentityKept'
        BY <1>0, <2>1, <2>2, ZenonT(30) DEF IdentityInv, IdentityKept, Value, WhoAmI, Issued
    <2> QED BY <1>0, <2>1, <2>2, <2>5, <2>6, ZenonT(30) DEF IdentityInv, Recorded, Value, Issued
<1>2. CASE Start
    <2>1. UNCHANGED <<store, identityVars>> /\ core' = "running"
        BY <1>2, Zenon DEF Start
    <2>2. UNCHANGED <<db, config, priv, device, enrol, offer, assigned, keysMade, confirmed>>
        BY <2>1, Zenon DEF store, identityVars, provider, enrolment, registry
    <2>3. IdentityKept'
        BY <1>0, <2>2, Zenon DEF IdentityInv, IdentityKept, Value, WhoAmI, Issued
    <2> QED BY <1>0, <2>1, <2>2, <2>3, ZenonT(30) DEF IdentityInv, Recorded, Value, Issued
<1>3. CASE CoreCrash
    <2>1. /\ UNCHANGED <<db, config, assigned, keysMade, confirmed>>
          /\ priv' = 0 /\ device' = NoDevice /\ enrol' = "off" /\ offer' = NoOffer
        BY <1>3, ZenonT(30) DEF CoreCrash, IdentityCrash, registry
    <2>2. priv' \in Nat /\ offer'.device \in Nat \cup {NoDevice} /\ enrol' # "verify"
        BY <2>1, SMTT(20) DEF NoOffer
    <2>3. IdentityKept'
        BY <1>0, <2>1, ZenonT(30) DEF IdentityInv, IdentityKept, Value, WhoAmI
    <2> QED BY <1>0, <2>1, <2>2, <2>3, ZenonT(30) DEF IdentityInv, Recorded, Value, Issued
<1>4. CASE PollPolicy
    BY <1>0, <1>4, IdentityUntouched, Zenon DEF PollPolicy, store
<1>5. CASE CachePolicy
    <2>1. UNCHANGED <<identityVars, core>>
        BY <1>5, Zenon DEF CachePolicy
    <2>2. db'[IdentityPlace] = db[IdentityPlace]
        BY <1>0, <1>c, <1>5, Zenon DEF CachePolicy, Put, store, StoreInv
    <2> QED BY <1>0, <2>1, <2>2, IdentityUntouched, Zenon
<1>6. CASE Publish /\ UNCHANGED <<store, identityVars, core, wrote, failures>>
    BY <1>0, <1>6, IdentityUntouched, Zenon DEF store
<1>7. ASSUME NEW m \in Modules, WatchPolicy(m) \/ ModuleComes(m) PROVE IdentityInv'
    BY <1>0, <1>7, IdentityUntouched, Zenon DEF WatchPolicy, ModuleComes, store
<1>8. ASSUME NEW m \in Modules, ModulePuts(m) \/ ModuleDeletes(m) PROVE IdentityInv'
    <2>1. PICK r : db' = [db EXCEPT ![Place(m)] = r]
        BY <1>8, Zenon DEF ModulePuts, ModuleDeletes, ModulePlace, Put, Delete
    <2>2. UNCHANGED <<identityVars, core>>
        BY <1>8, Zenon DEF ModulePuts, ModuleDeletes
    <2>3. Place(m) # IdentityPlace
        BY ServicesConstants, Zenon
    <2>4. db'[IdentityPlace] = db[IdentityPlace]
        BY <1>0, <1>c, <2>1, <2>3, ZenonT(30) DEF StoreInv
    <2> QED BY <1>0, <2>2, <2>4, IdentityUntouched, Zenon
<1>9. CASE LoadIdentity
    <2>1. /\ UNCHANGED <<db, config, offer, assigned, keysMade, confirmed, core>> /\ core = "loaded"
          /\ enrol = "off" /\ enrol' = "loaded" /\ Usable(IdentityPlace)
          /\ priv' = Value(IdentityPlace).key /\ device' = Value(IdentityPlace).device
        BY <1>9, Zenon DEF LoadIdentity, store, registry
    <2>2. Recorded /\ Value(IdentityPlace) \in DeviceStates
        BY <1>0, <2>1, Zenon DEF Usable, Found, Recorded, Value, IdentityInv
    <2>3. priv' \in Nat
        BY <2>1, <2>2 DEF DeviceStates
    <2>4. IdentityKept'
        BY <1>0, <2>1, <2>2, ZenonT(30) DEF IdentityInv, IdentityKept, Value, WhoAmI, Issued
    <2>5. enrol' # "verify" /\ enrol' # "off"
        BY <2>1
    <2> QED BY <1>0, <2>1, <2>2, <2>3, <2>4, <2>5, ZenonT(30) DEF IdentityInv, Recorded, Value, Issued
<1>10. CASE CreateIdentity
    <2>1. /\ UNCHANGED <<config, offer, assigned, confirmed, core>> /\ core = "loaded"
          /\ ~Usable(IdentityPlace) /\ enrol' = "loaded" /\ device' = NoDevice
          /\ keysMade' = keysMade + 1 /\ priv' = keysMade'
          /\ Put(IdentityPlace, enrolmentState(keysMade', NoDevice))
        BY <1>10, ZenonT(30) DEF CreateIdentity, SaveNewKey, registry
    <2>2. keysMade' \in Nat
        BY <1>0, <2>1, SMTT(20) DEF IdentityInv
    <2>3. core \in Up
        BY <2>1 DEF Up
    <2>4. ~Recorded
        BY <1>0, <1>c, <2>1, <2>3, RecordsOpen, ZenonT(30) DEF Recorded
    <2>5. assigned = {} /\ confirmed = NoDevice
        BY <1>0, <2>4, Zenon DEF IdentityInv, IdentityKept, Recorded, Value
    <2>6. /\ Recorded' /\ Value(IdentityPlace)'.key = keysMade'
          /\ Value(IdentityPlace)'.device = NoDevice /\ Value(IdentityPlace)' \in DeviceStates
        BY <1>0, <2>1, <2>2, <2>3, StateSaved, ZenonT(30)
    <2>7. IdentityKept'
        BY <2>1, <2>5, <2>6, ZenonT(30) DEF IdentityKept, WhoAmI
    <2>8. enrol' # "verify" /\ enrol' # "off"
        BY <2>1
    <2> QED BY <1>0, <2>1, <2>2, <2>5, <2>6, <2>7, <2>8, ZenonT(30) DEF IdentityInv, Value
<1>11. CASE EnrollSaves
    <2>1. /\ UNCHANGED <<config, priv, assigned, keysMade, core>> /\ core = "loaded"
          /\ enrol = "verify" /\ enrol' = "done" /\ verifyAssignment(offer)
          /\ device' = offer.device /\ confirmed' = offer.device /\ offer' = NoOffer
          /\ Put(IdentityPlace, enrolmentState(priv, offer.device))
        BY <1>11, Zenon DEF EnrollSaves, Assign, SavedAssignment, registry
    <2>2. priv \in Nat /\ offer.device \in Nat \cup {NoDevice} /\ core \in Up
        BY <1>0, <2>1, Zenon DEF IdentityInv, Up
    <2>3. /\ Recorded' /\ Value(IdentityPlace)'.key = priv
          /\ Value(IdentityPlace)'.device = offer.device /\ Value(IdentityPlace)' \in DeviceStates
        BY <1>0, <2>1, <2>2, StateSaved, ZenonT(30)
    <2>4. ~config.insecure => Issued(offer.device)
        BY <1>0, <2>1, ZenonT(30) DEF verifyAssignment, IdentityInv
    <2>5. \A a \in assigned : a[1] = priv
        <3>1. enrol # "off"
            BY <2>1
        <3> QED BY <1>0, <3>1, ZenonT(30) DEF IdentityInv, IdentityKept
    <2>6. IdentityKept'
        BY <2>1, <2>3, <2>4, <2>5, ZenonT(30) DEF IdentityKept, WhoAmI, Recorded, Value, Issued
    <2>7. offer'.device \in Nat \cup {NoDevice} /\ enrol' # "verify" /\ enrol' # "off"
        BY <2>1 DEF NoOffer
    <2> QED BY <1>0, <2>1, <2>2, <2>3, <2>4, <2>6, <2>7, Zenon DEF IdentityInv, Value, Issued
<1>12. CASE Enroll
    <2>0. UNCHANGED <<db, core>> /\ core = "loaded"
        BY <1>12, Zenon DEF Enroll, store
    <2>1. CASE EnrollSkips \/ FetchChallenge
        <3>1. /\ UNCHANGED <<config, priv, device, offer, assigned, keysMade, confirmed>>
              /\ enrol = "loaded" /\ enrol' \in {"done", "post"}
            BY <2>1, Zenon DEF EnrollSkips, FetchChallenge, provider, registry
        <3>2. IdentityKept'
            BY <1>0, <2>0, <3>1, ZenonT(30) DEF IdentityInv, IdentityKept, Value, WhoAmI, Issued
        <3>3. enrol # "off" /\ enrol' # "verify" /\ enrol' # "off"
              /\ enrol' \in {"off", "loaded", "post", "verify", "done"}
            BY <3>1
        <3> QED BY <1>0, <2>0, <3>1, <3>2, <3>3, ZenonT(30) DEF IdentityInv, Recorded, Value, Issued
    <2>2. CASE EnrollLost \/ AssignmentRefused
        <3>1. /\ UNCHANGED <<config, priv, device, assigned, keysMade, confirmed>>
              /\ enrol \in {"loaded", "post", "verify"} /\ enrol' = "done" /\ offer' = NoOffer
            BY <2>2, Zenon DEF EnrollLost, AssignmentRefused, provider, registry
        <3>2. IdentityKept'
            BY <1>0, <2>0, <3>1, ZenonT(30) DEF IdentityInv, IdentityKept, Value, WhoAmI, Issued
        <3>3. enrol # "off" /\ enrol' # "verify" /\ enrol' # "off"
              /\ offer'.device \in Nat \cup {NoDevice}
            BY <3>1 DEF NoOffer
        <3> QED BY <1>0, <2>0, <3>1, <3>2, <3>3, ZenonT(30) DEF IdentityInv, Recorded, Value, Issued
    <2>3. CASE PostEnrolment
        <3> DEFINE id == 1 + Cardinality(assigned)
        <3>1. /\ UNCHANGED <<config, priv, device, keysMade, confirmed>>
              /\ enrol = "post" /\ enrol' = "verify"
              /\ assigned' = assigned \cup {<<priv, id>>}
              /\ offer' = [device |-> id, signed |-> id]
            BY <2>3, ZenonT(30) DEF PostEnrolment, provider
        <3>2. id \in Nat
            BY <1>0, FS_CardinalityType, SMTT(20) DEF IdentityInv
        <3> HIDE DEF id
        <3>3. IsFiniteSet(assigned')
            BY <1>0, <3>1, FS_AddElement, ZenonT(30) DEF IdentityInv
        <3>4. offer'.device = id
            BY <3>1
        <3>5. Issued(offer.device)' /\ \A d : Issued(d) => Issued(d)'
            <4>1. <<priv, id>> \in assigned' /\ \A a \in assigned : a \in assigned'
                BY <3>1, Zenon
            <4>2. <<priv, id>>[2] = id
                OBVIOUS
            <4> QED BY <3>4, <4>1, <4>2, Zenon DEF Issued
        <3>6. Recorded /\ Value(IdentityPlace).key = priv
            <4>1. enrol # "off"
                BY <3>1, SMTT(20)
            <4> QED BY <1>0, <4>1, ZenonT(30) DEF IdentityInv
        <3>7. \A a \in assigned' : a[1] = priv
            <4>1. \A a \in assigned : a[1] = priv
                BY <1>0, <3>6, Zenon DEF IdentityInv, IdentityKept
            <4> QED BY <3>1, <4>1, SMTT(20)
        <3>8. IdentityKept'
            BY <1>0, <2>0, <3>1, <3>5, <3>6, <3>7, ZenonT(30)
               DEF IdentityInv, IdentityKept, Recorded, Value, WhoAmI
        <3>9. enrol' # "off"
            BY <3>1
        <3> QED BY <1>0, <2>0, <3>1, <3>2, <3>3, <3>4, <3>5, <3>6, <3>8, <3>9, ZenonT(30)
                DEF IdentityInv, Recorded, Value
    <2>4. CASE OtherAnswers
        <3>1. /\ UNCHANGED <<config, priv, device, assigned, keysMade, confirmed>>
              /\ enrol = "post" /\ enrol' = "verify"
              /\ \E d \in {Elsewhere, 1 + Cardinality(assigned)}, s \in {Elsewhere, NoDevice} :
                    offer' = [device |-> d, signed |-> s]
            BY <2>4, Zenon DEF OtherAnswers, provider, registry
        <3>2. IdentityKept'
            BY <1>0, <2>0, <3>1, ZenonT(30) DEF IdentityInv, IdentityKept, Value, WhoAmI, Issued
        <3>3. enrol # "off" /\ enrol' # "off" /\ offer'.device \in Nat \cup {NoDevice}
            <4>1. 1 + Cardinality(assigned) \in Nat
                BY <1>0, FS_CardinalityType, SMTT(20) DEF IdentityInv
            <4> QED BY <3>1, <4>1, SMTT(20) DEF Elsewhere
        <3>4. offer'.signed = offer'.device => Issued(offer.device)'
            <4>1. 1 + Cardinality(assigned) # NoDevice
                <5>1. NoDevice \notin Nat
                    BY ServicesConstants, Zenon
                <5> QED BY <1>0, <5>1, FS_CardinalityType, SMTT(20) DEF IdentityInv
            <4> QED BY <3>1, <4>1, SMTT(20) DEF Issued
        <3> QED BY <1>0, <2>0, <3>1, <3>2, <3>3, <3>4, ZenonT(30) DEF IdentityInv, Recorded, Value, Issued
    <2>5. CASE Assign(FALSE)
        <3>1. /\ UNCHANGED <<config, priv, assigned, keysMade, confirmed>>
              /\ enrol = "verify" /\ enrol' = "done" /\ verifyAssignment(offer)
              /\ device' = offer.device /\ offer' = NoOffer
            BY <2>5, Zenon DEF Assign, registry
        <3>2. ~config.insecure => Issued(offer.device)
            BY <1>0, <3>1, Zenon DEF verifyAssignment, IdentityInv
        <3>3. IdentityKept'
            BY <1>0, <2>0, <3>1, <3>2, ZenonT(30) DEF IdentityInv, IdentityKept, Value, WhoAmI, Issued
        <3>4. enrol # "off" /\ enrol' # "verify" /\ enrol' # "off"
              /\ offer'.device \in Nat \cup {NoDevice}
            BY <3>1 DEF NoOffer
        <3> QED BY <1>0, <2>0, <3>1, <3>3, <3>4, ZenonT(30) DEF IdentityInv, Recorded, Value, Issued
    <2> QED BY <1>12, <2>1, <2>2, <2>3, <2>4, <2>5, ZenonT(30) DEF Enroll
<1> QED BY <1>1, <1>2, <1>3, <1>4, <1>5, <1>6, <1>7, <1>8, <1>9, <1>10, <1>11, <1>12, ZenonT(30)
        DEF ServicesNext, Starting

\* The invariant holds at a first start, and over the files of an earlier release.
LEMMA ServicesStart == ServicesInit => ServicesInv
<1> SUFFICES ASSUME ServicesInit PROVE ServicesInv
    OBVIOUS
<1>0. PolicyInit /\ IdentityInit /\ core = "down" /\ wrote = [m \in Modules |-> Absent]
    BY Zenon DEF ServicesInit
<1>c. /\ PolicyPlace # IdentityPlace /\ PolicyPlace \in Places /\ IdentityPlace \in Places
      /\ \A m \in Modules : Place(m) \in Places /\ Place(m) \notin {PolicyPlace, IdentityPlace}
      /\ Absent \notin Nat
    BY ServicesConstants, Zenon
<1> DEFINE old(p) == [under |-> 1, bound |-> p, value |-> Garbage]
<1>1. /\ db \in [Places -> Records \cup {Absent}] /\ keyFile \in Nat \cup {Absent} /\ made \in Nat
      /\ \A p \in Places : db[p] # Absent =>
            /\ p \in {PolicyPlace, IdentityPlace} /\ keyFile = 1
            /\ db[p].under = 1 /\ db[p].bound = p /\ db[p].value = Garbage
    <2>1. \A p \in Places : /\ old(p) \in Records /\ old(p).under = 1 /\ old(p).bound = p
                            /\ old(p).value = Garbage
        BY SMTT(20) DEF Records
    <2>2. CASE db = [p \in Places |-> Absent] /\ keyFile = Absent /\ made = 0
        BY <2>2
    <2>3. CASE /\ db = [p \in Places |-> IF p \in {PolicyPlace, IdentityPlace} THEN old(p)
                                         ELSE Absent]
               /\ keyFile = 1 /\ made = 1
        <3>1. keyFile \in Nat \cup {Absent} /\ made \in Nat
            BY <2>3, ZenonT(30)
        <3> HIDE DEF old
        <3> QED BY <2>1, <2>3, <3>1, ZenonT(30)
    <2> QED BY <2>2, <2>3, ZenonT(30) DEF ServicesInit
<1>2. StoreInv
    <2>1. \A m \in Modules : db[Place(m)] = Absent /\ wrote[m] = Absent
        BY <1>0, <1>1, <1>c, Zenon
    <2>2. StoreKeeps
        BY <1>1, <2>1, Zenon DEF StoreKeeps
    <2>3. keyFile = Absent => \A p \in Places : db[p] = Absent
        <3>1. 1 \in Nat
            OBVIOUS
        <3>2. 1 # Absent
            BY <1>c, <3>1, Zenon
        <3> QED BY <1>1, <3>2, Zenon
    <2>4. wrote \in [Modules -> Values \cup {Absent}] /\ poll = "off"
        BY <1>0, Zenon DEF PolicyInit
    <2> QED BY <1>0, <1>1, <2>2, <2>3, <2>4, ZenonT(30) DEF StoreInv, Up
<1>3. DocsInv
    <2>1. /\ gateweave = Document(0, NoDocs) /\ publishes = 0 /\ published = Served(gateweave)
          /\ revision = 0 /\ docs = NoDocs /\ poll = "off"
          /\ stream = [m \in Modules |-> "closed"] /\ hand = [m \in Modules |-> Nothing]
          /\ view = [m \in Modules |-> << >>]
        BY <1>0, Zenon DEF PolicyInit
    <2>2. Document(0, NoDocs) \in Documents /\ publishes \in Nat
        BY <2>1 DEF Document, NoDocs, Documents
    <2>3. \A m \in Modules : ServedPair(m, revision, docs[m])
        BY <2>1, Zenon DEF ServedPair, NoDocs
    <2>4. \A m \in Modules : stream[m] # "send" /\ view[m] = << >>
        BY <2>1
    <2>5. /\ stream \in [Modules -> {"closed", "get", "send", "wait"}]
          /\ DOMAIN hand = Modules /\ DOMAIN view = Modules
        BY <2>1, Zenon
    <2>6. poll \notin {"fetched", "wake", "cache"}
        BY <2>1
    <2> QED BY <1>1, <1>c, <2>1, <2>2, <2>3, <2>4, <2>5, <2>6, ZenonT(30)
            DEF DocsInv, ServedDoc, ViewIsPublished
<1>4. IdentityInv
    <2>1. /\ priv = 0 /\ device = NoDevice /\ enrol = "off" /\ offer = NoOffer
          /\ assigned = {} /\ keysMade = 0 /\ confirmed = NoDevice
        BY <1>0, Zenon DEF IdentityInit
    <2>2. /\ priv \in Nat /\ keysMade \in Nat /\ offer.device \in Nat \cup {NoDevice}
          /\ IsFiniteSet(assigned) /\ enrol # "verify"
        BY <2>1, FS_EmptySet, SMTT(20) DEF NoOffer
    <2>3. IdentityKept
        BY <2>1, ZenonT(30) DEF IdentityKept, WhoAmI
    <2>4. ~Recorded
        BY <1>1, <1>c, Zenon DEF Recorded
    <2> QED BY <1>1, <1>c, <2>1, <2>2, <2>3, <2>4, ZenonT(30) DEF IdentityInv
<1> QED BY <1>2, <1>3, <1>4, Zenon DEF ServicesInv

\* The invariant is inductive.
LEMMA ServicesStep == ServicesInv /\ [ServicesNext]_servicesVars => ServicesInv'
<1> SUFFICES ASSUME ServicesInv, [ServicesNext]_servicesVars PROVE ServicesInv'
    BY Zenon
<1>1. CASE ServicesNext
    BY <1>1, StoreStep, DocsStep, IdentityStep, Zenon DEF ServicesInv
<1>2. CASE UNCHANGED servicesVars
    <2>1. UNCHANGED <<store, policyVars, identityVars, core, wrote>>
        BY <1>2, Zenon DEF servicesVars
    <2>2. UNCHANGED db /\ UNCHANGED poll
        BY <2>1, Zenon DEF store, policyVars, manager
    <2>3. Polling'
        BY <2>1, <2>2, Zenon DEF ServicesInv, StoreInv, Polling
    <2> QED BY <2>1, <2>2, <2>3, StoreUntouched, DocsUntouched, IdentityUntouched, Zenon
            DEF ServicesInv
<1> QED BY <1>1, <1>2, Zenon

\* Through crashes between any two steps, every record opens with the key the
\* next start loads, and a module finds what its last call left.
THEOREM StoreAlwaysKeeps == ServicesSpec => []StoreKeeps
<1>1. ServicesInv => StoreKeeps
    BY Zenon DEF ServicesInv, StoreInv
<1> QED BY <1>1, ServicesStart, ServicesStep, PTL DEF ServicesSpec

\* The key GateWeave knows is the key every start finds, a confirmed id is
\* kept, and a release build never answers with an id GateWeave has not signed.
THEOREM IdentityAlwaysKept == ServicesSpec => []IdentityKept
<1>1. ServicesInv => IdentityKept
    BY Zenon DEF ServicesInv, IdentityInv
<1> QED BY <1>1, ServicesStart, ServicesStep, PTL DEF ServicesSpec

\* What a module sees of its policy GateWeave has served, under that revision.
THEOREM ViewAlwaysPublished == ServicesSpec => []ViewIsPublished
<1>1. ServicesInv => ViewIsPublished
    BY Zenon DEF ServicesInv, DocsInv
<1> QED BY <1>1, ServicesStart, ServicesStep, PTL DEF ServicesSpec

-----------------------------------------------------------------------------
(* The module that a policy governs.                                       *)

\* The last document on its way is the last one sent; when none is on its way
\* the last one sent has been applied.
WatchInv ==
    /\ phase \in {"new", "inited", "started", "stopped"}
    /\ policy \in PolicyDocs /\ delivered \in PolicyDocs \cup {NotYet} /\ onWay \in Seq(PolicyDocs)
    /\ cfg \in Nat /\ interval \in Nat
    /\ phase = "new" => follows = "off" /\ delivered = NotYet
    /\ delivered = NotYet => onWay = << >>
    /\ onWay = << >> /\ delivered \in Intervals \ {0} => interval = delivered
    /\ onWay # << >> => onWay[Len(onWay)] = delivered

\* A running timer: what has passed of it bounds the age of the inventory, and
\* of a change of the interval that it has not seen.
TimerInv ==
    /\ job \in {"none", "run", "rearm", "waiting", "ended"}
    /\ timer \in Nat /\ period \in Nat /\ behind \in Nat
    /\ phase \in {"new", "inited"} => age = Never
    /\ phase # "started" => job = "none"
    /\ job = "run" => age = Never \/ (age \in Nat /\ age <= period)
    /\ job = "rearm" => age = 0
    /\ job = "waiting" => /\ timer > 0 /\ age \in Nat /\ age + timer <= period
                          /\ period # interval => behind + timer <= period

InfoInv == WatchInv /\ TimerInv

\* Applying a document: a positive interval is taken, anything else ignored.
LEMMA Applies ==
    ASSUME NEW doc \in PolicyDocs, NEW old \in Nat
    PROVE  /\ applyPolicy(doc, old) \in Nat
           /\ doc \in Intervals \ {0} => applyPolicy(doc, old) = doc
BY InfoAssumption, Zenon DEF applyPolicy

\* Taking the first document off the way.
LEMMA TakeFirst ==
    ASSUME NEW D, NEW w \in Seq(D), w # << >>
    PROVE  /\ Head(w) \in D /\ Tail(w) \in Seq(D)
           /\ Tail(w) = << >> => Head(w) = w[Len(w)]
           /\ Tail(w) # << >> => Tail(w)[Len(Tail(w))] = w[Len(w)]
<1>1. Len(w) \in Nat /\ Len(w) # 0 /\ Head(w) = w[1] /\ Head(w) \in D
      /\ Tail(w) \in Seq(D) /\ Len(Tail(w)) = Len(w) - 1
    OBVIOUS
<1>2. \A i \in 1..(Len(w) - 1) : Tail(w)[i] = w[i + 1]
    OBVIOUS
<1>3. Tail(w) = << >> => Len(w) = 1
    BY <1>1, SMTT(20)
<1>4. Tail(w) # << >> => Len(Tail(w)) \in 1..(Len(w) - 1)
    BY <1>1
<1> QED BY <1>1, <1>2, <1>3, <1>4, SMTT(20)

\* Every step keeps the watch and the interval in step.
LEMMA WatchKept ==
    ASSUME InfoInv, InfoNext
    PROVE  WatchInv'
<1>0. WatchInv
    BY ZenonT(30) DEF InfoInv
<1>1. CASE ModuleStart
    BY <1>0, <1>1, ZenonT(30) DEF ModuleStart, WatchInv, applied, feed
<1>2. CASE ModuleStop
    BY <1>0, <1>2, InfoAssumption, SMTT(20) DEF ModuleStop, WatchInv, applied, PolicyDocs
<1>3. CASE Forward
    <2>1. /\ delivered' = policy /\ onWay' = Append(onWay, policy)
          /\ UNCHANGED <<phase, cfg, interval, policy>> /\ follows = "on"
        BY <1>3, Zenon DEF Forward, applied
    <2>2. policy \in PolicyDocs /\ onWay \in Seq(PolicyDocs)
        BY <1>0, Zenon DEF WatchInv
    <2>3. /\ onWay' \in Seq(PolicyDocs) /\ onWay' # << >> /\ onWay'[Len(onWay')] = policy
        BY <2>1, <2>2, SMTT(20)
    <2>4. policy # NotYet
        BY <2>2, InfoAssumption, ZenonT(30)
    <2>5. phase # "new"
        BY <1>0, <2>1, SMTT(20) DEF WatchInv
    <2> QED BY <1>0, <2>1, <2>2, <2>3, <2>4, <2>5, ZenonT(30) DEF WatchInv
<1>4. CASE WatchEnds
    BY <1>0, <1>4, Zenon DEF WatchEnds, WatchInv, applied
<1>5. CASE ApplyNext
    <2>1. /\ onWay # << >> /\ interval' = applyPolicy(Head(onWay), interval)
          /\ onWay' = Tail(onWay) /\ UNCHANGED <<phase, cfg, policy, delivered>>
        BY <1>5, Zenon DEF ApplyNext
    <2>2. onWay \in Seq(PolicyDocs) /\ interval \in Nat
        BY <1>0, Zenon DEF WatchInv
    <2>3. /\ Head(onWay) \in PolicyDocs /\ Tail(onWay) \in Seq(PolicyDocs)
          /\ Tail(onWay) = << >> => Head(onWay) = onWay[Len(onWay)]
          /\ Tail(onWay) # << >> => Tail(onWay)[Len(Tail(onWay))] = onWay[Len(onWay)]
        BY <2>1, <2>2, TakeFirst, Zenon
    <2>4. /\ interval' \in Nat
          /\ Head(onWay) \in Intervals \ {0} => interval' = Head(onWay)
        BY <2>1, <2>2, <2>3, Applies, ZenonT(30)
    <2> QED BY <1>0, <2>1, <2>3, <2>4, ZenonT(30) DEF WatchInv
<1>6. CASE PassTime
    BY <1>0, <1>6, Zenon DEF PassTime, WatchInv, applied, feed
<1>7. CASE Rearm
    BY <1>0, <1>7, Zenon DEF Rearm, WatchInv, applied, feed
<1>8. ASSUME NEW err \in BOOLEAN, CollectAndReport(err) PROVE WatchInv'
    BY <1>0, <1>8, ZenonT(30) DEF CollectAndReport, WatchInv, applied, feed
<1>9. ASSUME NEW answers \in BOOLEAN, NEW watches \in BOOLEAN, ModuleInit(answers, watches)
      PROVE  WatchInv'
    <2>1. /\ phase = "new" /\ phase' = "inited" /\ UNCHANGED <<cfg, policy, delivered, onWay>>
          /\ interval' = IF answers THEN applyPolicy(policy, cfg) ELSE cfg
        BY <1>9, Zenon DEF ModuleInit
    <2>2. interval' \in Nat
        BY <1>0, <2>1, Applies, ZenonT(30) DEF WatchInv
    <2>3. delivered' = NotYet /\ onWay' = << >> /\ phase' # "new"
        BY <1>0, <2>1, SMTT(20) DEF WatchInv
    <2>4. NotYet \notin Intervals
        BY InfoAssumption, Zenon DEF PolicyDocs
    <2> QED BY <1>0, <2>1, <2>2, <2>3, <2>4, ZenonT(30) DEF WatchInv
<1>10. ASSUME NEW doc \in PolicyDocs, NewPolicy(doc) PROVE WatchInv'
    BY <1>0, <1>10, Zenon DEF NewPolicy, WatchInv, applied
<1> QED BY <1>1, <1>2, <1>3, <1>4, <1>5, <1>6, <1>7, <1>8, <1>9, <1>10, ZenonT(30) DEF InfoNext

\* Every step keeps what the timer says of the ages.
LEMMA TimerKept ==
    ASSUME InfoInv, InfoNext
    PROVE  TimerInv'
<1>0. TimerInv /\ interval \in Nat
    BY ZenonT(30) DEF InfoInv, WatchInv
<1>1. CASE ModuleStart
    BY <1>0, <1>1, SMTT(20) DEF ModuleStart, TimerInv, applied, collected
<1>2. CASE ModuleStop
    BY <1>0, <1>2 DEF ModuleStop, TimerInv, collected
<1>3. CASE Forward
    BY <1>0, <1>3, Zenon DEF Forward, TimerInv, applied, cycle, collected
<1>4. CASE WatchEnds
    BY <1>0, <1>4, ZenonT(30) DEF WatchEnds, TimerInv, applied, cycle, collected
<1>5. CASE ApplyNext
    <2>1. /\ UNCHANGED <<phase, job, timer, period, age>>
          /\ behind' = IF interval' = interval THEN behind ELSE 0
        BY <1>5, ZenonT(30) DEF ApplyNext, cycle, collected
    <2> QED BY <1>0, <2>1, SMTT(20) DEF TimerInv
<1>6. CASE PassTime
    <2>1. /\ phase = "started" /\ UNCHANGED <<phase, interval, period>>
          /\ \/ age' = age
             \/ age' = age + 1
          /\ \/ behind' = behind
             \/ behind' = behind + 1
        BY <1>6, ZenonT(30) DEF PassTime, applied
    <2>2. CASE job = "waiting"
        <3>1. timer' = timer - 1 /\ job' = (IF timer = 1 THEN "run" ELSE job)
            BY <1>6, <2>2, Zenon DEF PassTime
        <3>2. PICK t \in Nat, q \in Nat, a \in Nat, b \in Nat :
                 timer = t /\ period = q /\ age = a /\ behind = b
            BY <1>0, <2>2, Zenon DEF TimerInv
        <3>3. t > 0 /\ a + t <= q /\ (q # interval => b + t <= q)
            BY <1>0, <2>2, <3>2, Zenon DEF TimerInv
        <3>4. timer' \in Nat /\ age' \in Nat /\ behind' \in Nat /\ age' + timer' <= q
            BY <2>1, <3>1, <3>2, <3>3, SMTT(20)
        <3>5. q # interval => behind' + timer' <= q
            BY <2>1, <3>1, <3>2, <3>3, SMTT(20)
        <3>6. (t = 1 => age' <= q) /\ (t # 1 => timer' > 0)
            BY <2>1, <3>1, <3>2, <3>3, SMTT(20)
        <3> QED BY <1>0, <2>1, <2>2, <3>1, <3>2, <3>4, <3>5, <3>6, ZenonT(30) DEF TimerInv
    <2>3. CASE job = "ended"
        <3>1. UNCHANGED <<timer, job>>
            BY <1>6, <2>3, SMTT(20) DEF PassTime
        <3> QED BY <1>0, <2>1, <2>3, <3>1, SMTT(20) DEF TimerInv
    <2> QED BY <1>6, <2>2, <2>3, SMTT(20) DEF PassTime
<1>7. CASE Rearm
    <2>1. /\ job = "rearm" /\ UNCHANGED <<phase, interval, age>> /\ behind' \in {0, behind}
          /\ \/ job' = "ended" /\ UNCHANGED <<timer, period>>
             \/ interval # 0 /\ job' = "waiting" /\ timer' = interval /\ period' = interval
        BY <1>7, ZenonT(30) DEF Rearm, applied, collected, Every
    <2> QED BY <1>0, <2>1, SMTT(20) DEF TimerInv
<1>8. ASSUME NEW err \in BOOLEAN, CollectAndReport(err) PROVE TimerInv'
    BY <1>0, <1>8, ZenonT(30) DEF CollectAndReport, TimerInv, applied
<1>9. ASSUME NEW answers \in BOOLEAN, NEW watches \in BOOLEAN, ModuleInit(answers, watches)
      PROVE  TimerInv'
    <2>1. /\ phase = "new" /\ phase' = "inited" /\ UNCHANGED <<job, timer, period, age, behind>>
        BY <1>9, Zenon DEF ModuleInit, cycle, collected
    <2> QED BY <1>0, <2>1, ZenonT(30) DEF TimerInv
<1>10. ASSUME NEW doc \in PolicyDocs, NewPolicy(doc) PROVE TimerInv'
    BY <1>0, <1>10, Zenon DEF NewPolicy, TimerInv, applied, cycle, collected
<1> QED BY <1>1, <1>2, <1>3, <1>4, <1>5, <1>6, <1>7, <1>8, <1>9, <1>10, ZenonT(30) DEF InfoNext

\* The interval of the policy governs the module: it is in force once the watch
\* has caught up, within the timer that was running then, and an inventory
\* collected when due is not called stale for it.
THEOREM PolicyAlwaysGoverns == InfoSpec => []PolicyGoverns
<1>1. InfoInit => InfoInv
    <2> SUFFICES ASSUME InfoInit PROVE InfoInv
        BY SMTT(20)
    <2>1. WatchInv
        BY InfoAssumption, SMTT(20) DEF InfoInit, WatchInv, PolicyDocs
    <2>2. TimerInv
        BY DEF InfoInit, TimerInv
    <2> QED BY <2>1, <2>2, Zenon DEF InfoInv
<1>2. InfoInv /\ [InfoNext]_infoVars => InfoInv'
    <2> SUFFICES ASSUME InfoInv, [InfoNext]_infoVars PROVE InfoInv'
        BY Zenon
    <2>1. CASE InfoNext
        BY <2>1, WatchKept, TimerKept, Zenon DEF InfoInv
    <2>2. CASE UNCHANGED infoVars
        BY <2>2, ZenonT(30) DEF infoVars, applied, feed, cycle, collected, InfoInv, WatchInv,
           TimerInv
    <2> QED BY <2>1, <2>2, Zenon
<1>3. InfoInv => PolicyGoverns
    <2> SUFFICES ASSUME InfoInv PROVE PolicyGoverns
        OBVIOUS
    <2>1. onWay = << >> /\ delivered = policy /\ policy \in Intervals \ {0} => interval = policy
        BY Zenon DEF InfoInv, WatchInv
    <2>2. interval \in Nat /\ timer \in Nat /\ period \in Nat /\ behind \in Nat
        BY Zenon DEF InfoInv, WatchInv, TimerInv
    <2>3. job = "waiting" /\ period # interval => behind < period
        BY <2>2, SMTT(20) DEF InfoInv, TimerInv
    <2>4. Stale => interval < period \/ job \in {"ended", "none"}
        BY <2>2 DEF InfoInv, TimerInv, Stale
    <2> QED BY <2>1, <2>3, <2>4, Zenon DEF PolicyGoverns
<1> QED BY <1>1, <1>2, <1>3, PTL DEF InfoSpec

=============================================================================
