----------------------------- MODULE Hypervisor -----------------------------
(* The hypervisor channel: the guest end (internal/transport/hypervisor.go *)
(* and hypervisor_auth.go) with its single read loop, the challenge and    *)
(* response of sdk/hvchannel that gates it in both directions, and the     *)
(* flush of queued messages.  The host end is outside the repository: it   *)
(* uses Sign, branches on AuthResult.OK and retries a handshake.  The wire *)
(* is a device that outlives core: what was in it when core died is read   *)
(* by the next core.  A signature is the pair of key and nonce it covers.  *)
EXTENDS Naturals, Sequences

CONSTANTS
    Keys,       \* key pairs of VMs
    VMKey,      \* the pair of this VM; its private half is in the VM's directory
    InCap,      \* frames the device holds towards the guest
    OutCap,     \* frames the device holds towards the host
    MaxNonces,  \* names for nonces; one that nothing mentions any more names a new nonce
    MaxFaults,  \* bound: crashes of core, garbled frames and host timeouts in one behaviour
    MaxStored   \* bound: messages in the offline queue for this peer

NoNonce == 0
NoKey == "nokey"

ASSUME HypervisorConstants ==
    /\ VMKey \in Keys /\ NoKey \notin Keys
    /\ {InCap, OutCap} \subseteq Nat \ {0}
    /\ {MaxNonces, MaxFaults, MaxStored} \subseteq Nat

VARIABLES
    in, out,    \* the wire
    \* channelAuth
    trusted, nonce, ok,
    \* HypervisorPeer
    loop,       \* the read loop: "read", "reply", or "ended"
    reply,      \* the control frame the read loop is writing
    sender,     \* a goroutine in Mux.Send or Flush: "idle", "write" or "flush"
    stored,     \* messages queued for this peer
    \* the host
    hostKey,
    belief,     \* "out", "began", "challenged", "signed" or "in"
    challenge,  \* the nonce last received
    \* history
    issued,     \* nonces issued on this connection
    openedBy,   \* the responses that opened this connection, with whether it had issued their nonce
    checks,     \* how often a response was checked against each nonce
    faults

wire == <<in, out>>
auth == <<nonce, ok>>
host == <<belief, challenge>>
keyring == <<trusted, hostKey>>
history == <<issued, openedBy, checks>>
vars == <<wire, auth, loop, reply, sender, stored, host, keyring, history, faults>>

Frame(kind) == [kind |-> kind]
Challenge(n) == [kind |-> "challenge", nonce |-> n]
Response(k, n) == [kind |-> "response", key |-> k, nonce |-> n]
Result(b) == [kind |-> "result", ok |-> b]

\* A new connection: unauthenticated, no outstanding challenge.  newChannelAuth loads the key
\* the image was built with, or none.
Init ==
    /\ in = << >> /\ out = << >>
    /\ trusted \in {VMKey, NoKey}
    /\ hostKey \in Keys
    /\ nonce = NoNonce /\ ok = FALSE
    /\ loop = "read" /\ reply = << >>
    /\ sender = "flush" /\ stored \in 0..MaxStored
    /\ belief = "out" /\ challenge = NoNonce
    /\ issued = {} /\ openedBy = {}
    /\ checks = [n \in 1..MaxNonces |-> 0]
    /\ faults = 0

Fault ==
    /\ faults < MaxFaults
    /\ faults' = faults + 1

----------------------------------------------------------------------------
(* channelAuth *)

\* allows: the hello of a module crosses an unauthenticated channel, nothing else does.
Allows(kind) == kind = "hello" \/ ok

Verify_AnyNonce(resp) == trusted = resp.key

\* hvchannel.Verify: a key is configured, a challenge is outstanding, the response offers the
\* trusted key and signs that challenge.
Verify(resp) ==
    /\ trusted # NoKey
    /\ nonce # NoNonce
    /\ resp.key = trusted
    /\ resp.nonce = nonce

\* The nonce is consumed whatever the outcome.
Consumed(resp) == NoNonce

----------------------------------------------------------------------------
(* readLoop *)

ReadFrame(kind) ==
    /\ loop = "read"
    /\ in # << >>
    /\ Head(in).kind = kind
    /\ in' = Tail(in)

Answer(f) ==
    /\ reply' = <<f>>
    /\ loop' = "reply"

Silent == UNCHANGED <<reply, loop>>

\* A nonce is never repeated: names that no frame and no end mentions.
Unused ==
    {n \in 1..MaxNonces :
        /\ n \notin {nonce, challenge}
        /\ \A i \in 1..Len(in) : in[i].kind = "response" => in[i].nonce # n
        /\ \A i \in 1..Len(out) : out[i].kind = "challenge" => out[i].nonce # n}

\* handle, auth.begin: a new nonce replaces the outstanding one.
HandleBegin ==
    /\ ReadFrame("begin")
    /\ \E n \in Unused :
        /\ \A m \in Unused : n <= m
        /\ nonce' = n
        /\ issued' = (issued \ Unused) \cup {n}
        /\ checks' = [checks EXCEPT ![n] = 0]
        /\ Answer(Challenge(n))
    /\ UNCHANGED <<out, ok, sender, stored, host, keyring, openedBy, faults>>

\* No randomness for a challenge.
HandleBeginFails ==
    /\ ReadFrame("begin")
    /\ Fault
    /\ Answer(Result(FALSE))
    /\ UNCHANGED <<out, auth, sender, stored, host, keyring, history>>

\* handle, auth.response.
HandleResponse ==
    /\ ReadFrame("response")
    /\ LET resp == Head(in) IN
        /\ nonce' = Consumed(resp)
        /\ checks' = [n \in 1..MaxNonces |-> checks[n] + (IF n = nonce THEN 1 ELSE 0)]
        /\ \/ /\ Verify(resp)
              /\ ok' = TRUE
              /\ openedBy' = openedBy \cup {<<resp.key, resp.nonce \in issued>>}
              /\ Answer(Result(TRUE))
           \/ /\ ~Verify(resp)
              /\ Answer(Result(FALSE))
              /\ UNCHANGED <<ok, openedBy>>
    /\ UNCHANGED <<out, sender, stored, host, keyring, issued, faults>>

\* A response that does not decode is refused before the nonce is touched.
HandleMalformed ==
    /\ ReadFrame("malformed")
    /\ Answer(Result(FALSE))
    /\ UNCHANGED <<out, auth, sender, stored, host, keyring, history, faults>>

\* A control frame of another kind is logged; an undecodable frame costs one message.
Ignore ==
    /\ ReadFrame("strange") \/ ReadFrame("garbled")
    /\ Silent
    /\ UNCHANGED <<out, auth, sender, stored, host, keyring, history, faults>>

\* A module frame is delivered.
Deliver ==
    /\ ReadFrame("op") \/ ReadFrame("hello")
    /\ Allows(Head(in).kind)
    /\ Silent
    /\ UNCHANGED <<out, auth, sender, stored, host, keyring, history, faults>>

Refusal_Silent == Silent

\* "Say so rather than dropping in silence."
Refusal == Answer(Result(FALSE))

Refuse ==
    /\ ReadFrame("op") \/ ReadFrame("hello")
    /\ ~Allows(Head(in).kind)
    /\ Refusal
    /\ UNCHANGED <<out, auth, sender, stored, host, keyring, history, faults>>

\* A truncated or oversized frame, or the end of the stream, ends the loop for good.
StreamFails ==
    /\ ReadFrame("broken")
    /\ loop' = "ended"
    /\ UNCHANGED <<out, auth, reply, sender, stored, host, keyring, history, faults>>

\* p.send: one whole frame under wmu; the write blocks while the device is full.
WriteFrame(f) ==
    /\ Len(out) < OutCap
    /\ out' = Append(out, f)

Reply ==
    /\ loop = "reply"
    /\ WriteFrame(reply[1])
    /\ reply' = << >>
    /\ loop' = "read"
    /\ UNCHANGED <<in, auth, sender, stored, host, keyring, history, faults>>

----------------------------------------------------------------------------
(* HypervisorPeer.Send, called by Mux.Send and flush; the connection is closed when the loop ends *)

\* A module sends a queue_offline message: the gate lets it through, or it is queued.
ModuleSend ==
    /\ sender = "idle"
    /\ \/ /\ Allows("op") /\ loop # "ended"
          /\ sender' = "write"
          /\ UNCHANGED stored
       \/ /\ ~Allows("op") \/ loop = "ended"
          /\ stored < MaxStored
          /\ stored' = stored + 1
          /\ UNCHANGED sender
    /\ UNCHANGED <<wire, auth, loop, reply, host, keyring, history, faults>>

\* The frame is written and the queue is flushed behind it.
SenderWrites ==
    /\ sender = "write"
    /\ loop # "ended"
    /\ WriteFrame(Frame("op"))
    /\ sender' = "flush"
    /\ UNCHANGED <<in, auth, loop, reply, stored, host, keyring, history, faults>>

FlushOne ==
    /\ sender = "flush"
    /\ stored > 0 /\ Allows("op") /\ loop # "ended"
    /\ WriteFrame(Frame("op"))
    /\ stored' = stored - 1
    /\ UNCHANGED <<in, auth, loop, reply, sender, host, keyring, history, faults>>

\* Nothing left, or the first refused message ends the flush.
FlushEnds ==
    /\ \/ sender = "flush" /\ (stored = 0 \/ ~Allows("op") \/ loop = "ended")
       \/ sender = "write" /\ loop = "ended"
    /\ sender' = "idle"
    /\ UNCHANGED <<wire, auth, loop, reply, stored, host, keyring, history, faults>>

----------------------------------------------------------------------------

\* Core dies and its successor opens the device: ConnectHypervisor, whose flush comes first.
Reconnect ==
    /\ Fault
    /\ nonce' = NoNonce /\ ok' = FALSE
    /\ loop' = "read" /\ reply' = << >>
    /\ sender' = "flush"
    /\ issued' = {} /\ openedBy' = {}
    /\ UNCHANGED <<wire, stored, host, keyring, checks>>

----------------------------------------------------------------------------
(* The host *)

HostWrites(f) ==
    /\ Len(in) < InCap
    /\ in' = Append(in, f)

\* No frame of a handshake is on its way in either direction.
Quiet ==
    /\ loop # "reply"
    /\ \A i \in 1..Len(in) : in[i].kind \notin {"begin", "response"}
    /\ \A i \in 1..Len(out) : out[i].kind \notin {"challenge", "result"}

\* The host pauses before a handshake until the wire is quiet; an impatient one does not.
HostBegins ==
    /\ belief = "out"
    /\ IF Quiet THEN UNCHANGED faults ELSE Fault
    /\ HostWrites(Frame("begin"))
    /\ belief' = "began"
    /\ UNCHANGED <<out, auth, loop, reply, sender, stored, challenge, keyring, history>>

HostSigns ==
    /\ belief = "challenged"
    /\ HostWrites(Response(hostKey, challenge))
    /\ belief' = "signed"
    /\ UNCHANGED <<out, auth, loop, reply, sender, stored, challenge, keyring, history, faults>>

\* Control replies name no request: the host waits for the reply its step calls for and skips
\* the others.
HostReads ==
    /\ out # << >>
    /\ out' = Tail(out)
    /\ LET f == Head(out) IN
        /\ belief' =
            IF f.kind = "challenge" /\ belief = "began" THEN "challenged"
            ELSE IF f.kind = "result" /\ belief \in {"signed", "in"}
            THEN IF f.ok THEN "in" ELSE "out"
            ELSE belief
        /\ challenge' = IF belief' = "challenged" /\ belief = "began" THEN f.nonce ELSE challenge
    /\ UNCHANGED <<in, auth, loop, reply, sender, stored, keyring, history, faults>>

\* An operation, once the host believes it is in; hello at any time.
HostAsks ==
    /\ \/ belief = "in" /\ HostWrites(Frame("op"))
       \/ HostWrites(Frame("hello"))
    /\ UNCHANGED <<out, auth, loop, reply, sender, stored, host, keyring, history, faults>>

\* The host loses track of a handshake and starts over: its frames are lost, or late.
HostTimesOut ==
    /\ belief \in {"began", "signed"}
    /\ IF Quiet THEN UNCHANGED faults ELSE Fault
    /\ belief' = "out"
    /\ UNCHANGED <<wire, auth, loop, reply, sender, stored, challenge, keyring, history>>

\* A malformed response, an unknown control kind, an undecodable or a broken frame; or a response again.
Noise ==
    /\ Fault
    /\ \/ \E kind \in {"malformed", "strange", "garbled", "broken"} : HostWrites(Frame(kind))
       \/ challenge # NoNonce /\ HostWrites(Response(hostKey, challenge))
    /\ UNCHANGED <<out, auth, loop, reply, sender, stored, host, keyring, history>>

Loop ==
    \/ HandleBegin \/ HandleBeginFails \/ HandleResponse \/ HandleMalformed \/ Ignore
    \/ Deliver \/ Refuse \/ StreamFails \/ Reply

Sender == SenderWrites \/ FlushOne \/ FlushEnds

Next ==
    \/ Loop \/ Sender \/ ModuleSend \/ Reconnect
    \/ HostBegins \/ HostSigns \/ HostReads \/ HostAsks \/ HostTimesOut \/ Noise

Spec == Init /\ [][Next]_vars

\* The guest's goroutines run; the host reads, is not kept from a handshake by its own hellos
\* and, believing itself in, goes on asking.  Nothing obliges a module to send.
Fairness ==
    /\ WF_vars(Loop) /\ WF_vars(Sender)
    /\ SF_vars(HostBegins /\ Quiet) /\ SF_vars(HostSigns) /\ WF_vars(HostReads)
    /\ WF_vars(HostTimesOut /\ Quiet)
    /\ SF_vars(HostAsks /\ in' = Append(in, Frame("op")))

FairSpec == Spec /\ Fairness

----------------------------------------------------------------------------

Frames ==
    [kind : {"begin", "hello", "op", "malformed", "strange", "garbled", "broken"}]
        \cup [kind : {"response"}, key : Keys, nonce : 0..MaxNonces]
        \cup [kind : {"challenge"}, nonce : 1..MaxNonces]
        \cup [kind : {"result"}, ok : BOOLEAN]

\* The type invariant; a reply is pending exactly when the loop is about to write one.
TypeOK ==
    /\ in \in Seq(Frames) /\ Len(in) <= InCap
    /\ out \in Seq(Frames) /\ Len(out) <= OutCap
    /\ trusted \in {VMKey, NoKey} /\ hostKey \in Keys
    /\ nonce \in 0..MaxNonces /\ ok \in BOOLEAN
    /\ loop \in {"read", "reply", "ended"}
    /\ reply \in Seq(Frames) /\ (loop = "reply" <=> Len(reply) = 1)
    /\ sender \in {"idle", "write", "flush"} /\ stored \in 0..MaxStored
    /\ belief \in {"out", "began", "challenged", "signed", "in"}
    /\ challenge \in 0..MaxNonces
    /\ issued \subseteq 1..MaxNonces
    /\ openedBy \subseteq Keys \X BOOLEAN
    /\ checks \in [1..MaxNonces -> Nat]
    /\ faults \in 0..MaxFaults

\* The channel opens only to a holder of this VM's key that signed a challenge issued on this
\* very connection: responses left in the wire by an earlier core, sent twice, or made for a
\* challenge that a later begin replaced, never open it (hypervisor_auth.go:143).
OpenedByThisHandshake ==
    /\ ok => openedBy # {}
    /\ openedBy \subseteq {<<VMKey, TRUE>>}

\* No challenge is ever checked against two responses, failed attempts included
\* (hypervisor_auth.go:136).
NonceSingleUse == \A n \in 1..MaxNonces : checks[n] <= 1

\* A host that holds the trusted key gets in, and gets in again after every restart of core
\* although its own view is stale, because refusals are answered; only the end of the stream
\* stops it (hypervisor.go:133).
HostGetsIn == hostKey = trusted => []<>(ok \/ loop = "ended")

=============================================================================
