------------------------------ MODULE Identity ------------------------------
(* Device identity: internal/identity/identity.go, the device key and the  *)
(* enrolment handshake, against a GateWeave that assigns device ids and    *)
(* signs its assignments, and answers that are not meant for this device.  *)
(* The state record is a place of the store; Services.tla *)
(* connects the two.                                                       *)
EXTENDS Naturals, FiniteSets

CONSTANTS
    Configs,        \* [url : {"none", "http", "https"}, pinned, insecure : BOOLEAN]
    NoDevice

VARIABLES
    config,         \* core's options
    priv,           \* the device key
    device,         \* deviceID, or NoDevice: ephemeral
    enrol,          \* "off", "loaded", "post", "verify" or "done"
    offer,          \* the enrolment response: an id, and the id the pinned key signed
    \* GateWeave
    challenged,     \* device keys with an outstanding challenge
    assigned,       \* <<device key, device id>> pairs
    \* history
    keysMade,
    confirmed       \* the device id an Enroll that returned no error left

provider == <<priv, device>>
enrolment == <<enrol, offer>>
registry == <<challenged, assigned>>
identityVars == <<config, provider, enrolment, registry, keysMade, confirmed>>

NoOffer == [device |-> NoDevice, signed |-> NoDevice]

\* An id GateWeave assigned to another device.
Elsewhere == 0

IdentityInit ==
    /\ config \in Configs
    /\ priv = 0 /\ device = NoDevice
    /\ enrol = "off" /\ offer = NoOffer
    /\ challenged = {} /\ assigned = {}
    /\ keysMade = 0 /\ confirmed = NoDevice

\* What saveLocked writes.
enrolmentState(k, d) == [key |-> k, device |-> d]

\* Enroll's early return.
EnrollNeeded == device = NoDevice /\ config.url # "none"

checkEnrolTransport ==
    /\ config.url = "https" \/ config.insecure
    /\ config.pinned \/ config.insecure

EnrollSkips ==
    /\ enrol = "loaded"
    /\ ~EnrollNeeded \/ ~checkEnrolTransport
    /\ enrol' = "done"
    /\ UNCHANGED <<config, provider, offer, registry, keysMade, confirmed>>

\* 1. GateWeave remembers a nonce for this key.
FetchChallenge ==
    /\ enrol = "loaded"
    /\ EnrollNeeded /\ checkEnrolTransport
    /\ challenged' = challenged \cup {priv}
    /\ enrol' = "post"
    /\ UNCHANGED <<config, provider, offer, assigned, keysMade, confirmed>>

\* 2. GateWeave checks the signed nonce, forgets it, and assigns a new device id.
PostEnrolment ==
    /\ enrol = "post"
    /\ priv \in challenged
    /\ challenged' = challenged \ {priv}
    /\ LET id == 1 + Cardinality(assigned) IN
        /\ assigned' = assigned \cup {<<priv, id>>}
        /\ offer' = [device |-> id, signed |-> id]
    /\ enrol' = "verify"
    /\ UNCHANGED <<config, provider, keysMade, confirmed>>

\* The answer is not this device's: its id is another device's or nobody's, and it comes with
\* the assignment GateWeave signed for another device or with none of its.
OtherAnswers ==
    /\ enrol = "post"
    /\ \E d \in {Elsewhere, 1 + Cardinality(assigned)}, s \in {Elsewhere, NoDevice} :
        offer' = [device |-> d, signed |-> s]
    /\ enrol' = "verify"
    /\ UNCHANGED <<config, provider, registry, keysMade, confirmed>>

\* A request or its answer is lost, or answered with an error status.
EnrollLost ==
    /\ enrol \in {"loaded", "post", "verify"}
    /\ enrol = "loaded" => EnrollNeeded /\ checkEnrolTransport
    /\ enrol' = "done"
    /\ offer' = NoOffer
    /\ UNCHANGED <<config, provider, registry, keysMade, confirmed>>

\* 3. The pinned key signed exactly this id (the assignment does not name the device key);
\* without a pinned key only dev builds go on.
verifyAssignment(o) == IF config.pinned THEN o.signed = o.device ELSE config.insecure

AssignmentRefused ==
    /\ enrol = "verify"
    /\ ~verifyAssignment(offer)
    /\ enrol' = "done"
    /\ offer' = NoOffer
    /\ UNCHANGED <<config, provider, registry, keysMade, confirmed>>

\* The id is taken into memory before the save that may fail.
Assign(saved) ==
    /\ enrol = "verify"
    /\ verifyAssignment(offer)
    /\ device' = offer.device
    /\ confirmed' = IF saved THEN offer.device ELSE confirmed
    /\ enrol' = "done"
    /\ offer' = NoOffer
    /\ UNCHANGED <<config, priv, registry, keysMade>>

\* GateWeave has signed an assignment of this id.
Issued(d) == d = Elsewhere \/ \E a \in assigned : a[2] = d

\* WhoAmI
WhoAmI == [device |-> device, ephemeral |-> device = NoDevice]

\* Core dies.
IdentityCrash ==
    /\ priv' = 0 /\ device' = NoDevice
    /\ enrol' = "off" /\ offer' = NoOffer
    /\ UNCHANGED <<config, registry, keysMade, confirmed>>
=============================================================================
