------------------------------ MODULE Services ------------------------------
(* Core's stateful services in one process, as core.Run wires them: the    *)
(* encrypted store, policy delivery and device identity on top of it, and  *)
(* the store RPCs of the modules.  Core may die at any step; weaveboot     *)
(* starts it again and it finds its files and GateWeave as they are.       *)
EXTENDS Store, Policy, Identity

CONSTANTS
    PolicyPlace, IdentityPlace,     \* core.policy/document and core.identity/state
    Place(_),                       \* a module's key in its own namespace
    Garbage,                        \* a value an earlier release wrote, no longer decodable
    Values,                         \* what modules store
    MaxFailures                       \* bound: crashes, failed writes and failed requests

\* What the store is given to seal, and what it keeps.
Documents == [revision : Nat, modules : [Modules -> Contents \cup {Nothing}]]
DeviceStates == [key : Nat, device : Nat \cup {NoDevice}]
Records == [under : Nat, bound : Places,
            value : Values \cup {Garbage} \cup Documents \cup DeviceStates]

\* A module id has no dot (manifest.go:75), so it is not one of core's own namespaces, and
\* two modules have two ids.
ASSUME ServicesConstants ==
    /\ {PolicyPlace, IdentityPlace} \cup {Place(m) : m \in Modules} = Places
    /\ PolicyPlace # IdentityPlace
    /\ \A m \in Modules : Place(m) \notin {PolicyPlace, IdentityPlace}
    /\ \A m, n \in Modules : Place(m) = Place(n) => m = n
    /\ Governed \subseteq Modules
    /\ {MaxFailures, MaxRevision} \subseteq Nat
    /\ NoDevice \notin Nat /\ Absent \notin Nat
    /\ Absent \notin Records /\ Garbage \notin DeviceStates

VARIABLES
    core,       \* core.Run: "down", "keyed", "open", "loaded" or "running"
    wrote,      \* history: what each module's last acknowledged call left in the store
    failures

servicesVars == <<store, policyVars, identityVars, core, wrote, failures>>

\* A first start, or a start over files an earlier release left.
ServicesInit ==
    /\ PolicyInit /\ IdentityInit
    /\ core = "down" /\ master = Absent
    /\ wrote = [m \in Modules |-> Absent]
    /\ failures = 0
    /\ \/ /\ db = [p \in Places |-> Absent]
          /\ keyFile = Absent /\ made = 0
       \/ /\ db = [p \in Places |-> IF p \in {PolicyPlace, IdentityPlace}
                                    THEN [under |-> 1, bound |-> p, value |-> Garbage]
                                    ELSE Absent]
          /\ keyFile = 1 /\ made = 1

Failure ==
    /\ failures < MaxFailures
    /\ failures' = failures + 1

----------------------------------------------------------------------------
(* core.Run, in order *)

OpenStore ==
    /\ core = "down"
    /\ \/ LoadKey /\ core' = "open"
       \/ CreateKey /\ core' = "keyed"
    /\ UNCHANGED <<policyVars, identityVars, wrote, failures>>

StoreOpens ==
    /\ core = "keyed"
    /\ RenameKey
    /\ core' = "open"
    /\ UNCHANGED <<policyVars, identityVars, wrote, failures>>

\* The value is there and decodes.
Usable(place) == Found(place) /\ Value(place) # Garbage

\* policyMgr.Load, then go policyMgr.Run.
LoadPolicy ==
    /\ core = "open"
    /\ core' = "loaded"
    /\ poll' = IF config.url = "none" THEN "off" ELSE "wait"
    /\ \/ /\ Usable(PolicyPlace)
          /\ Install(Value(PolicyPlace))
       \/ /\ ~Usable(PolicyPlace)
          /\ UNCHANGED <<revision, docs, wake>>
    /\ UNCHANGED <<store, server, fetched, streams, watch, identityVars, wrote, failures>>

\* ident.Init finds its state.
LoadIdentity ==
    /\ core = "loaded" /\ enrol = "off"
    /\ Usable(IdentityPlace)
    /\ priv' = Value(IdentityPlace).key
    /\ device' = Value(IdentityPlace).device
    /\ enrol' = "loaded"
    /\ UNCHANGED <<store, policyVars, config, offer, registry, keysMade, confirmed, core, wrote, failures>>

SaveNewKey_Later(k) == UNCHANGED store

\* saveLocked before anything is done with the key.
SaveNewKey(k) == Put(IdentityPlace, enrolmentState(k, NoDevice))

\* ident.Init finds none, or an undecodable one: a new key, saved.
CreateIdentity ==
    /\ core = "loaded" /\ enrol = "off"
    /\ ~Usable(IdentityPlace) /\ ~Unreadable(IdentityPlace)
    /\ keysMade' = keysMade + 1
    /\ priv' = keysMade'
    /\ device' = NoDevice
    /\ SaveNewKey(keysMade')
    /\ enrol' = "loaded"
    /\ UNCHANGED <<policyVars, config, offer, registry, confirmed, core, wrote, failures>>

\* Enroll runs before core goes on; its failure is not fatal.
Enroll ==
    /\ core = "loaded"
    /\ \/ EnrollSkips /\ UNCHANGED <<store, failures>>
       \/ FetchChallenge /\ UNCHANGED <<store, failures>>
       \/ PostEnrolment /\ UNCHANGED <<store, failures>>
       \/ AssignmentRefused /\ UNCHANGED <<store, failures>>
       \/ OtherAnswers /\ Failure /\ UNCHANGED store
       \/ EnrollLost /\ Failure /\ UNCHANGED store
       \/ Assign(FALSE) /\ Failure /\ UNCHANGED store
    /\ UNCHANGED <<policyVars, core, wrote>>

\* saveLocked after the assignment.
SavedAssignment == enrolmentState(priv, offer.device)

EnrollSaves ==
    /\ core = "loaded"
    /\ Assign(TRUE)
    /\ Put(IdentityPlace, SavedAssignment)
    /\ UNCHANGED <<policyVars, core, wrote, failures>>

\* The rest of the start: the services are up and modules are launched.
Start ==
    /\ core = "loaded" /\ enrol = "done"
    /\ core' = "running"
    /\ UNCHANGED <<store, policyVars, identityVars, wrote, failures>>

----------------------------------------------------------------------------
(* The policy loop and the modules *)

PollPolicy ==
    /\ PolicyStep
    /\ UNCHANGED <<store, identityVars, core, wrote, failures>>

CachePolicy ==
    /\ Cached
    /\ \/ Put(PolicyPlace, fetched) /\ UNCHANGED failures
       \/ Failure /\ UNCHANGED store
    /\ UNCHANGED <<identityVars, core, wrote>>

WatchPolicy(m) ==
    /\ core = "running"
    /\ StreamStep(m)
    /\ UNCHANGED <<store, identityVars, core, wrote, failures>>

\* A module opens its stream, or goes away.
ModuleComes(m) ==
    /\ core = "running"
    /\ m \in Governed /\ (Open(m) \/ Close(m))
    /\ UNCHANGED <<store, identityVars, core, wrote, failures>>

\* storeServer binds every call to its module's namespace.
ModulePlace(m) == Place(m)

ModulePuts(m) ==
    /\ core = "running"
    /\ \E v \in Values :
        /\ Put(ModulePlace(m), v)
        /\ wrote' = [wrote EXCEPT ![m] = v]
    /\ UNCHANGED <<policyVars, identityVars, core, failures>>

ModuleDeletes(m) ==
    /\ core = "running"
    /\ ModulePlace(m) \in List({ModulePlace(m)})
    /\ Delete(ModulePlace(m))
    /\ wrote' = [wrote EXCEPT ![m] = Absent]
    /\ UNCHANGED <<policyVars, identityVars, core, failures>>

CoreCrash ==
    /\ core # "down"
    /\ Failure
    /\ core' = "down"
    /\ master' = Absent
    /\ PolicyCrash
    /\ IdentityCrash
    /\ UNCHANGED <<db, keyFile, made, wrote>>

----------------------------------------------------------------------------

Starting ==
    \/ OpenStore \/ StoreOpens \/ LoadPolicy
    \/ LoadIdentity \/ CreateIdentity \/ Enroll \/ EnrollSaves \/ Start

ServicesNext ==
    \/ Starting \/ PollPolicy \/ CachePolicy \/ CoreCrash
    \/ Publish /\ UNCHANGED <<store, identityVars, core, wrote, failures>>
    \/ \E m \in Modules : WatchPolicy(m) \/ ModuleComes(m) \/ ModulePuts(m) \/ ModuleDeletes(m)

ServicesSpec == ServicesInit /\ [][ServicesNext]_servicesVars

\* weaveboot restarts core, the start and the poll loop go on, and so does every stream handler.
FairServices ==
    /\ ServicesSpec
    /\ WF_servicesVars(Starting) /\ WF_servicesVars(PollPolicy \/ CachePolicy)
    /\ \A m \in Modules : WF_servicesVars(WatchPolicy(m))

----------------------------------------------------------------------------

\* Whatever a crash interrupts, every sealed record opens, at its own place, with the master key
\* the next start will load (store.go:88: a lost key "renders the entire store permanently
\* undecryptable"), and what an acknowledged Put or Delete of a module left is what its next Get
\* finds, whatever other modules store (hostserv.go:190).
StoreKeeps ==
    /\ \A p \in Places : db[p] # Absent => db[p].under = keyFile /\ db[p].bound = p
    /\ \A m \in Modules :
        \/ wrote[m] = Absent /\ db[Place(m)] = Absent
        \/ db[Place(m)] # Absent /\ db[Place(m)].value = wrote[m]

\* The device's identity is lasting and comes from GateWeave. A key GateWeave has bound to a device id is the
\* key every later start finds, even when the answer was lost or core died before saving it
\* (identity.go:98); once Enroll has returned without an error the id is kept through every
\* restart (identity.go:218); and a release build answers WhoAmI only with an id the pinned
\* GateWeave has signed - whatever was answered in its stead, and not necessarily for this
\* key, which the signed assignment does not name (identity.go:243).
IdentityKept ==
    /\ \A a \in assigned :
        db[IdentityPlace] # Absent /\ Value(IdentityPlace) # Garbage /\ Value(IdentityPlace).key = a[1]
    /\ confirmed # NoDevice => Value(IdentityPlace).device = confirmed
    /\ ~config.insecure /\ ~WhoAmI.ephemeral => Issued(WhoAmI.device)

\* The document and revision a module received are a pair GateWeave served for that module,
\* through restores, the cache and restarts (policy.go:133).
ViewIsPublished ==
    \A m \in Modules : view[m] # <<>> =>
        <<view[m][1], m, view[m][2]>> \in published \cup {<<0, m, Nothing>>}

UpToDate(m) == view[m] # <<>> /\ view[m][2] = gateweave.modules[m]

\* A module's stream catches up with GateWeave although changes race the watcher's registration,
\* its Get and its wakeup; the exception is a document GateWeave serves under the very revision
\* the agent holds (hostserv.go:245, policy.go:140).
StreamCatchesUp ==
    \A m \in Modules :
        stream[m] # "closed" ~>
            \/ UpToDate(m) \/ stream[m] = "closed"
            \/ gateweave.revision = revision /\ gateweave.modules # docs
            \/ config.url = "none"

=============================================================================
