------------------------------- MODULE Channel ------------------------------
(* The signed channel: what weavemanifest signs, how fetchChannel accepts  *)
(* a manifest, how Install and InstallLocal get from it to a running       *)
(* module, and the verifier anchored to a channel bundle.  One module id;  *)
(* the health gate and the version tree are module Lifecycle's.            *)
(*                                                                         *)
(* A key stands for its file and its id, a document for its exact bytes.   *)
(* A GET answers with any file ever published under that name, in any mix: *)
(* the four of a bundle are not replaced together, and caches are stale.   *)
EXTENDS Naturals, FiniteSets

CONSTANTS
    Root, Keys,     \* the offline root key, and signing keys
    Docs,           \* channel manifests: [sequence, expires, entry]
    Locals,         \* directories for InstallLocal: [entry, binary]
    Binaries,       \* what a download may yield
    Signings,       \* what may have been signed: sets of weavemanifest calls
    Requests,       \* control-socket requests
    Host,           \* the platform of this host
    Nil,
    MaxNow,         \* bound: time passes this often
    MaxFaults       \* bound: store operations that fail

ASSUME ChannelAssumption ==
    /\ \A doc \in Docs : doc.sequence \in Nat
    /\ Nil \notin Docs \cup Requests
    /\ MaxNow \in Nat /\ MaxFaults \in Nat

VARIABLES
    sigs,           \* the detached signatures there are
    now,
    mark,           \* core.manifest/sequence in the store
    anchor,         \* the document the verifier is anchored to, or Nil
    coreUp,
    installLock,    \* the module's install lock
    place, ch, last, meta, bin,      \* a request's place and locals
    installed,      \* what the install tree names, or Nil
    running,        \* what the supervisor launched, or Nil
    faults,
    \* history
    highest,        \* the highest sequence accepted
    raced,          \* the mark changed between a request's read and its write
    lost            \* a store operation on the mark failed

locals == <<place, ch, last, meta, bin>>
disk == <<mark, installed>>
history == <<highest, raced, lost>>
channelVars == <<sigs, now, anchor, coreUp, installLock, locals, disk, running, faults, history>>

----------------------------------------------------------------------------
(* Signing and verification *)

\* The files: a public key, a manifest.
KeyFile(key) == [pub |-> key]
ManifestFile(doc) == [manifest |-> doc]

\* weavemanifest endorse and sign: they differ in the context signed with.
signFile(key, file, endorse) ==
    [key |-> key, context |-> IF endorse THEN "endorse" ELSE "manifest", of |-> file]

Verify_Context(manifest, sig, pub, pubSig) ==
    /\ pubSig.key = Root /\ pubSig.of = KeyFile(pub)
    /\ sig.key = pub /\ sig.of = ManifestFile(manifest)

\* manifestverify.Verify: the root endorses the key, the key signs the bytes.
Verify(manifest, sig, pub, pubSig) ==
    /\ pubSig.key = Root /\ pubSig.context = "endorse" /\ pubSig.of = KeyFile(pub)
    /\ sig.key = pub /\ sig.context = "manifest" /\ sig.of = ManifestFile(manifest)

\* Some bundle with this manifest verifies.
Verifies(manifest) ==
    \E sig, pubSig \in sigs, pub \in Keys \cup {Root} : Verify(manifest, sig, pub, pubSig)

\* ChannelManifest.Expired; expires = Nil never does.
ManifestExpired(doc) == doc.expires # Nil /\ now > doc.expires

\* Manifest.Validate: what the channel parser did not check already.
Validate(entry) ==
    /\ entry.id # "hvchannel"
    /\ entry.protocol >= 1
    /\ entry.privilege \in {"system", "service", "user"}
    /\ entry.session \in {"system", "per-user-console", "per-user-all"}

\* The verifier NewChannel returns: matchesSignedGrants, then the digest.
Grants(doc, entry, binary) ==
    /\ doc.entry.id = entry.id /\ doc.entry.version = entry.version
    /\ doc.entry.privilege = entry.privilege /\ doc.entry.session = entry.session
    /\ doc.entry.protocol = entry.protocol
    /\ entry.capabilities \subseteq doc.entry.capabilities
    /\ doc.entry.platform = Host /\ doc.entry.digest = binary

\* Without a channel bundle the platform's verifier decides.
MayRun(doc, entry, binary) == doc # Nil => Grants(doc, entry, binary)

----------------------------------------------------------------------------
\* The signatures that are there, whatever calls of weavemanifest made them.
SignedFiles == {{signFile(c[1], c[2], c[3]) : c \in calls} : calls \in Signings}

ChannelInit ==
    /\ sigs \in SignedFiles
    /\ now = 0 /\ mark = 0 /\ anchor = Nil /\ coreUp = FALSE
    /\ installLock = Nil
    /\ place = [r \in Requests |-> "idle"]
    /\ ch = [r \in Requests |-> Nil] /\ last = [r \in Requests |-> 0]
    /\ meta = [r \in Requests |-> Nil] /\ bin = [r \in Requests |-> Nil]
    /\ installed = Nil /\ running = Nil
    /\ faults = 0 /\ highest = 0 /\ raced = FALSE /\ lost = FALSE

Fault == faults < MaxFaults /\ faults' = faults + 1

Goto(r, label) == place' = [place EXCEPT ![r] = label]

TimePasses ==
    /\ now < MaxNow
    /\ now' = now + 1
    /\ UNCHANGED <<sigs, anchor, coreUp, installLock, locals, disk, running, faults, history>>

----------------------------------------------------------------------------
(* fetchChannel *)

\* Four GETs, the chain, and the expiry.
Fetch(r) ==
    /\ coreUp /\ place[r] = "idle"
    /\ \E doc \in Docs : Verifies(doc) /\ ~ManifestExpired(doc) /\ ch' = [ch EXCEPT ![r] = doc]
    /\ Goto(r, "fetched")
    /\ UNCHANGED <<sigs, now, anchor, coreUp, installLock, last, meta, bin, disk, running,
                   faults, history>>

\* The request is answered; its locals are gone.
AnswerRequest(r) ==
    /\ Goto(r, "idle")
    /\ ch' = [ch EXCEPT ![r] = Nil] /\ last' = [last EXCEPT ![r] = 0]
    /\ meta' = [meta EXCEPT ![r] = Nil] /\ bin' = [bin EXCEPT ![r] = Nil]

\* fetchChannel returns the manifest.
AcceptManifest(r) ==
    /\ Goto(r, "accepted")
    /\ last' = [last EXCEPT ![r] = 0]
    /\ highest' = IF ch[r].sequence > highest THEN ch[r].sequence ELSE highest

OlderThan_Never(r, seq) == FALSE

OlderThan(r, seq) == ch[r].sequence < seq

\* lastSequence and the comparison with it, the mark already being as high.
Compare(r) ==
    /\ place[r] = "fetched" /\ ~OlderThan(r, mark) /\ ch[r].sequence <= mark
    /\ AcceptManifest(r)
    /\ UNCHANGED <<sigs, now, anchor, coreUp, installLock, ch, meta, bin, disk, running, faults,
                   raced, lost>>

Refuse(r) ==
    /\ place[r] = "fetched" /\ OlderThan(r, mark)
    /\ AnswerRequest(r)
    /\ UNCHANGED <<sigs, now, anchor, coreUp, installLock, disk, running, faults, history>>

\* A newer one is to be recorded.
Newer(r) ==
    /\ place[r] = "fetched" /\ ch[r].sequence > mark
    /\ last' = [last EXCEPT ![r] = mark]
    /\ Goto(r, "put")
    /\ UNCHANGED <<sigs, now, anchor, coreUp, installLock, ch, meta, bin, disk, running, faults,
                   history>>

\* The read of the mark fails: it counts as zero.
MarkUnread(r) ==
    /\ place[r] = "fetched" /\ Fault
    /\ lost' = TRUE
    /\ \/ ch[r].sequence = 0 /\ AcceptManifest(r)
       \/ /\ ch[r].sequence > 0
          /\ last' = [last EXCEPT ![r] = 0]
          /\ Goto(r, "put")
          /\ UNCHANGED highest
    /\ UNCHANGED <<sigs, now, anchor, coreUp, installLock, ch, meta, bin, disk, running, raced>>

\* SeqStore.Put
RecordedMark(r) == ch[r].sequence

PutMark(r) ==
    /\ place[r] = "put"
    /\ mark' = RecordedMark(r)
    /\ raced' = (raced \/ mark # last[r])
    /\ AcceptManifest(r)
    /\ UNCHANGED <<sigs, now, anchor, coreUp, installLock, ch, meta, bin, installed, running,
                   faults, lost>>

\* The write fails: a warning, and the manifest is used all the same.
PutFails(r) ==
    /\ place[r] = "put" /\ Fault
    /\ lost' = TRUE
    /\ AcceptManifest(r)
    /\ UNCHANGED <<sigs, now, anchor, coreUp, installLock, ch, meta, bin, disk, running, raced>>

----------------------------------------------------------------------------
(* Install, InstallLocal *)

\* The entry for this host, under the module's lock.
Lock(r) ==
    /\ place[r] = "accepted" /\ installLock = Nil /\ ch[r].entry.platform = Host
    /\ installLock' = r
    /\ meta' = [meta EXCEPT ![r] = ch[r].entry]
    /\ Goto(r, "download")
    /\ UNCHANGED <<sigs, now, anchor, coreUp, ch, last, bin, disk, running, faults, history>>

\* The channel does not have the module, the version or the platform.
NotInChannel(r) ==
    /\ place[r] = "accepted"
    /\ AnswerRequest(r)
    /\ UNCHANGED <<sigs, now, anchor, coreUp, installLock, disk, running, faults, history>>

DigestMatches(r, binary) == binary = meta[r].digest

\* download: what came has the digest the manifest gives.
Download(r) ==
    /\ place[r] = "download" /\ Validate(meta[r])
    /\ \E b \in Binaries : DigestMatches(r, b) /\ bin' = [bin EXCEPT ![r] = b]
    /\ Goto(r, "stage")
    /\ UNCHANGED <<sigs, now, anchor, coreUp, installLock, ch, last, meta, disk, running, faults,
                   history>>

\* InstallLocal: manifest and binary of a directory, under the lock.
InstallLocal(r) ==
    /\ coreUp /\ place[r] = "idle" /\ installLock = Nil
    /\ installLock' = r
    /\ \E dir \in Locals :
          /\ Validate(dir.entry)
          /\ meta' = [meta EXCEPT ![r] = dir.entry] /\ bin' = [bin EXCEPT ![r] = dir.binary]
    /\ Goto(r, "stage")
    /\ UNCHANGED <<sigs, now, anchor, coreUp, ch, last, disk, running, faults, history>>

\* What is installed: its manifest, its binary and where it came from.
Install(r) == [entry |-> meta[r], binary |-> bin[r], doc |-> ch[r]]

\* The deferred unlock.
Unlock == installLock' = Nil

\* stageFiles verifies, promote installs and launches.
Promote(r) ==
    /\ place[r] = "stage" /\ MayRun(anchor, meta[r], bin[r])
    /\ installed' = Install(r) /\ running' = Install(r)
    /\ Unlock
    /\ AnswerRequest(r)
    /\ UNCHANGED <<sigs, now, anchor, coreUp, mark, faults, history>>

\* A bad download, a manifest that does not validate, a refusal by the
\* verifier, or any other error.
InstallFails(r) ==
    /\ place[r] \in {"download", "stage"}
    /\ Unlock
    /\ AnswerRequest(r)
    /\ UNCHANGED <<sigs, now, anchor, coreUp, disk, running, faults, history>>

----------------------------------------------------------------------------
(* Core *)

\* NewChannelFromDir, or the platform's verifier; then the installed module
\* is launched if the verifier lets it.
Boot ==
    /\ ~coreUp
    /\ coreUp' = TRUE
    /\ \E doc \in {d \in Docs : Verifies(d)} \cup {Nil} :
          /\ anchor' = doc
          /\ running' = IF installed # Nil /\ MayRun(doc, installed.entry, installed.binary)
                        THEN installed ELSE Nil
    /\ UNCHANGED <<sigs, now, installLock, locals, disk, faults, history>>

Crash ==
    /\ coreUp
    /\ coreUp' = FALSE /\ anchor' = Nil /\ running' = Nil /\ installLock' = Nil
    /\ place' = [r \in Requests |-> "idle"]
    /\ ch' = [r \in Requests |-> Nil] /\ last' = [r \in Requests |-> 0]
    /\ meta' = [r \in Requests |-> Nil] /\ bin' = [r \in Requests |-> Nil]
    /\ UNCHANGED <<sigs, now, disk, faults, history>>

ChannelNext ==
    \/ \E r \in Requests :
          \/ Fetch(r) \/ Compare(r) \/ Refuse(r) \/ Newer(r) \/ MarkUnread(r)
          \/ PutMark(r) \/ PutFails(r)
          \/ Lock(r) \/ NotInChannel(r) \/ Download(r) \/ InstallLocal(r)
          \/ Promote(r) \/ InstallFails(r)
    \/ Boot \/ Crash \/ TimePasses

ChannelSpec == ChannelInit /\ [][ChannelNext]_channelVars

----------------------------------------------------------------------------
(* Properties *)

Sequences == {doc.sequence : doc \in Docs} \cup {0}

\* The type invariant; a request is past its lock exactly when it holds it.
ChannelTypeOK ==
    /\ now \in 0..MaxNow /\ mark \in Sequences /\ highest \in Sequences
    /\ anchor \in Docs \cup {Nil} /\ coreUp \in BOOLEAN
    /\ installLock \in Requests \cup {Nil}
    /\ \A r \in Requests :
          /\ place[r] \in {"idle", "fetched", "put", "accepted", "download", "stage"}
          /\ ch[r] \in Docs \cup {Nil} /\ last[r] \in Sequences
          /\ place[r] \in {"download", "stage"} <=> installLock = r
    /\ faults \in 0..MaxFaults /\ {raced, lost} \subseteq BOOLEAN

\* A document core trusts, fetched or anchored to, was signed as a manifest
\* by a key the root endorsed, in whatever mix the four files arrived
\* (manifestverify/verify.go:30).
TrustedIsSigned ==
    \A doc \in ({ch[r] : r \in Requests} \cup {anchor}) \ {Nil} :
        \E k \in Keys \cup {Root} :
            {signFile(Root, KeyFile(k), TRUE), signFile(k, ManifestFile(doc), FALSE)} \subseteq sigs

\* The mark is the highest sequence accepted, across crashes, unless a store
\* operation failed or two requests raced for it (lifecycle.go:448).
MarkIsHighest == ~raced /\ ~lost => mark = highest

\* No manifest below one accepted earlier is accepted, on the same condition
\* (lifecycle.go:450).
AcceptsNoOlder ==
    [][\A r \in Requests :
          place[r] # "accepted" /\ place'[r] = "accepted" /\ ~raced' /\ ~lost'
              => ch[r].sequence >= highest]_channelVars

\* What runs from a channel is byte for byte what its manifest names, whoever
\* else installs meanwhile (lifecycle.go:507).
RunsWhatWasSigned ==
    running # Nil /\ running.doc # Nil =>
        running.entry = running.doc.entry /\ running.binary = running.doc.entry.digest

\* Under a channel bundle nothing runs with another version, binary, privilege
\* or capability than the bundle signs, wherever it was installed from and
\* whichever bundle the core before had (verify/channel.go:37).
RunsAsGranted ==
    running # Nil /\ anchor # Nil =>
        /\ running.binary = anchor.entry.digest
        /\ running.entry.version = anchor.entry.version
        /\ running.entry.privilege = anchor.entry.privilege
        /\ running.entry.capabilities \subseteq anchor.entry.capabilities

\* The chain of trust holds from the root's signature to the process that runs: the documents
\* core trusts were signed under the root, what runs from a channel is what its manifest names,
\* and under a bundle nothing runs with more than the bundle grants.
ChainHolds == TrustedIsSigned /\ RunsWhatWasSigned /\ RunsAsGranted

\* "Core persists the highest sequence it has accepted and refuses any
\* manifest with a lower one" (manifest/channel.go:18): the mark never falls.
MarkNeverFalls == [][mark' >= mark]_channelVars
=============================================================================
