--------------------------- MODULE ChannelProofs ----------------------------
(***************************************************************************)
(* Proofs about module Channel for any documents, keys, signatures and     *)
(* requests: what core trusts was signed, the recorded sequence is the     *)
(* highest accepted one, and what runs is what was signed and granted.     *)
(***************************************************************************)
EXTENDS Channel, TLAPS

Places == {"idle", "fetched", "put", "accepted", "download", "stage"}

\* The types of the requests' locals, and of the rest.
Typed ==
    /\ place \in [Requests -> Places]
    /\ ch \in [Requests -> Docs \cup {Nil}]
    /\ last \in [Requests -> Sequences]
    /\ DOMAIN meta = Requests /\ meta = [r \in Requests |-> meta[r]]
    /\ DOMAIN bin = Requests /\ bin = [r \in Requests |-> bin[r]]
    /\ mark \in Sequences /\ highest \in Sequences
    /\ anchor \in Docs \cup {Nil}
    /\ installLock \in Requests \cup {Nil}
    /\ \A r \in Requests : place[r] \in {"download", "stage"} <=> installLock = r

\* The bounded counters and the flags.
Counted ==
    /\ now \in 0..MaxNow /\ faults \in 0..MaxFaults
    /\ coreUp \in BOOLEAN /\ raced \in BOOLEAN /\ lost \in BOOLEAN

\* A signature is the record signFile makes, and what core holds verifies.
Signed ==
    /\ \A s \in sigs : s = [key |-> s.key, context |-> s.context, of |-> s.of]
    /\ \A r \in Requests : ch[r] # Nil => Verifies(ch[r])
    /\ anchor # Nil => Verifies(anchor)

\* The mark is the highest sequence accepted; a request about to write it has
\* a higher one than the mark it read.
Marked ==
    /\ MarkIsHighest
    /\ \A r \in Requests : ~lost /\ place[r] = "put" => ch[r].sequence > last[r]

\* An install carries the entry and the digest of its document.
FromDoc(x) ==
    x # Nil /\ x.doc # Nil => x.entry = x.doc.entry /\ x.binary = x.doc.entry.digest

\* What a request knows of the document it installs from.
Carried ==
    /\ \A r \in Requests :
          /\ place[r] \in {"fetched", "put", "accepted", "download"} => ch[r] \in Docs
          /\ place[r] = "idle" => ch[r] = Nil
          /\ place[r] = "download" => meta[r] = ch[r].entry
          /\ place[r] = "stage" /\ ch[r] # Nil =>
                meta[r] = ch[r].entry /\ bin[r] = ch[r].entry.digest
    /\ FromDoc(installed) /\ FromDoc(running)

\* What runs is what the anchored bundle grants.
Granted == running # Nil => MayRun(anchor, running.entry, running.binary)

-----------------------------------------------------------------------------

\* Sequences are numbers, zero and those of the documents among them.

\* Sequences are numbers, zero and those of the documents among them.
LEMMA SequenceFacts ==
    /\ Sequences \subseteq Nat /\ 0 \in Sequences
    /\ \A doc \in Docs : doc.sequence \in Sequences
BY ChannelAssumption DEF Sequences

\* Initially nobody is under way, and nothing is trusted or running.
LEMMA InitInv == ChannelInit => Typed /\ Counted /\ Signed /\ Marked /\ Carried /\ Granted
<1> SUFFICES ASSUME ChannelInit PROVE Typed /\ Counted /\ Signed /\ Marked /\ Carried /\ Granted
    BY Zenon
<1> USE ChannelAssumption
<1>1. Typed
    BY SequenceFacts, Zenon DEF ChannelInit, Typed, Places
<1>2. Counted
    <2>1. coreUp \in BOOLEAN /\ raced \in BOOLEAN /\ lost \in BOOLEAN
        BY Zenon DEF ChannelInit
    <2> QED BY <2>1 DEF ChannelInit, Counted
<1>3. Signed
    <2>1. PICK calls \in Signings : sigs = {signFile(c[1], c[2], c[3]) : c \in calls}
        BY Zenon DEF ChannelInit, SignedFiles
    <2>2. \A s \in sigs : s = [key |-> s.key, context |-> s.context, of |-> s.of]
        BY <2>1 DEF signFile
    <2> QED BY <2>2, Zenon DEF ChannelInit, Signed
<1>4. Marked
    BY Zenon DEF ChannelInit, Marked, MarkIsHighest
<1>5. Carried /\ Granted
    BY Zenon DEF ChannelInit, Carried, FromDoc, Granted
<1> QED BY <1>1, <1>2, <1>3, <1>4, <1>5, Zenon

\* Every step keeps the types.
LEMMA TypedStep ==
    ASSUME Typed, Carried, [ChannelNext]_channelVars
    PROVE  Typed'
<1> USE ChannelAssumption, SequenceFacts
<1>1. ASSUME NEW r \in Requests, Fetch(r) PROVE Typed'
    BY <1>1 DEF Typed, Carried, Places, Fetch, Goto, disk, history
<1>2. ASSUME NEW r \in Requests, Compare(r) PROVE Typed'
    BY <1>2, Zenon DEF Typed, Carried, Places, Compare, AcceptManifest, Goto, disk
<1>3. ASSUME NEW r \in Requests, Refuse(r) PROVE Typed'
    BY <1>3, Zenon DEF Typed, Carried, Places, Refuse, AnswerRequest, Goto, disk, history
<1>4. ASSUME NEW r \in Requests, Newer(r) PROVE Typed'
    BY <1>4, Zenon DEF Typed, Carried, Places, Newer, Goto, disk, history
<1>5. ASSUME NEW r \in Requests, MarkUnread(r) PROVE Typed'
    BY <1>5 DEF Typed, Carried, Places, MarkUnread, AcceptManifest, Goto, disk, Fault
<1>6. ASSUME NEW r \in Requests, PutMark(r) PROVE Typed'
    BY <1>6, Zenon DEF Typed, Carried, Places, PutMark, AcceptManifest, RecordedMark, Goto
<1>7. ASSUME NEW r \in Requests, PutFails(r) PROVE Typed'
    BY <1>7, Zenon DEF Typed, Carried, Places, PutFails, AcceptManifest, Goto, disk, Fault
<1>8. ASSUME NEW r \in Requests, Lock(r) PROVE Typed'
    BY <1>8, ZenonT(30) DEF Typed, Carried, Places, Lock, Goto, disk, history
<1>9. ASSUME NEW r \in Requests, NotInChannel(r) PROVE Typed'
    BY <1>9, Zenon DEF Typed, Carried, Places, NotInChannel, AnswerRequest, Goto, disk, history
<1>10. ASSUME NEW r \in Requests, Download(r) PROVE Typed'
    BY <1>10, ZenonT(30) DEF Typed, Carried, Places, Download, Goto, disk, history
<1>11. ASSUME NEW r \in Requests, InstallLocal(r) PROVE Typed'
    BY <1>11, ZenonT(90) DEF Typed, Carried, Places, InstallLocal, Goto, disk, history
<1>12. ASSUME NEW r \in Requests, Promote(r) PROVE Typed'
    BY <1>12, ZenonT(30) DEF Typed, Carried, Places, Promote, AnswerRequest, Unlock, Goto, history
<1>13. ASSUME NEW r \in Requests, InstallFails(r) PROVE Typed'
    BY <1>13, ZenonT(30) DEF Typed, Carried, Places, InstallFails, AnswerRequest, Unlock, Goto,
       disk, history
<1>14. CASE Boot
    BY <1>14, Zenon DEF Typed, Places, Boot, locals, disk, history
<1>15. CASE Crash
    BY <1>15, Zenon DEF Typed, Places, Crash, locals, disk, history
<1>16. CASE TimePasses
    BY <1>16, Zenon DEF Typed, Places, TimePasses, locals, disk, history
<1>17. CASE UNCHANGED channelVars
    BY <1>17, ZenonT(30) DEF channelVars, locals, disk, history, Typed
<1> QED BY <1>1, <1>2, <1>3, <1>4, <1>5, <1>6, <1>7, <1>8, <1>9, <1>10, <1>11, <1>12,
    <1>13, <1>14, <1>15, <1>16, <1>17, Zenon DEF ChannelNext

\* Every step keeps the counters within their bounds.
LEMMA CountedStep ==
    ASSUME Counted, [ChannelNext]_channelVars
    PROVE  Counted'
<1> USE ChannelAssumption
<1>1. now' \in 0..MaxNow /\ faults' \in 0..MaxFaults
    <2>1. now' = now \/ TimePasses
        BY ZenonT(30) DEF ChannelNext, channelVars, Fetch, Compare, Refuse, Newer, MarkUnread,
           PutMark,
           PutFails, Lock, NotInChannel, Download, InstallLocal, Promote, InstallFails, Boot,
           Crash, TimePasses
    <2>2. faults' = faults \/ Fault
        BY ZenonT(30) DEF ChannelNext, channelVars, Fetch, Compare, Refuse, Newer, MarkUnread,
           PutMark,
           PutFails, Lock, NotInChannel, Download, InstallLocal, Promote, InstallFails, Boot,
           Crash, TimePasses
    <2>3. now \in 0..MaxNow /\ faults \in 0..MaxFaults /\ MaxNow \in Nat /\ MaxFaults \in Nat
        BY Zenon DEF Counted
    <2>4. ASSUME now < MaxNow, now' = now + 1 PROVE now' \in 0..MaxNow
        BY <2>3, <2>4, SMT
    <2>5. ASSUME faults < MaxFaults, faults' = faults + 1 PROVE faults' \in 0..MaxFaults
        BY <2>3, <2>5, SMT
    <2> QED BY <2>1, <2>2, <2>3, <2>4, <2>5, Zenon DEF TimePasses, Fault
<1>2. coreUp' \in BOOLEAN
    BY ZenonT(30) DEF Counted, ChannelNext, channelVars, Fetch, Compare, Refuse, Newer,
       MarkUnread, PutMark,
       PutFails, Lock, NotInChannel, Download, InstallLocal, Promote, InstallFails, Boot,
       Crash, TimePasses
<1>3. lost' \in BOOLEAN
    BY ZenonT(30) DEF Counted, ChannelNext, channelVars, Fetch, Compare, Refuse, Newer,
       MarkUnread, PutMark,
       PutFails, Lock, NotInChannel, Download, InstallLocal, Promote, InstallFails, Boot,
       Crash, TimePasses, history
<1>4. raced' \in BOOLEAN
    <2>1. raced' = raced \/ \E r \in Requests : PutMark(r)
        BY ZenonT(30) DEF ChannelNext, channelVars, Fetch, Compare, Refuse, Newer, MarkUnread,
           PutMark, PutFails,
           Lock, NotInChannel, Download, InstallLocal, Promote, InstallFails, Boot, Crash,
           TimePasses, history
    <2>2. ASSUME NEW r \in Requests, PutMark(r) PROVE raced' \in BOOLEAN
        BY <2>2, Zenon DEF PutMark
    <2> QED BY <2>1, <2>2, Zenon DEF Counted
<1> QED BY <1>1, <1>2, <1>3, <1>4, Zenon DEF Counted

\* Every step keeps what core holds verified: documents enter by Fetch and
\* Boot only, and the signatures stay.
LEMMA SignedStep ==
    ASSUME Typed, Signed, [ChannelNext]_channelVars
    PROVE  Signed'
<1>1. sigs' = sigs /\ \A doc : Verifies(doc) => Verifies(doc)'
    BY ZenonT(30) DEF Verifies, ChannelNext, channelVars, Fetch, Compare, Refuse, Newer,
       MarkUnread, PutMark,
       PutFails, Lock, NotInChannel, Download, InstallLocal, Promote, InstallFails, Boot,
       Crash, TimePasses, locals
<1>2. \A r \in Requests : ch'[r] # Nil => Verifies(ch'[r])
    <2>1. \/ ch' = ch
          \/ ch' = [r \in Requests |-> Nil]
          \/ \E r \in Requests : Fetch(r) \/ ch' = [ch EXCEPT ![r] = Nil]
        BY ZenonT(30) DEF ChannelNext, channelVars, Fetch, Compare, Refuse, Newer, MarkUnread,
           PutMark,
           PutFails, Lock, NotInChannel, Download, InstallLocal, Promote, InstallFails, Boot,
           Crash, TimePasses, AnswerRequest, locals
    <2>2. ASSUME NEW r \in Requests, Fetch(r), NEW q \in Requests, ch'[q] # Nil
          PROVE  Verifies(ch'[q])
        BY <2>2, ZenonT(30) DEF Typed, Signed, Fetch
    <2>3. ASSUME NEW r \in Requests, ch' = [ch EXCEPT ![r] = Nil], NEW q \in Requests, ch'[q] # Nil
          PROVE  Verifies(ch'[q])
        BY <2>3, ZenonT(30) DEF Typed, Signed
    <2> QED BY <2>1, <2>2, <2>3, ZenonT(30) DEF Signed
<1>3. anchor' # Nil => Verifies(anchor')
    <2>1. anchor' = anchor \/ anchor' = Nil \/ Boot
        BY ZenonT(30) DEF ChannelNext, channelVars, Fetch, Compare, Refuse, Newer, MarkUnread,
           PutMark,
           PutFails, Lock, NotInChannel, Download, InstallLocal, Promote, InstallFails,
           Crash, TimePasses
    <2>2. ASSUME Boot, anchor' # Nil PROVE Verifies(anchor')
        <3>1. PICK doc \in {d \in Docs : Verifies(d)} \cup {Nil} : anchor' = doc
            BY <2>2, Zenon DEF Boot
        <3>2. doc # Nil => Verifies(doc)
            BY <3>1
        <3> QED BY <2>2, <3>1, <3>2, Zenon
    <2>3. anchor # Nil => Verifies(anchor)
        BY Zenon DEF Signed
    <2> QED BY <2>1, <2>2, <2>3, Zenon
<1> QED BY <1>1, <1>2, <1>3, ZenonT(30) DEF Signed

\* A write of the mark that is not a race finds what the request read.
LEMMA UnracedPut ==
    ASSUME NEW r \in Requests, PutMark(r), ~raced', ~lost'
    PROVE  ~raced /\ ~lost /\ mark = last[r]
<1>1. raced' = (raced \/ mark # last[r]) /\ lost' = lost
    BY Zenon DEF PutMark
<1> QED BY <1>1, Zenon

\* Every step keeps the mark the highest sequence accepted.
LEMMA MarkedStep ==
    ASSUME Typed, Counted, Carried, Marked, [ChannelNext]_channelVars
    PROVE  Marked'
<1> USE ChannelAssumption, SequenceFacts
<1>1. ASSUME NEW r \in Requests, Fetch(r) PROVE Marked'
    BY <1>1, Zenon DEF Typed, Counted, Carried, Marked, MarkIsHighest, Fetch, Goto, disk, history
<1>2. ASSUME NEW r \in Requests, Compare(r) PROVE Marked'
    BY <1>2 DEF Typed, Counted, Carried, Marked, MarkIsHighest, Compare, AcceptManifest, Goto,
       disk, OlderThan
<1>3. ASSUME NEW r \in Requests, Refuse(r) PROVE Marked'
    BY <1>3, Zenon DEF Typed, Counted, Carried, Marked, MarkIsHighest, Refuse, AnswerRequest,
       Goto, disk,
       history
<1>4. ASSUME NEW r \in Requests, Newer(r) PROVE Marked'
    BY <1>4, Zenon DEF Typed, Counted, Carried, Marked, MarkIsHighest, Newer, Goto, disk, history
<1>5. ASSUME NEW r \in Requests, MarkUnread(r) PROVE Marked'
    BY <1>5, Zenon DEF Typed, Counted, Carried, Marked, MarkIsHighest, MarkUnread,
       AcceptManifest, Goto,
       disk, Fault
<1>6. ASSUME NEW r \in Requests, PutMark(r) PROVE Marked'
    <2>1. ASSUME ~raced', ~lost' PROVE mark' = highest'
        <3>1. ~raced /\ ~lost /\ mark = last[r]
            BY <1>6, <2>1, UnracedPut, Zenon
        <3>2. mark = highest /\ ch[r].sequence > mark
            BY <1>6, <3>1, Zenon DEF Marked, MarkIsHighest, PutMark
        <3>3. ch[r] \in Docs
            BY <1>6, Zenon DEF Carried, PutMark
        <3> QED BY <1>6, <3>2, <3>3, Zenon DEF Typed, PutMark, AcceptManifest, RecordedMark
    <2>2. ASSUME NEW q \in Requests, place'[q] = "put", ~lost' PROVE ch'[q].sequence > last'[q]
        BY <1>6, <2>2, Zenon DEF Typed, Marked, PutMark, AcceptManifest, Goto
    <2> QED BY <2>1, <2>2, Zenon DEF Marked, MarkIsHighest
<1>7. ASSUME NEW r \in Requests, PutFails(r) PROVE Marked'
    BY <1>7, Zenon DEF Typed, Counted, Carried, Marked, MarkIsHighest, PutFails, AcceptManifest,
       Goto,
       disk, Fault
<1>8. ASSUME NEW r \in Requests, Lock(r) PROVE Marked'
    BY <1>8, Zenon DEF Typed, Counted, Carried, Marked, MarkIsHighest, Lock, Goto, disk, history
<1>9. ASSUME NEW r \in Requests, NotInChannel(r) PROVE Marked'
    BY <1>9, Zenon DEF Typed, Counted, Carried, Marked, MarkIsHighest, NotInChannel,
       AnswerRequest, Goto,
       disk, history
<1>10. ASSUME NEW r \in Requests, Download(r) PROVE Marked'
    BY <1>10, Zenon DEF Typed, Counted, Carried, Marked, MarkIsHighest, Download, Goto, disk,
       history
<1>11. ASSUME NEW r \in Requests, InstallLocal(r) PROVE Marked'
    BY <1>11, Zenon DEF Typed, Counted, Carried, Marked, MarkIsHighest, InstallLocal, Goto, disk,
       history
<1>12. ASSUME NEW r \in Requests, Promote(r) PROVE Marked'
    BY <1>12, Zenon DEF Typed, Counted, Carried, Marked, MarkIsHighest, Promote, AnswerRequest,
       Unlock,
       Goto, history
<1>13. ASSUME NEW r \in Requests, InstallFails(r) PROVE Marked'
    BY <1>13, Zenon DEF Typed, Counted, Carried, Marked, MarkIsHighest, InstallFails, AnswerRequest,
       Unlock, Goto, disk, history
<1>14. CASE Boot
    BY <1>14, Zenon DEF Typed, Marked, MarkIsHighest, Boot, locals, disk, history
<1>15. CASE Crash
    BY <1>15, Zenon DEF Typed, Marked, MarkIsHighest, Crash, locals, disk, history
<1>16. CASE TimePasses
    BY <1>16, Zenon DEF Typed, Marked, MarkIsHighest, TimePasses, locals, disk, history
<1>17. CASE UNCHANGED channelVars
    BY <1>17, Zenon DEF channelVars, locals, disk, history, Marked, MarkIsHighest
<1> QED BY <1>1, <1>2, <1>3, <1>4, <1>5, <1>6, <1>7, <1>8, <1>9, <1>10, <1>11, <1>12,
    <1>13, <1>14, <1>15, <1>16, <1>17, Zenon DEF ChannelNext

\* Every step keeps what a request carries, and what is installed and runs.
LEMMA CarriedStep ==
    ASSUME Typed, Carried, [ChannelNext]_channelVars
    PROVE  Carried'
<1> USE ChannelAssumption
<1>1. ASSUME NEW r \in Requests, Fetch(r) PROVE Carried'
    BY <1>1 DEF Typed, Carried, FromDoc, Fetch, Goto, disk, history
<1>2. ASSUME NEW r \in Requests, Compare(r) PROVE Carried'
    BY <1>2, Zenon DEF Typed, Carried, FromDoc, Compare, AcceptManifest, Goto, disk
<1>3. ASSUME NEW r \in Requests, Refuse(r) PROVE Carried'
    BY <1>3, Zenon DEF Typed, Carried, FromDoc, Refuse, AnswerRequest, Goto, disk, history
<1>4. ASSUME NEW r \in Requests, Newer(r) PROVE Carried'
    BY <1>4, Zenon DEF Typed, Carried, FromDoc, Newer, Goto, disk, history
<1>5. ASSUME NEW r \in Requests, MarkUnread(r) PROVE Carried'
    BY <1>5 DEF Typed, Carried, FromDoc, MarkUnread, AcceptManifest, Goto, disk, Fault
<1>6. ASSUME NEW r \in Requests, PutMark(r) PROVE Carried'
    BY <1>6, Zenon DEF Typed, Carried, FromDoc, PutMark, AcceptManifest, RecordedMark, Goto
<1>7. ASSUME NEW r \in Requests, PutFails(r) PROVE Carried'
    BY <1>7, Zenon DEF Typed, Carried, FromDoc, PutFails, AcceptManifest, Goto, disk, Fault
<1>8. ASSUME NEW r \in Requests, Lock(r) PROVE Carried'
    BY <1>8, Zenon DEF Typed, Carried, FromDoc, Lock, Goto, disk, history
<1>9. ASSUME NEW r \in Requests, NotInChannel(r) PROVE Carried'
    BY <1>9, Zenon DEF Typed, Carried, FromDoc, NotInChannel, AnswerRequest, Goto, disk, history
<1>10. ASSUME NEW r \in Requests, Download(r) PROVE Carried'
    BY <1>10 DEF Typed, Carried, FromDoc, Download, Goto, disk, history, DigestMatches
<1>11. ASSUME NEW r \in Requests, InstallLocal(r) PROVE Carried'
    BY <1>11 DEF Typed, Carried, FromDoc, InstallLocal, Goto, disk, history
<1>12. ASSUME NEW r \in Requests, Promote(r) PROVE Carried'
    BY <1>12, Zenon DEF Typed, Carried, FromDoc, Promote, AnswerRequest, Unlock, Goto, history,
       Install
<1>13. ASSUME NEW r \in Requests, InstallFails(r) PROVE Carried'
    BY <1>13, Zenon DEF Typed, Carried, FromDoc, InstallFails, AnswerRequest, Unlock, Goto, disk,
       history
<1>14. CASE Boot
    BY <1>14, Zenon DEF Typed, Carried, FromDoc, Boot, locals, disk, history
<1>15. CASE Crash
    BY <1>15, Zenon DEF Typed, Carried, FromDoc, Crash, locals, disk, history
<1>16. CASE TimePasses
    BY <1>16, Zenon DEF Typed, Carried, FromDoc, TimePasses, locals, disk, history
<1>17. CASE UNCHANGED channelVars
    BY <1>17, Zenon DEF channelVars, locals, disk, history, Carried, FromDoc
<1> QED BY <1>1, <1>2, <1>3, <1>4, <1>5, <1>6, <1>7, <1>8, <1>9, <1>10, <1>11, <1>12,
    <1>13, <1>14, <1>15, <1>16, <1>17, Zenon DEF ChannelNext

\* Every step keeps what runs within the grants: the anchor changes with the
\* boot that judges the installed module by it.
LEMMA GrantedStep ==
    ASSUME Granted, [ChannelNext]_channelVars
    PROVE  Granted'
<1>1. CASE Boot
    BY <1>1, Zenon DEF Granted, Boot
<1>2. CASE Crash
    BY <1>2, Zenon DEF Granted, Crash
<1>3. ASSUME NEW r \in Requests, Promote(r) PROVE Granted'
    BY <1>3, Zenon DEF Granted, Promote, Install
<1>4. CASE UNCHANGED <<running, anchor>>
    BY <1>4, Zenon DEF Granted, MayRun, Grants
<1> QED BY <1>1, <1>2, <1>3, <1>4, Zenon DEF ChannelNext, channelVars, Fetch, Compare, Refuse,
   Newer,
    MarkUnread, PutMark, PutFails, Lock, NotInChannel, Download, InstallLocal,
    InstallFails, TimePasses

\* The inductive invariant.
Inv == Typed /\ Counted /\ Signed /\ Marked /\ Carried /\ Granted

\* Inv is an invariant.
LEMMA Invariance == ChannelSpec => []Inv
<1>1. ChannelInit => Inv
    BY InitInv, Zenon DEF Inv
<1>2. Inv /\ [ChannelNext]_channelVars => Inv'
    BY TypedStep, CountedStep, SignedStep, MarkedStep, CarriedStep, GrantedStep, Zenon DEF Inv
<1> QED BY <1>1, <1>2, PTL DEF ChannelSpec

\* Every variable keeps its range; the install lock is held by the request
\* that downloads or stages.
THEOREM TypeCorrect == ChannelSpec => []ChannelTypeOK
<1>1. Inv => ChannelTypeOK
    BY Zenon DEF Inv, Typed, Counted, Places, ChannelTypeOK
<1> QED BY <1>1, Invariance, PTL

\* Whatever mix of files the channel serves, a document core trusts was signed
\* as a manifest by a key that the root key endorsed.
THEOREM TrustRooted == ChannelSpec => []TrustedIsSigned
<1>1. Inv => TrustedIsSigned
    <2> SUFFICES ASSUME Inv, NEW doc \in ({ch[r] : r \in Requests} \cup {anchor}) \ {Nil}
                 PROVE  \E k \in Keys \cup {Root} :
                           {signFile(Root, KeyFile(k), TRUE),
                            signFile(k, ManifestFile(doc), FALSE)} \subseteq sigs
        BY Zenon DEF TrustedIsSigned
    <2>0. Verifies(doc)
        BY DEF Inv, Signed
    <2>1. PICK sig \in sigs, pubSig \in sigs, pub \in Keys \cup {Root} :
             Verify(doc, sig, pub, pubSig)
        BY <2>0, Zenon DEF Verifies
    <2>2. pubSig = signFile(Root, KeyFile(pub), TRUE)
        BY <2>1, Zenon DEF Inv, Signed, Verify, signFile
    <2>3. sig = signFile(pub, ManifestFile(doc), FALSE)
        BY <2>1, Zenon DEF Inv, Signed, Verify, signFile
    <2> QED BY <2>1, <2>2, <2>3, Zenon
<1> QED BY <1>1, Invariance, PTL

\* The recorded sequence is the highest accepted, unless the store failed or
\* two requests raced for the mark.
THEOREM MarkHighest == ChannelSpec => []MarkIsHighest
<1>1. Inv => MarkIsHighest
    BY Zenon DEF Inv, Marked
<1> QED BY <1>1, Invariance, PTL

\* Under the same condition no manifest older than an accepted one is accepted.
THEOREM NoOlderAccepted == ChannelSpec => AcceptsNoOlder
<1>1. ASSUME Inv, ChannelNext,
             NEW r \in Requests, place[r] # "accepted", place'[r] = "accepted", ~raced', ~lost'
      PROVE  ch[r].sequence >= highest
    <2> USE ChannelAssumption, SequenceFacts
    <2>1. ASSUME NEW q \in Requests,
                 \/ Fetch(q) \/ Refuse(q) \/ Newer(q) \/ Lock(q) \/ NotInChannel(q)
                 \/ Download(q) \/ InstallLocal(q) \/ Promote(q) \/ InstallFails(q)
          PROVE  FALSE
        BY <1>1, <2>1, ZenonT(30) DEF Inv, Typed, AnswerRequest, Goto, Fetch, Refuse, Newer, Lock,
           NotInChannel,
                          Download, InstallLocal, Promote, InstallFails
    <2>2. ASSUME NEW q \in Requests, MarkUnread(q) \/ PutFails(q) PROVE FALSE
        BY <1>1, <2>2, Zenon DEF MarkUnread, PutFails
    <2>3. CASE Boot \/ Crash \/ TimePasses
        BY <1>1, <2>3, Zenon DEF Boot, Crash, TimePasses, locals
    <2>4. ASSUME NEW q \in Requests, Compare(q) \/ PutMark(q) PROVE q = r
        BY <1>1, <2>4, Zenon DEF Inv, Typed, Compare, PutMark, AcceptManifest, Goto
    <2>5. CASE Compare(r)
        <3>1. raced = raced' /\ lost = lost'
            BY <2>5, Zenon DEF Compare
        <3>2. mark = highest
            BY <1>1, <3>1, Zenon DEF Inv, Marked, MarkIsHighest
        <3> QED BY <1>1, <2>5, <3>2 DEF Inv, Typed, Carried, Compare, OlderThan
    <2>6. CASE PutMark(r)
        <3>1. ~raced /\ ~lost /\ mark = last[r]
            BY <1>1, <2>6, UnracedPut, Zenon
        <3>2. mark = highest /\ ch[r].sequence > mark
            BY <1>1, <2>6, <3>1, Zenon DEF Inv, Marked, MarkIsHighest, PutMark
        <3>3. ch[r] \in Docs
            BY <1>1, <2>6, Zenon DEF Inv, Carried, PutMark
        <3> QED BY <1>1, <3>2, <3>3 DEF Inv, Typed
    <2> QED BY <1>1, <2>1, <2>2, <2>3, <2>4, <2>5, <2>6, Zenon DEF ChannelNext
<1>2. Inv /\ [ChannelNext]_channelVars =>
        [\A r \in Requests :
            place[r] # "accepted" /\ place'[r] = "accepted" /\ ~raced' /\ ~lost'
                => ch[r].sequence >= highest]_channelVars
    BY <1>1, Zenon
<1> QED BY <1>2, Invariance, PTL DEF ChannelSpec, AcceptsNoOlder

\* What runs from a channel has the entry and the digest of a document that
\* names them, whoever else installs meanwhile.
THEOREM SignedRuns == ChannelSpec => []RunsWhatWasSigned
<1>1. Inv => RunsWhatWasSigned
    BY Zenon DEF Inv, Carried, FromDoc, RunsWhatWasSigned
<1> QED BY <1>1, Invariance, PTL

\* Under a channel bundle what runs is what the bundle grants.
THEOREM GrantedRuns == ChannelSpec => []RunsAsGranted
<1>1. Inv => RunsAsGranted
    BY Zenon DEF Inv, Granted, MayRun, Grants, RunsAsGranted
<1> QED BY <1>1, Invariance, PTL

\* The chain of trust as a whole: documents signed under the root, what runs
\* is what they name, and a bundle bounds what it may do.
THEOREM ChainUnbroken == ChannelSpec => []ChainHolds
BY TrustRooted, SignedRuns, GrantedRuns, PTL DEF ChainHolds

=============================================================================
