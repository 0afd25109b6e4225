------------------------------ MODULE Aptrepo -------------------------------
(* aptrepo, the tool that turns a directory of .deb files into the signed  *)
(* flat apt repository the agent is installed from: one build after the    *)
(* other into the same directory, each stopping at any step, while the     *)
(* packages it reads are being rebuilt.                                    *)
(*                                                                         *)
(* Digests do not collide.  A signature stands for the contents it signs,  *)
(* a package's name for its place in the sort order.                       *)
EXTENDS FiniteSetsExt, Naturals

CONSTANTS
    Debs,           \* file names *.deb, as numbers in their sort order
    Contents,       \* what such a file may contain
    Readable,       \* the contents readControl finds a control file in
    Absent, Empty,  \* no file; a file just truncated
    MaxBuilds,      \* bound: builds into one output directory
    MaxRebuilds     \* bound: packages rebuilt meanwhile

VARIABLES
    inPlace,        \* the repository is written where the packages are
    input,          \* the packages read
    outDebs,        \* the packages in the repository
    index,          \* Packages, Packages.gz and Release
    signature,      \* InRelease and Release.gpg
    key,            \* the running build signs
    at,             \* the step of the running build, or how the last one ended
    todo,           \* the packages it has still to add
    packages,       \* the stanzas so far: <<name, digest>>
    \* history
    moved,          \* a package changed between its digest and its copy
    builds, rebuilds

dirs == <<inPlace, input, outDebs>>
files == <<index, signature>>
counts == <<builds, rebuilds>>
aptVars == <<dirs, files, key, at, todo, packages, moved, counts>>

\* What the files hold: stanzas, their compressed form, and the digests of both.
Lists == SUBSET (Debs \X [sha256 : Contents])
Zips == [gzip : Lists]
Releases == [Packages : [sha256 : Lists], PackagesGz : [sha256 : Zips]]

\* An absent or truncated file is none of these.
ASSUME AptAssumption ==
    /\ Debs \subseteq Nat /\ Readable \subseteq Contents /\ Absent # Empty
    /\ \A none \in {Absent, Empty} : none \notin Releases /\ \A list \in Lists : list # none

Inputs == [Debs -> Contents \cup {Absent}]
NoDebs == [d \in Debs |-> Absent]
NoIndex == [Packages |-> Absent, PackagesGz |-> Absent, Release |-> Absent]
NoSignature == [InRelease |-> Absent, ReleaseGpg |-> Absent]

AptInit ==
    /\ inPlace \in BOOLEAN
    /\ input \in Inputs /\ outDebs = NoDebs
    /\ index = NoIndex /\ signature = NoSignature
    /\ key = FALSE /\ at = "none" /\ todo = {} /\ packages = {} /\ moved = FALSE
    /\ builds = 0 /\ rebuilds = 0

\* What is served under a package's name.
Served(d) == IF inPlace THEN input[d] ELSE outDebs[d]

Ended == {"none", "ok", "failed"}

----------------------------------------------------------------------------
(* build *)

\* build: what the glob matches, if it matches anything.
Build(signed) ==
    /\ at \in Ended
    /\ builds < MaxBuilds /\ builds' = builds + 1
    /\ todo' = {d \in Debs : input[d] # Absent} /\ todo' # {}
    /\ packages' = {} /\ moved' = FALSE
    /\ key' = signed
    /\ at' = "stanza"
    /\ UNCHANGED <<dirs, files, rebuilds>>

\* digests
Digest(content) == [sha256 |-> content]

\* readControl finds the control file, in an archive it can read.
readControl(d) == input[d] \in Readable

\* packageStanza of the next package, with its digest.
PackageStanza ==
    /\ at = "stanza" /\ todo # {}
    /\ LET d == Min(todo)
       IN readControl(d) /\ packages' = packages \cup {<<d, Digest(input[d])>>}
    /\ at' = "copy"
    /\ UNCHANGED <<dirs, files, key, todo, moved, counts>>

\* copyFile reads the package a second time; nothing to do if it is in place.
copyFile(d) == outDebs' = IF inPlace THEN outDebs ELSE [outDebs EXCEPT ![d] = input[d]]

Copy ==
    /\ at = "copy"
    /\ LET d == Min(todo)
       IN input[d] # Absent /\ copyFile(d) /\ todo' = todo \ {d}
    /\ at' = "stanza"
    /\ UNCHANGED <<inPlace, input, files, key, packages, moved, counts>>

\* The buffer becomes Packages ...
WritePackages ==
    /\ at = "stanza" /\ todo = {}
    /\ index' = [index EXCEPT !.Packages = packages]
    /\ at' = "gzip"
    /\ UNCHANGED <<dirs, signature, key, todo, packages, moved, counts>>

\* ... and, compressed, Packages.gz.
WriteGzip ==
    /\ at = "gzip"
    /\ index' = [index EXCEPT !.PackagesGz = [gzip |-> packages]]
    /\ at' = "release"
    /\ UNCHANGED <<dirs, signature, key, todo, packages, moved, counts>>

\* releaseFile takes the digests of both indexes as they are on disk.
ReleaseFile ==
    /\ at = "release"
    /\ index' = [index EXCEPT !.Release = [Packages |-> Digest(index.Packages),
                                           PackagesGz |-> Digest(index.PackagesGz)]]
    /\ at' = IF key THEN "inrelease" ELSE "ok"
    /\ UNCHANGED <<dirs, signature, key, todo, packages, moved, counts>>

gpg_NoYes(old) == IF old = Absent THEN index.Release ELSE old

\* gpg --yes: the output replaces what was there.
gpg(old) == index.Release

\* sign: the inline signature, the detached one, the exported key.
InRelease ==
    /\ at = "inrelease"
    /\ signature' = [signature EXCEPT !.InRelease = gpg(signature.InRelease)]
    /\ at' = "detached"
    /\ UNCHANGED <<dirs, index, key, todo, packages, moved, counts>>

Detached ==
    /\ at = "detached"
    /\ signature' = [signature EXCEPT !.ReleaseGpg = gpg(signature.ReleaseGpg)]
    /\ at' = "export"
    /\ UNCHANGED <<dirs, index, key, todo, packages, moved, counts>>

Export ==
    /\ at = "export"
    /\ at' = "ok"
    /\ UNCHANGED <<dirs, files, key, todo, packages, moved, counts>>

\* Any step fails, and the build with it; the file that was being written
\* may be left truncated, and one that gpg was writing removed.
BuildFails ==
    /\ at \notin Ended
    /\ at' = "failed"
    /\ outDebs' \in {outDebs} \cup
          (IF at = "copy" /\ ~inPlace THEN {[outDebs EXCEPT ![Min(todo)] = Empty]} ELSE {})
    /\ index' \in {index} \cup
          (CASE at = "stanza" /\ todo = {} -> {[index EXCEPT !.Packages = Empty]}
             [] at = "gzip" -> {[index EXCEPT !.PackagesGz = Empty]}
             [] at = "release" -> {[index EXCEPT !.Release = Empty]}
             [] OTHER -> {})
    /\ signature' \in {signature} \cup
          (CASE at = "inrelease" -> {[signature EXCEPT !.InRelease = v] : v \in {Empty, Absent}}
             [] at = "detached" -> {[signature EXCEPT !.ReleaseGpg = v] : v \in {Empty, Absent}}
             [] OTHER -> {})
    /\ todo' = {} /\ packages' = {}
    /\ UNCHANGED <<inPlace, input, key, moved, counts>>

\* Meanwhile a package is built anew, or removed.
Rebuild(d, content) ==
    /\ rebuilds < MaxRebuilds /\ rebuilds' = rebuilds + 1
    /\ content # input[d]
    /\ input' = [input EXCEPT ![d] = content]
    /\ moved' = \/ moved
                \/ at = "copy" /\ d = Min(todo)
                \/ inPlace /\ \E c \in Contents : <<d, Digest(c)>> \in packages
    /\ UNCHANGED <<inPlace, outDebs, files, key, at, todo, packages, builds>>

\* The next release starts from an empty output directory.
Clean ==
    /\ at \in Ended /\ at' = "none"
    /\ inPlace' \in BOOLEAN /\ input' \in Inputs
    /\ outDebs' = NoDebs /\ index' = NoIndex /\ signature' = NoSignature
    /\ key' = FALSE /\ todo' = {} /\ packages' = {} /\ moved' = FALSE
    /\ builds' = 0 /\ rebuilds' = 0

AptNext ==
    \/ PackageStanza \/ Copy \/ WritePackages \/ WriteGzip \/ ReleaseFile
    \/ InRelease \/ Detached \/ Export \/ BuildFails \/ Clean
    \/ \E signed \in BOOLEAN : Build(signed)
    \/ \E d \in Debs, content \in Contents \cup {Absent} : Rebuild(d, content)

AptSpec == AptInit /\ [][AptNext]_aptVars

----------------------------------------------------------------------------
(* verifyRepo *)

\* The digests a Release lists are those of the indexes there are.
IndexesMatch(release) ==
    /\ release \notin {Absent, Empty}
    /\ release.Packages = Digest(index.Packages)
    /\ release.PackagesGz = Digest(index.PackagesGz)

\* Packages lists some package, and each is served with the digest listed.
PackagesMatch ==
    /\ index.Packages \notin {Absent, Empty, {}}
    /\ \A stanza \in index.Packages : stanza[2] = Digest(Served(stanza[1]))

\* verifyRepo: gpg --verify of the InRelease, if there is one; then the digests
\* of the Release beside it, which nothing compares with what was signed.
verifyRepo ==
    /\ signature.InRelease # Empty
    /\ IndexesMatch(index.Release)
    /\ PackagesMatch

----------------------------------------------------------------------------
(* Properties *)

\* A build that reports success has written a Release that leads to the
\* indexes and the packages served, whatever earlier builds left in the
\* directory and whichever step they failed at
\* (packaging/apt/aptrepo/main.go:84), unless a package changed between its
\* digest and its copy. verifyRepo passes a signed one, and apt installs from
\* it: both signatures are of this very Release (main.go:189). An unsigned
\* build removes no InRelease; verifyRepo passes what it wrote if none is there.
BuildInstalls ==
    at = "ok" /\ ~moved =>
        /\ IndexesMatch(index.Release) /\ PackagesMatch
        /\ key \/ signature.InRelease = Absent => verifyRepo
        /\ key => signature.InRelease = index.Release /\ signature.ReleaseGpg = index.Release
=============================================================================
