------------------------------ MODULE MCChannel -----------------------------
(* Three documents, the last of them expiring, of two versions; a key that *)
(* is endorsed and one that is not; every call of weavemanifest made for   *)
(* the right role, or the two contexts swapped.                            *)
EXTENDS Channel

Entry(v, digest, privilege, caps) ==
    [id |-> "m", version |-> v, protocol |-> 1, privilege |-> privilege,
     session |-> "system", capabilities |-> caps, platform |-> "linux/amd64", digest |-> digest]

d1 == [sequence |-> 0, expires |-> Nil, entry |-> Entry(1, "b1", "user", {})]
d2 == [sequence |-> 1, expires |-> Nil, entry |-> Entry(2, "b2", "system", {"x"})]
d3 == [sequence |-> 2, expires |-> 0, entry |-> Entry(2, "b3", "system", {})]

MCDocs == {d1, d2, d3}
MCHost == "linux/amd64"
MCLocals == {[entry |-> Entry(1, "b1", "system", {}), binary |-> "b1"],
             [entry |-> Entry(2, "b2", "system", {}), binary |-> "b2"]}
MCBinaries == {"b1", "b2", "b3"}

\* weavemanifest <verb> <key> <file>: endorse when the last is TRUE.
Proper == {<<"root", KeyFile("k1"), TRUE>>, <<"k1", ManifestFile(d1), FALSE>>,
           <<"k1", ManifestFile(d2), FALSE>>, <<"k1", ManifestFile(d3), FALSE>>}
Unendorsed == {<<"root", KeyFile("k1"), TRUE>>, <<"k1", ManifestFile(d1), FALSE>>,
               <<"k2", KeyFile("k2"), TRUE>>, <<"k2", ManifestFile(d2), FALSE>>}
Swapped == {<<"root", KeyFile("k1"), TRUE>>, <<"k1", ManifestFile(d1), FALSE>>,
            <<"root", KeyFile("k2"), FALSE>>, <<"k2", ManifestFile(d2), FALSE>>,
            <<"k1", ManifestFile(d3), TRUE>>}
MCSignings == {Proper, Unendorsed, Swapped}
MCProper == {Proper}
=============================================================================
