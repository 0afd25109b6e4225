------------------------------- MODULE Store --------------------------------
(* The encrypted store (internal/store/store.go, keyprotect): one bbolt    *)
(* file whose values are sealed under a master key, and the key file.  A   *)
(* sealed value is the record of what went into it: the key it was sealed  *)
(* under, the place (namespace and key) bound to it, and the plain value.  *)
(* A bbolt transaction is one step; the key file is written to a temporary *)
(* name and renamed, which is another.                                     *)
EXTENDS Naturals

CONSTANTS
    Places,     \* <<namespace, key>> pairs
    Absent      \* no record, no key

VARIABLES
    db,         \* the bbolt file
    keyFile,    \* store.key, holding a master key or Absent
    master,     \* the master key of the open store
    made        \* history: master keys generated so far

store == <<db, keyFile, master, made>>

\* The additional data joins namespace and key with a NUL, which no module id contains: it
\* tells places apart.
seal(place, v) == [under |-> master, bound |-> place, value |-> v]

\* GCM opens a value under the key and the place it was sealed for.
open(place, sealed) == sealed.under = master /\ sealed.bound = place

\* Get: an error, not found, or the value.
Unreadable(place) == db[place] # Absent /\ ~open(place, db[place])
Found(place) == db[place] # Absent /\ open(place, db[place])
Value(place) == db[place].value

\* Put and Delete commit or fail as a whole.
Put(place, v) ==
    /\ db' = [db EXCEPT ![place] = seal(place, v)]
    /\ UNCHANGED <<keyFile, master, made>>

Delete(place) ==
    /\ db' = [db EXCEPT ![place] = Absent]
    /\ UNCHANGED <<keyFile, master, made>>

\* List(module, prefix): the keys present under a namespace.
List(places) == {p \in places : db[p] # Absent}

\* loadOrCreateKey, an existing key file: unsealed and used.
LoadKey ==
    /\ keyFile # Absent
    /\ master' = keyFile
    /\ UNCHANGED <<db, keyFile, made>>

\* loadOrCreateKey, no key file: a fresh key goes to a temporary file ...
CreateKey ==
    /\ keyFile = Absent
    /\ made' = made + 1
    /\ master' = made'
    /\ UNCHANGED <<db, keyFile>>

RenameKey_Skipped == UNCHANGED store

\* ... which is renamed over the key file.
RenameKey ==
    /\ keyFile' = master
    /\ UNCHANGED <<db, master, made>>
=============================================================================
