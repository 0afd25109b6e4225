------------------------------- MODULE Semver -------------------------------
(* How promoteStaged (internal/weaveboot) picks one of the staged cores:   *)
(* higherSemver, and the scan of the staging directory.  A version is a    *)
(* sequence of components; a component has a rank in the byte order of the *)
(* texts and, when strconv.Atoi takes it, a number.                        *)
EXTENDS Naturals, Sequences

CONSTANTS
    Names,          \* versions that may be staged
    NaN,            \* the number of a component that is not one
    NoVersion,      \* the empty string
    Width           \* above every number of a component, and every length

Components == [num : Nat \cup {NaN}, rank : Nat]

ASSUME SemverConstants ==
    /\ Width \in Nat \ {0} /\ NaN \notin Nat /\ NoVersion \notin Names
    /\ \A v \in Names : /\ v \in Seq(Components) /\ Len(v) <= 3
                       /\ \A i \in 1..Len(v) : v[i].num = NaN \/ v[i].num + 1 < Width

VARIABLES
    entries,        \* the directory: of each version whether its binary is there
    left,           \* entries the loop has not reached
    top             \* the loop's best

scanVars == <<entries, left, top>>

ScanInit == entries = << >> /\ left = {} /\ top = NoVersion

----------------------------------------------------------------------------

Numeric(c) == c.num # NaN

Differ(c, d) == IF Numeric(c) /\ Numeric(d) THEN c.num # d.num ELSE c.rank # d.rank

Above_Text(c, d) == c.rank > d.rank

Above(c, d) == IF Numeric(c) /\ Numeric(d) THEN c.num > d.num ELSE c.rank > d.rank

\* The first difference decides, else the length.
higherSemver(a, b) ==
    LET both == {i \in 1..Len(a) : i <= Len(b)}
        first(i) == Differ(a[i], b[i]) /\ \A j \in both : j < i => ~Differ(a[j], b[j])
    IN IF \E i \in both : Differ(a[i], b[i])
       THEN \E i \in both : first(i) /\ Above(a[i], b[i])
       ELSE Len(a) > Len(b)

\* promoteStaged reads the staging directory.
ReadDir(e) ==
    /\ ScanInit
    /\ entries' = e /\ left' = DOMAIN e
    /\ UNCHANGED top

\* One round of the loop: an entry without a binary is passed over.
Consider(v) ==
    /\ v \in left
    /\ left' = left \ {v}
    /\ top' = IF entries[v] /\ (top = NoVersion \/ higherSemver(v, top)) THEN v ELSE top
    /\ UNCHANGED entries

\* And promoteStaged goes on with it: the next call reads the directory anew.
Picked ==
    /\ left = {} /\ entries # << >>
    /\ entries' = << >> /\ top' = NoVersion
    /\ UNCHANGED left

ScanNext ==
    \/ \E S \in SUBSET Names : \E e \in [S -> BOOLEAN] : ReadDir(e)
    \/ \E v \in left : Consider(v)
    \/ Picked

ScanSpec == ScanInit /\ [][ScanNext]_scanVars

----------------------------------------------------------------------------
(* The reference: a dotted version read as one number.                     *)

At(v, i) == IF i <= Len(v) THEN v[i].num + 1 ELSE 0
Weight(v) == At(v, 1) * Width * Width + At(v, 2) * Width + At(v, 3)

\* Whatever order the directory is read in, the staged core that is promoted is the highest of
\* the ones with a binary, numbers compared as numbers, as long as every version is dotted
\* numeric: neither the order nor an entry without a binary hides one (weaveboot.go:187).
PicksHighest ==
    left = {} /\ (\A v \in DOMAIN entries : \A i \in 1..Len(v) : Numeric(v[i])) =>
        \A v \in DOMAIN entries : entries[v] => top # NoVersion /\ Weight(top) >= Weight(v)
=============================================================================
