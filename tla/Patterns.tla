------------------------------ MODULE Patterns ------------------------------
(* Event-bus topics and the patterns a module subscribes with.  A topic or *)
(* a pattern is a sequence of tokens, "*" being one of them: prefixes of   *)
(* strings are prefixes of token sequences.                                *)
EXTENDS Naturals, Sequences

Star == "*"

\* A pattern of a manifest is exact, or its only star is its last token: documented at
\* manifest.go:66, not validated by Parse.
WellFormed(p) == \A i \in 1..Len(p) : p[i] = Star => i = Len(p)

\* strings.HasPrefix
HasPrefix(str, pre) ==
    /\ Len(pre) <= Len(str)
    /\ \A i \in 1..Len(pre) : str[i] = pre[i]

\* strings.CutSuffix(p, "*")
IsGlob(p) == p # << >> /\ p[Len(p)] = Star
CutStar(p) == SubSeq(p, 1, Len(p) - 1)

\* Subscription.matches
matches(patterns, topic) ==
    \E p \in patterns : p = topic \/ (IsGlob(p) /\ HasPrefix(topic, CutStar(p)))

\* topicAllowed: a requested pattern against the manifest's list.
topicAllowed(topic, list) ==
    \E a \in list : a = topic \/ (IsGlob(a) /\ HasPrefix(topic, CutStar(a)))
=============================================================================
