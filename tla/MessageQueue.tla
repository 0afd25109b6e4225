---------------------------- MODULE MessageQueue ----------------------------
(* What a module that hands core's transport a message can count on        *)
(* (Transport in sdk/modulesdk/module.go): the answer to Send is           *)
(* "delivered" only for a message its peer has received, "failed" never    *)
(* for a message that is kept, and a message that was stored stays pending *)
(* until its peer has it or it is discarded.  A message may reach its peer *)
(* more than once.  "queued" does not say that it was stored: a message    *)
(* the store did not take is answered so, too.                             *)
EXTENDS Naturals

CONSTANTS Messages

VARIABLES
    pending,    \* messages kept for a peer that was unreachable
    received,   \* messages their peer has received at least once
    discarded,  \* pending messages given up: the queue was full
    unstored,   \* messages that could not be made pending
    answer      \* what Send returned, "none" until it returns

vars == <<pending, received, discarded, unstored, answer>>

Init ==
    /\ pending = {}
    /\ received = {}
    /\ discarded = {} /\ unstored = {}
    /\ answer = [m \in Messages |-> "none"]

\* The peer receives a message, for the first time or again.
Arrive(m) ==
    /\ received' = received \cup {m}
    /\ UNCHANGED <<pending, discarded, unstored, answer>>

\* An unanswered message is kept for later.
Keep(m) ==
    /\ answer[m] = "none"
    /\ pending' = pending \cup {m}
    /\ UNCHANGED <<received, discarded, unstored, answer>>

\* A kept message is forgotten once its peer has it.
Forget(m) ==
    /\ m \in pending \cap received
    /\ pending' = pending \ {m}
    /\ UNCHANGED <<received, discarded, unstored, answer>>

\* A pending message is given up.
Discard(m) ==
    /\ m \in pending
    /\ pending' = pending \ {m}
    /\ discarded' = discarded \cup {m}
    /\ UNCHANGED <<received, unstored, answer>>

\* An unanswered message cannot be kept.
NotStored(m) ==
    /\ answer[m] = "none" /\ m \notin pending
    /\ unstored' = unstored \cup {m}
    /\ UNCHANGED <<pending, received, discarded, answer>>

Delivered(m) == answer[m] = "none" /\ m \in received /\ answer' = [answer EXCEPT ![m] = "delivered"]
Queued(m) ==
    /\ answer[m] = "none"
    /\ m \in pending \cup received \cup discarded \cup unstored
    /\ answer' = [answer EXCEPT ![m] = "queued"]
Failed(m) == answer[m] = "none" /\ m \notin pending /\ answer' = [answer EXCEPT ![m] = "failed"]

\* Send returns.
Answer(m) ==
    /\ Delivered(m) \/ Queued(m) \/ Failed(m)
    /\ UNCHANGED <<pending, received, discarded, unstored>>

Next == \E m \in Messages :
    Arrive(m) \/ Keep(m) \/ Forget(m) \/ Discard(m) \/ NotStored(m) \/ Answer(m)

Spec == Init /\ [][Next]_vars
=============================================================================
