----------------------------- MODULE HealthGate -----------------------------
(* The health gate of a promote (internal/lifecycle: activate, healthGate) *)
(* over the runner that Replace has just registered (internal/supervise).  *)
(* The gate samples a status the runner writes in two places: the state,   *)
(* and the health of the last poll that was answered, which a relaunch     *)
(* does not clear.  The clock ticks at the pace of the samples.            *)
EXTENDS Naturals

CONSTANTS
    GateTimeout,    \* Manager.GateTimeout
    GateStable,     \* Manager.GateStable
    Strikes,        \* Supervisor.HealthStrikes
    MaxLaunches     \* bound: processes of the runner under one gate

ASSUME HealthGateConstants == GateTimeout \in Nat /\ GateStable \in Nat \ {0}

Answers == {"HEALTHY", "DEGRADED", "UNHEALTHY"}
Never == GateTimeout + 2

VARIABLES
    rstate,         \* runner.state: "starting", "running", "backoff" or "over"
    health,         \* runner.health, "nil" at first
    struck,         \* pollHealth's strikes
    gate,           \* healthGate: "sampling", "passed" or "failed"
    now,            \* since healthGate began
    due,            \* the gate is at the head of its loop
    healthySince,   \* Never when zero
    \* history
    launches,       \* processes of the runner
    heard,          \* the launches that answered HEALTHY
    lastBad         \* when a sample last saw another state or health

gateVars == <<rstate, health, struck, gate, now, due, healthySince, launches, heard, lastBad>>
runner == <<rstate, health, struck, launches, heard>>
sampling == <<gate, now, due, healthySince, lastBad>>

\* Replace has returned: a new runner, and healthGate called.
GateInit ==
    /\ rstate = "starting" /\ health = "nil" /\ struck = 0
    /\ gate = "sampling" /\ now = 0 /\ due = TRUE /\ healthySince = Never
    /\ launches = 1 /\ heard = {} /\ lastBad = 0

----------------------------------------------------------------------------
(* The runner *)

\* launch succeeds; strikes are monitor's own.
Running ==
    /\ rstate = "starting"
    /\ rstate' = "running" /\ struck' = 0
    /\ UNCHANGED <<health, launches, heard, sampling>>

\* A failed launch, an exit, a watchdog kill, or strikes: backed off, or not restarted any more.
Down ==
    /\ rstate \in {"starting", "running"}
    /\ rstate' \in {"backoff", "over"}
    /\ UNCHANGED <<health, struck, launches, heard, sampling>>

Relaunch ==
    /\ rstate = "backoff" /\ launches < MaxLaunches
    /\ rstate' = "starting" /\ launches' = launches + 1
    /\ UNCHANGED <<health, struck, heard, sampling>>

\* pollHealth, answered.
Polled(h) ==
    /\ rstate = "running" /\ struck < Strikes
    /\ health' = h
    /\ struck' = IF h = "UNHEALTHY" THEN struck + 1 ELSE 0
    /\ heard' = IF h = "HEALTHY" THEN heard \cup {launches} ELSE heard
    /\ UNCHANGED <<rstate, launches, sampling>>

\* pollHealth, in error: a strike, and the recorded health stays.
PollLost ==
    /\ rstate = "running" /\ struck < Strikes
    /\ struck' = struck + 1
    /\ UNCHANGED <<rstate, health, launches, heard, sampling>>

----------------------------------------------------------------------------
(* healthGate *)

Tick ==
    /\ gate = "sampling" /\ now <= GateTimeout
    /\ now' = now + 1 /\ due' = TRUE
    /\ UNCHANGED <<runner, gate, healthySince, lastBad>>

Healthy == rstate = "running" /\ health = "HEALTHY"

Reset_Kept == UNCHANGED healthySince

\* The stable timer starts anew.
Reset == healthySince' = Never

Sample ==
    /\ gate = "sampling" /\ due /\ now < GateTimeout
    /\ due' = FALSE
    /\ \/ /\ Healthy
          /\ IF healthySince = Never
             THEN healthySince' = now /\ UNCHANGED gate
             ELSE /\ gate' = IF now - healthySince >= GateStable THEN "passed" ELSE gate
                  /\ UNCHANGED healthySince
          /\ UNCHANGED lastBad
       \/ /\ ~Healthy /\ rstate # "over"
          /\ Reset /\ lastBad' = now
          /\ UNCHANGED gate
       \/ /\ rstate = "over"
          /\ gate' = "failed" /\ lastBad' = now
          /\ UNCHANGED healthySince
    /\ UNCHANGED <<runner, now>>

\* The deadline at the head of the loop, or the request's context in its select.
GateExpires ==
    /\ gate = "sampling"
    /\ now >= GateTimeout \/ ~due
    /\ gate' = "failed"
    /\ UNCHANGED <<runner, now, due, healthySince, lastBad>>

\* The next activate replaces the runner.
NextActivate ==
    /\ gate # "sampling"
    /\ rstate' = "starting" /\ health' = "nil" /\ struck' = 0
    /\ gate' = "sampling" /\ now' = 0 /\ due' = TRUE /\ healthySince' = Never
    /\ launches' = 1 /\ heard' = {} /\ lastBad' = 0

GateNext ==
    \/ Running \/ Down \/ Relaunch \/ (\E h \in Answers : Polled(h)) \/ PollLost
    \/ Tick \/ Sample \/ GateExpires \/ NextActivate

GateSpec == GateInit /\ [][GateNext]_gateVars

----------------------------------------------------------------------------

\* A gate that passes has an answer for it: some process of the new version said HEALTHY to a
\* poll (a status not polled yet, a lost poll or a mere restart never counts, lifecycle.go:353),
\* and no sample of the stable period met another state or health, however samples, polls and
\* restarts interleave (lifecycle.go:334).
GateMeansHealthy == gate = "passed" => heard # {} /\ now - lastBad >= GateStable

=============================================================================
