------------------------------- MODULE Sysinfo ------------------------------
(* The sysinfo module, which doubles as the template of a module: an       *)
(* interval from its configuration, overridden by policy that arrives      *)
(* while it runs, a job that re-reads it every cycle, and the health it    *)
(* reports.  Time passes in ticks, and not while the job is due: a         *)
(* collection is short beside the interval.                                *)
EXTENDS Naturals, Sequences

CONSTANTS
    Intervals,      \* intervals, in ticks, in a configuration or a policy
    NoData,         \* a policy without a document for this module
    Malformed,      \* one that does not decode
    NotYet,         \* nothing sent on a watch
    MaxOnWay        \* bound: documents between core and applyPolicy

PolicyDocs == Intervals \cup {NoData, Malformed}

ASSUME InfoAssumption == Intervals \subseteq Nat /\ NotYet \notin PolicyDocs

VARIABLES
    phase,          \* "new", "inited", "started" or "stopped"
    cfg,            \* cfg.IntervalSeconds
    interval,
    policy,         \* core's document for this module
    follows,        \* the watch: "off", "on" or "ended"
    delivered,      \* what policyServer.Watch sent last
    onWay,          \* sent, and not yet applied
    job,            \* "none", "run", "rearm", "waiting" or "ended"
    timer,          \* ticks to the next collection
    period,         \* what the timer was set to
    age,            \* ticks since lastCollected
    lastErr,
    behind          \* history: ticks since a change of the interval the timer has not seen

applied == <<cfg, interval>>
feed == <<policy, follows, delivered, onWay>>
cycle == <<job, timer, period>>
collected == <<age, lastErr>>
infoVars == <<phase, applied, feed, cycle, collected, behind>>

Longest == CHOOSE n \in Intervals : \A k \in Intervals : k <= n

\* An age beyond which ages are not told apart, and no collection yet.
MaxAge == 2 * Longest + 1
Never == MaxAge + 1

InfoInit ==
    /\ phase = "new" /\ cfg \in Intervals /\ interval = 0
    /\ policy \in PolicyDocs /\ follows = "off" /\ delivered = NotYet /\ onWay = << >>
    /\ job = "none" /\ timer = 0 /\ period = 0
    /\ age = Never /\ lastErr = FALSE /\ behind = 0

\* applyPolicy: what carries no positive interval is ignored.
applyPolicy(doc, old) == IF doc \in Intervals \ {0} THEN doc ELSE old

\* Init: configuration, then policy if Get answers, then the watch.
ModuleInit(answers, watches) ==
    /\ phase = "new" /\ phase' = "inited"
    /\ interval' = IF answers THEN applyPolicy(policy, cfg) ELSE cfg
    /\ follows' = IF watches THEN "on" ELSE "off"
    /\ UNCHANGED <<cfg, policy, delivered, onWay, cycle, collected, behind>>

\* Start; the runtime starts the job, which runs at once.
ModuleStart ==
    /\ phase = "inited" /\ phase' = "started"
    /\ job' = "run"
    /\ UNCHANGED <<applied, feed, timer, period, collected, behind>>

\* Stop, after the runtime has cancelled the job and waited for it.
ModuleStop ==
    /\ phase \in {"inited", "started"} /\ phase' = "stopped"
    /\ job' = "none" /\ timer' = 0 /\ period' = 0 /\ behind' = 0
    /\ follows' = "off" /\ delivered' = NotYet /\ onWay' = << >>
    /\ UNCHANGED <<applied, policy, collected>>

\* Core installs another policy.
NewPolicy(doc) ==
    /\ doc # policy /\ policy' = doc
    /\ UNCHANGED <<phase, applied, follows, delivered, onWay, cycle, collected, behind>>

\* policyServer.Watch sends the first document, and then what differs from
\* the last it sent.
Forward ==
    /\ follows = "on" /\ policy # delivered /\ Len(onWay) < MaxOnWay
    /\ delivered' = policy /\ onWay' = Append(onWay, policy)
    /\ UNCHANGED <<phase, applied, policy, follows, cycle, collected, behind>>

\* The stream ends with an error; nobody opens it again.
WatchEnds ==
    /\ follows = "on" /\ follows' = "ended"
    /\ UNCHANGED <<phase, applied, policy, delivered, onWay, cycle, collected, behind>>

\* The loop over the watch's channel.
ApplyNext ==
    /\ onWay # << >>
    /\ interval' = applyPolicy(Head(onWay), interval)
    /\ onWay' = Tail(onWay)
    /\ behind' = IF interval' = interval THEN behind ELSE 0
    /\ UNCHANGED <<phase, cfg, policy, follows, delivered, cycle, collected>>

\* collectAndReport
CollectAndReport(err) ==
    /\ job = "run" /\ job' = "rearm"
    /\ age' = 0 /\ lastErr' = err
    /\ UNCHANGED <<phase, applied, feed, timer, period, behind>>

Every_Static == cfg

\* Jobs: EveryFunc is currentInterval.
Every == interval

\* launchJobLocked: the interval is read again; one that is not positive
\* ends the job.
Rearm ==
    /\ job = "rearm"
    /\ IF Every = 0 THEN job' = "ended" /\ UNCHANGED <<timer, period>>
       ELSE job' = "waiting" /\ timer' = Every /\ period' = Every
    /\ behind' = IF period' = interval THEN 0 ELSE behind
    /\ UNCHANGED <<phase, applied, feed, collected>>

\* A tick; the job is due when its timer fires.
PassTime ==
    /\ phase = "started" /\ job \in {"waiting", "ended"}
    /\ age' = IF age >= MaxAge THEN age ELSE age + 1
    /\ IF job = "waiting"
       THEN timer' = timer - 1 /\ job' = (IF timer = 1 THEN "run" ELSE job)
       ELSE UNCHANGED <<timer, job>>
    /\ behind' = IF period = interval \/ behind > Longest THEN behind ELSE behind + 1
    /\ UNCHANGED <<phase, applied, feed, period, lastErr>>

InfoNext ==
    \/ ModuleStart \/ ModuleStop \/ Forward \/ WatchEnds \/ ApplyNext \/ PassTime \/ Rearm
    \/ \E err \in BOOLEAN : CollectAndReport(err)
    \/ \E answers, watches \in BOOLEAN : ModuleInit(answers, watches)
    \/ \E doc \in PolicyDocs : NewPolicy(doc)

InfoSpec == InfoInit /\ [][InfoNext]_infoVars

----------------------------------------------------------------------------

\* Health: a collection older than twice the interval.
Stale == age # Never /\ age > 2 * interval

\* The interval of the policy governs the module. When the watch has caught up
\* with a policy that sets one, it is in force, whatever the configuration says
\* ("policy wins over config", sysinfo/module.go:20); it changes the cadence no
\* later than the timer that was running then fires (sysinfo/module.go:83: "a
\* policy change to sysinfo/interval actually changes the collection cadence");
\* and while collections are made when due, health calls the inventory stale only
\* if the interval was shortened after the timer was set, or the job ended
\* (sysinfo/module.go:112).
PolicyGoverns ==
    /\ follows = "on" /\ onWay = << >> /\ delivered = policy /\ policy \in Intervals \ {0} =>
          interval = policy
    /\ job = "waiting" /\ period # interval => behind < period
    /\ Stale /\ lastErr = FALSE => interval < period \/ job \in {"ended", "none"}

=============================================================================
