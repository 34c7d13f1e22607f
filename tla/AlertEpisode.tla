---------------------------- MODULE AlertEpisode ----------------------------
(***************************************************************************)
(* The hub's alert evaluation.  One goroutine (alertruntime/runner.go)     *)
(* runs a pass at each tick: it reads a plan of the enabled rules, builds  *)
(* one write per rule (query/alerts.go) and commits them one after the     *)
(* other, each in a transaction of its own (ApplyAlertEvaluation in        *)
(* store/alerts_eval.go around Reduce in alerts/reducer.go).  An operator  *)
(* may revise a rule between two of them (mutateRule in                    *)
(* store/alerts_rules.go), a write may be refused, the hub may be killed.  *)
(*                                                                         *)
(* Time advances in units of the tick; evidence, cursors and the capacity  *)
(* ledger are left out: what refuses a write is a choice.                  *)
(***************************************************************************)
EXTENDS Naturals

CONSTANTS
    Rules,          \* rule numbers, in the order of their creation
    Trigger,        \* per rule, TriggerDwellMS
    Recovery,       \* per rule, RecoveryDwellMS
    MaxGap,         \* Cadence + PassTimeout: a longer gap was not observed
    Decisions,      \* what the evaluators may decide
    MaxVersion,     \* bound: revisions of a rule
    MaxEpisodes,    \* bound: alert instances of a rule
    MaxNow          \* bound: the clock

(* The predicate and whether it applies at once; "unknown": not evaluable. *)
AllDecisions == {"match", "matchNow", "clear", "clearNow", "hold", "unknown"}

Matches == {"match", "matchNow"}
Clears == {"clear", "clearNow"}
Immediate == {"matchNow", "clearNow"}

ASSUME AlertAssumption ==
    /\ Rules \subseteq Nat
    /\ Trigger \in [Rules -> Nat] /\ Recovery \in [Rules -> Nat]
    /\ MaxGap \in Nat /\ MaxNow \in Nat
    /\ MaxVersion \in Nat \ {0} /\ MaxEpisodes \in Nat
    /\ Decisions \subseteq AllDecisions

VARIABLES
    version,        \* rules.current_version
    enabled,        \* rule_revisions.enabled of the current version
    alert,          \* the newest alert instance of each rule
    open, closed,   \* incidents of each rule, by the instance they are of
    continuity,     \* runner: the last pass succeeded, in this process
    lastStart,      \* lastSuccessfulStart
    pass,           \* "idle" or "run"
    started,        \* when the latest pass began
    elapsed,        \* Cycle.Elapsed
    restarted,      \* Cycle.Restarted
    todo,           \* rules of the plan that are still to be written
    planned,        \* the rule versions the plan was read at
    decision,       \* what the evaluator decides for each rule
    now,
    observed        \* history: what was observed without a gap, since when

durable == <<version, enabled, alert, open, closed>>
runner == <<continuity, lastStart, pass>>
cycle == <<started, elapsed, restarted, planned, decision>>
vars == <<durable, runner, cycle, todo, now, observed>>

Live == {"OK", "PENDING", "FIRING", "RECOVERING"}
Terminal == {"RESOLVED", "superseded"}
Raised == {"FIRING", "RECOVERING"}

Alert == [id : 0 .. MaxEpisodes, version : 0 .. MaxVersion,
          state : Live \cup Terminal, dwell : Nat]
Observation == [kind : {"none", "match", "clear"}, since : 0 .. MaxNow]

(* validateSnapshot: there is a dwell only while one is running.            *)
DwellIsRunning(r) ==
    alert[r].state \notin {"PENDING", "RECOVERING"} => alert[r].dwell = 0

TypeOK ==
    /\ version \in [Rules -> 1 .. MaxVersion]
    /\ enabled \in [Rules -> BOOLEAN]
    /\ alert \in [Rules -> Alert] /\ \A r \in Rules : DwellIsRunning(r)
    /\ open \in [Rules -> SUBSET (1 .. MaxEpisodes)]
    /\ closed \in [Rules -> SUBSET (1 .. MaxEpisodes)]
    /\ continuity \in BOOLEAN /\ lastStart \in 0 .. MaxNow
    /\ pass \in {"idle", "run"}
    /\ started \in 0 .. MaxNow /\ elapsed \in Nat /\ restarted \in BOOLEAN
    /\ planned \in [Rules -> 1 .. MaxVersion]
    /\ decision \in [Rules -> AllDecisions]
    /\ todo \subseteq Rules
    /\ now \in 0 .. MaxNow
    /\ observed \in [Rules -> Observation]

NoAlert == [id |-> 0, version |-> 0, state |-> "RESOLVED", dwell |-> 0]
Unobserved == [kind |-> "none", since |-> 0]

Init ==
    /\ version = [r \in Rules |-> 1] /\ enabled = [r \in Rules |-> TRUE]
    /\ alert = [r \in Rules |-> NoAlert]
    /\ open = [r \in Rules |-> {}] /\ closed = [r \in Rules |-> {}]
    /\ continuity = FALSE /\ lastStart = 0 /\ pass = "idle"
    /\ started = 0 /\ elapsed = 0 /\ restarted = TRUE
    /\ planned = version /\ decision = [r \in Rules |-> "unknown"]
    /\ todo = {} /\ now = 0
    /\ observed = [r \in Rules |-> Unobserved]

-----------------------------------------------------------------------------
(* alerts/reducer.go: the state and the dwell after one evaluation.        *)

(* Mutant of Reduce: a sample in the hysteresis band keeps a recovery.     *)
ReduceHolds(r, state, dwell, d) ==
    LET credited == IF restarted \/ state \in {"OK", "FIRING"} THEN 0
                    ELSE dwell + elapsed
        due(limit) == d \in Immediate \/ credited >= limit
    IN IF state \in Raised
       THEN IF d \in Matches THEN [state |-> "FIRING", dwell |-> 0]
            ELSE IF d \in Clears /\ due(Recovery[r])
            THEN [state |-> "RESOLVED", dwell |-> 0]
            ELSE [state |-> "RECOVERING", dwell |-> credited]
       ELSE IF d \notin Matches THEN [state |-> "OK", dwell |-> 0]
            ELSE IF due(Trigger[r]) THEN [state |-> "FIRING", dwell |-> 0]
            ELSE [state |-> "PENDING", dwell |-> credited]

(* A dwell grows by the time since the last pass; it begins at 0, and it   *)
(* begins again after a restart, a failed pass or a gap.  Anything but a   *)
(* match ends PENDING, anything but a clear ends RECOVERING.               *)
Reduce(r, state, dwell, d) ==
    LET credited == IF restarted \/ state \in {"OK", "FIRING"} THEN 0
                    ELSE dwell + elapsed
        due(limit) == d \in Immediate \/ credited >= limit
    IN IF state \in Raised
       THEN IF d \notin Clears THEN [state |-> "FIRING", dwell |-> 0]
            ELSE IF due(Recovery[r]) THEN [state |-> "RESOLVED", dwell |-> 0]
            ELSE [state |-> "RECOVERING", dwell |-> credited]
       ELSE IF d \notin Matches THEN [state |-> "OK", dwell |-> 0]
            ELSE IF due(Trigger[r]) THEN [state |-> "FIRING", dwell |-> 0]
            ELSE [state |-> "PENDING", dwell |-> credited]

-----------------------------------------------------------------------------
(* The runner.                                                             *)

(* What a pass adds to the history: the same predicate as in the pass      *)
(* before, or a new observation that begins now.                           *)
Observe(r, gap, d) ==
    LET kind == IF ~enabled[r] THEN "none"
                ELSE IF d \in Matches THEN "match"
                ELSE IF d \in Clears THEN "clear" ELSE "none"
    IN IF ~gap /\ kind = observed[r].kind THEN observed[r]
       ELSE [kind |-> kind, since |-> now]

(* A pass begins at a tick, which may be delivered late, and plans the     *)
(* rules that are enabled at their current version.                        *)
BeginPass ==
    /\ pass = "idle" /\ pass' = "run"
    /\ started < now /\ started' = now
    /\ \E lagged \in BOOLEAN :
          LET gap == lagged \/ now - lastStart > MaxGap
          IN /\ restarted' = (~continuity \/ gap)
             /\ elapsed' = IF ~continuity \/ gap THEN 0 ELSE now - lastStart
             /\ decision' \in [Rules -> Decisions]
             /\ observed' = [r \in Rules |-> Observe(r, gap, decision'[r])]
    /\ todo' = {r \in Rules : enabled[r]} /\ planned' = version
    /\ UNCHANGED <<durable, continuity, lastStart, now>>

PassSucceeds ==
    /\ pass = "run" /\ todo = {}
    /\ pass' = "idle" /\ continuity' = TRUE /\ lastStart' = started
    /\ UNCHANGED <<durable, cycle, todo, now, observed>>

(* Mutant of PassFails: the next pass counts the time since the last good  *)
(* one.                                                                    *)
PassForgiven ==
    /\ pass = "run" /\ pass' = "idle" /\ todo' = {}
    /\ observed' = [r \in Rules |-> Unobserved]
    /\ UNCHANGED <<durable, continuity, lastStart, cycle, now>>

(* A write is refused, the plan cannot be read or PassTimeout ends it: the *)
(* rest of the plan is dropped, what was committed stays.                  *)
PassFails ==
    /\ pass = "run" /\ pass' = "idle" /\ todo' = {}
    /\ continuity' = FALSE
    /\ observed' = [r \in Rules |-> Unobserved]
    /\ UNCHANGED <<durable, lastStart, cycle, now>>

HubRestarts ==
    /\ pass' = "idle" /\ todo' = {} /\ continuity' = FALSE /\ lastStart' = 0
    /\ observed' = [r \in Rules |-> Unobserved]
    /\ UNCHANGED <<durable, cycle, now>>

-----------------------------------------------------------------------------
(* ApplyAlertEvaluation: one rule's write.                                 *)

(* loadAlertSnapshotTx: the newest instance of this version, or a new one  *)
(* when there is none or it has ended.                                     *)
Loaded(r) ==
    IF alert[r].version = version[r] /\ alert[r].state \in Live THEN alert[r]
    ELSE [id |-> alert[r].id + 1, version |-> version[r], state |-> "OK",
          dwell |-> 0]

OpensIncident(before, after) ==
    before.state \notin Raised /\ after.state = "FIRING"

(* Firing opens an incident; resolving needs the open one and closes it.   *)
WriteIncident(r, before, after) ==
    \/ /\ OpensIncident(before, after)
       /\ open' = [open EXCEPT ![r] = @ \cup {before.id}]
       /\ UNCHANGED closed
    \/ /\ after.state = "RESOLVED" /\ before.id \in open[r]
       /\ open' = [open EXCEPT ![r] = @ \ {before.id}]
       /\ closed' = [closed EXCEPT ![r] = @ \cup {before.id}]
    \/ /\ ~OpensIncident(before, after) /\ after.state # "RESOLVED"
       /\ UNCHANGED <<open, closed>>

ApplyAlertEvaluation(r) ==
    /\ pass = "run" /\ r \in todo /\ \A q \in todo : r <= q
    /\ enabled[r] /\ version[r] = planned[r]
    /\ LET before == Loaded(r)
           next == Reduce(r, before.state, before.dwell, decision[r])
           after == [before EXCEPT !.state = next.state, !.dwell = next.dwell]
       IN /\ before.id <= MaxEpisodes
          /\ alert' = [alert EXCEPT ![r] = after]
          /\ WriteIncident(r, before, after)
    /\ todo' = todo \ {r}
    /\ UNCHANGED <<version, enabled, runner, cycle, now, observed>>

-----------------------------------------------------------------------------
(* The operator: mutateRule with supersedeRuleInstancesTx.                 *)

(* Mutant of Supersede: the incident of the old version stays open.        *)
SupersedeAlertOnly(r) ==
    /\ alert' = IF alert[r].state \in Live
                THEN [alert EXCEPT ![r].state = "superseded", ![r].dwell = 0]
                ELSE alert
    /\ UNCHANGED <<open, closed>>

Supersede(r) ==
    /\ alert' = IF alert[r].state \in Live
                THEN [alert EXCEPT ![r].state = "superseded", ![r].dwell = 0]
                ELSE alert
    /\ open' = [open EXCEPT ![r] = {}]
    /\ closed' = [closed EXCEPT ![r] = @ \cup open[r]]

(* The edited rule may watch for something else: its history begins again. *)
UpdateRule(r) ==
    /\ version[r] < MaxVersion
    /\ version' = [version EXCEPT ![r] = @ + 1]
    /\ \E e \in BOOLEAN : enabled' = [enabled EXCEPT ![r] = e]
    /\ Supersede(r)
    /\ observed' = [observed EXCEPT ![r] = Unobserved]
    /\ UNCHANGED <<runner, cycle, todo, now>>

Tick ==
    /\ now < MaxNow /\ now' = now + 1
    /\ UNCHANGED <<durable, runner, cycle, todo, observed>>

Next ==
    \/ BeginPass \/ PassSucceeds \/ PassFails \/ HubRestarts \/ Tick
    \/ \E r \in Rules : ApplyAlertEvaluation(r) \/ UpdateRule(r)

Spec == Init /\ [][Next]_vars

-----------------------------------------------------------------------------
(* An alert fires, unless its evaluator says at once, only after passes of *)
(* one process, none of them failed and none late, saw the condition for   *)
(* the whole trigger dwell: time nobody observed never counts              *)
(* (alertruntime/runner.go: "so unobserved time cannot advance pending or  *)
(* recovery dwell").                                                       *)
FiringIsEarned ==
    [][\A r \in Rules :
          /\ alert[r].state \notin Raised /\ alert'[r].state = "FIRING"
          /\ decision[r] \notin Immediate
          => /\ observed[r].kind = "match"
             /\ started - observed[r].since >= Trigger[r]]_vars

(* In the same way an alert resolves only after its recovery was observed  *)
(* for the whole recovery dwell, with no sample in the hysteresis band.    *)
ResolutionIsEarned ==
    [][\A r \in Rules :
          /\ alert[r].state # "RESOLVED" /\ alert'[r].state = "RESOLVED"
          /\ decision[r] \notin Immediate
          => /\ observed[r].kind = "clear"
             /\ started - observed[r].since >= Recovery[r]]_vars

(* A rule's open incident is the incident of its raised alert, and there   *)
(* is no other: the resolving write always finds the incident it closes    *)
(* (requireOpenAlertIncidentTx), and no revision strands one.              *)
IncidentIsOfRaisedAlert ==
    \A r \in Rules :
        open[r] = IF alert[r].state \in Raised THEN {alert[r].id} ELSE {}

(* An alert that has not ended is evaluated at the version it was raised   *)
(* at: a revision never leaves an alert of the rule it replaced running.   *)
LiveAlertIsCurrent ==
    \A r \in Rules :
        alert[r].state \in Live => alert[r].version = version[r]

Ledger == INSTANCE IncidentLedger WITH Episode <- 1 .. MaxEpisodes

(* Incidents obey IncidentLedger: one open per rule, none reopened.        *)
LedgerSpec == Ledger!Spec

-----------------------------------------------------------------------------
(* The inductive invariant.                                                *)

Clocks ==
    /\ lastStart <= started /\ started <= now
    /\ \A r \in Rules : observed[r].since <= started

(* Instances are numbered upwards, and only an enabled rule has a live one.*)
Instances ==
    \A r \in Rules :
        /\ planned[r] <= version[r]
        /\ alert[r].state \in Live => enabled[r] /\ alert[r].id # 0
        /\ \A e \in closed[r] :
              e <= alert[r].id /\ (alert[r].state \in Live => e # alert[r].id)

(* What the pass decided is what its history says, until the rule changes. *)
DecisionIsObserved ==
    pass = "run" => \A r \in todo :
        version[r] = planned[r] =>
            /\ decision[r] \in Matches => observed[r].kind = "match"
            /\ decision[r] \in Clears => observed[r].kind = "clear"

(* A running dwell was observed, at least up to the last pass that counts. *)
DwellIsObserved(state, kind, D) ==
    \A r \in Rules :
        alert[r].state = state =>
            IF pass = "idle"
            THEN continuity => /\ observed[r].kind = kind
                               /\ observed[r].since + alert[r].dwell <= lastStart
            ELSE IF r \in todo
            THEN ~restarted /\ decision[r] \in D =>
                    observed[r].since + alert[r].dwell + elapsed <= started
            ELSE /\ observed[r].kind = kind
                 /\ observed[r].since + alert[r].dwell <= started

(* The state of every alert, its incident, and what its dwell rests on.    *)
IInv ==
    /\ TypeOK /\ Clocks /\ Instances
    /\ IncidentIsOfRaisedAlert /\ LiveAlertIsCurrent
    /\ DecisionIsObserved
    /\ DwellIsObserved("PENDING", "match", Matches)
    /\ DwellIsObserved("RECOVERING", "clear", Clears)
=============================================================================
