---------------------------- MODULE AlertProofs ----------------------------
(***************************************************************************)
(* Proofs about alerts, for every set of rules, dwell and bound            *)
(* (AlertEpisode), and about the messages that tell of them, for every set *)
(* of destinations, lease and delay (Outbox).                              *)
(***************************************************************************)
EXTENDS AlertEpisode, Outbox, SequenceTheorems, FiniteSetTheorems, TLAPS

-----------------------------------------------------------------------------
(* What one evaluation does to the state and the dwell of an alert.        *)
LEMMA ReduceShape ==
    ASSUME NEW r \in Rules, NEW state \in Live, NEW dwell \in Nat,
           NEW d \in AllDecisions, elapsed \in Nat, restarted \in BOOLEAN
    PROVE  LET n == Reduce(r, state, dwell, d)
           IN /\ n = [state |-> n.state, dwell |-> n.dwell]
              /\ n.state \in Live \cup {"RESOLVED"} /\ n.dwell \in Nat
              /\ n.state \notin {"PENDING", "RECOVERING"} => n.dwell = 0
              /\ n.state \in {"OK", "PENDING"} <=>
                    /\ state \notin Raised
                    /\ n.state # "FIRING"
              /\ n.state = "PENDING" =>
                    /\ d \in Matches
                    /\ \/ n.dwell = 0
                       \/ /\ state = "PENDING" /\ ~restarted
                          /\ n.dwell = dwell + elapsed
              /\ n.state = "RECOVERING" =>
                    /\ d \in Clears
                    /\ \/ n.dwell = 0
                       \/ /\ state = "RECOVERING" /\ ~restarted
                          /\ n.dwell = dwell + elapsed
              /\ n.state = "FIRING" /\ state \notin Raised =>
                    \/ d \in Immediate
                    \/ /\ d \in Matches
                       /\ \/ Trigger[r] = 0
                          \/ /\ state = "PENDING" /\ ~restarted
                             /\ dwell + elapsed >= Trigger[r]
              /\ n.state = "RESOLVED" =>
                    \/ d \in Immediate
                    \/ /\ d \in Clears
                       /\ \/ Recovery[r] = 0
                          \/ /\ state = "RECOVERING" /\ ~restarted
                             /\ dwell + elapsed >= Recovery[r]
<1> USE AlertAssumption DEF AlertAssumption, AllDecisions, Matches, Clears,
        Immediate, Raised, Live
<1>1. CASE state = "OK"
  BY <1>1 DEF Reduce
<1>2. CASE state = "PENDING"
  BY <1>2 DEF Reduce
<1>3. CASE state = "FIRING"
  BY <1>3 DEF Reduce
<1>4. CASE state = "RECOVERING"
  BY <1>4 DEF Reduce
<1> QED
  BY <1>1, <1>2, <1>3, <1>4

(* One committed evaluation, in terms of the instance it was loaded from.  *)
LEMMA ApplyShape ==
    ASSUME TypeOK, NEW r \in Rules, ApplyAlertEvaluation(r)
    PROVE  LET before == Loaded(r)
               after == alert'[r]
               d == decision[r]
           IN /\ before \in Alert /\ before.state \in Live
              /\ before.version = version[r]
              /\ after \in Alert
              /\ after.id = before.id /\ after.version = version[r]
              /\ after.state \in Live \cup {"RESOLVED"}
              /\ alert' = [alert EXCEPT ![r] = after]
              /\ WriteIncident(r, before, after)
              /\ after.state \notin {"PENDING", "RECOVERING"} => after.dwell = 0
              /\ after.state \in {"OK", "PENDING"} <=>
                    before.state \notin Raised /\ after.state # "FIRING"
              /\ after.state = "PENDING" =>
                    /\ d \in Matches
                    /\ \/ after.dwell = 0
                       \/ /\ before.state = "PENDING" /\ ~restarted
                          /\ after.dwell = before.dwell + elapsed
              /\ after.state = "RECOVERING" =>
                    /\ d \in Clears
                    /\ \/ after.dwell = 0
                       \/ /\ before.state = "RECOVERING" /\ ~restarted
                          /\ after.dwell = before.dwell + elapsed
              /\ after.state = "FIRING" /\ before.state \notin Raised =>
                    \/ d \in Immediate
                    \/ /\ d \in Matches
                       /\ \/ Trigger[r] = 0
                          \/ /\ before.state = "PENDING" /\ ~restarted
                             /\ before.dwell + elapsed >= Trigger[r]
              /\ after.state = "RESOLVED" =>
                    \/ d \in Immediate
                    \/ /\ d \in Clears
                       /\ \/ Recovery[r] = 0
                          \/ /\ before.state = "RECOVERING" /\ ~restarted
                             /\ before.dwell + elapsed >= Recovery[r]
<1> DEFINE before == Loaded(r)
           n == Reduce(r, before.state, before.dwell, decision[r])
           after == [before EXCEPT !.state = n.state, !.dwell = n.dwell]
<1>1. /\ before.id <= MaxEpisodes /\ alert' = [alert EXCEPT ![r] = after]
      /\ WriteIncident(r, before, after)
  BY DEF ApplyAlertEvaluation
<1>2. alert \in [Rules -> Alert] /\ alert[r] \in Alert /\ version[r] \in 1 .. MaxVersion
  BY DEF TypeOK
<1>3. /\ before \in Alert /\ before.state \in Live
      /\ before.version = version[r]
  BY <1>1, <1>2, AlertAssumption DEF Loaded, Alert, AlertAssumption, Live
<1>4. /\ before.dwell \in Nat /\ decision[r] \in AllDecisions
      /\ elapsed \in Nat /\ restarted \in BOOLEAN
  BY <1>3 DEF Alert, TypeOK
<1>5. /\ n.state \in Live \cup {"RESOLVED"} /\ n.dwell \in Nat
  <2> HIDE DEF before
  <2> QED BY <1>3, <1>4, ReduceShape
<1>6. /\ after \in Alert /\ after.state = n.state /\ after.dwell = n.dwell
      /\ after.id = before.id /\ after.version = version[r]
  <2> HIDE DEF before, n
  <2> QED BY <1>3, <1>5 DEF Alert, Live, Terminal
<1>7. alert'[r] = after
  <2> HIDE DEF after, before, n
  <2> QED BY <1>1, <1>2
<1> HIDE DEF after, n, before
<1>8. /\ n.state \notin {"PENDING", "RECOVERING"} => n.dwell = 0
      /\ n.state \in {"OK", "PENDING"} <=>
            before.state \notin Raised /\ n.state # "FIRING"
      /\ n.state = "PENDING" =>
            /\ decision[r] \in Matches
            /\ \/ n.dwell = 0
               \/ /\ before.state = "PENDING" /\ ~restarted
                  /\ n.dwell = before.dwell + elapsed
      /\ n.state = "RECOVERING" =>
            /\ decision[r] \in Clears
            /\ \/ n.dwell = 0
               \/ /\ before.state = "RECOVERING" /\ ~restarted
                  /\ n.dwell = before.dwell + elapsed
  BY <1>3, <1>4, ReduceShape DEF n
<1>9. /\ n.state = "FIRING" /\ before.state \notin Raised =>
            \/ decision[r] \in Immediate
            \/ /\ decision[r] \in Matches
               /\ \/ Trigger[r] = 0
                  \/ /\ before.state = "PENDING" /\ ~restarted
                     /\ before.dwell + elapsed >= Trigger[r]
      /\ n.state = "RESOLVED" =>
            \/ decision[r] \in Immediate
            \/ /\ decision[r] \in Clears
               /\ \/ Recovery[r] = 0
                  \/ /\ before.state = "RECOVERING" /\ ~restarted
                     /\ before.dwell + elapsed >= Recovery[r]
  BY <1>3, <1>4, ReduceShape DEF n
<1>10. WriteIncident(r, before, alert'[r])
  BY <1>1, <1>7
<1> QED
  BY <1>1, <1>3, <1>5, <1>6, <1>7, <1>8, <1>9, <1>10 DEF before

(* What a pass that begins has measured and observed.                      *)
LEMMA BeginShape ==
    ASSUME TypeOK, Clocks, BeginPass
    PROVE  /\ elapsed' \in Nat /\ restarted' \in BOOLEAN
           /\ started' = now /\ now' = now
           /\ decision' \in [Rules -> AllDecisions]
           /\ observed' \in [Rules -> Observation]
           /\ ~restarted' => continuity /\ elapsed' = now - lastStart
           /\ \A r \in Rules :
                /\ observed'[r].since <= now
                /\ enabled[r] =>
                    /\ decision'[r] \in Matches =>
                        /\ observed'[r].kind = "match"
                        /\ ~restarted' /\ observed[r].kind = "match"
                           => observed'[r] = observed[r]
                    /\ decision'[r] \in Clears =>
                        /\ observed'[r].kind = "clear"
                        /\ ~restarted' /\ observed[r].kind = "clear"
                           => observed'[r] = observed[r]
<1>1. PICK lagged \in BOOLEAN :
         LET gap == lagged \/ now - lastStart > MaxGap
         IN /\ restarted' = (~continuity \/ gap)
            /\ elapsed' = IF ~continuity \/ gap THEN 0 ELSE now - lastStart
            /\ decision' \in [Rules -> Decisions]
            /\ observed' = [r \in Rules |-> Observe(r, gap, decision'[r])]
  BY DEF BeginPass
<1> DEFINE gap == lagged \/ now - lastStart > MaxGap
<1>2. /\ restarted' = (~continuity \/ gap)
      /\ elapsed' = IF ~continuity \/ gap THEN 0 ELSE now - lastStart
      /\ decision' \in [Rules -> Decisions]
      /\ observed' = [r \in Rules |-> Observe(r, gap, decision'[r])]
  BY <1>1
<1>3. gap \in BOOLEAN
  OBVIOUS
<1> HIDE DEF gap
<1>4. /\ started' = now /\ now' = now /\ now \in 0 .. MaxNow
      /\ lastStart \in 0 .. MaxNow /\ lastStart <= now /\ continuity \in BOOLEAN
  <2>1. lastStart \in Nat /\ started \in Nat /\ now \in Nat
    BY AlertAssumption DEF TypeOK, AlertAssumption
  <2>2. lastStart <= now
    BY <2>1 DEF Clocks
  <2> QED
    BY <2>2 DEF BeginPass, TypeOK
<1>5. elapsed' \in Nat
  BY <1>2, <1>3, <1>4
<1>6. restarted' \in BOOLEAN /\ (~restarted' => continuity /\ ~gap)
  BY <1>2, <1>3, <1>4
<1>7. ~restarted' => elapsed' = now - lastStart
  BY <1>2, <1>6
<1>8. decision' \in [Rules -> AllDecisions]
  BY <1>2, AlertAssumption DEF AlertAssumption
<1>9. ASSUME NEW r \in Rules
      PROVE  /\ observed'[r] \in Observation /\ observed'[r].since <= now
             /\ enabled[r] =>
                /\ decision'[r] \in Matches =>
                    /\ observed'[r].kind = "match"
                    /\ ~restarted' /\ observed[r].kind = "match"
                       => observed'[r] = observed[r]
                /\ decision'[r] \in Clears =>
                    /\ observed'[r].kind = "clear"
                    /\ ~restarted' /\ observed[r].kind = "clear"
                       => observed'[r] = observed[r]
  <2>1. /\ observed[r] \in Observation /\ observed[r].since <= started
        /\ started \in 0 .. MaxNow /\ started <= now
    BY DEF TypeOK, Clocks
  <2>2. observed'[r] = Observe(r, gap, decision'[r])
    BY <1>2
  <2> DEFINE kind == IF ~enabled[r] THEN "none"
                     ELSE IF decision'[r] \in Matches THEN "match"
                     ELSE IF decision'[r] \in Clears THEN "clear" ELSE "none"
  <2>3. observed'[r] = IF ~gap /\ kind = observed[r].kind THEN observed[r]
                       ELSE [kind |-> kind, since |-> now]
    BY <2>2 DEF Observe
  <2>4. kind \in {"none", "match", "clear"}
    OBVIOUS
  <2>5. /\ enabled[r] /\ decision'[r] \in Matches => kind = "match"
        /\ enabled[r] /\ decision'[r] \in Clears => kind = "clear"
    BY DEF Matches, Clears
  <2> HIDE DEF kind
  <2>6. observed'[r].kind = kind
    BY <2>3
  <2>7. observed'[r] \in Observation /\ observed'[r].since <= now
    BY <2>1, <2>3, <2>4, <1>4, AlertAssumption DEF Observation, AlertAssumption
  <2>8. ~gap /\ kind = observed[r].kind => observed'[r] = observed[r]
    BY <2>3
  <2> QED
    BY <2>5, <2>6, <2>7, <2>8, <1>6
<1>10. observed' \in [Rules -> Observation]
  BY <1>2, <1>9
<1> QED
  BY <1>4, <1>5, <1>6, <1>7, <1>8, <1>9, <1>10

-----------------------------------------------------------------------------
(* Type correctness, with the order of the clocks it rests on.             *)
LEMMA InitType == Init => TypeOK /\ Clocks
<1> SUFFICES ASSUME Init PROVE TypeOK /\ Clocks
  OBVIOUS
<1> USE AlertAssumption DEF AlertAssumption
<1>1. alert \in [Rules -> Alert]
  BY DEF Alert, NoAlert, Terminal, Init
<1>2. \A r \in Rules : DwellIsRunning(r)
  BY DEF DwellIsRunning, NoAlert, Init
<1>3. observed \in [Rules -> Observation]
  BY DEF Observation, Unobserved, Init
<1>4. decision \in [Rules -> AllDecisions]
  BY DEF AllDecisions, Init
<1>5. version \in [Rules -> 1 .. MaxVersion] /\ planned \in [Rules -> 1 .. MaxVersion]
  BY DEF Init
<1>6. enabled \in [Rules -> BOOLEAN]
  BY DEF Init
<1>7. /\ open \in [Rules -> SUBSET (1 .. MaxEpisodes)]
      /\ closed \in [Rules -> SUBSET (1 .. MaxEpisodes)]
  BY DEF Init
<1>8. /\ lastStart \in 0 .. MaxNow /\ started \in 0 .. MaxNow
      /\ now \in 0 .. MaxNow /\ elapsed \in Nat
  BY DEF Init
<1>9. /\ continuity \in BOOLEAN /\ restarted \in BOOLEAN
      /\ pass \in {"idle", "run"} /\ todo \subseteq Rules
  BY DEF Init
<1>10. Clocks
  BY DEF Clocks, Unobserved, Init
<1> QED
  BY <1>1, <1>2, <1>3, <1>4, <1>5, <1>6, <1>7, <1>8, <1>9, <1>10 DEF TypeOK

(* An incident is opened under a real number: instances count from 1.      *)
LEMMA LoadedNumber ==
    ASSUME TypeOK, Instances, NEW r \in Rules, ApplyAlertEvaluation(r)
    PROVE  Loaded(r).id \in 1 .. MaxEpisodes
<1>1. alert[r] \in Alert
  BY DEF TypeOK
<1>2. Loaded(r).id <= MaxEpisodes
  BY DEF ApplyAlertEvaluation
<1>3. alert[r].state \in Live => alert[r].id # 0
  BY DEF Instances
<1> QED
  BY <1>1, <1>2, <1>3, AlertAssumption DEF Loaded, Alert, AlertAssumption

(* Every step of a pass, a revision, a clock and a restart keeps the types.*)
LEMMA NextType ==
    ASSUME TypeOK, Clocks, Instances, [Next]_vars
    PROVE  TypeOK' /\ Clocks'
<1> USE AlertAssumption DEF AlertAssumption
<1>0. ASSUME observed' = [r \in Rules |-> Unobserved]
      PROVE  /\ observed' \in [Rules -> Observation]
             /\ \A r \in Rules : observed'[r].since <= started
  BY <1>0 DEF Observation, Unobserved, TypeOK
<1>1. CASE BeginPass
  <2>1. TypeOK'
    BY <1>1, BeginShape DEF BeginPass, TypeOK, durable, DwellIsRunning
  <2>2. Clocks'
    BY <1>1, BeginShape DEF BeginPass, TypeOK, Clocks
  <2> QED
    BY <2>1, <2>2
<1>2. CASE PassSucceeds
  BY <1>2 DEF PassSucceeds, TypeOK, Clocks, DwellIsRunning, durable, cycle
<1>3. CASE PassFails
  <2>1. /\ observed' \in [Rules -> Observation]
        /\ \A r \in Rules : observed'[r].since <= started
    BY <1>0, <1>3 DEF PassFails
  <2>2. Clocks'
    BY <1>3, <2>1 DEF PassFails, Clocks, cycle
  <2> QED
    BY <1>3, <2>1, <2>2 DEF PassFails, TypeOK, DwellIsRunning, durable, cycle
<1>4. CASE HubRestarts
  <2>1. /\ observed' \in [Rules -> Observation]
        /\ \A r \in Rules : observed'[r].since <= started
    BY <1>0, <1>4 DEF HubRestarts
  <2>2. Clocks'
    BY <1>4, <2>1 DEF HubRestarts, Clocks, cycle, TypeOK
  <2>3. lastStart' \in 0 .. MaxNow
    BY <1>4 DEF HubRestarts
  <2> QED
    BY <1>4, <2>1, <2>2, <2>3
    DEF HubRestarts, TypeOK, DwellIsRunning, durable, cycle
<1>5. CASE Tick
  BY <1>5 DEF Tick, TypeOK, Clocks, DwellIsRunning, durable, cycle, runner
<1>6. ASSUME NEW r \in Rules, ApplyAlertEvaluation(r)
      PROVE  TypeOK' /\ Clocks'
  <2>1. alert' \in [Rules -> Alert] /\ \A q \in Rules : DwellIsRunning(q)'
    <3>1. alert' = [alert EXCEPT ![r] = alert'[r]] /\ alert'[r] \in Alert
      BY <1>6, ApplyShape
    <3>2. DwellIsRunning(r)'
      BY <1>6, ApplyShape DEF DwellIsRunning
    <3>3. alert \in [Rules -> Alert] /\ \A q \in Rules : DwellIsRunning(q)
      BY DEF TypeOK
    <3> QED
      BY <3>1, <3>2, <3>3 DEF DwellIsRunning
  <2>2. /\ open' \in [Rules -> SUBSET (1 .. MaxEpisodes)]
        /\ closed' \in [Rules -> SUBSET (1 .. MaxEpisodes)]
    <3>1. WriteIncident(r, Loaded(r), alert'[r])
      BY <1>6, ApplyShape
    <3>2. Loaded(r).id \in 1 .. MaxEpisodes
      BY <1>6, LoadedNumber
    <3> QED
      BY <3>1, <3>2 DEF WriteIncident, TypeOK
  <2> QED
    BY <1>6, <2>1, <2>2 DEF ApplyAlertEvaluation, TypeOK, Clocks, runner, cycle
<1>7. ASSUME NEW r \in Rules, UpdateRule(r)
      PROVE  TypeOK' /\ Clocks'
  <2>1. alert' \in [Rules -> Alert] /\ \A q \in Rules : DwellIsRunning(q)'
    <3>1. alert \in [Rules -> Alert] /\ \A q \in Rules : DwellIsRunning(q)
      BY DEF TypeOK
    <3>2. [alert[r] EXCEPT !.state = "superseded", !.dwell = 0] \in Alert
      BY <3>1 DEF Alert, Terminal
    <3>3. \/ alert' = alert
          \/ alert' = [alert EXCEPT ![r] =
                          [alert[r] EXCEPT !.state = "superseded", !.dwell = 0]]
      BY <1>7, <3>1 DEF UpdateRule, Supersede
    <3>4. [alert[r] EXCEPT !.state = "superseded", !.dwell = 0].dwell = 0
      BY <3>1 DEF Alert
    <3> QED
      BY <3>1, <3>2, <3>3, <3>4 DEF DwellIsRunning
  <2>2. version' \in [Rules -> 1 .. MaxVersion] /\ enabled' \in [Rules -> BOOLEAN]
    BY <1>7 DEF UpdateRule, TypeOK
  <2>3. /\ open' \in [Rules -> SUBSET (1 .. MaxEpisodes)]
        /\ closed' \in [Rules -> SUBSET (1 .. MaxEpisodes)]
    BY <1>7 DEF UpdateRule, Supersede, TypeOK
  <2>4. /\ observed' \in [Rules -> Observation]
        /\ \A q \in Rules : observed'[q].since <= started
    BY <1>7 DEF UpdateRule, TypeOK, Observation, Unobserved, Clocks
  <2> QED
    BY <1>7, <2>1, <2>2, <2>3, <2>4 DEF UpdateRule, TypeOK, Clocks, runner, cycle
<1>8. CASE UNCHANGED vars
  BY <1>8 DEF vars, durable, runner, cycle, TypeOK, Clocks, DwellIsRunning
<1> QED
  BY <1>1, <1>2, <1>3, <1>4, <1>5, <1>6, <1>7, <1>8 DEF Next
-----------------------------------------------------------------------------
(* What a revision does to the rule it revises, and to no other.           *)
LEMMA UpdateShape ==
    ASSUME TypeOK, NEW r \in Rules, UpdateRule(r)
    PROVE  /\ alert' = [alert EXCEPT ![r] = alert'[r]]
           /\ alert'[r].state \in Terminal /\ alert'[r].id = alert[r].id
           /\ open' = [open EXCEPT ![r] = {}]
           /\ closed' = [closed EXCEPT ![r] = closed[r] \cup open[r]]
           /\ version' = [version EXCEPT ![r] = version[r] + 1]
           /\ \A q \in Rules \ {r} : enabled'[q] = enabled[q]
           /\ observed' = [observed EXCEPT ![r] = Unobserved]
           /\ UNCHANGED <<runner, cycle, todo, now>>
<1>1. alert \in [Rules -> Alert] /\ alert[r] \in Alert
  BY DEF TypeOK
<1>2. CASE alert[r].state \in Live
  <2> DEFINE ended == [alert[r] EXCEPT !.state = "superseded", !.dwell = 0]
  <2>1. ended.state \in Terminal /\ ended.id = alert[r].id
    BY <1>1 DEF Alert, Terminal
  <2>2. alert' = [alert EXCEPT ![r] = ended]
    BY <1>1, <1>2 DEF UpdateRule, Supersede
  <2> HIDE DEF ended
  <2>3. alert'[r] = ended
    BY <1>1, <2>2
  <2> QED
    BY <2>1, <2>2, <2>3 DEF UpdateRule, Supersede, TypeOK
<1>3. CASE alert[r].state \notin Live
  <2>1. alert' = alert
    BY <1>3 DEF UpdateRule, Supersede
  <2>2. alert[r].state \in Terminal
    BY <1>1, <1>3 DEF Alert
  <2> QED
    BY <1>1, <2>1, <2>2 DEF UpdateRule, Supersede, TypeOK
<1> QED
  BY <1>2, <1>3

(* The instance an evaluation starts from: the rule's open incident is     *)
(* its own, and none of its number was closed.                             *)
LEMMA LoadedIncident ==
    ASSUME TypeOK, Instances, IncidentIsOfRaisedAlert, LiveAlertIsCurrent,
           NEW r \in Rules, ApplyAlertEvaluation(r)
    PROVE  LET before == Loaded(r)
           IN /\ open[r] = IF before.state \in Raised THEN {before.id} ELSE {}
              /\ \A e \in closed[r] : e <= before.id /\ e # before.id
              /\ before.state \in {"PENDING", "FIRING", "RECOVERING"}
                 => before = alert[r]
              /\ alert[r].state \in Live => before = alert[r]
              /\ alert[r].id <= before.id
<1>1. alert[r] \in Alert /\ closed[r] \subseteq 1 .. MaxEpisodes
  BY DEF TypeOK
<1>2. CASE alert[r].state \in Live
  <2>1. Loaded(r) = alert[r]
    BY <1>2 DEF Loaded, LiveAlertIsCurrent
  <2> QED
    BY <1>1, <1>2, <2>1, AlertAssumption
    DEF IncidentIsOfRaisedAlert, Instances, Alert, AlertAssumption
<1>3. CASE alert[r].state \notin Live
  <2>1. /\ Loaded(r).id = alert[r].id + 1 /\ Loaded(r).state = "OK"
        /\ alert[r].id \in Nat
    BY <1>1, <1>3, AlertAssumption DEF Loaded, Alert, AlertAssumption
  <2>2. \A e \in closed[r] : e \in Nat /\ e <= alert[r].id
    BY <1>1, AlertAssumption DEF Instances, AlertAssumption
  <2>3. open[r] = {}
    BY <1>3 DEF IncidentIsOfRaisedAlert, Raised, Live
  <2> QED
    BY <1>3, <2>1, <2>2, <2>3 DEF Raised
<1> QED
  BY <1>2, <1>3

(* Instances stay apart: none that is live was closed before.              *)
LEMMA NextInstances ==
    ASSUME TypeOK, Instances, IncidentIsOfRaisedAlert, LiveAlertIsCurrent,
           [Next]_vars
    PROVE  Instances'
<1> USE AlertAssumption DEF AlertAssumption
<1>1. CASE BeginPass
  BY <1>1 DEF BeginPass, Instances, durable, TypeOK
<1>2. CASE PassSucceeds \/ PassFails \/ HubRestarts \/ Tick \/ UNCHANGED vars
  BY <1>2 DEF PassSucceeds, PassFails, HubRestarts, Tick, Instances, durable,
     cycle, vars
<1>3. ASSUME NEW r \in Rules, ApplyAlertEvaluation(r)
      PROVE  Instances'
  <2> DEFINE before == Loaded(r)
             after == alert'[r]
  <2>1. /\ alert' = [alert EXCEPT ![r] = after] /\ before \in Alert
        /\ after.id = before.id /\ WriteIncident(r, before, after)
        /\ before.state \in Live
    BY <1>3, ApplyShape
  <2>2. /\ \A e \in closed[r] : e <= before.id /\ e # before.id
        /\ before.id \in 1 .. MaxEpisodes
    BY <1>3, LoadedIncident, LoadedNumber
  <2>3. enabled[r] /\ UNCHANGED <<version, planned, enabled>>
    BY <1>3 DEF ApplyAlertEvaluation, cycle
  <2> HIDE DEF before, after
  <2>4. \A q \in Rules \ {r} : alert'[q] = alert[q] /\ closed'[q] = closed[q]
    BY <2>1 DEF WriteIncident, TypeOK
  <2>5. alert'[r] = after
    BY DEF after
  <2>6. \/ closed'[r] = closed[r]
        \/ closed'[r] = closed[r] \cup {before.id} /\ after.state = "RESOLVED"
    BY <2>1 DEF WriteIncident, TypeOK
  <2>7. \A e \in closed'[r] :
           e <= after.id /\ (after.state \in Live => e # after.id)
    BY <2>1, <2>2, <2>6 DEF Live
  <2>8. after.id # 0
    BY <2>1, <2>2
  <2>9. enabled'[r] /\ version' = version /\ planned' = planned
        /\ enabled' = enabled
    BY <2>3
  <2>10. \A q \in Rules : planned'[q] <= version'[q]
    BY <2>9 DEF Instances
  <2>11. \A q \in Rules :
            alert'[q].state \in Live => enabled'[q] /\ alert'[q].id # 0
    <3>1. TAKE q \in Rules
    <3>2. CASE q = r
      BY <3>2, <2>5, <2>8, <2>9
    <3>3. CASE q # r
      BY <3>3, <2>4, <2>9 DEF Instances
    <3> QED
      BY <3>2, <3>3
  <2>12. \A q \in Rules : \A e \in closed'[q] :
            /\ e <= alert'[q].id
            /\ alert'[q].state \in Live => e # alert'[q].id
    <3>1. TAKE q \in Rules
    <3>2. CASE q = r
      BY <3>2, <2>5, <2>7
    <3>3. CASE q # r
      BY <3>3, <2>4 DEF Instances
    <3> QED
      BY <3>2, <3>3
  <2> QED
    BY <2>10, <2>11, <2>12 DEF Instances
<1>4. ASSUME NEW r \in Rules, UpdateRule(r)
      PROVE  Instances'
  <2>1. \A q \in Rules \ {r} :
           /\ alert'[q] = alert[q] /\ closed'[q] = closed[q]
           /\ version'[q] = version[q] /\ enabled'[q] = enabled[q]
    BY <1>4, UpdateShape DEF TypeOK
  <2>2. /\ alert'[r].state \in Terminal /\ alert'[r].id = alert[r].id
        /\ closed'[r] = closed[r] \cup open[r] /\ version'[r] = version[r] + 1
    BY <1>4, UpdateShape DEF TypeOK
  <2>3. planned' = planned /\ planned[r] \in Nat /\ version[r] \in Nat
    BY <1>4, UpdateShape DEF cycle, TypeOK
  <2>4. \A e \in closed'[r] : e <= alert[r].id
    BY <2>2 DEF Instances, IncidentIsOfRaisedAlert, TypeOK, Alert
  <2>5. alert'[r].state \notin Live
    BY <2>2 DEF Live, Terminal
  <2>6. planned[r] <= version'[r]
    BY <2>2, <2>3 DEF Instances
  <2> QED
    BY <2>1, <2>2, <2>3, <2>4, <2>5, <2>6 DEF Instances
<1> QED
  BY <1>1, <1>2, <1>3, <1>4 DEF Next

(* Every incident follows its alert, every live alert its rule's version.  *)
LEMMA NextIncident ==
    ASSUME TypeOK, Instances, IncidentIsOfRaisedAlert, LiveAlertIsCurrent,
           [Next]_vars
    PROVE  IncidentIsOfRaisedAlert' /\ LiveAlertIsCurrent'
<1>1. CASE \/ BeginPass \/ PassSucceeds \/ PassFails \/ HubRestarts \/ Tick
           \/ UNCHANGED vars
  BY <1>1 DEF BeginPass, PassSucceeds, PassFails, HubRestarts, Tick, durable,
     vars, IncidentIsOfRaisedAlert, LiveAlertIsCurrent
<1>2. ASSUME NEW r \in Rules, ApplyAlertEvaluation(r)
      PROVE  IncidentIsOfRaisedAlert' /\ LiveAlertIsCurrent'
  <2> DEFINE before == Loaded(r)
             after == alert'[r]
  <2>1. /\ alert' = [alert EXCEPT ![r] = after]
        /\ after.id = before.id /\ after.version = version[r]
        /\ after.state \in Live \cup {"RESOLVED"} /\ before.state \in Live
        /\ WriteIncident(r, before, after)
        /\ after.state \in {"OK", "PENDING"} <=>
              before.state \notin Raised /\ after.state # "FIRING"
    BY <1>2, ApplyShape
  <2>2. open[r] = IF before.state \in Raised THEN {before.id} ELSE {}
    BY <1>2, LoadedIncident
  <2>3. version' = version
    BY <1>2 DEF ApplyAlertEvaluation
  <2> HIDE DEF before, after
  <2>4. \A q \in Rules \ {r} : alert'[q] = alert[q] /\ open'[q] = open[q]
    BY <2>1 DEF WriteIncident, TypeOK
  <2>5. alert'[r] = after
    BY DEF after
  <2>6. open'[r] = IF after.state \in Raised THEN {after.id} ELSE {}
    <3>1. CASE OpensIncident(before, after)
      <4>1. open'[r] = {} \cup {before.id} /\ after.state = "FIRING"
        BY <2>1, <2>2, <3>1 DEF WriteIncident, OpensIncident, TypeOK
      <4> QED BY <4>1, <2>1 DEF Raised
    <3>2. CASE after.state = "RESOLVED"
      <4>1. open'[r] = open[r] \ {before.id}
        BY <2>1, <3>2 DEF WriteIncident, OpensIncident, TypeOK
      <4> QED BY <4>1, <2>2, <3>2 DEF Raised
    <3>3. CASE ~OpensIncident(before, after) /\ after.state # "RESOLVED"
      <4>1. open'[r] = open[r]
        BY <2>1, <3>3 DEF WriteIncident
      <4>2. before.state \in Raised <=> after.state \in Raised
        BY <2>1, <3>3 DEF OpensIncident, Raised, Live
      <4> QED BY <4>1, <4>2, <2>1, <2>2
    <3> QED BY <3>1, <3>2, <3>3
  <2> QED
    BY <2>1, <2>3, <2>4, <2>5, <2>6 DEF IncidentIsOfRaisedAlert, LiveAlertIsCurrent
<1>3. ASSUME NEW r \in Rules, UpdateRule(r)
      PROVE  IncidentIsOfRaisedAlert' /\ LiveAlertIsCurrent'
  <2>1. \A q \in Rules \ {r} :
           /\ alert'[q] = alert[q] /\ open'[q] = open[q]
           /\ version'[q] = version[q]
    BY <1>3, UpdateShape DEF TypeOK
  <2>2. alert'[r].state \in Terminal /\ open'[r] = {}
    BY <1>3, UpdateShape DEF TypeOK
  <2>3. alert'[r].state \notin Live /\ alert'[r].state \notin Raised
    BY <2>2 DEF Live, Terminal, Raised
  <2> QED
    BY <2>1, <2>2, <2>3 DEF IncidentIsOfRaisedAlert, LiveAlertIsCurrent
<1> QED
  BY <1>1, <1>2, <1>3 DEF Next
-----------------------------------------------------------------------------
(* The decision of a rule still to be written is what its history says.    *)
LEMMA NextDecision ==
    ASSUME TypeOK, Clocks, Instances, DecisionIsObserved, [Next]_vars
    PROVE  DecisionIsObserved'
<1>1. CASE BeginPass
  <2>1. \A r \in Rules : enabled[r] =>
           /\ decision'[r] \in Matches => observed'[r].kind = "match"
           /\ decision'[r] \in Clears => observed'[r].kind = "clear"
    BY <1>1, BeginShape
  <2>2. todo' = {r \in Rules : enabled[r]}
    BY <1>1 DEF BeginPass
  <2> QED
    BY <2>1, <2>2 DEF DecisionIsObserved
<1>2. CASE PassSucceeds \/ PassFails \/ HubRestarts
  BY <1>2 DEF PassSucceeds, PassFails, HubRestarts, DecisionIsObserved
<1>3. CASE Tick \/ UNCHANGED vars
  BY <1>3 DEF Tick, durable, runner, cycle, vars, DecisionIsObserved
<1>4. ASSUME NEW r \in Rules, ApplyAlertEvaluation(r)
      PROVE  DecisionIsObserved'
  BY <1>4 DEF ApplyAlertEvaluation, runner, cycle, DecisionIsObserved
<1>5. ASSUME NEW r \in Rules, UpdateRule(r)
      PROVE  DecisionIsObserved'
  <2>1. /\ \A q \in Rules \ {r} :
              version'[q] = version[q] /\ observed'[q] = observed[q]
        /\ UNCHANGED <<pass, todo, planned, decision>>
    BY <1>5, UpdateShape DEF TypeOK, runner, cycle
  <2>2. version'[r] = version[r] + 1 /\ version[r] \in Nat /\ planned[r] \in Nat
    BY <1>5, UpdateShape DEF TypeOK
  <2>3. version'[r] # planned[r]
    BY <2>2 DEF Instances
  <2>4. todo \subseteq Rules
    BY DEF TypeOK
  <2> QED
    BY <2>1, <2>3, <2>4 DEF DecisionIsObserved
<1> QED
  BY <1>1, <1>2, <1>3, <1>4, <1>5 DEF Next

(* A dwell rests on an observation as long, for the trigger and for the    *)
(* recovery alike: what a step adds to the dwell it adds to the            *)
(* observation, and where the observation breaks off the dwell begins at 0.*)
LEMMA NextDwell ==
    ASSUME TypeOK, Clocks, Instances, LiveAlertIsCurrent,
           IncidentIsOfRaisedAlert, DecisionIsObserved,
           NEW state, NEW kind, NEW D,
           \/ state = "PENDING" /\ kind = "match" /\ D = Matches
           \/ state = "RECOVERING" /\ kind = "clear" /\ D = Clears,
           DwellIsObserved(state, kind, D), [Next]_vars
    PROVE  DwellIsObserved(state, kind, D)'
<1> USE AlertAssumption DEF AlertAssumption
<1>0. state \in Live
  BY DEF Live
<1>1. CASE BeginPass
  <2> SUFFICES ASSUME NEW r \in Rules, alert'[r].state = state
               PROVE  /\ pass' = "run" /\ r \in todo'
                      /\ ~restarted' /\ decision'[r] \in D =>
                            observed'[r].since + alert'[r].dwell + elapsed'
                               <= started'
    BY DEF DwellIsObserved
  <2>1. UNCHANGED durable /\ pass = "idle" /\ pass' = "run"
        /\ todo' = {q \in Rules : enabled[q]}
    BY <1>1 DEF BeginPass
  <2>2. alert' = alert /\ enabled[r]
    BY <2>1, <1>0 DEF durable, Instances
  <2>3. ASSUME ~restarted', decision'[r] \in D
        PROVE  observed'[r].since + alert'[r].dwell + elapsed' <= started'
    <3>1. continuity /\ elapsed' = now - lastStart /\ started' = now
      BY <1>1, <2>3, BeginShape
    <3>2. /\ observed[r].kind = kind
          /\ observed[r].since + alert[r].dwell <= lastStart
      BY <2>1, <2>2, <3>1 DEF DwellIsObserved
    <3>3. observed'[r] = observed[r]
      BY <1>1, <2>2, <2>3, <3>2, BeginShape
    <3>4. /\ observed[r].since \in Nat /\ alert[r].dwell \in Nat
          /\ lastStart \in Nat /\ now \in Nat
      BY DEF TypeOK, Observation, Alert
    <3> QED
      BY <2>2, <3>1, <3>2, <3>3, <3>4
  <2> QED
    BY <2>1, <2>2, <2>3
<1>2. CASE PassSucceeds
  BY <1>2 DEF PassSucceeds, durable, cycle, DwellIsObserved
<1>3. CASE PassFails \/ HubRestarts
  BY <1>3 DEF PassFails, HubRestarts, DwellIsObserved
<1>4. CASE Tick \/ UNCHANGED vars
  BY <1>4 DEF Tick, durable, runner, cycle, vars, DwellIsObserved
<1>5. ASSUME NEW r \in Rules, ApplyAlertEvaluation(r)
      PROVE  DwellIsObserved(state, kind, D)'
  <2> DEFINE before == Loaded(r)
             after == alert'[r]
  <2>1. /\ pass = "run" /\ r \in todo /\ version[r] = planned[r]
        /\ todo' = todo \ {r}
        /\ UNCHANGED <<pass, restarted, elapsed, started, decision, observed>>
    BY <1>5 DEF ApplyAlertEvaluation, runner, cycle
  <2>2. \A q \in Rules \ {r} : alert'[q] = alert[q]
    BY <1>5, ApplyShape DEF TypeOK
  <2>3. ASSUME after.state = state
        PROVE  /\ observed[r].kind = kind
               /\ observed[r].since + after.dwell <= started
    <3>1. /\ decision[r] \in D
          /\ \/ after.dwell = 0
             \/ /\ before.state = state /\ ~restarted
                /\ after.dwell = before.dwell + elapsed
      BY <1>5, <2>3, ApplyShape
    <3>2. observed[r].kind = kind
      BY <2>1, <3>1 DEF DecisionIsObserved
    <3>3. /\ observed[r].since \in Nat /\ observed[r].since <= started
          /\ started \in Nat /\ elapsed \in Nat /\ alert[r].dwell \in Nat
      BY DEF TypeOK, Observation, Clocks, Alert
    <3>4. CASE after.dwell = 0
      BY <3>2, <3>3, <3>4
    <3>5. CASE /\ before.state = state /\ ~restarted
               /\ after.dwell = before.dwell + elapsed
      <4>1. before = alert[r]
        BY <1>5, <3>5, LoadedIncident
      <4>2. observed[r].since + alert[r].dwell + elapsed <= started
        BY <2>1, <3>1, <3>5, <4>1 DEF DwellIsObserved
      <4> HIDE DEF before, after
      <4> QED
        BY <3>2, <3>3, <3>5, <4>1, <4>2
    <3> QED
      BY <3>1, <3>4, <3>5
  <2>4. ASSUME NEW q \in Rules \ {r}, alert'[q].state = state
        PROVE  IF q \in todo'
               THEN ~restarted' /\ decision'[q] \in D =>
                       observed'[q].since + alert'[q].dwell + elapsed'
                          <= started'
               ELSE /\ observed'[q].kind = kind
                    /\ observed'[q].since + alert'[q].dwell <= started'
    BY <2>1, <2>2, <2>4 DEF DwellIsObserved
  <2> QED
    BY <2>1, <2>3, <2>4 DEF DwellIsObserved
<1>6. ASSUME NEW r \in Rules, UpdateRule(r)
      PROVE  DwellIsObserved(state, kind, D)'
  <2>1. /\ \A q \in Rules \ {r} :
              alert'[q] = alert[q] /\ observed'[q] = observed[q]
        /\ UNCHANGED <<pass, continuity, lastStart, todo, restarted, decision,
                       elapsed, started>>
    BY <1>6, UpdateShape DEF TypeOK, runner, cycle
  <2>2. alert'[r].state # state
    BY <1>6, <1>0, UpdateShape DEF Live, Terminal
  <2> QED
    BY <2>1, <2>2 DEF DwellIsObserved
<1> QED
  BY <1>1, <1>2, <1>3, <1>4, <1>5, <1>6 DEF Next

-----------------------------------------------------------------------------
(* The invariant holds of the hub that has evaluated nothing, ...          *)
LEMMA InitIInv == Init => IInv
<1> SUFFICES ASSUME Init PROVE IInv
  OBVIOUS
<1>1. TypeOK /\ Clocks
  BY InitType
<1>2. Instances /\ IncidentIsOfRaisedAlert /\ LiveAlertIsCurrent
  BY DEF Init, NoAlert, Instances, IncidentIsOfRaisedAlert, LiveAlertIsCurrent,
     Live, Raised
<1>3. DecisionIsObserved
  BY DEF Init, DecisionIsObserved
<1>4. /\ DwellIsObserved("PENDING", "match", Matches)
      /\ DwellIsObserved("RECOVERING", "clear", Clears)
  BY DEF Init, NoAlert, DwellIsObserved
<1> QED
  BY <1>1, <1>2, <1>3, <1>4 DEF IInv

(* ... and after every step.                                               *)
LEMMA NextIInv == IInv /\ [Next]_vars => IInv'
<1> SUFFICES ASSUME IInv, [Next]_vars PROVE IInv'
  OBVIOUS
<1>1. TypeOK' /\ Clocks'
  BY NextType DEF IInv
<1>2. Instances' /\ IncidentIsOfRaisedAlert' /\ LiveAlertIsCurrent'
  BY NextInstances, NextIncident DEF IInv
<1>3. DecisionIsObserved'
  BY NextDecision DEF IInv
<1>4. DwellIsObserved("PENDING", "match", Matches)'
  BY NextDwell DEF IInv
<1>5. DwellIsObserved("RECOVERING", "clear", Clears)'
  BY NextDwell DEF IInv
<1> QED
  BY <1>1, <1>2, <1>3, <1>4, <1>5 DEF IInv

(* The inductive invariant holds in every state of the hub's evaluation.   *)
THEOREM AlertsAreConsistent == Spec => []IInv
BY InitIInv, NextIInv, PTL DEF Spec

(* Every reachable state is well typed, and a dwell is only kept by an     *)
(* alert that is pending or recovering (validateSnapshot).                 *)
THEOREM TypeCorrect == Spec => []TypeOK
<1>1. IInv => TypeOK
  BY DEF IInv
<1> QED
  BY <1>1, AlertsAreConsistent, PTL

(* However evaluations, revisions, failed passes and restarts interleave,  *)
(* a rule's open incident is that of its raised alert: the resolving write *)
(* finds what it closes (requireOpenAlertIncidentTx).                      *)
THEOREM IncidentFollowsAlert == Spec => []IncidentIsOfRaisedAlert
<1>1. IInv => IncidentIsOfRaisedAlert
  BY DEF IInv
<1> QED
  BY <1>1, AlertsAreConsistent, PTL

(* No alert of a replaced rule version stays live (mutateRule).            *)
THEOREM AlertsAreCurrent == Spec => []LiveAlertIsCurrent
<1>1. IInv => LiveAlertIsCurrent
  BY DEF IInv
<1> QED
  BY <1>1, AlertsAreConsistent, PTL
-----------------------------------------------------------------------------
(* An evaluation changes the state of one alert, nothing else raises or    *)
(* resolves one.                                                           *)
LEMMA OnlyEvaluationsDecide ==
    ASSUME TypeOK, [Next]_vars, NEW r \in Rules,
           alert'[r].state # alert[r].state,
           alert'[r].state \in {"FIRING", "RESOLVED"}
    PROVE  ApplyAlertEvaluation(r)
<1>1. ASSUME \/ BeginPass \/ PassSucceeds \/ PassFails \/ HubRestarts \/ Tick
             \/ UNCHANGED vars
      PROVE  FALSE
  <2>1. alert' = alert
    BY <1>1 DEF BeginPass, PassSucceeds, PassFails, HubRestarts, Tick, durable,
       vars
  <2> QED
    BY <2>1
<1>2. ASSUME NEW q \in Rules, q # r, ApplyAlertEvaluation(q)
      PROVE  FALSE
  <2>1. alert' = [alert EXCEPT ![q] = alert'[q]]
    BY <1>2, ApplyShape
  <2> QED
    BY <1>2, <2>1 DEF TypeOK
<1>3. ASSUME NEW q \in Rules, UpdateRule(q)
      PROVE  FALSE
  <2>1. /\ alert' = [alert EXCEPT ![q] = alert'[q]]
        /\ alert'[q].state \in Terminal
    BY <1>3, UpdateShape
  <2>2. q = r
    BY <2>1 DEF TypeOK
  <2>3. \/ alert' = alert
        \/ alert[r].state \in Live
    BY <1>3, <2>2 DEF UpdateRule, Supersede
  <2>4. alert[r].state \in Live
    BY <2>3
  <2>5. alert'[r].state = "superseded"
    BY <1>3, <2>2, <2>4 DEF UpdateRule, Supersede, TypeOK, Alert
  <2> QED
    BY <2>5
<1> QED
  BY <1>1, <1>2, <1>3 DEF Next

(* An alert that needs its trigger dwell fires only on a condition that    *)
(* was seen, without a gap, for the whole of it (reducer.go, runner.go).   *)
THEOREM FiringRestsOnObservation == Spec => FiringIsEarned
<1>1. ASSUME IInv, [Next]_vars
      PROVE  [\A r \in Rules :
                /\ alert[r].state \notin Raised /\ alert'[r].state = "FIRING"
                /\ decision[r] \notin Immediate
                => /\ observed[r].kind = "match"
                   /\ started - observed[r].since >= Trigger[r]]_vars
  <2> SUFFICES ASSUME NEW r \in Rules,
                      alert[r].state \notin Raised, alert'[r].state = "FIRING",
                      decision[r] \notin Immediate
               PROVE  /\ observed[r].kind = "match"
                      /\ started - observed[r].since >= Trigger[r]
    OBVIOUS
  <2> USE <1>1 DEF IInv
  <2>1. ApplyAlertEvaluation(r)
    BY OnlyEvaluationsDecide DEF Raised
  <2> DEFINE before == Loaded(r)
  <2>2. /\ decision[r] \in Matches
        /\ \/ Trigger[r] = 0
           \/ /\ before.state = "PENDING" /\ ~restarted
              /\ before.dwell + elapsed >= Trigger[r]
    <3>1. before.state \notin Raised
      BY DEF Loaded, Raised
    <3> QED
      BY <2>1, <3>1, ApplyShape
  <2>3. pass = "run" /\ r \in todo /\ version[r] = planned[r]
    BY <2>1 DEF ApplyAlertEvaluation
  <2>4. observed[r].kind = "match"
    BY <2>2, <2>3 DEF DecisionIsObserved
  <2>5. /\ observed[r].since \in Nat /\ observed[r].since <= started
        /\ started \in Nat /\ elapsed \in Nat /\ alert[r].dwell \in Nat
        /\ Trigger[r] \in Nat
    BY AlertAssumption DEF TypeOK, Observation, Clocks, Alert, AlertAssumption
  <2>6. CASE Trigger[r] = 0
    BY <2>4, <2>5, <2>6
  <2>7. CASE /\ before.state = "PENDING" /\ ~restarted
             /\ before.dwell + elapsed >= Trigger[r]
    <3>1. before = alert[r]
      BY <2>1, <2>7, LoadedIncident
    <3>2. observed[r].since + alert[r].dwell + elapsed <= started
      BY <2>2, <2>3, <2>7, <3>1 DEF DwellIsObserved
    <3> HIDE DEF before
    <3> QED
      BY <2>4, <2>5, <2>7, <3>1, <3>2
  <2> QED
    BY <2>2, <2>6, <2>7
<1> QED
  BY <1>1, AlertsAreConsistent, PTL DEF Spec, FiringIsEarned

(* An alert that needs its recovery dwell resolves only after a recovery   *)
(* that was seen, without a gap, for the whole of it.                      *)
THEOREM ResolutionRestsOnObservation == Spec => ResolutionIsEarned
<1>1. ASSUME IInv, [Next]_vars
      PROVE  [\A r \in Rules :
                /\ alert[r].state # "RESOLVED" /\ alert'[r].state = "RESOLVED"
                /\ decision[r] \notin Immediate
                => /\ observed[r].kind = "clear"
                   /\ started - observed[r].since >= Recovery[r]]_vars
  <2> SUFFICES ASSUME NEW r \in Rules,
                      alert[r].state # "RESOLVED",
                      alert'[r].state = "RESOLVED",
                      decision[r] \notin Immediate
               PROVE  /\ observed[r].kind = "clear"
                      /\ started - observed[r].since >= Recovery[r]
    OBVIOUS
  <2> USE <1>1 DEF IInv
  <2>1. ApplyAlertEvaluation(r)
    BY OnlyEvaluationsDecide
  <2> DEFINE before == Loaded(r)
  <2>2. /\ decision[r] \in Clears
        /\ \/ Recovery[r] = 0
           \/ /\ before.state = "RECOVERING" /\ ~restarted
              /\ before.dwell + elapsed >= Recovery[r]
    BY <2>1, ApplyShape
  <2>3. pass = "run" /\ r \in todo /\ version[r] = planned[r]
    BY <2>1 DEF ApplyAlertEvaluation
  <2>4. observed[r].kind = "clear"
    BY <2>2, <2>3 DEF DecisionIsObserved
  <2>5. /\ observed[r].since \in Nat /\ observed[r].since <= started
        /\ started \in Nat /\ elapsed \in Nat /\ alert[r].dwell \in Nat
        /\ Recovery[r] \in Nat
    BY AlertAssumption DEF TypeOK, Observation, Clocks, Alert, AlertAssumption
  <2>6. CASE Recovery[r] = 0
    BY <2>4, <2>5, <2>6
  <2>7. CASE /\ before.state = "RECOVERING" /\ ~restarted
             /\ before.dwell + elapsed >= Recovery[r]
    <3>1. before = alert[r]
      BY <2>1, <2>7, LoadedIncident
    <3>2. observed[r].since + alert[r].dwell + elapsed <= started
      BY <2>2, <2>3, <2>7, <3>1 DEF DwellIsObserved
    <3> HIDE DEF before
    <3> QED
      BY <2>4, <2>5, <2>7, <3>1, <3>2
  <2> QED
    BY <2>2, <2>6, <2>7
<1> QED
  BY <1>1, AlertsAreConsistent, PTL DEF Spec, ResolutionIsEarned

-----------------------------------------------------------------------------
(* Every step opens one incident, closes one, or touches none.             *)
LEMMA StepImplementsLedger ==
    ASSUME IInv, [Next]_vars
    PROVE  Ledger!Next \/ UNCHANGED <<open, closed>>
<1> USE DEF IInv
<1>1. CASE \/ BeginPass \/ PassSucceeds \/ PassFails \/ HubRestarts \/ Tick
           \/ UNCHANGED vars
  BY <1>1 DEF BeginPass, PassSucceeds, PassFails, HubRestarts, Tick, durable,
     vars
<1>2. ASSUME NEW r \in Rules, ApplyAlertEvaluation(r)
      PROVE  Ledger!Open(r) \/ Ledger!Close(r) \/ UNCHANGED <<open, closed>>
  <2> DEFINE before == Loaded(r)
             after == alert'[r]
  <2>1. WriteIncident(r, before, after) /\ before.id \in 1 .. MaxEpisodes
    BY <1>2, ApplyShape, LoadedNumber
  <2>2. /\ open[r] = IF before.state \in Raised THEN {before.id} ELSE {}
        /\ before.id \notin closed[r]
    BY <1>2, LoadedIncident
  <2>3. open \in [Rules -> SUBSET (1 .. MaxEpisodes)]
    BY DEF TypeOK
  <2> HIDE DEF before, after
  <2>4. CASE /\ OpensIncident(before, after) /\ UNCHANGED closed
             /\ open' = [open EXCEPT ![r] = @ \cup {before.id}]
    <3>1. open[r] = {}
      BY <2>2, <2>4 DEF OpensIncident
    <3>2. open' = [open EXCEPT ![r] = {before.id}]
      BY <2>4, <3>1
    <3> QED
      BY <2>1, <2>2, <2>4, <3>1, <3>2 DEF Ledger!Open
  <2>5. CASE /\ before.id \in open[r]
             /\ open' = [open EXCEPT ![r] = @ \ {before.id}]
             /\ closed' = [closed EXCEPT ![r] = @ \cup {before.id}]
    <3>1. open[r] = {before.id}
      BY <2>2, <2>5
    <3>2. open' = [open EXCEPT ![r] = {}]
      BY <2>5, <3>1
    <3> QED
      BY <2>5, <3>1, <3>2 DEF Ledger!Close
  <2> QED
    BY <2>1, <2>4, <2>5 DEF WriteIncident
<1>3. ASSUME NEW r \in Rules, UpdateRule(r)
      PROVE  Ledger!Close(r) \/ UNCHANGED <<open, closed>>
  <2>1. /\ open' = [open EXCEPT ![r] = {}]
        /\ closed' = [closed EXCEPT ![r] = closed[r] \cup open[r]]
        /\ open \in [Rules -> SUBSET (1 .. MaxEpisodes)]
        /\ closed \in [Rules -> SUBSET (1 .. MaxEpisodes)]
    BY <1>3, UpdateShape DEF TypeOK
  <2>2. CASE open[r] = {}
    BY <2>1, <2>2
  <2>3. CASE open[r] # {}
    BY <2>1, <2>3 DEF Ledger!Close
  <2> QED
    BY <2>2, <2>3
<1> QED
  BY <1>1, <1>2, <1>3 DEF Next, Ledger!Next

(* The evaluation of alerts implements the ledger of incidents: one open   *)
(* per rule, none reopened, through revisions, failures and restarts.      *)
THEOREM ImplementsIncidentLedger == Spec => LedgerSpec
<1>1. Init => Ledger!Init
  BY DEF Init, Ledger!Init
<1>2. IInv /\ [Next]_vars => [Ledger!Next]_<<open, closed>>
  BY StepImplementsLedger
<1> QED
  BY <1>1, <1>2, AlertsAreConsistent, PTL DEF Spec, LedgerSpec, Ledger!Spec

-----------------------------------------------------------------------------
(* The outbox: what it knows of its receivers (Outbox.tla).                *)

Sender == [row : Nat, attempt : Nat \ {0}, answer : {"none", "accepted", "busy", "rejected"}]

Typed ==
    /\ instance \in [state : Ongoing \cup {"OK", "RESOLVED", "superseded"}, seq : Nat]
    /\ mutedUntil \in Nat /\ clock \in Nat
    /\ revision \in [Destinations -> Nat] /\ active \in [Destinations -> BOOLEAN]

(* A row of an alert is of a transition that was, and what says that the   *)
(* alert fires is of an earlier one once the alert is resolved.            *)
Follows(r, inst) ==
    IF IsAlert(r)
    THEN /\ r.seq <= inst.seq
         /\ r.says = "FIRING" /\ inst.state = "RESOLVED" => r.seq < inst.seq
    ELSE r.seq = 0
RowsFollow(rs, inst) == \A i \in 1 .. Len(rs) : Follows(rs[i], inst)

(* Each request is of one attempt to send one row, ...                     *)
IsOf(q, r) ==
    q.dest = r.dest /\ q.seq = r.seq /\ q.says = r.says /\ q.attempt <= r.attempts
RequestsAreOfRows(rs, reqs) ==
    \A q \in reqs : q.row \in 1 .. Len(rs) /\ IsOf(q, rs[q.row])
OneByAttempt(reqs) ==
    \A p, q \in reqs : p.row = q.row /\ p.attempt = q.attempt => p = q

(* ... which the dispatcher, when it sends, knows the fate of.             *)
Same(s, q) == q.row = s.row /\ q.attempt = s.attempt
SenderKnows(rs, reqs, way) ==
    \A s \in sender :
        /\ s.row \in 1 .. Len(rs) /\ s.attempt = rs[s.row].attempts
        /\ s.answer \in {"busy", "rejected"} => \A q \in reqs : ~Same(s, q)
        /\ s.answer = "accepted" => \A q \in way : ~Same(s, q)

(* A row whose message may still arrive, or may have arrived.              *)
MayArrive(q, r) ==
    \/ r.unknown \/ r.state = "expired"
    \/ r.state = "leased" /\ r.attempts = q.attempt
Marked(rs, reqs, way) ==
    \A q \in reqs : IsAlert(q) =>
        MayArrive(q, rs[q.row]) \/ (q \notin way /\ rs[q.row].state = "sent")

(* A message that says nothing older is unknown is not followed by any.    *)
Declared(rs, reqs, way) ==
    \A q \in way, p \in reqs :
        IsAlert(q) /\ p.dest = q.dest /\ p.seq > q.seq
        => p.unknown \/ rs[q.row].state = "expired"
Summaries(rs, reqs) ==
    \A p \in reqs : p.alone /\ ~p.unknown =>
        \A q \in reqs : q.dest = p.dest /\ q.says = "FIRING" => rs[q.row].state = "expired"

Requests == accepted \cup net

RowsKnow(rs) ==
    /\ rs \in Seq(Row) /\ RequestsAreOfRows(rs, Requests) /\ SenderKnows(rs, Requests, net)
    /\ Marked(rs, Requests, net) /\ Declared(rs, Requests, net) /\ Summaries(rs, Requests)
RequestsFit ==
    /\ net \subseteq Request /\ accepted \subseteq Request /\ net \cap accepted = {}
    /\ sender \subseteq Sender /\ \A s, t \in sender : s = t
    /\ OneByAttempt(Requests)
AloneIsLast == \A p \in Requests : p.alone => instance.state = "RESOLVED"

OutboxInv ==
    Typed /\ RowsFollow(rows, instance) /\ RequestsFit /\ RowsKnow(rows) /\ AloneIsLast

-----------------------------------------------------------------------------
(* The types of the constants of Outbox.                                   *)
LEMMA OutboxNumbers ==
    /\ Lease \in Nat /\ Lease # 0 /\ Lifetime \in Nat /\ MuteFor \in Nat
    /\ RetryAfter \subseteq Nat /\ IsFiniteSet(Destinations)
    /\ Delays \in Seq(Nat) /\ Len(Delays) \in Nat /\ Len(Delays) # 0
  BY OutboxAssumption DEF OutboxAssumption

(* What became of a row: its message stays the same, and an attempt that   *)
(* may have arrived is not forgotten.                                      *)
IsLater(r, n) ==
    /\ n \in Row /\ n.dest = r.dest /\ n.seq = r.seq /\ n.says = r.says
    /\ n.attempts = r.attempts
    /\ r.unknown => n.unknown
    /\ r.state \in {"sent", "expired"} => n.state = r.state
    /\ r.state = "leased" /\ IsAlert(r) => n.state \in {"leased", "expired"} \/ n.unknown

(* The types of a row's fields.                                            *)
LEMMA FieldsOfRow ==
    ASSUME NEW r \in Row
    PROVE  /\ r.dest \in Destinations /\ r.seq \in Nat /\ r.attempts \in Nat
           /\ r.next \in Nat /\ r.lease \in Nat /\ r.expires \in Nat /\ r.created \in Nat
           /\ r.unknown \in BOOLEAN /\ IsAlert(r) \in BOOLEAN
  BY DEF Row, IsAlert

(* A row that nothing happens to.                                          *)
LEMMA NoUpdate == ASSUME NEW r \in Row PROVE IsLater(r, r)
  BY DEF IsLater

(* Superseding marks a message that is under way.                          *)
LEMMA SupersededIsLater ==
    ASSUME NEW r \in Row, r.state \in Waiting \cup {"leased"}
    PROVE  IsLater(r, Superseded(r))
<1>1. PICK n : n = Superseded(r)
  OBVIOUS
<1>2. PICK u : u = (r.unknown \/ r.state = "leased")
  OBVIOUS
<1>3. n = [r EXCEPT !.state = "superseded", !.lease = Never, !.next = Never, !.unknown = u]
  BY <1>1, <1>2 DEF Superseded, Row
<1>4. u \in BOOLEAN
  BY <1>2
<1>5. n \in Row
  BY <1>3, <1>4 DEF Row, Never
<1>6. /\ n.dest = r.dest /\ n.seq = r.seq /\ n.says = r.says
      /\ n.attempts = r.attempts /\ n.unknown = u
  BY <1>3 DEF Row
<1>7. r.unknown => n.unknown
  BY <1>2, <1>6
<1>8. r.state = "leased" => n.unknown
  BY <1>2, <1>6
<1>9. r.state \notin {"sent", "expired"}
  BY DEF Waiting
<1> QED
  BY <1>1, <1>5, <1>6, <1>7, <1>8, <1>9 DEF IsLater

(* An update that keeps the message, and the mark unless the message is    *)
(* not under way.                                                          *)
LEMMA UpdateIsLater ==
    ASSUME NEW r \in Row, NEW n \in Row,
           n.dest = r.dest /\ n.seq = r.seq /\ n.says = r.says /\ n.attempts = r.attempts,
           r.unknown => n.unknown, r.state \notin {"sent", "expired"},
           r.state = "leased" /\ IsAlert(r) => n.state = "expired" \/ n.unknown
    PROVE  IsLater(r, n)
  BY DEF IsLater

(* A row whose time is over expires.                                       *)
LEMMA ReconciledIsLater ==
    ASSUME Typed, NEW r \in Row
    PROVE  IsLater(r, Reconciled(r))
<1>1. PICK n : n = Reconciled(r)
  OBVIOUS
<1>a. clock \in Nat
  BY DEF Typed
<1>2. CASE r.state \in Waiting \cup {"leased"} /\ r.expires <= clock
  <2>1. PICK u : u = (r.unknown \/ r.state = "leased")
    OBVIOUS
  <2>2. PICK j : j = IF r.job \in JobOpen THEN "failed" ELSE r.job
    OBVIOUS
  <2>3. n = [r EXCEPT !.state = "expired", !.lease = Never, !.next = Never, !.unknown = u,
                      !.job = j]
    BY <1>1, <1>2, <2>1, <2>2 DEF Reconciled, Row
  <2>4. u \in BOOLEAN /\ j \in JobOpen \cup {"none", "succeeded", "failed"}
    BY <2>1, <2>2 DEF Row
  <2>5. n \in Row
    BY <2>3, <2>4 DEF Row, Never
  <2>6. /\ n.dest = r.dest /\ n.seq = r.seq /\ n.says = r.says
        /\ n.attempts = r.attempts /\ n.unknown = u /\ n.state = "expired"
    BY <2>3 DEF Row
  <2>7. r.unknown => n.unknown
    BY <2>1, <2>6
  <2>8. r.state \notin {"sent", "expired"}
    BY <1>2 DEF Waiting
  <2> QED
    BY <1>1, <2>5, <2>6, <2>7, <2>8, UpdateIsLater
<1>3. CASE ~(r.state \in Waiting \cup {"leased"} /\ r.expires <= clock)
           /\ r.state = "leased" /\ r.lease <= clock
  <2>1. n = [r EXCEPT !.state = "failed", !.lease = Never, !.next = clock, !.unknown = TRUE]
    BY <1>1, <1>3 DEF Reconciled
  <2>2. n \in Row
    BY <1>a, <2>1 DEF Row, Never, Waiting
  <2>3. /\ n.dest = r.dest /\ n.seq = r.seq /\ n.says = r.says
        /\ n.attempts = r.attempts /\ n.unknown = TRUE
    BY <2>1 DEF Row
  <2> QED
    BY <1>1, <1>3, <2>2, <2>3, UpdateIsLater
<1>4. CASE ~(r.state \in Waiting \cup {"leased"} /\ r.expires <= clock)
           /\ ~(r.state = "leased" /\ r.lease <= clock)
  <2>1. n = r
    BY <1>1, <1>4 DEF Reconciled
  <2> QED
    BY <1>1, <2>1, NoUpdate
<1> QED
  BY <1>2, <1>3, <1>4

(* When a message that is held back may be sent.                           *)
LEMMA HeldIsTime ==
    ASSUME Typed, NEW r \in Row
    PROVE  HeldUntil(r) \in Nat
  BY OutboxNumbers DEF Typed, HeldUntil, Never

(* A row that cannot be sent now.                                          *)
LEMMA PassedOverIsLater ==
    ASSUME Typed, NEW r \in Row, r.state \in Waiting
    PROVE  IsLater(r, PassedOver(r))
<1>1. PICK n : n = PassedOver(r)
  OBVIOUS
<1>2. r.state \notin {"sent", "expired", "leased"}
  BY DEF Waiting
<1>3. clock \in Nat /\ clock + Lease \in Nat /\ HeldUntil(r) \in Nat
  BY OutboxNumbers, HeldIsTime DEF Typed
<1>4. CASE Stale(r)
  BY <1>4, SupersededIsLater DEF PassedOver
<1>5. CASE ~Stale(r) /\ HeldUntil(r) # Never
  <2>1. PICK h : h = HeldUntil(r)
    OBVIOUS
  <2>2. n = [r EXCEPT !.state = "muted", !.next = h]
    BY <1>1, <1>5, <2>1 DEF PassedOver
  <2>3. n \in Row
    BY <1>3, <2>1, <2>2 DEF Row, Waiting
  <2>4. /\ n.dest = r.dest /\ n.seq = r.seq /\ n.says = r.says
        /\ n.attempts = r.attempts /\ n.unknown = r.unknown
    BY <2>2 DEF Row
  <2> QED
    BY <1>1, <1>2, <2>3, <2>4, UpdateIsLater
<1>6. CASE ~Stale(r) /\ HeldUntil(r) = Never
  <2>1. n = [r EXCEPT !.state = "pending", !.next = clock + Lease]
    BY <1>1, <1>6 DEF PassedOver
  <2>2. n \in Row
    BY <1>3, <2>1 DEF Row, Waiting
  <2>3. /\ n.dest = r.dest /\ n.seq = r.seq /\ n.says = r.says
        /\ n.attempts = r.attempts /\ n.unknown = r.unknown
    BY <2>1 DEF Row
  <2> QED
    BY <1>1, <1>2, <2>2, <2>3, UpdateIsLater
<1> QED
  BY <1>4, <1>5, <1>6

(* A row that waits and is made due, or is held back.                      *)
LEMMA ReadiedIsLater ==
    ASSUME NEW r \in Row, r.state \in Waiting, NEW x \in Nat, NEW st \in {"pending", "muted"}
    PROVE  IsLater(r, [r EXCEPT !.state = st, !.next = x])
<1>1. PICK n : n = [r EXCEPT !.state = st, !.next = x]
  OBVIOUS
<1>2. n \in Row
  BY <1>1 DEF Row, Waiting
<1>3. /\ n.dest = r.dest /\ n.seq = r.seq /\ n.says = r.says
      /\ n.attempts = r.attempts /\ n.unknown = r.unknown
  BY <1>1 DEF Row
<1>4. r.state \notin {"sent", "expired", "leased"}
  BY DEF Waiting
<1> QED
  BY <1>1, <1>2, <1>3, <1>4, UpdateIsLater

(* A delivery that has ended for good.                                     *)
LEMMA FinalRow ==
    ASSUME NEW r \in Row, NEW b \in BOOLEAN
    PROVE  LET n == Final(r, b) IN
           /\ n \in Row /\ n.dest = r.dest /\ n.seq = r.seq /\ n.says = r.says
           /\ n.attempts = r.attempts /\ (n.unknown = r.unknown)
           /\ b => n.state = "sent"
           /\ ~b => n.state = "failed"
<1>1. PICK n : n = Final(r, b)
  OBVIOUS
<1>2. PICK j : j = IF r.job \in JobOpen THEN IF b THEN "succeeded" ELSE "failed" ELSE r.job
  OBVIOUS
<1>3. PICK st : st = IF b THEN "sent" ELSE "failed"
  OBVIOUS
<1>4. n = [r EXCEPT !.state = st, !.lease = Never, !.job = j]
  BY <1>1, <1>2, <1>3 DEF Final, Row
<1>5. j \in JobOpen \cup {"none", "succeeded", "failed"} /\ st \in {"sent", "failed"}
  BY <1>2, <1>3 DEF Row
<1>6. n \in Row
  BY <1>4, <1>5 DEF Row, Never, Waiting
<1>7. /\ n.dest = r.dest /\ n.seq = r.seq /\ n.says = r.says
      /\ n.attempts = r.attempts /\ (n.unknown = r.unknown) /\ n.state = st
  BY <1>4 DEF Row
<1> QED
  BY <1>1, <1>3, <1>6, <1>7

(* A delivery that is to be tried again: it keeps the mark of the attempts *)
(* before, and gets one when this attempt may have arrived.                *)
LEMMA RetriedRow ==
    ASSUME Typed, NEW r \in Row, r.state = "leased",
           NEW outcome \in {"busy", "unsure"}, NEW wait \in Nat
    PROVE  LET n == Retried(r, outcome, wait) IN
           /\ n \in Row /\ n.dest = r.dest /\ n.seq = r.seq /\ n.says = r.says
           /\ n.attempts = r.attempts
           /\ r.unknown => n.unknown
           /\ outcome = "unsure" => n.state = "expired" \/ n.unknown
<1>1. PICK n : n = Retried(r, outcome, wait)
  OBVIOUS
<1>2. clock \in Nat /\ clock + wait \in Nat /\ HeldUntil(r) \in Nat
  BY HeldIsTime DEF Typed
<1>3. CASE Stale(r)
  <2>1. n = Superseded(r)
    BY <1>1, <1>3 DEF Retried
  <2>2. IsLater(r, n)
    BY <2>1, SupersededIsLater
  <2>3. n.unknown
    <3>1. n.unknown = (r.unknown \/ r.state = "leased")
      BY <2>1 DEF Superseded, Row
    <3> QED
      BY <3>1
  <2> QED
    BY <1>1, <2>2, <2>3 DEF IsLater
<1>4. CASE ~Stale(r) /\ HeldUntil(r) # Never
  <2>1. PICK h : h = HeldUntil(r)
    OBVIOUS
  <2>2. n = [r EXCEPT !.state = "muted", !.lease = Never, !.next = h, !.unknown = TRUE]
    BY <1>1, <1>4, <2>1 DEF Retried
  <2>3. n \in Row
    BY <1>2, <2>1, <2>2 DEF Row, Waiting, Never
  <2>4. /\ n.dest = r.dest /\ n.seq = r.seq /\ n.says = r.says
        /\ n.attempts = r.attempts /\ n.unknown = TRUE
    BY <2>2 DEF Row
  <2> QED
    BY <1>1, <2>3, <2>4
<1>5. CASE ~Stale(r) /\ HeldUntil(r) = Never /\ clock + wait >= r.expires
  <2>1. n = [r EXCEPT !.state = "expired", !.lease = Never]
    BY <1>1, <1>5 DEF Retried
  <2>2. n \in Row
    BY <2>1 DEF Row, Never
  <2>3. /\ n.dest = r.dest /\ n.seq = r.seq /\ n.says = r.says
        /\ n.attempts = r.attempts /\ n.unknown = r.unknown /\ n.state = "expired"
    BY <2>1 DEF Row
  <2> QED
    BY <1>1, <2>2, <2>3
<1>6. CASE ~Stale(r) /\ HeldUntil(r) = Never /\ ~(clock + wait >= r.expires)
  <2>1. PICK u : u = (r.unknown \/ outcome = "unsure")
    OBVIOUS
  <2>2. n = [r EXCEPT !.state = "failed", !.lease = Never, !.next = clock + wait, !.unknown = u]
    BY <1>1, <1>6, <2>1 DEF Retried, Row
  <2>3. u \in BOOLEAN
    BY <2>1
  <2>4. n \in Row
    BY <1>2, <2>2, <2>3 DEF Row, Waiting, Never
  <2>5. /\ n.dest = r.dest /\ n.seq = r.seq /\ n.says = r.says
        /\ n.attempts = r.attempts /\ n.unknown = u
    BY <2>2 DEF Row
  <2>6. (r.unknown => n.unknown) /\ (outcome = "unsure" => n.unknown)
    BY <2>1, <2>5
  <2> QED
    BY <1>1, <2>4, <2>5, <2>6
<1> QED
  BY <1>3, <1>4, <1>5, <1>6

(* The row of a delivery that is leased to the dispatcher.                 *)
IsLeased(r, n) ==
    /\ n \in Row /\ n.dest = r.dest /\ n.seq = r.seq /\ n.says = r.says
    /\ n.state = "leased" /\ n.attempts = r.attempts + 1 /\ n.unknown = r.unknown

(* What a claim makes of the row it takes: one more attempt, to send.      *)
LEMMA LeasedRow ==
    ASSUME Typed, NEW r \in Row,
           NEW n, n = Leased(r)
    PROVE  IsLeased(r, n)
<1>1. PICK j : j = IF r.job = "queued" THEN "running" ELSE r.job
  OBVIOUS
<1>2. PICK a : a = r.attempts + 1
  OBVIOUS
<1>3. PICK l : l = clock + Lease
  OBVIOUS
<1>4. a \in Nat /\ l \in Nat
  BY <1>2, <1>3, OutboxNumbers DEF Typed, Row
<1>5. j \in JobOpen \cup {"none", "succeeded", "failed"}
  BY <1>1 DEF Row, JobOpen
<1>6. n = [r EXCEPT !.state = "leased", !.next = Never, !.attempts = a, !.lease = l, !.job = j]
  BY <1>1, <1>2, <1>3 DEF Leased, Row
<1>6a. Never \in Nat
  BY DEF Never
<1>7. n \in Row
  BY <1>4, <1>5, <1>6, <1>6a DEF Row
<1>8. /\ n.dest = r.dest /\ n.seq = r.seq /\ n.says = r.says
      /\ n.state = "leased" /\ n.attempts = a /\ n.unknown = r.unknown
  BY <1>6 DEF Row
<1> QED
  BY <1>2, <1>7, <1>8 DEF IsLeased

-----------------------------------------------------------------------------
(* Rows come, and none goes.                                               *)
RowsGrow(rs, ns) ==
    /\ ns \in Seq(Row) /\ Len(rs) <= Len(ns)
    /\ \A i \in 1 .. Len(rs) : IsLater(rs[i], ns[i])

(* What the rows know of a request stays true.                             *)
LEMMA KnowledgeStays ==
    ASSUME NEW q, NEW r, NEW n, IsOf(q, r), IsLater(r, n)
    PROVE  /\ IsOf(q, n)
           /\ IsAlert(q) /\ MayArrive(q, r) => MayArrive(q, n)
           /\ r.state = "sent" => n.state = "sent"
           /\ r.state = "expired" => n.state = "expired"
<1>1. IsAlert(q) <=> IsAlert(r)
  BY DEF IsOf, IsAlert
<1>2. /\ n.dest = r.dest /\ n.seq = r.seq /\ n.says = r.says /\ n.attempts = r.attempts
      /\ r.state \in {"sent", "expired"} => n.state = r.state
  BY DEF IsLater
<1>3. IsOf(q, n)
  BY <1>2 DEF IsOf
<1>4. ASSUME IsAlert(q), MayArrive(q, r) PROVE MayArrive(q, n)
  <2>1. CASE r.unknown
    BY <2>1 DEF IsLater, MayArrive
  <2>2. CASE r.state = "expired"
    BY <2>2, <1>2 DEF MayArrive
  <2>3. CASE r.state = "leased" /\ r.attempts = q.attempt
    <3>1. n.state \in {"leased", "expired"} \/ n.unknown
      BY <2>3, <1>1, <1>4 DEF IsLater
    <3> QED
      BY <3>1, <2>3, <1>2 DEF MayArrive
  <2> QED
    BY <1>4, <2>1, <2>2, <2>3 DEF MayArrive
<1> QED
  BY <1>2, <1>3, <1>4

(* What the rows knew they know when rows are updated and come.            *)
LEMMA RowsStillKnow ==
    ASSUME NEW rs, RowsKnow(rs), NEW ns, RowsGrow(rs, ns)
    PROVE  RowsKnow(ns)
<1>1. rs \in Seq(Row) /\ ns \in Seq(Row) /\ Len(rs) \in Nat /\ Len(ns) \in Nat
  BY DEF RowsKnow, RowsGrow
<1>2. 1 .. Len(rs) \subseteq 1 .. Len(ns)
  BY <1>1 DEF RowsGrow
<1>3. \A i \in 1 .. Len(rs) : IsLater(rs[i], ns[i])
  BY DEF RowsGrow
<1>4. \A q \in Requests : q.row \in 1 .. Len(rs) /\ IsOf(q, rs[q.row])
  BY DEF RowsKnow, RequestsAreOfRows
<1>5. \A q \in Requests :
        /\ q.row \in 1 .. Len(ns) /\ IsOf(q, ns[q.row])
        /\ IsAlert(q) /\ MayArrive(q, rs[q.row]) => MayArrive(q, ns[q.row])
        /\ rs[q.row].state = "sent" => ns[q.row].state = "sent"
        /\ rs[q.row].state = "expired" => ns[q.row].state = "expired"
  BY <1>2, <1>3, <1>4, KnowledgeStays
<1>6. net \subseteq Requests
  BY DEF Requests
<1>7. RequestsAreOfRows(ns, Requests)
  BY <1>5 DEF RequestsAreOfRows
<1>8. SenderKnows(ns, Requests, net)
  <2> SUFFICES ASSUME NEW s \in sender
               PROVE  /\ s.row \in 1 .. Len(ns) /\ s.attempt = ns[s.row].attempts
                      /\ s.answer \in {"busy", "rejected"} => \A q \in Requests : ~Same(s, q)
                      /\ s.answer = "accepted" => \A q \in net : ~Same(s, q)
    BY DEF SenderKnows
  <2>1. s.row \in 1 .. Len(rs) /\ s.attempt = rs[s.row].attempts
    BY DEF RowsKnow, SenderKnows
  <2>2. ns[s.row].attempts = rs[s.row].attempts
    BY <2>1, <1>3 DEF IsLater
  <2> QED
    BY <2>1, <2>2, <1>2 DEF RowsKnow, SenderKnows
<1>9. Marked(ns, Requests, net)
  BY <1>5 DEF Marked, RowsKnow
<1>10. Declared(ns, Requests, net)
  BY <1>5, <1>6 DEF Declared, RowsKnow
<1>11. Summaries(ns, Requests)
  BY <1>5 DEF Summaries, RowsKnow
<1> QED
  BY <1>1, <1>7, <1>8, <1>9, <1>10, <1>11 DEF RowsKnow

(* What is known is known of fewer requests, and without a sender.         *)
LEMMA RequestsGo ==
    ASSUME NEW rs, RowsKnow(rs), RequestsFit, AloneIsLast,
           net' \subseteq net, sender' \subseteq sender, accepted' = accepted
    PROVE  /\ RequestsFit' /\ RowsKnow(rs)'
           /\ instance'.state = instance.state => AloneIsLast'
<1>1. Requests' \subseteq Requests /\ net \subseteq Requests /\ accepted \subseteq Requests
  BY DEF Requests
<1>2. RequestsFit'
  <2>1. net' \subseteq Request /\ accepted' \subseteq Request /\ net' \cap accepted' = {}
    BY DEF RequestsFit
  <2>2. sender' \subseteq Sender /\ \A s, t \in sender' : s = t
    BY DEF RequestsFit
  <2>3. OneByAttempt(Requests')
    BY <1>1 DEF RequestsFit, OneByAttempt
  <2> QED
    BY <2>1, <2>2, <2>3 DEF RequestsFit, OneByAttempt
<1>3. rs \in Seq(Row) /\ RequestsAreOfRows(rs, Requests')
  BY <1>1 DEF RowsKnow, RequestsAreOfRows
<1>4. SenderKnows(rs, Requests, net)'
  <2>1. \A s \in sender :
           /\ s.row \in 1 .. Len(rs) /\ s.attempt = rs[s.row].attempts
           /\ s.answer \in {"busy", "rejected"} => \A q \in Requests : ~Same(s, q)
           /\ s.answer = "accepted" => \A q \in net : ~Same(s, q)
    BY DEF RowsKnow, SenderKnows
  <2> QED
    BY <2>1, <1>1 DEF SenderKnows, Same
<1>5. Marked(rs, Requests', net')
  <2>1. Marked(rs, Requests, net)
    BY DEF RowsKnow
  <2> QED
    BY <2>1, <1>1 DEF Marked
<1>6. Declared(rs, Requests', net')
  <2>1. Declared(rs, Requests, net)
    BY DEF RowsKnow
  <2> QED
    BY <2>1, <1>1 DEF Declared
<1>7. Summaries(rs, Requests')
  <2>1. Summaries(rs, Requests)
    BY DEF RowsKnow
  <2> QED
    BY <2>1, <1>1 DEF Summaries
<1>8. RowsKnow(rs)'
  BY <1>3, <1>4, <1>5, <1>6, <1>7 DEF RowsKnow, RequestsAreOfRows, Marked, Declared, Summaries,
     SenderKnows
<1>9. instance'.state = instance.state => AloneIsLast'
  BY <1>1 DEF AloneIsLast
<1> QED
  BY <1>2, <1>8, <1>9

(* A step that only updates rows and adds some, whatever else it leaves.   *)
LEMMA RowsMove ==
    ASSUME OutboxInv, RowsGrow(rows, rows'),
           net' \subseteq net, sender' \subseteq sender, accepted' = accepted,
           Typed', RowsFollow(rows', instance'),
           instance.state = "RESOLVED" => instance'.state = "RESOLVED"
    PROVE  OutboxInv'
<1>1. PICK rs : rs = rows
  OBVIOUS
<1>2. PICK ns : ns = rows'
  OBVIOUS
<1>3. RowsKnow(rs) /\ RowsGrow(rs, ns)
  BY <1>1, <1>2 DEF OutboxInv
<1>4. RowsKnow(ns)
  BY <1>3, RowsStillKnow
<1>5. RequestsFit' /\ RowsKnow(ns)'
  BY <1>4, RequestsGo DEF OutboxInv
<1>6. RowsKnow(rows)'
  BY <1>2, <1>5 DEF RowsKnow, SenderKnows
<1>7. AloneIsLast'
  <2>1. Requests' \subseteq Requests
    BY DEF Requests
  <2>2. \A p \in Requests : p.alone => instance.state = "RESOLVED"
    BY DEF OutboxInv, AloneIsLast
  <2> QED
    BY <2>1, <2>2 DEF AloneIsLast
<1> QED
  BY <1>5, <1>6, <1>7 DEF OutboxInv, RowsFollow

(* Rows that came before still follow the alert.                           *)
LEMMA StillFollows ==
    ASSUME NEW r, NEW n, NEW inst, IsLater(r, n), Follows(r, inst)
    PROVE  Follows(n, inst)
  BY DEF IsLater, Follows, IsAlert

-----------------------------------------------------------------------------
(* Every row is updated.                                                   *)
LEMMA UpdatedRows ==
    ASSUME NEW rs \in Seq(Row), NEW ns, ns = [i \in DOMAIN rs |-> ns[i]],
           \A i \in 1 .. Len(rs) : IsLater(rs[i], ns[i])
    PROVE  RowsGrow(rs, ns) /\ Len(ns) = Len(rs)
<1>1. DOMAIN rs = 1 .. Len(rs) /\ Len(rs) \in Nat
  OBVIOUS
<1>2. \A i \in 1 .. Len(rs) : ns[i] \in Row
  BY DEF IsLater
<1>3. ns \in [1 .. Len(rs) -> Row]
  BY <1>1, <1>2
<1>4. ns \in Seq(Row) /\ Len(ns) = Len(rs)
  BY <1>1, <1>3
<1> QED
  BY <1>1, <1>4 DEF RowsGrow

(* Rows are put behind those there are.                                    *)
LEMMA AddedRows ==
    ASSUME NEW rs \in Seq(Row), NEW ns, RowsGrow(rs, ns), Len(ns) = Len(rs),
           NEW add \in Seq(Row), NEW inst,
           RowsFollow(rs, inst), RowsFollow(add, inst)
    PROVE  RowsGrow(rs, ns \o add) /\ RowsFollow(ns \o add, inst)
<1>1. PICK k : k = ns \o add
  OBVIOUS
<1>2. ns \in Seq(Row) /\ Len(rs) \in Nat /\ Len(ns) \in Nat /\ Len(add) \in Nat
  BY DEF RowsGrow
<1>3. /\ k \in Seq(Row) /\ Len(k) = Len(ns) + Len(add)
      /\ \A i \in 1 .. Len(k) : k[i] = IF i <= Len(ns) THEN ns[i] ELSE add[i - Len(ns)]
  <2>1. /\ ns \o add \in Seq(Row) /\ Len(ns \o add) = Len(ns) + Len(add)
        /\ \A i \in 1 .. Len(ns) + Len(add) :
              (ns \o add)[i] = IF i <= Len(ns) THEN ns[i] ELSE add[i - Len(ns)]
    BY <1>2, ConcatProperties, Zenon
  <2> QED
    BY <1>1, <2>1, Zenon
<1>4. \A i \in 1 .. Len(rs) : IsLater(rs[i], ns[i]) /\ i \in 1 .. Len(k) /\ k[i] = ns[i]
  BY <1>2, <1>3 DEF RowsGrow
<1>5. RowsGrow(rs, k)
  BY <1>2, <1>3, <1>4 DEF RowsGrow
<1>6. ASSUME NEW i \in 1 .. Len(k) PROVE Follows(k[i], inst)
  <2>1. CASE i <= Len(ns)
    <3>1. i \in 1 .. Len(rs)
      BY <2>1, <1>2
    <3> QED
      BY <3>1, <1>4, StillFollows DEF RowsFollow
  <2>2. CASE ~(i <= Len(ns))
    <3>1. i - Len(ns) \in 1 .. Len(add)
      BY <2>2, <1>2, <1>3
    <3>2. k[i] = add[i - Len(ns)]
      BY <2>2, <1>3
    <3> QED
      BY <3>1, <3>2 DEF RowsFollow
  <2> QED
    BY <2>1, <2>2
<1> QED
  BY <1>1, <1>5, <1>6 DEF RowsFollow

(* Rows that were only updated follow the alert.                           *)
LEMMA UpdatedFollow ==
    ASSUME NEW rs \in Seq(Row), NEW ns, RowsGrow(rs, ns), Len(ns) = Len(rs),
           NEW inst, RowsFollow(rs, inst)
    PROVE  RowsFollow(ns, inst)
<1> SUFFICES ASSUME NEW i \in 1 .. Len(rs) PROVE Follows(ns[i], inst)
  BY DEF RowsFollow
<1>1. IsLater(rs[i], ns[i]) /\ Follows(rs[i], inst)
  BY DEF RowsGrow, RowsFollow
<1> QED
  BY <1>1, StillFollows

(* A later transition leaves the rows behind.                              *)
LEMMA TransitionLeavesBehind ==
    ASSUME NEW rs \in Seq(Row), NEW inst, inst.seq \in Nat, RowsFollow(rs, inst),
           NEW next, next.seq = inst.seq + 1
    PROVE  RowsFollow(rs, next)
<1> SUFFICES ASSUME NEW i \in 1 .. Len(rs) PROVE Follows(rs[i], next)
  BY DEF RowsFollow
<1>1. rs[i] \in Row
  OBVIOUS
<1>2. PICK n : n = rs[i].seq
  OBVIOUS
<1>3. n \in Nat
  BY <1>1, <1>2, FieldsOfRow
<1>4. Follows(rs[i], inst)
  BY DEF RowsFollow
<1>5. IsAlert(rs[i]) => n <= inst.seq /\ n < next.seq /\ n <= next.seq
  BY <1>2, <1>3, <1>4 DEF Follows
<1>6. ~IsAlert(rs[i]) => n = 0
  BY <1>2, <1>4 DEF Follows
<1> QED
  BY <1>2, <1>5, <1>6 DEF Follows

(* A new row.                                                              *)
LEMMA NewRowIsRow ==
    ASSUME Typed, NEW d \in Destinations, NEW says \in Ongoing \cup {"RESOLVED", "test"},
           NEW seq \in Nat, NEW st \in {"pending", "muted"}, NEW j \in {"none", "queued"}
    PROVE  LET r == NewRow(d, says, seq, st, j) IN
           r \in Row /\ r.seq = seq /\ r.says = says /\ r.dest = d
<1>1. clock \in Nat /\ clock + Lifetime \in Nat /\ Never \in Nat /\ revision[d] \in Nat
  BY OutboxNumbers DEF Typed, Never
<1>2. NewRow(d, says, seq, st, j) \in Row
  BY <1>1 DEF NewRow, Row, Waiting, JobOpen
<1> QED
  BY <1>2 DEF NewRow

(* New rows that say the same of one transition.                           *)
IsNews(add, says, seq) ==
    add \in Seq(Row) /\ \A i \in 1 .. Len(add) : add[i].seq = seq /\ add[i].says = says

(* One row for each destination.                                           *)
LEMMA RowsForAreRows ==
    ASSUME Typed, NEW D \in SUBSET Destinations, NEW says \in Ongoing \cup {"RESOLVED"},
           NEW seq \in Nat, NEW st \in {"pending", "muted"},
           NEW add \in RowsFor(D, says, seq, st)
    PROVE  IsNews(add, says, seq)
<1>1. PICK n : n = Cardinality(D)
  OBVIOUS
<1>2. n \in Nat
  BY <1>1, OutboxNumbers, FS_Subset, FS_CardinalityType
<1>3. PICK order \in [1 .. n -> D] :
         add = [i \in DOMAIN order |-> NewRow(order[i], says, seq, st, "none")]
  BY <1>1 DEF RowsFor
<1>4. \A i \in 1 .. n : /\ add[i] = NewRow(order[i], says, seq, st, "none")
                       /\ order[i] \in Destinations
  BY <1>3
<1>5. \A i \in 1 .. n : add[i] \in Row /\ add[i].seq = seq /\ add[i].says = says
  BY <1>4, NewRowIsRow
<1>6. add \in [1 .. n -> Row]
  BY <1>3, <1>5
<1>7. add \in Seq(Row) /\ Len(add) = n
  BY <1>2, <1>6
<1> QED
  BY <1>5, <1>7 DEF IsNews

-----------------------------------------------------------------------------
(* The rows of SupersedeRows.                                              *)
IsSuperseding(S, rs, ns) ==
    ns = [i \in DOMAIN rs |-> IF i \in S /\ rs[i].state \in Waiting
                              THEN Superseded(rs[i]) ELSE rs[i]]

(* Superseding what waits among some rows only updates them.               *)
LEMMA SupersedeRowsGrows ==
    ASSUME NEW S, NEW rs \in Seq(Row), NEW ns, IsSuperseding(S, rs, ns)
    PROVE  RowsGrow(rs, ns) /\ Len(ns) = Len(rs)
<1> USE DEF IsSuperseding
<1>1. ASSUME NEW i \in 1 .. Len(rs) PROVE IsLater(rs[i], ns[i])
  <2>1. rs[i] \in Row /\ i \in DOMAIN rs
    OBVIOUS
  <2>2. CASE i \in S /\ rs[i].state \in Waiting
    BY <2>1, <2>2, SupersededIsLater
  <2>3. CASE ~(i \in S /\ rs[i].state \in Waiting)
    BY <2>1, <2>3, NoUpdate
  <2> QED
    BY <2>2, <2>3
<1>2. ns = [i \in DOMAIN rs |-> ns[i]]
  OBVIOUS
<1> QED
  BY <1>1, <1>2, UpdatedRows

(* The types of the state of Outbox.                                       *)
LEMMA OutboxFields ==
    ASSUME OutboxInv
    PROVE  /\ rows \in Seq(Row) /\ Typed /\ RowsFollow(rows, instance)
           /\ instance.seq \in Nat /\ clock \in Nat /\ DOMAIN rows = 1 .. Len(rows)
           /\ Len(rows) \in Nat
<1>1. rows \in Seq(Row) /\ Typed /\ RowsFollow(rows, instance)
  BY DEF OutboxInv, RowsKnow
<1> QED
  BY <1>1 DEF Typed

(* An evaluation: the alert moves and its messages are written.            *)
LEMMA TransitionKeeps == ASSUME OutboxInv, NEW state \in {"FIRING", "RECOVERING", "RESOLVED"},
                                Transition(state)
                         PROVE  OutboxInv'
<1>1. PICK rs : rs = rows
  OBVIOUS
<1>2. PICK next : next = instance'
  OBVIOUS
<1>3. rs \in Seq(Row) /\ Typed /\ RowsFollow(rs, instance) /\ instance.seq \in Nat
  BY <1>1, OutboxFields
<1>4. instance' = [state |-> state, seq |-> instance.seq + 1]
  BY DEF Transition
<1>5. next.seq = instance.seq + 1 /\ next.state = state /\ next.seq \in Nat
  BY <1>2, <1>3, <1>4
<1>6. RowsFollow(rs, next)
  <2>1. PICK inst : inst = instance
    OBVIOUS
  <2> QED
    BY <2>1, <1>3, <1>5, TransitionLeavesBehind
<1>7. PICK kept : kept = IF state = "RESOLVED" THEN SupersedeRows(AlertRows) ELSE rows
  OBVIOUS
<1>8. RowsGrow(rs, kept) /\ Len(kept) = Len(rs)
  <2>1. CASE state = "RESOLVED"
    <3>1. PICK S : S = AlertRows
      OBVIOUS
    <3>2. IsSuperseding(S, rs, kept)
      BY <3>1, <2>1, <1>1, <1>7 DEF SupersedeRows, IsSuperseding
    <3> QED
      BY <3>2, <1>3, SupersedeRowsGrows
  <2>2. CASE state # "RESOLVED"
    <3>1. \A i \in 1 .. Len(rs) : IsLater(rs[i], kept[i])
      BY <2>2, <1>1, <1>3, <1>7, NoUpdate
    <3> QED
      BY <3>1, <2>2, <1>1, <1>3, <1>7 DEF RowsGrow
  <2> QED
    BY <2>1, <2>2
<1>9. RowsGrow(rs, rows') /\ RowsFollow(rows', next)
  <2>1. CASE instance.state = "OK" \/ state = "RESOLVED"
    <3>1. PICK st : st = IF mutedUntil > clock THEN "muted" ELSE "pending"
      OBVIOUS
    <3>2. PICK add \in RowsFor(Told, state, next.seq, st) : rows' = kept \o add
      BY <2>1, <1>1, <1>2, <1>7, <3>1 DEF Transition
    <3>3. PICK D : D = Told
      OBVIOUS
    <3>4. D \in SUBSET Destinations /\ st \in {"pending", "muted"}
      BY <3>1, <3>3 DEF Told
    <3>5. state \in Ongoing \cup {"RESOLVED"}
      <4>1. state # "RECOVERING"
        BY <2>1 DEF Transition
      <4> QED
        BY <4>1 DEF Ongoing
    <3>6. PICK seq : seq = next.seq
      OBVIOUS
    <3>6a. add \in RowsFor(D, state, seq, st) /\ seq \in Nat
      BY <3>2, <3>3, <3>6, <1>5
    <3>7. IsNews(add, state, seq)
      BY <3>4, <3>5, <3>6a, <1>3, RowsForAreRows
    <3>8. RowsFollow(add, next)
      <4>1. ASSUME NEW i \in 1 .. Len(add) PROVE Follows(add[i], next)
        <5>1. add[i].seq = next.seq /\ add[i].says = state /\ state # "test"
          BY <3>5, <3>6, <3>7 DEF IsNews, Ongoing
        <5> QED
          BY <5>1, <1>5 DEF Follows, IsAlert
      <4> QED
        BY <4>1 DEF RowsFollow
    <3> QED
      <4>1. add \in Seq(Row)
        BY <3>7 DEF IsNews
      <4> QED
        BY <4>1, <3>2, <3>8, <1>3, <1>6, <1>8, AddedRows
  <2>2. CASE ~(instance.state = "OK" \/ state = "RESOLVED")
    <3>1. rows' = kept
      BY <2>2, <1>1, <1>7 DEF Transition
    <3> QED
      BY <3>1, <1>3, <1>6, <1>8, UpdatedFollow
  <2> QED
    BY <2>1, <2>2
<1>10. Typed'
  BY <1>3, <1>4 DEF Transition, Typed, config, Ongoing
<1>11. instance.state # "RESOLVED"
  BY DEF Transition
<1>12. UNCHANGED <<net, accepted, sender>>
  BY DEF Transition, world
<1> QED
  BY <1>1, <1>2, <1>9, <1>10, <1>11, <1>12, RowsMove

(* A revision ends the alert and supersedes what waits to be told.         *)
LEMMA ReviseRuleKeeps == ASSUME OutboxInv, ReviseRule PROVE OutboxInv'
<1>1. PICK rs : rs = rows
  OBVIOUS
<1>2. PICK next : next = instance'
  OBVIOUS
<1>3. rs \in Seq(Row) /\ Typed /\ RowsFollow(rs, instance) /\ instance.seq \in Nat
  BY <1>1, OutboxFields
<1>4. \/ instance' = instance
      \/ /\ instance.state # "RESOLVED"
         /\ instance' = [state |-> "superseded", seq |-> instance.seq + 1]
  BY DEF ReviseRule
<1>5. RowsFollow(rs, next)
  <2>1. PICK inst : inst = instance
    OBVIOUS
  <2>2. CASE instance' = instance
    BY <2>2, <1>2, <1>3
  <2>3. CASE instance' = [state |-> "superseded", seq |-> instance.seq + 1]
    <3>1. next.seq = inst.seq + 1
      BY <2>1, <2>3, <1>2
    <3> QED
      BY <3>1, <2>1, <1>3, TransitionLeavesBehind
  <2> QED
    BY <2>2, <2>3, <1>4
<1>6. RowsGrow(rs, rows') /\ Len(rows') = Len(rs)
  <2>1. PICK S : S = AlertRows
    OBVIOUS
  <2>2. PICK ns : ns = rows'
    OBVIOUS
  <2>3. IsSuperseding(S, rs, ns)
    BY <2>1, <2>2, <1>1 DEF ReviseRule, SupersedeRows, IsSuperseding
  <2> QED
    BY <2>2, <2>3, <1>3, SupersedeRowsGrows
<1>7. RowsFollow(rows', next)
  <2>1. PICK ns : ns = rows'
    OBVIOUS
  <2> QED
    BY <2>1, <1>3, <1>5, <1>6, UpdatedFollow
<1>8. Typed'
  BY <1>3, <1>4 DEF ReviseRule, Typed, config
<1>9. UNCHANGED <<net, accepted, sender>>
  BY DEF ReviseRule, world
<1>10. instance.state = "RESOLVED" => instance'.state = "RESOLVED"
  BY <1>4
<1> QED
  BY <1>1, <1>2, <1>6, <1>7, <1>8, <1>9, <1>10, RowsMove

(* What updates the rows and leaves the alert as it is.                    *)
LEMMA UpdateKeeps ==
    ASSUME OutboxInv, NEW ns, rows' = ns, ns = [i \in DOMAIN rows |-> ns[i]],
           \A i \in 1 .. Len(rows) : IsLater(rows[i], ns[i]),
           UNCHANGED <<instance, accepted>>, net' \subseteq net, sender' \subseteq sender, Typed'
    PROVE  OutboxInv'
<1>1. PICK rs : rs = rows
  OBVIOUS
<1>2. PICK inst : inst = instance
  OBVIOUS
<1>3. rs \in Seq(Row) /\ RowsFollow(rs, inst)
  BY <1>1, <1>2, OutboxFields
<1>4. RowsGrow(rs, ns) /\ Len(ns) = Len(rs)
  BY <1>1, <1>3, UpdatedRows
<1>5. RowsFollow(ns, inst)
  BY <1>3, <1>4, UpdatedFollow
<1> QED
  BY <1>1, <1>2, <1>4, <1>5, RowsMove

(* A mute holds back what waits.                                           *)
LEMMA MuteKeeps == ASSUME OutboxInv, MuteAlertIncident PROVE OutboxInv'
<1>1. PICK ns : ns = rows'
  OBVIOUS
<1>2. rows \in Seq(Row) /\ Typed /\ clock \in Nat /\ DOMAIN rows = 1 .. Len(rows)
  BY OutboxFields
<1>3. ns = [i \in DOMAIN rows |->
              IF IsAlert(rows[i]) /\ rows[i].state \in {"pending", "failed"}
              THEN [rows[i] EXCEPT !.state = "muted", !.next = Never] ELSE rows[i]]
  BY <1>1 DEF MuteAlertIncident
<1>4. ASSUME NEW i \in 1 .. Len(rows) PROVE IsLater(rows[i], ns[i])
  <2>1. PICK r \in Row : r = rows[i]
    BY <1>2
  <2>2. CASE IsAlert(r) /\ r.state \in {"pending", "failed"}
    <3>1. ns[i] = [r EXCEPT !.state = "muted", !.next = Never]
      BY <1>2, <1>3, <2>1, <2>2
    <3>2. r.state \in Waiting /\ Never \in Nat
      BY <2>2 DEF Waiting, Never
    <3> QED
      BY <2>1, <3>1, <3>2, ReadiedIsLater
  <2>3. CASE ~(IsAlert(r) /\ r.state \in {"pending", "failed"})
    <3>1. ns[i] = r
      BY <1>2, <1>3, <2>1, <2>3
    <3> QED
      BY <2>1, <3>1, NoUpdate
  <2> QED
    BY <2>2, <2>3
<1>5. ns = [i \in DOMAIN rows |-> ns[i]]
  BY <1>3
<1>6. Typed'
  <2>1. UNCHANGED <<instance, revision, active, clock>> /\ mutedUntil' = clock + MuteFor
    BY DEF MuteAlertIncident, config
  <2>2. mutedUntil' \in Nat
    BY <1>2, <2>1, OutboxNumbers
  <2> QED
    BY <1>2, <2>1, <2>2 DEF Typed
<1>7. UNCHANGED <<instance, net, accepted, sender>>
  BY DEF MuteAlertIncident, world
<1> QED
  BY <1>1, <1>4, <1>5, <1>6, <1>7, UpdateKeeps

(* Ending it wakes the rows of the current transition, ...                 *)
LEMMA WokenIsLater == ASSUME Typed, NEW r \in Row PROVE IsLater(r, Woken(r))
<1>1. CASE r.state # "muted"
  BY <1>1, NoUpdate DEF Woken
<1>2. CASE r.state = "muted" /\ IsCurrent(r)
  <2>1. clock \in Nat /\ r.state \in Waiting
    BY <1>2 DEF Typed, Waiting
  <2>2. Woken(r) = [r EXCEPT !.state = "pending", !.next = clock]
    BY <1>2 DEF Woken
  <2>3. PICK x \in Nat : x = clock
    BY <2>1
  <2> QED
    BY <2>1, <2>2, <2>3, ReadiedIsLater
<1>3. CASE r.state = "muted" /\ ~IsCurrent(r)
  <2>1. Woken(r) = Superseded(r) /\ r.state \in Waiting \cup {"leased"}
    BY <1>3 DEF Woken, Waiting
  <2> QED
    BY <2>1, SupersededIsLater
<1> QED
  BY <1>1, <1>2, <1>3

(* ... supersedes the others and may add a summary.                        *)
LEMMA UnmuteKeeps == ASSUME OutboxInv, UnmuteAlertIncident PROVE OutboxInv'
<1>1. PICK rs : rs = rows
  OBVIOUS
<1>2. PICK inst : inst = instance
  OBVIOUS
<1>3. rs \in Seq(Row) /\ Typed /\ RowsFollow(rs, inst) /\ DOMAIN rs = 1 .. Len(rs)
  BY <1>1, <1>2, OutboxFields
<1>4. PICK woken : woken = [i \in DOMAIN rows |-> Woken(rows[i])]
  OBVIOUS
<1>5. RowsGrow(rs, woken) /\ Len(woken) = Len(rs)
  <2>1. \A i \in 1 .. Len(rs) : IsLater(rs[i], woken[i])
    BY <1>1, <1>3, <1>4, WokenIsLater
  <2>2. woken = [i \in DOMAIN rs |-> woken[i]]
    BY <1>1, <1>4
  <2> QED
    BY <1>3, <2>1, <2>2, UpdatedRows
<1>6. PICK D : D = Summarised(woken)
  OBVIOUS
<1>7. IF instance.state \in Ongoing
      THEN \E add \in RowsFor(D, instance.state, instance.seq, "pending") : rows' = woken \o add
      ELSE rows' = woken
  BY <1>4, <1>6 DEF UnmuteAlertIncident
<1>8. RowsGrow(rs, rows') /\ RowsFollow(rows', inst)
  <2>1. CASE instance.state \in Ongoing
    <3>1. PICK says \in Ongoing : says = instance.state
      BY <2>1
    <3>2. PICK seq \in Nat : seq = instance.seq
      BY OutboxFields
    <3>3. PICK add \in RowsFor(D, says, seq, "pending") : rows' = woken \o add
      BY <1>7, <2>1, <3>1, <3>2
    <3>4. D \in SUBSET Destinations
      BY <1>6 DEF Summarised, Told
    <3>5. IsNews(add, says, seq)
      <4>1. "pending" \in {"pending", "muted"} /\ says \in Ongoing \cup {"RESOLVED"}
        BY <3>1
      <4>2. PICK st \in {"pending", "muted"} : st = "pending"
        BY <4>1
      <4>3. add \in RowsFor(D, says, seq, st)
        BY <3>3, <4>2
      <4> QED
        BY <4>1, <4>3, <3>2, <3>4, <1>3, RowsForAreRows
    <3>6. RowsFollow(add, inst)
      <4>1. ASSUME NEW i \in 1 .. Len(add) PROVE Follows(add[i], inst)
        <5>1. /\ add[i].seq = inst.seq /\ add[i].says = inst.state /\ add[i].says # "test"
              /\ inst.state # "RESOLVED" /\ inst.seq \in Nat
          BY <1>2, <3>1, <3>2, <3>5 DEF IsNews, Ongoing
        <5> QED
          BY <5>1 DEF Follows, IsAlert
      <4> QED
        BY <4>1 DEF RowsFollow
    <3>7. add \in Seq(Row)
      BY <3>5 DEF IsNews
    <3> QED
      BY <1>3, <1>5, <3>3, <3>6, <3>7, AddedRows
  <2>2. CASE instance.state \notin Ongoing
    BY <1>3, <1>5, <1>7, <2>2, UpdatedFollow
  <2> QED
    BY <2>1, <2>2
<1>9. Typed'
  BY <1>3 DEF UnmuteAlertIncident, Typed, config, Never
<1>10. UNCHANGED <<instance, net, accepted, sender>>
  BY DEF UnmuteAlertIncident, world
<1> QED
  BY <1>1, <1>2, <1>8, <1>9, <1>10, RowsMove

(* A destination is edited, and what waits for it superseded.              *)
LEMMA ReviseDestinationKeeps ==
    ASSUME OutboxInv, NEW d \in Destinations, ReviseDestination(d)
    PROVE  OutboxInv'
<1>1. PICK rs : rs = rows
  OBVIOUS
<1>2. PICK inst : inst = instance
  OBVIOUS
<1>3. PICK ns : ns = rows'
  OBVIOUS
<1>4. rs \in Seq(Row) /\ Typed /\ RowsFollow(rs, inst)
  BY <1>1, <1>2, OutboxFields
<1>5. PICK S : S = {i \in DOMAIN rows : rows[i].dest = d /\ rows[i].rev = revision[d]}
  OBVIOUS
<1>6. IsSuperseding(S, rs, ns)
  BY <1>1, <1>3, <1>5 DEF ReviseDestination, SupersedeRows, IsSuperseding
<1>7. RowsGrow(rs, ns) /\ Len(ns) = Len(rs)
  BY <1>4, <1>6, SupersedeRowsGrows
<1>8. RowsFollow(ns, inst)
  BY <1>4, <1>7, UpdatedFollow
<1>9. Typed'
  BY <1>4 DEF ReviseDestination, Typed, condition
<1>10. UNCHANGED <<instance, net, accepted, sender>>
  BY DEF ReviseDestination, world, condition
<1> QED
  BY <1>1, <1>2, <1>3, <1>7, <1>8, <1>9, <1>10, RowsMove

(* A test is a row of its own.                                             *)
LEMMA EnqueueTestKeeps ==
    ASSUME OutboxInv, NEW d \in Destinations, EnqueueDestinationTest(d)
    PROVE  OutboxInv'
<1>1. PICK rs : rs = rows
  OBVIOUS
<1>2. PICK inst : inst = instance
  OBVIOUS
<1>3. rs \in Seq(Row) /\ Typed /\ RowsFollow(rs, inst) /\ Len(rs) \in Nat
  BY <1>1, <1>2, OutboxFields
<1>4. PICK r : r = NewRow(d, "test", 0, "pending", "queued")
  OBVIOUS
<1>5. r \in Row /\ r.seq = 0 /\ r.says = "test"
  <2>1. PICK says \in Ongoing \cup {"RESOLVED", "test"} : says = "test"
    OBVIOUS
  <2>2. PICK st \in {"pending", "muted"} : st = "pending"
    OBVIOUS
  <2>3. PICK j \in {"none", "queued"} : j = "queued"
    OBVIOUS
  <2>4. PICK seq \in Nat : seq = 0
    OBVIOUS
  <2> QED
    BY <1>3, <1>4, <2>1, <2>2, <2>3, <2>4, NewRowIsRow
<1>6. PICK ns : ns = rows'
  OBVIOUS
<1>7. ns = Append(rs, r)
  BY <1>1, <1>4, <1>6 DEF EnqueueDestinationTest
<1>8. /\ ns \in Seq(Row) /\ Len(ns) = Len(rs) + 1 /\ ns[Len(rs) + 1] = r
      /\ \A i \in 1 .. Len(rs) : ns[i] = rs[i] /\ rs[i] \in Row
      /\ \A i \in 1 .. Len(ns) : i \in 1 .. Len(rs) \/ i = Len(rs) + 1
  BY <1>3, <1>5, <1>7
<1>9. RowsGrow(rs, ns)
  BY <1>3, <1>8, NoUpdate DEF RowsGrow
<1>10. RowsFollow(ns, inst)
  <2>1. Follows(r, inst)
    BY <1>5 DEF Follows, IsAlert
  <2> QED
    BY <1>3, <1>8, <2>1 DEF RowsFollow
<1>11. Typed'
  BY <1>3 DEF EnqueueDestinationTest, Typed, condition, config
<1>12. UNCHANGED <<instance, net, accepted, sender>>
  BY DEF EnqueueDestinationTest, world, condition
<1> QED
  BY <1>1, <1>2, <1>6, <1>9, <1>10, <1>11, <1>12, RowsMove

(* An operator retries a failed delivery.                                  *)
LEMMA RetryKeeps ==
    ASSUME OutboxInv, NEW i \in DOMAIN rows, RetryNotificationDelivery(i)
    PROVE  OutboxInv'
<1>1. PICK ns : ns = rows'
  OBVIOUS
<1>2. rows \in Seq(Row) /\ Typed /\ clock \in Nat /\ DOMAIN rows = 1 .. Len(rows)
  BY OutboxFields
<1>3. PICK O : O = Obsolete(rows, {i})
  OBVIOUS
<1>4. ns = [j \in DOMAIN rows |->
              IF j = i THEN [rows[i] EXCEPT !.state = "pending", !.next = clock]
              ELSE IF j \in O THEN Superseded(rows[j]) ELSE rows[j]]
  BY <1>1, <1>3 DEF RetryNotificationDelivery
<1>5. ASSUME NEW j \in 1 .. Len(rows) PROVE IsLater(rows[j], ns[j])
  <2>1. PICK r \in Row : r = rows[j]
    BY <1>2
  <2>2. CASE j = i
    <3>1. r.state \in Waiting
      BY <2>1, <2>2 DEF RetryNotificationDelivery, Waiting
    <3>2. PICK x \in Nat : x = clock
      BY <1>2
    <3>3. ns[j] = [r EXCEPT !.state = "pending", !.next = x]
      BY <1>2, <1>4, <2>1, <2>2, <3>2
    <3> QED
      BY <2>1, <3>1, <3>3, ReadiedIsLater
  <2>3. CASE j # i /\ j \in O
    <3>1. r.state \in Waiting
      BY <1>3, <2>1, <2>3 DEF Obsolete
    <3>2. ns[j] = Superseded(r)
      BY <1>2, <1>4, <2>1, <2>3
    <3> QED
      BY <2>1, <3>1, <3>2, SupersededIsLater
  <2>4. CASE j # i /\ j \notin O
    <3>1. ns[j] = r
      BY <1>2, <1>4, <2>1, <2>4
    <3> QED
      BY <2>1, <3>1, NoUpdate
  <2> QED
    BY <2>2, <2>3, <2>4
<1>6. ns = [j \in DOMAIN rows |-> ns[j]]
  BY <1>4
<1>7. Typed' /\ UNCHANGED <<instance, net, accepted, sender>>
  BY <1>2 DEF RetryNotificationDelivery, Typed, condition, config, world
<1> QED
  BY <1>1, <1>5, <1>6, <1>7, UpdateKeeps

(* Nothing happens to the rows.                                            *)
LEMMA RowsKept ==
    ASSUME OutboxInv, UNCHANGED <<rows, instance, accepted>>, net' \subseteq net,
           sender' \subseteq sender, Typed'
    PROVE  OutboxInv'
<1>1. PICK ns : ns = rows
  OBVIOUS
<1>2. rows \in Seq(Row)
  BY OutboxFields
<1>3. \A i \in 1 .. Len(rows) : IsLater(rows[i], ns[i])
  BY <1>1, <1>2, NoUpdate
<1>4. ns = [i \in DOMAIN rows |-> ns[i]]
  BY <1>1, <1>2
<1> QED
  BY <1>1, <1>3, <1>4, UpdateKeeps

(* The parent of a dependency only decides what is held back.              *)
LEMMA ParentKeeps == ASSUME OutboxInv, ParentChanges PROVE OutboxInv'
<1>1. Typed
  BY OutboxFields
<1>2. Typed' /\ UNCHANGED <<rows, instance, net, accepted, sender>>
  BY <1>1 DEF ParentChanges, Typed, config, world
<1> QED
  BY <1>2, RowsKept

(* A request that is lost leaves the network unanswered.                   *)
LEMMA LoseKeeps == ASSUME OutboxInv, NEW q \in net, Lose(q) PROVE OutboxInv'
<1>1. Typed
  BY OutboxFields
<1>2. Typed' /\ UNCHANGED <<rows, instance, accepted, sender>> /\ net' \subseteq net
  BY <1>1 DEF Lose, Typed, config, condition
<1> QED
  BY <1>2, RowsKept

(* A crash forgets the sender; the rows stay leased.                       *)
LEMMA CrashKeeps == ASSUME OutboxInv, Crash PROVE OutboxInv'
<1>1. Typed
  BY OutboxFields
<1>2. Typed' /\ UNCHANGED <<rows, instance, accepted, net>> /\ sender' \subseteq sender
  BY <1>1 DEF Crash, Typed, config, condition, world
<1> QED
  BY <1>2, RowsKept

(* Time passes.                                                            *)
LEMMA ClockTickKeeps == ASSUME OutboxInv, ClockTick PROVE OutboxInv'
<1>1. Typed /\ clock \in Nat
  BY OutboxFields
<1>2. UNCHANGED <<rows, instance, accepted, net, sender, mutedUntil, revision, active>>
  BY DEF ClockTick, config, condition, world
<1>3. clock' \in Nat
  BY <1>1 DEF ClockTick
<1> QED
  BY <1>1, <1>2, <1>3, RowsKept DEF Typed

(* How long a delivery waits after a failed attempt.                       *)
LEMMA DelayIsTime == ASSUME NEW a \in Nat \ {0} PROVE Delay(a) \in Nat
  BY OutboxNumbers DEF Delay

(* The types of a sender's fields.                                         *)
LEMMA FieldsOfSender ==
    ASSUME OutboxInv, NEW s \in sender
    PROVE  /\ s \in Sender /\ s.row \in 1 .. Len(rows) /\ s.attempt \in Nat \ {0}
           /\ s.attempt = rows[s.row].attempts
           /\ s.answer \in {"busy", "rejected"} => \A q \in Requests : ~Same(s, q)
           /\ s.answer = "accepted" => \A q \in net : ~Same(s, q)
<1>1. s \in Sender
  BY DEF OutboxInv, RequestsFit
<1>2. SenderKnows(rows, Requests, net)
  BY DEF OutboxInv, RowsKnow
<1> QED
  BY <1>1, <1>2 DEF Sender, SenderKnows

(* One row is completed, unless its lease is over.                         *)
LEMMA CompletedRows ==
    ASSUME NEW rs \in Seq(Row), NEW i \in 1 .. Len(rs), NEW n \in Row,
           NEW ns, ns = [rs EXCEPT ![i] = n]
    PROVE  /\ ns \in Seq(Row) /\ Len(ns) = Len(rs) /\ ns[i] = n
           /\ \A j \in 1 .. Len(rs) : j # i => ns[j] = rs[j]
  OBVIOUS

(* A dispatcher that gave up marks the message, or its time is over.       *)
LEMMA GiveUpKeeps == ASSUME OutboxInv, GiveUp PROVE OutboxInv'
<1>1. PICK s \in sender : rows' = Completed(s.row, "unsure", Delay(s.attempt)) /\ sender' = {}
  BY DEF GiveUp
<1>2. s.row \in 1 .. Len(rows) /\ s.attempt \in Nat \ {0}
  BY FieldsOfSender
<1>3. PICK wait \in Nat : wait = Delay(s.attempt)
  BY <1>2, DelayIsTime
<1>4. PICK i \in 1 .. Len(rows) : i = s.row
  BY <1>2
<1>5. rows \in Seq(Row) /\ Typed /\ DOMAIN rows = 1 .. Len(rows)
  BY OutboxFields
<1>6. PICK r \in Row : r = rows[i]
  BY <1>5
<1>7. PICK n : n = IF r.state # "leased" \/ r.lease <= clock THEN r
                   ELSE IF ~IsAlert(r) THEN Final(r, FALSE)
                   ELSE Retried(r, "unsure", wait)
  OBVIOUS
<1>8. PICK ns : ns = rows'
  OBVIOUS
<1>9. ns = [rows EXCEPT ![i] = n]
  BY <1>1, <1>3, <1>4, <1>5, <1>6, <1>7, <1>8 DEF Completed
<1>10. IsLater(r, n)
  <2>1. CASE r.state # "leased" \/ r.lease <= clock
    BY <1>7, <2>1, NoUpdate
  <2>2. CASE ~(r.state # "leased" \/ r.lease <= clock) /\ ~IsAlert(r)
    <3>1. n = Final(r, FALSE)
      BY <1>7, <2>2
    <3>2. /\ n \in Row /\ n.dest = r.dest /\ n.seq = r.seq /\ n.says = r.says
          /\ n.attempts = r.attempts /\ (n.unknown = r.unknown)
      BY <3>1, FinalRow
    <3> QED
      BY <2>2, <3>2 DEF IsLater
  <2>3. CASE ~(r.state # "leased" \/ r.lease <= clock) /\ IsAlert(r)
    <3>1. n = Retried(r, "unsure", wait)
      BY <1>7, <2>3
    <3>2. PICK out \in {"busy", "unsure"} : out = "unsure"
      OBVIOUS
    <3>3. /\ n \in Row /\ n.dest = r.dest /\ n.seq = r.seq /\ n.says = r.says
          /\ n.attempts = r.attempts
          /\ r.unknown => n.unknown
          /\ n.state = "expired" \/ n.unknown
      BY <1>5, <2>3, <3>1, <3>2, RetriedRow
    <3> QED
      BY <2>3, <3>3, UpdateIsLater
  <2> QED
    BY <2>1, <2>2, <2>3
<1>11. \A j \in 1 .. Len(rows) : IsLater(rows[j], ns[j])
  <2>1. n \in Row
    BY <1>10 DEF IsLater
  <2>2. ns[i] = n /\ \A j \in 1 .. Len(rows) : j # i => ns[j] = rows[j]
    BY <1>5, <1>9
  <2> QED
    BY <1>5, <1>6, <1>10, <2>2, NoUpdate
<1>12. ns = [j \in DOMAIN rows |-> ns[j]]
  BY <1>5, <1>9
<1>13. Typed' /\ UNCHANGED <<instance, net, accepted>>
  BY <1>5 DEF GiveUp, Typed, condition, config, world
<1> QED
  BY <1>1, <1>8, <1>11, <1>12, <1>13, UpdateKeeps

(* The row of a delivery whose outcome is known.                           *)
IsCompleted(s, r, n) ==
    /\ n \in Row /\ n.dest = r.dest /\ n.seq = r.seq /\ n.says = r.says
    /\ n.attempts = r.attempts
    /\ r.unknown => n.unknown
    /\ s.answer = "accepted" => n.state = "sent"

(* What an answer makes of the row that is leased for it.                  *)
LEMMA KnownRow ==
    ASSUME Typed, NEW r \in Row, r.state = "leased", NEW s \in Sender, s.answer # "none",
           NEW wait \in Nat
    PROVE  IsCompleted(s, r, IF s.answer = "accepted" THEN Final(r, TRUE)
                             ELSE IF s.answer = "rejected" \/ ~IsAlert(r) THEN Final(r, FALSE)
                             ELSE Retried(r, s.answer, wait))
<1>0. PICK n : n = IF s.answer = "accepted" THEN Final(r, TRUE)
                   ELSE IF s.answer = "rejected" \/ ~IsAlert(r) THEN Final(r, FALSE)
                   ELSE Retried(r, s.answer, wait)
  OBVIOUS
<1>1. s.answer \in {"accepted", "busy", "rejected"}
  BY DEF Sender
<1>2. ASSUME s.answer = "accepted" PROVE IsCompleted(s, r, n)
  <2>1. n = Final(r, TRUE)
    BY <1>0, <1>2
  <2>2. /\ n \in Row /\ n.dest = r.dest /\ n.seq = r.seq /\ n.says = r.says
        /\ n.attempts = r.attempts /\ (n.unknown = r.unknown)
    BY <2>1, FinalRow
  <2>3. n.state = "sent"
    BY <2>1, FinalRow
  <2>4. r.unknown => n.unknown
    BY <2>2
  <2> QED
    BY <1>2, <2>2, <2>3, <2>4 DEF IsCompleted
<1>3. ASSUME s.answer # "accepted", s.answer = "rejected" \/ ~IsAlert(r)
      PROVE  IsCompleted(s, r, n)
  <2>1. n = Final(r, FALSE)
    BY <1>0, <1>3
  <2>2. /\ n \in Row /\ n.dest = r.dest /\ n.seq = r.seq /\ n.says = r.says
        /\ n.attempts = r.attempts /\ (n.unknown = r.unknown)
    BY <2>1, FinalRow
  <2>3. n.state = "failed"
    BY <2>1, FinalRow
  <2>4. r.unknown => n.unknown
    BY <2>2
  <2> QED
    BY <1>3, <2>2, <2>3, <2>4 DEF IsCompleted
<1>4. ASSUME s.answer = "busy", IsAlert(r) PROVE IsCompleted(s, r, n)
  <2>1. PICK out \in {"busy", "unsure"} : out = "busy"
    OBVIOUS
  <2>2. n = Retried(r, out, wait)
    BY <1>0, <1>4, <2>1
  <2> QED
    BY <1>4, <2>2, RetriedRow DEF IsCompleted
<1> QED
  BY <1>0, <1>1, <1>2, <1>3, <1>4

(* It was under way, and what is known of it is known.                     *)
LEMMA OutcomeIsKnown ==
    ASSUME OutboxInv, NEW s \in sender, s.answer \in {"accepted", "busy", "rejected"},
           NEW i \in 1 .. Len(rows), i = s.row,
           rows[i].state = "leased", NEW n, IsCompleted(s, rows[i], n),
           NEW ns, ns = [rows EXCEPT ![i] = n], rows' = ns,
           UNCHANGED <<instance, net, accepted>>, sender' = {}, Typed'
    PROVE  OutboxInv'
<1>1. PICK rs : rs = rows
  OBVIOUS
<1>2. /\ rs \in Seq(Row) /\ RowsFollow(rs, instance) /\ rs[i] \in Row /\ i \in 1 .. Len(rs)
      /\ rs[i].state = "leased" /\ IsCompleted(s, rs[i], n)
  BY <1>1, OutboxFields
<1>3. n \in Row
  BY DEF IsCompleted
<1>4. /\ ns \in Seq(Row) /\ Len(ns) = Len(rs) /\ ns[i] = n
      /\ \A j \in 1 .. Len(rs) : j # i => ns[j] = rs[j]
  BY <1>1, <1>2, <1>3, CompletedRows
<1>5. RowsFollow(ns, instance)
  <2>1. Follows(n, instance)
    BY <1>2 DEF IsCompleted, Follows, IsAlert, RowsFollow
  <2> QED
    BY <1>2, <1>4, <2>1 DEF RowsFollow
<1>6. \A q \in Requests : q.row \in 1 .. Len(rs) /\ IsOf(q, rs[q.row])
  BY <1>1 DEF OutboxInv, RowsKnow, RequestsAreOfRows
<1>7. RequestsAreOfRows(ns, Requests)
  <2> SUFFICES ASSUME NEW q \in Requests PROVE q.row \in 1 .. Len(ns) /\ IsOf(q, ns[q.row])
    BY DEF RequestsAreOfRows
  <2>1. CASE q.row = i
    BY <1>2, <1>4, <1>6, <2>1 DEF IsOf, IsCompleted
  <2>2. CASE q.row # i
    BY <1>4, <1>6, <2>2
  <2> QED
    BY <2>1, <2>2
<1>8. Marked(ns, Requests, net)
  <2> SUFFICES ASSUME NEW q \in Requests, IsAlert(q)
               PROVE  MayArrive(q, ns[q.row]) \/ (q \notin net /\ ns[q.row].state = "sent")
    BY DEF Marked
  <2>1. MayArrive(q, rs[q.row]) \/ (q \notin net /\ rs[q.row].state = "sent")
    BY <1>1 DEF OutboxInv, RowsKnow, Marked
  <2>2. CASE q.row # i
    BY <1>4, <1>6, <2>1, <2>2
  <2>3. CASE q.row = i /\ rs[i].unknown
    <3>1. n.unknown
      BY <1>2, <2>3 DEF IsCompleted
    <3> QED
      BY <1>4, <2>3, <3>1 DEF MayArrive
  <2>4. CASE q.row = i /\ ~rs[i].unknown
    <3>1. rs[i].attempts = q.attempt
      BY <1>2, <2>1, <2>4 DEF MayArrive
    <3>2. Same(s, q)
      BY <1>1, <2>4, <3>1, FieldsOfSender DEF Same
    <3>3. s.answer \notin {"busy", "rejected"}
      BY <3>2, FieldsOfSender
    <3>4. s.answer = "accepted" => q \notin net
      BY <3>2, FieldsOfSender
    <3>5. s.answer = "accepted" => n.state = "sent"
      BY <1>2 DEF IsCompleted
    <3> QED
      BY <1>4, <2>4, <3>3, <3>4, <3>5
  <2> QED
    BY <2>2, <2>3, <2>4
<1>9. Declared(ns, Requests, net)
  <2> SUFFICES ASSUME NEW q \in net, NEW p \in Requests,
                      IsAlert(q), p.dest = q.dest, p.seq > q.seq
               PROVE  p.unknown \/ ns[q.row].state = "expired"
    BY DEF Declared
  <2>1. p.unknown \/ rs[q.row].state = "expired"
    BY <1>1 DEF OutboxInv, RowsKnow, Declared
  <2>2. q \in Requests
    BY DEF Requests
  <2> QED
    BY <1>2, <1>4, <1>6, <2>1, <2>2
<1>10. Summaries(ns, Requests)
  <2> SUFFICES ASSUME NEW p \in Requests, p.alone /\ ~p.unknown, NEW q \in Requests,
                      q.dest = p.dest /\ q.says = "FIRING"
               PROVE  ns[q.row].state = "expired"
    BY DEF Summaries
  <2>1. rs[q.row].state = "expired"
    BY <1>1 DEF OutboxInv, RowsKnow, Summaries
  <2> QED
    BY <1>2, <1>4, <1>6, <2>1
<1>11. UNCHANGED Requests
  BY DEF Requests
<1>12. RowsKnow(rows)'
  BY <1>4, <1>7, <1>8, <1>9, <1>10, <1>11
  DEF RowsKnow, SenderKnows, RequestsAreOfRows, Marked, Declared, Summaries
<1>13. RequestsFit'
  BY <1>11 DEF OutboxInv, RequestsFit, OneByAttempt
<1>14. AloneIsLast'
  BY <1>11 DEF OutboxInv, AloneIsLast
<1> QED
  BY <1>5, <1>12, <1>13, <1>14 DEF OutboxInv, RowsFollow

(* The dispatcher writes the outcome of its attempt.                       *)
LEMMA CompleteKeeps == ASSUME OutboxInv, Complete PROVE OutboxInv'
<1>1. PICK s \in sender :
         /\ s.answer # "none" /\ sender' = {}
         /\ \E wait \in {Delay(s.attempt)} \cup (IF s.answer = "busy" THEN RetryAfter ELSE {}) :
              rows' = Completed(s.row, s.answer, wait)
  BY DEF Complete
<1>2. s \in Sender /\ s.row \in 1 .. Len(rows) /\ s.attempt \in Nat \ {0}
  BY FieldsOfSender
<1>3. PICK wait \in Nat : rows' = Completed(s.row, s.answer, wait)
  BY <1>1, <1>2, DelayIsTime, OutboxNumbers
<1>4. PICK i \in 1 .. Len(rows) : i = s.row
  BY <1>2
<1>5. rows \in Seq(Row) /\ Typed /\ DOMAIN rows = 1 .. Len(rows)
  BY OutboxFields
<1>6. PICK r \in Row : r = rows[i]
  BY <1>5
<1>7. PICK n : n = IF s.answer = "accepted" THEN Final(r, TRUE)
                   ELSE IF s.answer = "rejected" \/ ~IsAlert(r) THEN Final(r, FALSE)
                   ELSE Retried(r, s.answer, wait)
  OBVIOUS
<1>8. PICK ns : ns = rows'
  OBVIOUS
<1>9. Typed' /\ UNCHANGED <<instance, net, accepted>>
  BY <1>5 DEF Complete, Typed, condition, config, world
<1>10. CASE r.state # "leased" \/ r.lease <= clock
  <2>1. ns = [rows EXCEPT ![i] = rows[i]]
    BY <1>3, <1>4, <1>5, <1>6, <1>8, <1>10 DEF Completed
  <2>2. rows' = rows
    BY <1>5, <1>8, <2>1
  <2> QED
    BY <1>1, <1>9, <2>2, RowsKept
<1>11. CASE ~(r.state # "leased" \/ r.lease <= clock)
  <2>1. ns = [rows EXCEPT ![i] = n]
    BY <1>3, <1>4, <1>5, <1>6, <1>7, <1>8, <1>11 DEF Completed
  <2>2. IsCompleted(s, r, n)
    BY <1>1, <1>2, <1>5, <1>7, <1>11, KnownRow
  <2>3. s.answer \in {"accepted", "busy", "rejected"}
    BY <1>1, <1>2 DEF Sender
  <2> QED
    <3>1. i = s.row /\ rows[i].state = "leased" /\ IsCompleted(s, rows[i], n)
      BY <1>4, <1>6, <1>11, <2>2
    <3>2. rows' = ns /\ sender' = {}
      BY <1>1, <1>8
    <3> QED
      BY <1>9, <2>1, <2>3, <3>1, <3>2, OutcomeIsKnown
<1> QED
  BY <1>10, <1>11

-----------------------------------------------------------------------------
(* What the dispatcher knows when an answer reaches it.                    *)
LEMMA AnswerKnows ==
    ASSUME OutboxInv, NEW q \in net, NEW a \in {"accepted", "busy", "rejected"}, Answer(q, a),
           NEW reqs, NEW way, reqs \subseteq Requests, way \subseteq net, q \notin way,
           a # "accepted" => q \notin reqs, rows' = rows
    PROVE  /\ sender' \subseteq Sender /\ \A s, t \in sender' : s = t
           /\ SenderKnows(rows, reqs, way)'
<1>1. \A s \in sender : /\ s \in Sender /\ s.row \in 1 .. Len(rows)
                        /\ s.attempt = rows[s.row].attempts
                        /\ s.answer \in {"busy", "rejected"} => \A p \in Requests : ~Same(s, p)
                        /\ s.answer = "accepted" => \A p \in net : ~Same(s, p)
  BY FieldsOfSender
<1>2. \A s, t \in sender : s = t
  BY DEF OutboxInv, RequestsFit
<1>3. sender' = {IF s.row = q.row /\ s.attempt = q.attempt
                 THEN [s EXCEPT !.answer = a] ELSE s : s \in sender}
  BY DEF Answer
<1>4. \A s, t \in sender' : s = t
  BY <1>2, <1>3
<1>5. ASSUME NEW s \in sender'
      PROVE  /\ s \in Sender /\ s.row \in 1 .. Len(rows) /\ s.attempt = rows[s.row].attempts
             /\ s.answer \in {"busy", "rejected"} => \A p \in reqs : ~Same(s, p)
             /\ s.answer = "accepted" => \A p \in way : ~Same(s, p)
  <2>1. PICK t \in sender : s = IF t.row = q.row /\ t.attempt = q.attempt
                                THEN [t EXCEPT !.answer = a] ELSE t
    BY <1>3
  <2>2. CASE ~(t.row = q.row /\ t.attempt = q.attempt)
    BY <1>1, <2>1, <2>2
  <2>3. CASE t.row = q.row /\ t.attempt = q.attempt
    <3>1. s \in Sender /\ s.row = t.row /\ s.attempt = t.attempt /\ s.answer = a
      BY <1>1, <2>1, <2>3 DEF Sender
    <3>2. \A p \in Requests : Same(s, p) => p = q
      <4>1. q \in Requests /\ OneByAttempt(Requests)
        BY DEF Requests, OutboxInv, RequestsFit
      <4> QED
        BY <2>3, <3>1, <4>1 DEF Same, OneByAttempt
    <3>3. way \subseteq Requests
      BY DEF Requests
    <3> QED
      BY <1>1, <3>1, <3>2, <3>3
  <2> QED
    BY <2>2, <2>3
<1>6. SenderKnows(rows, reqs, way)'
  BY <1>5 DEF SenderKnows, Same
<1> QED
  BY <1>4, <1>5, <1>6

(* A destination answers that it does not take the message.                *)
LEMMA RefuseKeeps == ASSUME OutboxInv, NEW q \in net, Refuse(q) PROVE OutboxInv'
<1>1. PICK a \in {"busy", "rejected"} : Answer(q, a)
  BY DEF Refuse
<1>2. /\ net' = net \ {q} /\ UNCHANGED <<instance, rows, accepted>> /\ Typed
      /\ UNCHANGED <<mutedUntil, clock, revision, active>>
  BY OutboxFields DEF Refuse, condition, config
<1>3. PICK reqs : reqs = Requests'
  OBVIOUS
<1>4. PICK way : way = net'
  OBVIOUS
<1>5. q \notin accepted
  BY DEF OutboxInv, RequestsFit
<1>6. reqs \subseteq Requests /\ way \subseteq net /\ q \notin way /\ q \notin reqs
  BY <1>2, <1>3, <1>4, <1>5 DEF Requests
<1>7. sender' \subseteq Sender /\ (\A s, t \in sender' : s = t) /\ SenderKnows(rows, reqs, way)'
  BY <1>1, <1>2, <1>6, AnswerKnows
<1>8. way \subseteq Requests
  BY <1>6 DEF Requests
<1>9. RowsKnow(rows)
  BY DEF OutboxInv
<1>10. rows \in Seq(Row) /\ RequestsAreOfRows(rows, reqs)
  BY <1>6, <1>9 DEF RowsKnow, RequestsAreOfRows
<1>11. Marked(rows, reqs, way)
  <2>1. Marked(rows, Requests, net)
    BY <1>9 DEF RowsKnow
  <2> QED
    BY <1>6, <2>1 DEF Marked
<1>12. Declared(rows, reqs, way) /\ Summaries(rows, reqs)
  <2>1. Declared(rows, Requests, net) /\ Summaries(rows, Requests)
    BY <1>9 DEF RowsKnow
  <2> QED
    BY <1>6, <2>1 DEF Declared, Summaries
<1>13. RowsKnow(rows)'
  BY <1>2, <1>3, <1>4, <1>7, <1>10, <1>11, <1>12
  DEF RowsKnow, RequestsAreOfRows, Marked, Declared, Summaries, SenderKnows
<1>14. RequestsFit'
  <2>1. net' \subseteq Request /\ accepted' \subseteq Request /\ net' \cap accepted' = {}
    BY <1>2 DEF OutboxInv, RequestsFit
  <2>2. OneByAttempt(reqs)
    BY <1>6 DEF OutboxInv, RequestsFit, OneByAttempt
  <2> QED
    BY <1>3, <1>7, <2>1, <2>2 DEF RequestsFit, OneByAttempt
<1>15. AloneIsLast'
  BY <1>2, <1>3, <1>6 DEF OutboxInv, AloneIsLast
<1>16. Typed' /\ RowsFollow(rows, instance)'
  <2>1. RowsFollow(rows, instance)
    BY OutboxFields
  <2> QED
    BY <1>2, <2>1 DEF Typed, RowsFollow
<1> QED
  BY <1>13, <1>14, <1>15, <1>16 DEF OutboxInv

(* A destination takes the message; its answer may be lost.                *)
LEMMA AcceptKeeps == ASSUME OutboxInv, NEW q \in net, Accept(q) PROVE OutboxInv'
<1>1. PICK a \in {"accepted", "busy", "rejected"} : a = "accepted" /\ Answer(q, a)
  BY DEF Accept
<1>2. /\ net' = net \ {q} /\ accepted' = accepted \cup {q} /\ UNCHANGED <<instance, rows>> /\ Typed
      /\ UNCHANGED <<mutedUntil, clock, revision, active>>
  BY OutboxFields DEF Accept, condition, config
<1>3. PICK reqs : reqs = Requests
  OBVIOUS
<1>4. PICK way : way = net'
  OBVIOUS
<1>5. Requests' = reqs
  BY <1>2, <1>3 DEF Requests
<1>6. reqs \subseteq Requests /\ way \subseteq net /\ q \notin way
  BY <1>2, <1>3, <1>4
<1>7. sender' \subseteq Sender /\ (\A s, t \in sender' : s = t) /\ SenderKnows(rows, reqs, way)'
  BY <1>1, <1>2, <1>6, AnswerKnows
<1>8. RowsKnow(rows)
  BY DEF OutboxInv
<1>9. rows \in Seq(Row) /\ RequestsAreOfRows(rows, reqs) /\ Summaries(rows, reqs)
  BY <1>3, <1>8 DEF RowsKnow
<1>10. Marked(rows, reqs, way)
  <2>1. Marked(rows, Requests, net)
    BY <1>8 DEF RowsKnow
  <2> QED
    BY <1>3, <1>6, <2>1 DEF Marked
<1>11. Declared(rows, reqs, way)
  <2>1. Declared(rows, Requests, net)
    BY <1>8 DEF RowsKnow
  <2> QED
    BY <1>3, <1>6, <2>1 DEF Declared
<1>12. RowsKnow(rows)'
  BY <1>2, <1>4, <1>5, <1>7, <1>9, <1>10, <1>11
  DEF RowsKnow, RequestsAreOfRows, Marked, Declared, Summaries, SenderKnows
<1>13. RequestsFit'
  <2>1. net' \subseteq Request /\ accepted' \subseteq Request /\ net' \cap accepted' = {}
    BY <1>2 DEF OutboxInv, RequestsFit
  <2>2. OneByAttempt(reqs)
    BY <1>3 DEF OutboxInv, RequestsFit
  <2> QED
    BY <1>5, <1>7, <2>1, <2>2 DEF RequestsFit, OneByAttempt
<1>14. AloneIsLast'
  BY <1>2, <1>3, <1>5 DEF OutboxInv, AloneIsLast
<1>15. Typed' /\ RowsFollow(rows, instance)'
  <2>1. RowsFollow(rows, instance)
    BY OutboxFields
  <2> QED
    BY <1>2, <2>1 DEF Typed, RowsFollow
<1> QED
  BY <1>12, <1>13, <1>14, <1>15 DEF OutboxInv

-----------------------------------------------------------------------------
(* A claim: rows that ran out, then rows that cannot be sent.              *)
LEMMA LaterStill ==
    ASSUME NEW r, NEW m, NEW n, IsLater(r, m), IsLater(m, n)
    PROVE  IsLater(r, n)
<1>1. IsAlert(r) <=> IsAlert(m)
  BY DEF IsLater, IsAlert
<1> QED
  BY <1>1 DEF IsLater

(* Preparing a row for its claim: it expires, waits or is passed over.     *)
LEMMA PreparedIsLater ==
    ASSUME Typed, NEW rs \in Seq(Row), NEW D, \A i \in D : rs[i].state \in Waiting
    PROVE  /\ \A i \in 1 .. Len(rs) : IsLater(rs[i], Prepared(rs, D)[i])
           /\ DOMAIN Prepared(rs, D) = DOMAIN rs
<1>1. PICK ps : ps = Prepared(rs, D)
  OBVIOUS
<1>2. PICK O : O = Obsolete(rs, D)
  OBVIOUS
<1>3. ps = [i \in DOMAIN rs |-> IF i \in D THEN PassedOver(rs[i])
                                ELSE IF i \in O THEN Superseded(rs[i]) ELSE rs[i]]
  BY <1>1, <1>2 DEF Prepared
<1>4. ASSUME NEW i \in 1 .. Len(rs) PROVE IsLater(rs[i], ps[i])
  <2>1. i \in DOMAIN rs /\ rs[i] \in Row
    OBVIOUS
  <2>2. CASE i \in D
    <3>1. ps[i] = PassedOver(rs[i]) /\ rs[i].state \in Waiting
      BY <1>3, <2>1, <2>2
    <3> QED
      BY <2>1, <3>1, PassedOverIsLater
  <2>3. CASE i \notin D /\ i \in O
    <3>1. ps[i] = Superseded(rs[i]) /\ rs[i].state \in Waiting \cup {"leased"}
      BY <1>2, <1>3, <2>1, <2>3 DEF Obsolete
    <3> QED
      BY <2>1, <3>1, SupersededIsLater
  <2>4. CASE i \notin D /\ i \notin O
    <3>1. ps[i] = rs[i]
      BY <1>3, <2>1, <2>4
    <3> QED
      BY <2>1, <3>1, NoUpdate
  <2> QED
    BY <2>2, <2>3, <2>4
<1>5. DOMAIN ps = DOMAIN rs
  BY <1>3
<1> QED
  BY <1>1, <1>4, <1>5

(* What the message says.                                                  *)
IsPayload(p, rs, i) ==
    /\ p \in Request /\ p.row = i /\ p.attempt = rs[i].attempts + 1
    /\ p.dest = rs[i].dest /\ p.seq = rs[i].seq /\ p.says = rs[i].says
    /\ p.alone =>
         /\ IsAlert(rs[i]) /\ instance.state = "RESOLVED"
         /\ \A j \in 1 .. Len(rs) :
               IsAlert(rs[j]) /\ rs[j].dest = rs[i].dest /\ rs[j].says = "FIRING"
               => rs[j].state # "sent"
    /\ ~p.unknown => \A j \in 1 .. Len(rs) :
         IsAlert(rs[i]) /\ IsAlert(rs[j]) /\ rs[j].dest = rs[i].dest /\ rs[j].seq < rs[i].seq
         => ~rs[j].unknown

(* The message that is sent says what its row does.                        *)
LEMMA PayloadSays ==
    ASSUME NEW rs \in Seq(Row), NEW i \in 1 .. Len(rs)
    PROVE  IsPayload(Payload(rs, i), rs, i)
<1>1. DOMAIN rs = 1 .. Len(rs) /\ Len(rs) \in Nat /\ i \in Nat
  OBVIOUS
<1>2. PICK r \in Row : r = rs[i]
  OBVIOUS
<1>3. PICK al : al = (/\ IsAlert(r) /\ instance.state = "RESOLVED"
                      /\ ~\E j \in DOMAIN rs :
                            /\ IsAlert(r) /\ IsAlert(rs[j]) /\ rs[j].dest = r.dest
                            /\ rs[j].says = "FIRING" /\ rs[j].state = "sent")
  OBVIOUS
<1>4. PICK un : un = (\E j \in DOMAIN rs :
                         /\ IsAlert(r) /\ IsAlert(rs[j]) /\ rs[j].dest = r.dest
                         /\ rs[j].seq < r.seq /\ rs[j].unknown)
  OBVIOUS
<1>5. al \in BOOLEAN /\ un \in BOOLEAN
  BY <1>3, <1>4
<1>6. PICK p : p = [row |-> i, attempt |-> r.attempts + 1, dest |-> r.dest, seq |-> r.seq,
                    says |-> r.says, alone |-> al, unknown |-> un]
  OBVIOUS
<1>7. Payload(rs, i) = p
  BY <1>2, <1>3, <1>4, <1>6 DEF Payload
<1>8. p \in Request
  <2>1. PICK a : a = r.attempts + 1
    OBVIOUS
  <2>2. r.dest \in Destinations /\ r.seq \in Nat /\ a \in Nat /\ i \in Nat
    BY <1>1, <2>1, FieldsOfRow
  <2>3. r.says \in Ongoing \cup {"RESOLVED", "test"}
    BY DEF Row
  <2> QED
    BY <1>5, <1>6, <2>1, <2>2, <2>3 DEF Request
<1>9. /\ p.row = i /\ p.attempt = r.attempts + 1 /\ p.dest = r.dest /\ p.seq = r.seq
      /\ p.says = r.says /\ p.alone = al /\ p.unknown = un
  BY <1>6
<1>10. p.alone => /\ IsAlert(r) /\ instance.state = "RESOLVED"
                  /\ \A j \in 1 .. Len(rs) :
                        IsAlert(rs[j]) /\ rs[j].dest = r.dest /\ rs[j].says = "FIRING"
                        => rs[j].state # "sent"
  BY <1>1, <1>3, <1>9
<1>11. ~p.unknown => \A j \in 1 .. Len(rs) :
          IsAlert(r) /\ IsAlert(rs[j]) /\ rs[j].dest = r.dest /\ rs[j].seq < r.seq
          => ~rs[j].unknown
  BY <1>1, <1>4, <1>9
<1> QED
  BY <1>2, <1>7, <1>8, <1>9, <1>10, <1>11 DEF IsPayload

(* A message is sent: nothing older to its receiver is under way, and what *)
(* may have arrived it declares.                                           *)
LEMMA MessageIsSent ==
    ASSUME OutboxInv, NEW rs, RowsKnow(rs), RowsFollow(rs, instance), sender = {},
           NEW i \in 1 .. Len(rs), rs[i].state \in Waiting, Ready(rs[i]), ~Contended(rs, i),
           NEW ns \in Seq(Row), Len(ns) = Len(rs), IsLeased(rs[i], ns[i]),
           \A j \in 1 .. Len(rs) : j # i => IsLater(rs[j], ns[j]),
           NEW p, IsPayload(p, rs, i), rows' = ns, net' = net \cup {p},
           sender' = {[row |-> i, attempt |-> rs[i].attempts + 1, answer |-> "none"]},
           UNCHANGED <<instance, accepted>>, Typed'
    PROVE  OutboxInv'
<1>1. /\ rs \in Seq(Row) /\ Len(rs) \in Nat /\ DOMAIN rs = 1 .. Len(rs) /\ rs[i] \in Row
      /\ \A j \in 1 .. Len(rs) : rs[j] \in Row
  BY DEF RowsKnow
<1>2. PICK a \in Nat : a = rs[i].attempts
  BY <1>1, FieldsOfRow
<1>3. PICK reqs : reqs = Requests
  OBVIOUS
<1>4. Requests' = reqs \cup {p} /\ net \subseteq reqs
  BY <1>3 DEF Requests
<1>5. reqs \subseteq Request /\ p \in Request
  BY <1>3 DEF OutboxInv, RequestsFit, Requests, IsPayload
<1>6. \A q \in reqs : q.row \in 1 .. Len(rs) /\ IsOf(q, rs[q.row])
  BY <1>3 DEF RowsKnow, RequestsAreOfRows
<1>7. /\ p.row = i /\ p.attempt = a + 1 /\ p.dest = rs[i].dest /\ p.seq = rs[i].seq
      /\ p.says = rs[i].says /\ (IsAlert(p) <=> IsAlert(rs[i]))
  BY <1>2 DEF IsPayload, IsAlert
<1>8. /\ ns[i].dest = rs[i].dest /\ ns[i].seq = rs[i].seq /\ ns[i].says = rs[i].says
      /\ ns[i].state = "leased" /\ ns[i].attempts = a + 1 /\ ns[i].unknown = rs[i].unknown
  BY <1>2 DEF IsLeased
<1>9. rs[i].state \notin {"leased", "sent", "expired"}
  BY DEF Waiting
<1>10. \A q \in reqs : q.row = i => q.attempt \in Nat /\ q.attempt <= a
  BY <1>2, <1>5, <1>6 DEF IsOf, Request
<1>11. p \notin reqs
  BY <1>2, <1>7, <1>10
\* What was sent before is known as it was.
<1>12. \A q \in reqs : q.row \in 1 .. Len(ns) /\ IsOf(q, ns[q.row])
  <2> SUFFICES ASSUME NEW q \in reqs PROVE IsOf(q, ns[q.row])
    BY <1>6
  <2>1. CASE q.row = i
    <3>1. q.attempt <= a + 1
      BY <1>2, <1>10, <2>1
    <3> QED
      BY <1>6, <1>8, <2>1, <3>1 DEF IsOf
  <2>2. CASE q.row # i
    BY <1>6, <2>2, KnowledgeStays
  <2> QED
    BY <2>1, <2>2
<1>13. \A q \in reqs : IsAlert(q) =>
          MayArrive(q, rs[q.row]) \/ (q \notin net /\ rs[q.row].state = "sent")
  BY <1>3 DEF RowsKnow, Marked
<1>14. \A q \in reqs : IsAlert(q) =>
          MayArrive(q, ns[q.row]) \/ (q \notin net /\ ns[q.row].state = "sent")
  <2> SUFFICES ASSUME NEW q \in reqs, IsAlert(q)
               PROVE  MayArrive(q, ns[q.row]) \/ (q \notin net /\ ns[q.row].state = "sent")
    OBVIOUS
  <2>1. CASE q.row = i
    <3>1. rs[i].unknown
      BY <1>9, <1>13, <2>1 DEF MayArrive
    <3> QED
      BY <1>8, <2>1, <3>1 DEF MayArrive
  <2>2. CASE q.row # i
    BY <1>6, <1>13, <2>2, KnowledgeStays
  <2> QED
    BY <2>1, <2>2
<1>15. \A q \in reqs : rs[q.row].state = "expired" => ns[q.row].state = "expired"
  BY <1>6, <1>9 DEF IsLater
\* A message about this alert that may be at the receiver of the new one.
<1>16. ASSUME NEW q \in reqs, IsAlert(q), IsAlert(p), q.dest = p.dest, q.seq < p.seq, ~p.unknown
       PROVE  rs[q.row].state = "expired" \/ (q \notin net /\ rs[q.row].state = "sent")
  <2>1. PICK j \in 1 .. Len(rs) : j = q.row
    BY <1>6
  <2>2. IsAlert(rs[j]) /\ rs[j].dest = rs[i].dest /\ rs[j].seq < rs[i].seq
    BY <1>6, <1>7, <1>16, <2>1 DEF IsOf, IsAlert
  <2>3. ~rs[j].unknown
    BY <1>7, <1>16, <2>2 DEF IsPayload
  <2>4. j # i
    <3>1. rs[i].seq \in Nat
      BY <1>1, FieldsOfRow
    <3> QED
      BY <2>2, <3>1
  <2>5. rs[j].state # "leased"
    BY <1>1, <1>7, <1>16, <2>2, <2>4 DEF Contended
  <2> QED
    BY <1>13, <1>16, <2>1, <2>3, <2>5 DEF MayArrive
\* A row of an alert that is sent is of its current transition.
<1>17. IsAlert(p) => p.seq = instance.seq
  BY <1>7 DEF Ready, Stale
<1>18. ~IsAlert(p) => p.seq = 0
  BY <1>7 DEF RowsFollow, Follows
<1>19. instance.state = "RESOLVED" => p.says # "FIRING"
  <2> SUFFICES ASSUME instance.state = "RESOLVED", p.says = "FIRING" PROVE FALSE
    OBVIOUS
  <2>1. IsAlert(rs[i]) /\ IsAlert(p)
    BY <1>7 DEF IsAlert
  <2>2. rs[i].seq < instance.seq
    BY <1>7, <2>1 DEF RowsFollow, Follows
  <2>3. instance.seq \in Nat
    BY OutboxFields
  <2> QED
    BY <1>7, <1>17, <2>1, <2>2, <2>3
<1>20. \A q \in reqs : q.seq \in Nat /\ instance.seq \in Nat /\ (q.seq <= instance.seq)
  <2> SUFFICES ASSUME NEW q \in reqs
               PROVE  q.seq \in Nat /\ instance.seq \in Nat /\ q.seq <= instance.seq
    OBVIOUS
  <2>1. q.seq \in Nat /\ instance.seq \in Nat
    BY <1>5, OutboxFields DEF Request
  <2>2. q.seq = rs[q.row].seq /\ Follows(rs[q.row], instance)
    BY <1>6 DEF IsOf, RowsFollow
  <2> QED
    BY <2>1, <2>2 DEF Follows
<1>21. RowsKnow(rows)'
  <2>1. RequestsAreOfRows(ns, reqs \cup {p})
    <3>1. IsOf(p, ns[i]) /\ i \in 1 .. Len(ns)
      BY <1>2, <1>7, <1>8 DEF IsOf
    <3> QED
      BY <1>7, <1>12, <3>1 DEF RequestsAreOfRows
  <2>2. SenderKnows(rows, Requests, net)'
    BY <1>2, <1>8 DEF SenderKnows
  <2>3. Marked(ns, reqs \cup {p}, net \cup {p})
    <3>1. MayArrive(p, ns[i])
      BY <1>7, <1>8 DEF MayArrive
    <3> QED
      BY <1>7, <1>11, <1>14, <3>1 DEF Marked
  <2>4. Declared(ns, reqs \cup {p}, net \cup {p})
    <3> SUFFICES ASSUME NEW q \in net \cup {p}, NEW o \in reqs \cup {p},
                        IsAlert(q), o.dest = q.dest, o.seq > q.seq
                 PROVE  o.unknown \/ ns[q.row].state = "expired"
      BY DEF Declared
    <3>1. q.seq \in Nat /\ o.seq \in Nat
      BY <1>4, <1>5 DEF Request
    <3>2. CASE q \in net /\ o \in reqs
      <4>1. o.unknown \/ rs[q.row].state = "expired"
        BY <1>3, <3>2 DEF RowsKnow, Declared
      <4> QED
        BY <1>4, <1>15, <3>2, <4>1
    <3>3. CASE q \in net /\ o = p
      <4>1. IsAlert(p)
        BY <1>18, <3>1, <3>3
      <4>2. p.unknown \/ rs[q.row].state = "expired"
        BY <1>4, <1>16, <3>1, <3>3, <4>1
      <4> QED
        BY <1>4, <1>15, <3>3, <4>2
    <3>4. CASE q = p
      <4>1. q.seq = instance.seq
        BY <1>17, <3>4
      <4> QED
        BY <1>20, <3>1, <3>4, <4>1
    <3> QED
      BY <3>2, <3>3, <3>4
  <2>5. Summaries(ns, reqs \cup {p})
    <3> SUFFICES ASSUME NEW o \in reqs \cup {p}, o.alone, ~o.unknown, NEW q \in reqs \cup {p},
                        q.dest = o.dest, q.says = "FIRING"
                 PROVE  ns[q.row].state = "expired"
      BY DEF Summaries
    <3>1. instance.state = "RESOLVED"
      BY <1>3 DEF OutboxInv, AloneIsLast, IsPayload
    <3>2. q \in reqs
      BY <1>19, <3>1
    <3>3. CASE o \in reqs
      <4>1. rs[q.row].state = "expired"
        BY <1>3, <3>2, <3>3 DEF RowsKnow, Summaries
      <4> QED
        BY <1>15, <3>2, <4>1
    <3>4. CASE o = p
      <4>1. IsAlert(q) /\ IsAlert(p)
        BY <1>7, <3>4 DEF IsPayload, IsAlert
      <4>2. PICK j \in 1 .. Len(rs) : j = q.row
        BY <1>6, <3>2
      <4>3. /\ IsAlert(rs[j]) /\ rs[j].dest = rs[i].dest /\ rs[j].says = "FIRING"
            /\ q.seq = rs[j].seq /\ Follows(rs[j], instance)
        BY <1>6, <1>7, <3>2, <3>4, <4>1, <4>2 DEF IsOf, IsAlert, RowsFollow
      <4>4. q.seq < p.seq
        BY <1>17, <3>1, <4>1, <4>3 DEF Follows
      <4>5. rs[j].state # "sent"
        BY <3>4, <4>3 DEF IsPayload
      <4>6. rs[q.row].state = "expired"
        BY <1>16, <3>2, <3>4, <4>1, <4>2, <4>4, <4>5
      <4> QED
        BY <1>15, <3>2, <4>6
    <3> QED
      BY <3>3, <3>4
  <2> QED
    BY <1>4, <2>1, <2>2, <2>3, <2>4, <2>5
    DEF RowsKnow, RequestsAreOfRows, Marked, Declared, Summaries
<1>22. RequestsFit'
  <2>1. net' \subseteq Request /\ accepted' \subseteq Request
    BY <1>5 DEF OutboxInv, RequestsFit
  <2>2. net' \cap accepted' = {}
    <3>1. accepted \subseteq reqs /\ net \cap accepted = {}
      BY <1>3 DEF Requests, OutboxInv, RequestsFit
    <3> QED
      BY <1>11, <3>1
  <2>3. OneByAttempt(reqs \cup {p})
    <3>1. OneByAttempt(reqs)
      BY <1>3 DEF OutboxInv, RequestsFit
    <3>2. \A q \in reqs : q.row = p.row => q.attempt # p.attempt
      BY <1>2, <1>7, <1>10
    <3> QED
      BY <3>1, <3>2 DEF OneByAttempt
  <2>4. sender' \subseteq Sender /\ \A s, t \in sender' : s = t
    <3>1. PICK at \in Nat \ {0} : at = rs[i].attempts + 1
      BY <1>2
    <3>2. i \in Nat
      BY <1>1
    <3> QED
      BY <3>1, <3>2 DEF Sender
  <2> QED
    BY <1>4, <2>1, <2>2, <2>3, <2>4 DEF RequestsFit, OneByAttempt
<1>23. AloneIsLast'
  BY <1>3, <1>4 DEF OutboxInv, AloneIsLast, IsPayload
<1>24. RowsFollow(rows, instance)'
  <2> SUFFICES ASSUME NEW j \in 1 .. Len(rs) PROVE Follows(ns[j], instance)
    BY DEF RowsFollow, Follows
  <2>1. Follows(rs[j], instance)
    BY DEF RowsFollow
  <2>2. CASE j = i
    BY <1>8, <2>1, <2>2 DEF Follows, IsAlert
  <2>3. CASE j # i
    BY <2>1, <2>3, StillFollows
  <2> QED
    BY <2>2, <2>3
<1> QED
  BY <1>21, <1>22, <1>23, <1>24 DEF OutboxInv

(* A claim prepares the rows it looks at and leases at most one.           *)
LEMMA ClaimKeeps == ASSUME OutboxInv, Claim PROVE OutboxInv'
<1>1. rows \in Seq(Row) /\ Typed /\ RowsFollow(rows, instance) /\ DOMAIN rows = 1 .. Len(rows)
  BY OutboxFields
<1>2. PICK old : old = rows
  OBVIOUS
<1>3. PICK rs : rs = AllReconciled
  OBVIOUS
<1>4. rs = [i \in DOMAIN old |-> rs[i]] /\ \A i \in 1 .. Len(old) : IsLater(old[i], rs[i])
  BY <1>1, <1>2, <1>3, ReconciledIsLater DEF AllReconciled
<1>5. old \in Seq(Row) /\ RowsGrow(old, rs) /\ Len(rs) = Len(old)
  BY <1>1, <1>2, <1>4, UpdatedRows
<1>6. rs \in Seq(Row) /\ DOMAIN rs = 1 .. Len(old) /\ 1 .. Len(rs) = 1 .. Len(old)
  BY <1>5 DEF RowsGrow
<1>7. RowsKnow(rs)
  <2>1. RowsKnow(old)
    BY <1>2 DEF OutboxInv
  <2> QED
    BY <1>5, <2>1, RowsStillKnow
<1>8. RowsFollow(rs, instance)
  <2>1. PICK inst : inst = instance
    OBVIOUS
  <2> QED
    BY <1>1, <1>2, <1>5, <2>1, UpdatedFollow
<1>9. PICK due : due = Due(rs)
  OBVIOUS
<1>10. \A i \in due : i \in DOMAIN rs /\ rs[i].state \in Waiting
  BY <1>9 DEF Due
<1>11. PICK sendable : sendable = Sendable(rs)
  OBVIOUS
<1>12. PICK ns : ns = rows'
  OBVIOUS
<1>13. Typed' /\ UNCHANGED <<instance, accepted>>
  BY <1>1 DEF Claim, Typed, condition, config
<1>14. \/ sendable = {} /\ rows' = Prepared(rs, due) /\ UNCHANGED <<sender, net>>
       \/ \E i \in sendable, C \in SUBSET (due \ sendable) :
             /\ rows' = [Prepared(rs, C \cup {i}) EXCEPT ![i] = Leased(rs[i])]
             /\ sender' = {[row |-> i, attempt |-> rs[i].attempts + 1, answer |-> "none"]}
             /\ net' = net \cup {Payload(rs, i)}
  BY <1>3, <1>9, <1>11 DEF Claim
<1>15. CASE rows' = Prepared(rs, due) /\ UNCHANGED <<sender, net>>
  <2>1. /\ \A i \in 1 .. Len(rs) : IsLater(rs[i], ns[i])
        /\ DOMAIN ns = DOMAIN rs
    BY <1>1, <1>6, <1>10, <1>12, <1>15, PreparedIsLater
  <2>2. \A i \in 1 .. Len(old) : IsLater(old[i], ns[i])
    BY <1>4, <1>6, <2>1, LaterStill
  <2>3. ns = [i \in DOMAIN rows |-> ns[i]]
    <3>1. ns = [i \in DOMAIN rs |-> Prepared(rs, due)[i]]
      BY <1>12, <1>15 DEF Prepared
    <3> QED
      BY <1>1, <1>2, <1>6, <3>1
  <2> QED
    BY <1>2, <1>12, <1>13, <1>15, <2>2, <2>3, UpdateKeeps
<1>16. ASSUME NEW i \in sendable, NEW C \in SUBSET (due \ sendable),
              rows' = [Prepared(rs, C \cup {i}) EXCEPT ![i] = Leased(rs[i])],
              sender' = {[row |-> i, attempt |-> rs[i].attempts + 1, answer |-> "none"]},
              net' = net \cup {Payload(rs, i)}
       PROVE  OutboxInv'
  <2>1. /\ i \in 1 .. Len(rs) /\ rs[i].state \in Waiting /\ Ready(rs[i]) /\ ~Contended(rs, i)
        /\ rs[i] \in Row
    BY <1>6, <1>9, <1>10, <1>11 DEF Sendable
  <2>2. PICK n : n = Leased(rs[i])
    OBVIOUS
  <2>3. IsLeased(rs[i], n)
    BY <1>1, <2>1, <2>2, LeasedRow
  <2>4. PICK D : D = C \cup {i}
    OBVIOUS
  <2>5. \A j \in D : rs[j].state \in Waiting
    BY <1>9, <1>10, <1>11, <2>4 DEF Sendable
  <2>6. PICK ps : ps = Prepared(rs, D)
    OBVIOUS
  <2>7. (\A j \in 1 .. Len(rs) : IsLater(rs[j], ps[j])) /\ DOMAIN ps = DOMAIN rs
    BY <1>1, <1>6, <2>5, <2>6, PreparedIsLater
  <2>8. ps = [j \in DOMAIN rs |-> ps[j]]
    BY <2>6, <2>7 DEF Prepared
  <2>9. ps \in Seq(Row) /\ Len(ps) = Len(rs)
    BY <1>6, <2>7, <2>8, UpdatedRows DEF RowsGrow
  <2>10. ns = [ps EXCEPT ![i] = n]
    BY <1>12, <1>16, <2>2, <2>4, <2>6
  <2>11. /\ ns \in Seq(Row) /\ Len(ns) = Len(rs) /\ ns[i] = n
         /\ \A j \in 1 .. Len(rs) : j # i => ns[j] = ps[j]
    <3>1. n \in Row /\ i \in 1 .. Len(ps)
      BY <2>1, <2>3, <2>9 DEF IsLeased
    <3> QED
      BY <2>9, <2>10, <3>1, CompletedRows
  <2>12. \A j \in 1 .. Len(rs) : j # i => IsLater(rs[j], ns[j])
    BY <2>7, <2>11
  <2>13. PICK p : p = Payload(rs, i)
    OBVIOUS
  <2>14. IsPayload(p, rs, i)
    BY <1>6, <2>1, <2>13, PayloadSays
  <2>15. sender = {}
    BY DEF Claim
  <2>16. IsLeased(rs[i], ns[i]) /\ net' = net \cup {p} /\ rows' = ns
    BY <1>12, <1>16, <2>3, <2>11, <2>13
  <2> QED
    BY <1>7, <1>8, <1>13, <1>16, <2>1, <2>11, <2>12, <2>14, <2>15, <2>16, MessageIsSent
<1> QED
  BY <1>14, <1>15, <1>16

-----------------------------------------------------------------------------
(* The invariant holds of the empty outbox and after every step.           *)
LEMMA OutboxStarts == ASSUME OutboxInit PROVE OutboxInv
<1>1. rows = <<>> /\ rows \in Seq(Row) /\ Len(rows) = 0
  BY DEF OutboxInit
<1>2. Requests = {} /\ sender = {} /\ net = {} /\ accepted = {}
  BY DEF OutboxInit, Requests
<1>3. Typed
  BY DEF OutboxInit, Typed, Never
<1>4. RowsFollow(rows, instance)
  BY <1>1 DEF RowsFollow
<1>5. RequestsFit /\ AloneIsLast
  BY <1>2 DEF RequestsFit, AloneIsLast, OneByAttempt
<1>6. RowsKnow(rows)
  BY <1>1, <1>2 DEF RowsKnow, RequestsAreOfRows, SenderKnows, Marked, Declared, Summaries
<1> QED
  BY <1>3, <1>4, <1>5, <1>6 DEF OutboxInv

(* Nothing happens.                                                        *)
LEMMA OutboxStutters == ASSUME OutboxInv, UNCHANGED outboxVars PROVE OutboxInv'
<1>1. UNCHANGED <<rows, instance, accepted, net, sender, mutedUntil, revision, active, clock>>
  BY DEF outboxVars, condition, config, world
<1>2. Typed
  BY OutboxFields
<1> QED
  BY <1>1, <1>2, RowsKept DEF Typed

(* Each action of the hub, its dispatcher and its destinations.            *)
LEMMA OutboxStep == ASSUME OutboxInv, [OutboxNext]_outboxVars PROVE OutboxInv'
<1>1. CASE \E state \in {"FIRING", "RECOVERING", "RESOLVED"} : Transition(state)
  BY <1>1, TransitionKeeps
<1>2. CASE ReviseRule \/ ParentChanges \/ MuteAlertIncident \/ UnmuteAlertIncident
  BY <1>2, ReviseRuleKeeps, ParentKeeps, MuteKeeps, UnmuteKeeps
<1>3. CASE \E d \in Destinations : ReviseDestination(d) \/ EnqueueDestinationTest(d)
  BY <1>3, ReviseDestinationKeeps, EnqueueTestKeeps
<1>4. CASE \E i \in DOMAIN rows : RetryNotificationDelivery(i)
  BY <1>4, RetryKeeps
<1>5. CASE Claim \/ Complete \/ GiveUp \/ Crash \/ ClockTick
  BY <1>5, ClaimKeeps, CompleteKeeps, GiveUpKeeps, CrashKeeps, ClockTickKeeps
<1>6. CASE \E q \in net : Accept(q) \/ Refuse(q) \/ Lose(q)
  BY <1>6, AcceptKeeps, RefuseKeeps, LoseKeeps
<1>7. CASE UNCHANGED outboxVars
  BY <1>7, OutboxStutters
<1> QED
  BY <1>1, <1>2, <1>3, <1>4, <1>5, <1>6, <1>7 DEF OutboxNext

(* The inductive invariant holds in every state of the outbox, of its      *)
(* dispatcher and of the requests under way (ClaimNotificationDelivery,    *)
(* CompleteNotificationDelivery).                                          *)
THEOREM OutboxAlways == OutboxSpec => []OutboxInv
<1>1. OutboxInit => OutboxInv
  BY OutboxStarts
<1>2. OutboxInv /\ [OutboxNext]_outboxVars => OutboxInv'
  BY OutboxStep
<1> QED
  BY <1>1, <1>2, PTL DEF OutboxSpec

(* As long as a message may have arrived or may still arrive, its row is   *)
(* being sent, is sent, is expired or says accepted_unknown; a receiver of a*)
(* summary that says nothing older is unknown is not told that the alert   *)
(* fires (currentSummaryPayloadTx, reconcileDeliveryLeasesTx).  For any    *)
(* number of destinations, edits, crashes and lost answers.                *)
THEOREM ReceiversAreAlwaysKnown == OutboxSpec => []ReceiversAreKnown
<1>1. OutboxInv => ReceiversAreKnown
  <2> SUFFICES ASSUME OutboxInv PROVE ReceiversAreKnown
    OBVIOUS
  <2>1. UnknownIsMarked
    <3>1. Marked(rows, Requests, net)
      BY DEF OutboxInv, RowsKnow
    <3> QED
      BY <3>1 DEF UnknownIsMarked, Marked, MayArrive, Requests
  <2>2. SummaryIsTrue
    <3>1. Summaries(rows, Requests)
      BY DEF OutboxInv, RowsKnow
    <3> QED
      BY <3>1 DEF SummaryIsTrue, Summaries, Requests
  <2> QED
    BY <2>1, <2>2 DEF ReceiversAreKnown
<1> QED
  BY <1>1, OutboxAlways, PTL

(* A message that is overtaken was sent behind one that said so            *)
(* (deferContendedDeliveryTx, currentSummaryPayloadTx).                    *)
THEOREM OvertakingIsDeclared == OutboxSpec => OvertakenIsDeclared
<1> DEFINE Declares ==
      \A q \in accepted' \ accepted, p \in accepted :
          /\ IsAlert(q) /\ p.dest = q.dest /\ p.seq > q.seq
          /\ rows[q.row].state # "expired"
          => p.unknown
<1>1. ASSUME OutboxInv, [OutboxNext]_outboxVars PROVE [Declares]_outboxVars
  <2> SUFFICES ASSUME NEW q \in accepted' \ accepted, NEW p \in accepted,
                      IsAlert(q) /\ p.dest = q.dest /\ p.seq > q.seq,
                      rows[q.row].state # "expired"
               PROVE  p.unknown
    OBVIOUS
  <2>1. q \in net
    <3>1. CASE \E r \in net : Accept(r)
      BY <3>1 DEF Accept
    <3>2. CASE ~\E r \in net : Accept(r)
      <4>1. accepted' = accepted
        BY <1>1, <3>2 DEF OutboxNext, outboxVars, world, Transition, ReviseRule, ParentChanges,
           MuteAlertIncident, UnmuteAlertIncident, ReviseDestination, EnqueueDestinationTest,
           RetryNotificationDelivery, Claim, Complete, GiveUp, Crash, ClockTick, Refuse, Lose
      <4> QED
        BY <4>1
    <3> QED
      BY <3>1, <3>2
  <2>2. Declared(rows, Requests, net) /\ p \in Requests
    BY <1>1 DEF OutboxInv, RowsKnow, Requests
  <2> QED
    BY <2>1, <2>2 DEF Declared
<1>2. OutboxInv /\ [OutboxNext]_outboxVars => [Declares]_outboxVars
  BY <1>1
<1> QED
  BY <1>2, OutboxAlways, PTL DEF OutboxSpec, OvertakenIsDeclared
=============================================================================
