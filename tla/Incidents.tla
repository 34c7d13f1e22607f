------------------------------ MODULE Incidents ------------------------------
(***************************************************************************)
(* Incidents and the evidence capsules they retain.                        *)
(*                                                                         *)
(*   internal/store/incidents.go        manual incidents, retention        *)
(*   internal/store/alerts_eval.go      incidents of a firing alert        *)
(*   internal/httpapi/incidents.go      the request that builds a capsule  *)
(*   internal/investigation/builder.go  the evidence of that capsule       *)
(*                                                                         *)
(* An incident keeps a capsule of evidence.  Closed ones lose theirs after *)
(* Retention, or earlier, the longest resolved first, when a new incident  *)
(* needs the room; each loss is written to the ledger of losses.  Alerts   *)
(* open and close incidents, operators change them against the revision    *)
(* they read, and a request to create one may be sent again under its key. *)
(*                                                                         *)
(* Incidents are numbered in the order of their creation.                  *)
(***************************************************************************)
EXTENDS Capacity, Sequences

CONSTANTS Handlers,        \* requests under way with the one idempotency key
          Operators,       \* operators that change an incident they have read
          MaxCases,        \* incidents
          TitledAt,        \* revisions at which a title is changed
          MaxRevision,     \* revision up to which an incident is reopened
          OpenLimit,       \* incidentOpenLimit
          RetainedLimit,   \* incidentRetainedCapsuleLimit, or the quota's count
          ResolvedLimit,   \* incidentResolvedCapsuleLimit
          Retention,       \* incidentResolvedRetention
          ReceiptFor,      \* life of an idempotency receipt
          Payload          \* Payload[origin]: ledger bytes that go with a payload

Origins == {"firing", "manual"}

ASSUME IncidentsAssumption ==
  /\ {MaxCases, MaxRevision, OpenLimit, RetainedLimit, ResolvedLimit, Retention, ReceiptFor} \subseteq Nat
  /\ Retention > 0
  /\ TitledAt \subseteq Nat
  /\ \A o \in Origins : Payload[o] \in 0..Need[o]["incident_ledger"]

VARIABLES cases,    \* sequence of incidents with their capsules
          lost,     \* retention_loss_ledger of class incident_capsule
          receipt,  \* idempotency receipt of the key
          building, \* requests past ReadManualIncidentRetry
          seen      \* what each operator has read

vars == <<capacityVars, cases, lost, receipt, building, seen>>

None == [kind |-> "none"]
Never == -1
Reasons == {"evidence_expired_age", "evidence_expired_quota"}

Opened(origin) == [origin |-> origin, state |-> "open", revision |-> 1, kept |-> TRUE,
                   reason |-> "none", resolved |-> Never, expires |-> Never, born |-> now]

Init ==
  /\ CapacityInit
  /\ cases = <<>> /\ receipt = None /\ building = {}
  /\ lost = [r \in Reasons |-> 0]
  /\ seen = [o \in Operators |-> None]

All == DOMAIN cases
OpenCount(cs) == Cardinality({i \in DOMAIN cs : cs[i].state = "open"})
KeptIn(cs) == {i \in DOMAIN cs : cs[i].kept}
ClosedKept(cs) == {i \in KeptIn(cs) : cs[i].state = "closed"}
BytesOf(cs, is, bytes) ==
  LET of(o) == Cardinality({i \in is : cs[i].origin = o}) * bytes[o]
  IN  of("firing") + of("manual")
LedgerBytes(cs, is) == BytesOf(cs, is, Payload)

(***************************************************************************)
(* Retention, pruneResolvedIncidentCapsulesTx: first what is past its age, *)
(* then, one by one, the longest resolved, until the retained capsules fit.*)
(***************************************************************************)
Aged(cs) == {i \in ClosedKept(cs) : cs[i].expires <= now}

Longest(cs, n, gone) ==
  {i \in ClosedKept(cs) \ gone :
     Cardinality({j \in ClosedKept(cs) \ gone :
        cs[j].resolved < cs[i].resolved \/ (cs[j].resolved = cs[i].resolved /\ j < i)}) < n}

\* readIncidentCapsuleUsageTx, less the bytes that this prune has freed.
Used(cs, gone) ==
  LET freed == LedgerBytes(cs, gone)
  IN  IF freed >= current["incident_ledger"] THEN 0 ELSE current["incident_ledger"] - freed

RoomFor(cs, gone, admitting) ==
  LET left     == KeptIn(cs) \ gone
      asked    == IF admitting THEN Need["manual"]["incident_ledger"] ELSE 0
      retained == BytesOf(cs, left, [o \in Origins |-> Need[o]["incident_ledger"]])
  IN  /\ Cardinality(ClosedKept(cs) \ gone) <= ResolvedLimit
      /\ Cardinality(left) + (IF admitting THEN 1 ELSE 0) <= RetainedLimit
      /\ retained + asked <= Limit["incident_ledger"]
      /\ admitting => Used(cs, gone) + Charged(Alert \cup {"manual"}, "incident_ledger") + asked
                        <= Limit["incident_ledger"]

\* The numbers of evictions after which there is room, and those after which
\* the prune gives up because measured bytes alone exceed the quota.
Gone(cs, n) == Aged(cs) \cup Longest(cs, n, Aged(cs))
Enough(cs, admitting) ==
  {n \in 0..Cardinality(ClosedKept(cs) \ Aged(cs)) :
     /\ RoomFor(cs, Gone(cs, n), admitting)
     /\ \A m \in 0..(n - 1) : admitting => Used(cs, Gone(cs, m)) <= Limit["incident_ledger"]}

Expired(cs, gone) ==
  [i \in DOMAIN cs |-> IF i \in gone
     THEN [cs[i] EXCEPT !.kept = FALSE, !.revision = @ + 1,
             !.reason = IF i \in Aged(cs) THEN "evidence_expired_age" ELSE "evidence_expired_quota"]
     ELSE cs[i]]

Told(cs, gone) ==
  [r \in Reasons |-> lost[r] + Cardinality({i \in gone : (i \in Aged(cs)) <=> r = "evidence_expired_age"})]

\* Mutant of Pruned: a prune that is not part of an admission does not count
\* its losses.
PrunedUntold(cs, admitting) ==
  LET gone == Gone(cs, Min(Enough(cs, admitting)))
  IN  [cases |-> Expired(cs, gone), lost |-> IF admitting THEN Told(cs, gone) ELSE lost,
       freed |-> LedgerBytes(cs, gone)]

\* What a prune leaves: the incidents of cs without the evidence of `gone',
\* the losses, and the bytes of the ledger.
Pruned(cs, admitting) ==
  LET gone == Gone(cs, Min(Enough(cs, admitting)))
  IN  [cases |-> Expired(cs, gone), lost |-> Told(cs, gone), freed |-> LedgerBytes(cs, gone)]

Ledger(grow) == written' = [written EXCEPT !["incident_ledger"] = @ + grow]

(***************************************************************************)
(* Incidents of alerts.                                                    *)
(***************************************************************************)
AlertFires ==
  /\ Len(cases) < MaxCases /\ Admits("firing") /\ OpenCount(cases) < OpenLimit
  /\ cases' = Append(cases, Opened("firing"))
  /\ Charge("firing") /\ written' = Grown("firing")
  /\ UNCHANGED <<now, current, observed, grant, paused, lost, receipt, building, seen>>

Resolved(case) == [case EXCEPT !.state = "closed", !.revision = @ + 1,
                               !.resolved = now, !.expires = now + Retention]

\* resolveAlertIncidentTx: no retention runs here.
AlertResolves(i) ==
  /\ cases[i].origin = "firing" /\ cases[i].state = "open" /\ Admits("resolution")
  /\ cases' = [cases EXCEPT ![i] = Resolved(@)]
  /\ Charge("resolution") /\ written' = Grown("resolution")
  /\ UNCHANGED <<now, current, observed, grant, paused, lost, receipt, building, seen>>

(***************************************************************************)
(* POST /api/v1/incidents: the retry is looked up, the evidence read while *)
(* anything else goes on, and the incident created.                        *)
(***************************************************************************)
ReceiptLives == receipt # None /\ now < receipt.expires

BeginCreate(h) ==
  /\ h \notin building /\ ~ReceiptLives
  /\ building' = building \cup {h}
  /\ UNCHANGED <<capacityVars, cases, lost, receipt, seen>>

\* admitIncidentCapsuleTx.
Admitted ==
  /\ OpenCount(cases) < OpenLimit /\ Enough(cases, TRUE) # {} /\ Admits("manual")

\* The transaction of CreateManualIncident once it has looked at the receipt.
StoreIncident ==
  LET after == Pruned(cases, TRUE)
  IN  /\ Len(cases) < MaxCases /\ Admitted
      /\ cases' = Append(after.cases, Opened("manual")) /\ lost' = after.lost
      /\ written' = [Grown("manual") EXCEPT !["incident_ledger"] = @ - after.freed]
      /\ receipt' = [kind |-> "created", case |-> Len(cases) + 1, expires |-> now + ReceiptFor]
      /\ Charge("manual")
      /\ UNCHANGED <<now, current, observed, grant, paused>>

\* Mutant of CreateManualIncident: the lookup before the evidence was read is
\* the only one.
CreateUnchecked(h) ==
  /\ h \in building /\ building' = building \ {h} /\ StoreIncident
  /\ UNCHANGED seen

CreateManualIncident(h) ==
  /\ h \in building /\ building' = building \ {h}
  /\ ~ReceiptLives /\ StoreIncident
  /\ UNCHANGED seen

\* Mutant of CreateAnswered: the losses of a refused admission are committed.
RefusedAfterPrune(h) ==
  /\ h \in building /\ (ReceiptLives \/ ~Admitted)
  /\ building' = building \ {h}
  /\ LET gone == IF ReceiptLives THEN {} ELSE Gone(cases, Cardinality(ClosedKept(cases)))
     IN  /\ cases' = Expired(cases, gone) /\ lost' = Told(cases, gone)
         /\ Ledger(-LedgerBytes(cases, gone))
  /\ UNCHANGED <<now, current, observed, charges, grant, paused, receipt, seen>>

\* The key was answered meanwhile, or the transaction is rolled back.
CreateAnswered(h) ==
  /\ h \in building /\ (ReceiptLives \/ ~Admitted)
  /\ building' = building \ {h}
  /\ UNCHANGED <<capacityVars, cases, lost, receipt, seen>>

(***************************************************************************)
(* PATCH of a manual incident, against the revision its operator has read; *)
(* that of an alert is refused whatever was read of it.                    *)
(***************************************************************************)
ReadIncident(o, i) ==
  /\ cases[i].origin = "manual"
  /\ seen' = [seen EXCEPT ![o] = [kind |-> "read", case |-> i, copy |-> cases[i]]]
  /\ UNCHANGED <<capacityVars, cases, lost, receipt, building>>

\* Mutant of Changeable: the update is not tied to a revision.
ChangeableBlindly(o) == seen[o] # None /\ cases[seen[o].case].origin = "manual"

Changeable(o) ==
  /\ seen[o] # None /\ cases[seen[o].case].origin = "manual"
  /\ cases[seen[o].case].revision = seen[o].copy.revision

\* validateIncidentReopenTx.
Reopenable(case) ==
  /\ case.kept /\ case.reason = "none"
  /\ Cardinality(KeptIn(cases)) <= RetainedLimit
  /\ current["incident_ledger"] <= Limit["incident_ledger"]
  /\ Cardinality(KeptIn(cases)) * Need["manual"]["incident_ledger"] <= Limit["incident_ledger"]

Reopened(case) == [case EXCEPT !.state = "open", !.revision = @ + 1,
                               !.resolved = Never, !.expires = Never]

Close(o) ==
  LET i == seen[o].case
      closed == [cases EXCEPT ![i] = Resolved(@)]
  IN  /\ Changeable(o) /\ cases[i].state = "open" /\ Enough(closed, FALSE) # {}
      /\ LET after == Pruned(closed, FALSE)
         IN  cases' = after.cases /\ lost' = after.lost /\ Ledger(-after.freed)
      /\ seen' = [seen EXCEPT ![o] = None]
      /\ UNCHANGED <<now, current, observed, charges, grant, paused, receipt, building>>

Reopen(o) ==
  LET i == seen[o].case
  IN  /\ Changeable(o) /\ cases[i].state = "closed" /\ cases[i].revision < MaxRevision
      /\ OpenCount(cases) < OpenLimit /\ Reopenable(cases[i])
      /\ cases' = [cases EXCEPT ![i] = Reopened(@)] /\ seen' = [seen EXCEPT ![o] = None]
      /\ UNCHANGED <<capacityVars, lost, receipt, building>>

Retitle(o) ==
  LET i == seen[o].case
  IN  /\ Changeable(o) /\ cases[i].revision \in TitledAt
      /\ cases' = [cases EXCEPT ![i].revision = @ + 1] /\ seen' = [seen EXCEPT ![o] = None]
      /\ UNCHANGED <<capacityVars, lost, receipt, building>>

Next ==
  \/ CapacityNext /\ UNCHANGED <<cases, lost, receipt, building, seen>>
  \/ AlertFires
  \/ \E i \in All : AlertResolves(i)
  \/ \E h \in Handlers : BeginCreate(h) \/ CreateManualIncident(h) \/ CreateAnswered(h)
  \/ \E o \in Operators : (\E i \in All : ReadIncident(o, i)) \/ Close(o) \/ Reopen(o) \/ Retitle(o)

Spec == Init /\ [][Next]_vars

(***************************************************************************)
(* Properties                                                              *)
(***************************************************************************)

\* An incident that is open has its evidence: what the reopening of a closed
\* one finds is what it was closed with (validateIncidentReopenTx).
OpenKeepsEvidence == \A i \in All : cases[i].state = "open" => cases[i].kept

\* The ledger of losses counts every capsule that lost its payload, under the
\* reason its incident shows (expireIncidentCapsuleTx, recordIncidentLossesTx).
LossIsTold ==
  /\ \A i \in All : cases[i].kept <=> cases[i].reason = "none"
  /\ \A r \in Reasons : lost[r] = Cardinality({i \in All : cases[i].reason = r})

\* Evidence goes only for its reason: at an age of Retention counted from the
\* last time the incident was closed, or to the quota with no closed capsule
\* left that was resolved longer ago.
LosesItsEvidence(i) == i \in All /\ cases[i].kept /\ ~cases'[i].kept

RetentionIsHonoured ==
  [][\A i \in All : LosesItsEvidence(i) =>
       IF cases'[i].reason = "evidence_expired_age"
       THEN cases[i].resolved # Never /\ now >= cases[i].resolved + Retention
       ELSE \A j \in All : (cases'[j].kept /\ cases[j].state = "closed" /\ cases'[j].state = "closed")
              => cases'[i].resolved <= cases[j].resolved]_vars

\* A request that is refused costs nothing: evidence goes only in a step that
\* opens or closes an incident (the rollback of CreateManualIncident).
RefusalKeepsEvidence ==
  [][(\E i \in All : LosesItsEvidence(i)) =>
       \/ Len(cases') > Len(cases)
       \/ \E i \in All : cases[i].state = "open" /\ cases'[i].state = "closed"]_vars

\* Evidence is there while it is needed and goes only by rule.
EvidenceLeavesByRule ==
  []OpenKeepsEvidence /\ RetentionIsHonoured /\ RefusalKeepsEvidence

\* An operator changes only what they have read: the title, the state and the
\* evidence are still those, whatever alerts, retention and others did.
ChangeIsOfWhatWasRead ==
  [][\A o \in Operators :
       (seen[o] # None /\ seen'[o] = None) => seen[o].copy = cases[seen[o].case]]_vars

\* A request sent again within the life of its receipt, even while the first
\* is still reading evidence, creates no second incident.
RetryCreatesOnce ==
  \A i, j \in All :
    (i < j /\ cases[i].origin = "manual" /\ cases[j].origin = "manual")
      => cases[j].born >= cases[i].born + ReceiptFor
=============================================================================
