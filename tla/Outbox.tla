------------------------------- MODULE Outbox -------------------------------
(***************************************************************************)
(* The notification outbox: the messages about one alert and the tests of  *)
(* destinations, as rows of a table.  Evaluations, rule and destination    *)
(* edits, mutes and tests write rows (store/alerts_eval.go,                *)
(* alerts_rules.go, destinations.go, alerts_control.go, outbox_jobs.go);   *)
(* the hub's one dispatcher (notify/dispatcher.go) claims a row, sends it  *)
(* and completes it, each in a transaction of its own (store/outbox.go).   *)
(*                                                                         *)
(* A receiver may accept a request the dispatcher gave up.  Payloads are   *)
(* reduced to what a receiver can be misled by: the alert's state and      *)
(* transition, summary_kind and accepted_unknown.                          *)
(***************************************************************************)
EXTENDS Naturals, Sequences, FiniteSets

CONSTANTS
    Destinations,
    Lease,          \* deliveryLeaseDuration
    Lifetime,       \* how long a row is tried (24 hours)
    Delays,         \* deliveryRetryDelay, by attempt
    RetryAfter,     \* what a busy receiver may ask for
    MuteFor,        \* how long a mute lasts
    Operator,       \* what an operator does, of OperatorKinds
    Faults,         \* what may go wrong, of FaultKinds
    Slack,          \* bound: how long a liveness property may take
    MaxFaults,      \* bound: things that go wrong
    MaxSeq,         \* bound: the alert's transitions
    MaxEdits,       \* bound: operations of the operator
    MaxClock        \* bound: the clock

OperatorKinds == {"mute", "revise", "test", "retry", "rule"}
FaultKinds ==
    {"lost", "busy", "rejected", "timeout", "crash", "late", "parent"}

ASSUME OutboxAssumption ==
    /\ IsFiniteSet(Destinations)
    /\ {Lease, Lifetime, MuteFor} \subseteq Nat \ {0}
    /\ Delays \in Seq(Nat \ {0}) /\ Delays # <<>>
    /\ RetryAfter \subseteq Nat \ {0}
    /\ Operator \subseteq OperatorKinds /\ Faults \subseteq FaultKinds
    /\ {Slack, MaxFaults, MaxSeq, MaxEdits, MaxClock} \subseteq Nat

VARIABLES
    instance,       \* alert_instances: its state and transition_seq
    ruleCurrent,    \* the alert's rule_version is rules.current_version
    mutedUntil,     \* alert_instances.muted_until_ms
    parent,         \* the host's own host-not-reporting alert is raised
    revision,       \* destinations.version
    active,         \* destinations.disabled_ms is NULL
    rows,           \* outbox, with the job of a test
    sender,         \* dispatcher: the claim being sent, {} when there is none
    net,            \* requests that may still reach their receiver
    accepted,       \* history: requests their receiver accepted
    clock, faults, edits

condition == <<instance, ruleCurrent, mutedUntil, parent>>
config == <<revision, active>>
world == <<net, accepted>>
outboxVars == <<condition, config, rows, sender, world, clock, faults, edits>>

Never == 0      \* NULL; the clock begins at 1

Waiting == {"pending", "failed", "muted"}
Ongoing == {"FIRING", "RECOVERING"}
JobOpen == {"queued", "running"}

Row == [dest : Destinations, rev : Nat,
        says : Ongoing \cup {"RESOLVED", "test"},
        seq : Nat,
        state : Waiting \cup {"leased", "sent", "expired", "superseded"},
        attempts : Nat, next : Nat, lease : Nat, created : Nat, expires : Nat,
        unknown : BOOLEAN,
        job : JobOpen \cup {"none", "succeeded", "failed"}]
Request == [row : Nat, attempt : Nat, dest : Destinations, seq : Nat,
            says : Ongoing \cup {"RESOLVED", "test"},
            alone : BOOLEAN, unknown : BOOLEAN]

(* A leased row, and only one, has a lease; a row that is over is not due. *)
OutboxTypes ==
    /\ instance \in [state : Ongoing \cup {"OK", "RESOLVED", "superseded"},
                  seq : 0 .. MaxSeq + 1]
    /\ ruleCurrent \in BOOLEAN /\ mutedUntil \in Nat /\ parent \in BOOLEAN
    /\ revision \in [Destinations -> Nat]
    /\ active \in [Destinations -> BOOLEAN]
    /\ rows \in Seq(Row)
    /\ \A i \in DOMAIN rows :
          /\ (rows[i].state = "leased") <=> (rows[i].lease # Never)
          /\ rows[i].state \notin Waiting => rows[i].next = Never
    /\ sender \subseteq [row : Nat, attempt : Nat,
                         answer : {"none", "accepted", "busy", "rejected"}]
    /\ Cardinality(sender) <= 1
    /\ net \subseteq Request /\ accepted \subseteq Request
    /\ clock \in 1 .. MaxClock
    /\ faults \in 0 .. MaxFaults /\ edits \in 0 .. MaxEdits

OutboxInit ==
    /\ instance = [state |-> "OK", seq |-> 0] /\ ruleCurrent = TRUE
    /\ mutedUntil = Never /\ parent = FALSE
    /\ revision = [d \in Destinations |-> 1]
    /\ active = [d \in Destinations |-> TRUE]
    /\ rows = <<>> /\ sender = {} /\ net = {} /\ accepted = {}
    /\ clock = 1 /\ faults = 0 /\ edits = 0

Edit(kind) ==
    /\ kind \in Operator /\ edits < MaxEdits /\ edits' = edits + 1
Fault(kind) ==
    /\ kind \in Faults /\ faults < MaxFaults /\ faults' = faults + 1

-----------------------------------------------------------------------------
(* Rows.                                                                   *)

IsAlert(r) == r.says # "test"

NewRow(d, says, seq, state, job) ==
    [dest |-> d, rev |-> revision[d], says |-> says, seq |-> seq,
     state |-> state, attempts |-> 0, next |-> clock, lease |-> Never,
     created |-> clock, expires |-> clock + Lifetime, unknown |-> FALSE,
     job |-> job]

(* One new row for each destination of D, in any order.                    *)
RowsFor(D, says, seq, state) ==
    {[i \in DOMAIN order |-> NewRow(order[i], says, seq, state, "none")] :
        order \in {o \in [1 .. Cardinality(D) -> D] :
                      \A d \in D : \E i \in DOMAIN o : o[i] = d}}

(* Mutant of Superseded: a request on its way is forgotten.                *)
SupersededUnmarked(r) ==
    [r EXCEPT !.state = "superseded", !.lease = Never, !.next = Never]

Superseded(r) ==
    [r EXCEPT !.state = "superseded", !.lease = Never, !.next = Never,
              !.unknown = @ \/ r.state = "leased"]

(* Those of the rows S that still wait are superseded.                     *)
SupersedeRows(S) ==
    [i \in DOMAIN rows |-> IF i \in S /\ rows[i].state \in Waiting
                           THEN Superseded(rows[i]) ELSE rows[i]]

AlertRows == {i \in DOMAIN rows : IsAlert(rows[i])}

(* What the row says is no longer so, or is no longer to be told there.    *)
Stale(r) ==
    \/ ~active[r.dest] \/ r.rev # revision[r.dest]
    \/ r.says = "test" /\ r.job \notin JobOpen
    \/ /\ IsAlert(r)
       /\ r.seq # instance.seq \/ instance.state = "superseded" \/ ~ruleCurrent

(* Until when a message about the alert is held back, Never when it is not.*)
HeldUntil(r) ==
    IF ~IsAlert(r) THEN Never
    ELSE IF mutedUntil > clock THEN mutedUntil
    ELSE IF parent THEN clock + Lease ELSE Never

Ready(r) == ~Stale(r) /\ HeldUntil(r) = Never

Due(rs) ==
    {i \in DOMAIN rs : rs[i].state \in Waiting /\ rs[i].next \in 1 .. clock}

-----------------------------------------------------------------------------
(* The alert changes (ApplyAlertEvaluation, updateRule).                   *)

Told == {d \in Destinations : active[d]}

(* Firing and resolving are told to every active destination; resolving    *)
(* supersedes what still waits.  Nothing else is told: neither PENDING,    *)
(* left out here, nor a change between FIRING and RECOVERING.              *)
Transition(state) ==
    /\ instance.seq < MaxSeq
    /\ \/ instance.state = "OK" /\ state = "FIRING"
       \/ instance.state = "FIRING" /\ state \in {"RECOVERING", "RESOLVED"}
       \/ instance.state = "RECOVERING" /\ state \in {"FIRING", "RESOLVED"}
    /\ instance' = [state |-> state, seq |-> instance.seq + 1]
    /\ LET kept == IF state = "RESOLVED" THEN SupersedeRows(AlertRows)
                   ELSE rows
           intent == IF mutedUntil > clock THEN "muted" ELSE "pending"
       IN IF instance.state = "OK" \/ state = "RESOLVED"
          THEN \E new \in RowsFor(Told, state, instance'.seq, intent) :
                  rows' = kept \o new
          ELSE rows' = kept
    /\ UNCHANGED <<ruleCurrent, mutedUntil, parent, config, sender, world,
                   clock, faults, edits>>

(* A revised rule ends the alert, and what waits to be told about it.      *)
ReviseRule ==
    /\ Edit("rule") /\ ruleCurrent /\ instance.state # "OK"
    /\ ruleCurrent' = FALSE
    /\ instance' = IF instance.state = "RESOLVED" THEN instance
                   ELSE [state |-> "superseded", seq |-> instance.seq + 1]
    /\ rows' = SupersedeRows(AlertRows)
    /\ UNCHANGED <<mutedUntil, parent, config, sender, world, clock, faults>>

ParentChanges ==
    /\ Fault("parent") /\ parent' = ~parent
    /\ UNCHANGED <<instance, ruleCurrent, mutedUntil, config, rows, sender,
                   world, clock, edits>>

-----------------------------------------------------------------------------
(* The operator.                                                           *)

(* What is not leased is held back, with no time at which it is due.       *)
MuteAlertIncident ==
    /\ Edit("mute") /\ instance.state \in Ongoing
    /\ mutedUntil' = clock + MuteFor
    /\ rows' = [i \in DOMAIN rows |->
                  IF IsAlert(rows[i]) /\ rows[i].state \in {"pending", "failed"}
                  THEN [rows[i] EXCEPT !.state = "muted", !.next = Never]
                  ELSE rows[i]]
    /\ UNCHANGED <<instance, ruleCurrent, parent, config, sender, world, clock,
                   faults>>

(* Muted rows of the current transition are due at once, the others are    *)
(* superseded.                                                             *)
IsCurrent(r) ==
    /\ instance.state \in Ongoing /\ r.seq = instance.seq
    /\ active[r.dest] /\ r.rev = revision[r.dest]

Woken(r) ==
    IF r.state # "muted" THEN r
    ELSE IF IsCurrent(r) THEN [r EXCEPT !.state = "pending", !.next = clock]
    ELSE Superseded(r)

(* Destinations that have no row of the current transition left.           *)
Summarised(rs) ==
    {d \in Told : \A i \in DOMAIN rs :
        ~ /\ IsAlert(rs[i]) /\ rs[i].dest = d /\ IsCurrent(rs[i])
          /\ rs[i].state \in {"pending", "leased", "muted"}}

UnmuteAlertIncident ==
    /\ Edit("mute") /\ mutedUntil # Never /\ mutedUntil' = Never
    /\ LET woken == [i \in DOMAIN rows |-> Woken(rows[i])]
       IN IF instance.state \in Ongoing
          THEN \E new \in RowsFor(Summarised(woken), instance.state,
                                  instance.seq, "pending") :
                  rows' = woken \o new
          ELSE rows' = woken
    /\ UNCHANGED <<instance, ruleCurrent, parent, config, sender, world, clock,
                   faults>>

(* An edited or disabled destination: what waits for it is superseded, the *)
(* job of a waiting test is left as it is.                                 *)
ReviseDestination(d) ==
    /\ Edit("revise") /\ active[d]
    /\ revision' = [revision EXCEPT ![d] = @ + 1]
    /\ \E a \in BOOLEAN : active' = [active EXCEPT ![d] = a]
    /\ rows' = SupersedeRows({i \in DOMAIN rows :
                            rows[i].dest = d /\ rows[i].rev = revision[d]})
    /\ UNCHANGED <<condition, sender, world, clock, faults>>

EnqueueDestinationTest(d) ==
    /\ Edit("test") /\ active[d]
    /\ \A i \in DOMAIN rows : rows[i].dest = d => rows[i].job \notin JobOpen
    /\ rows' = Append(rows, NewRow(d, "test", 0, "pending", "queued"))
    /\ UNCHANGED <<condition, config, sender, world, clock, faults>>

(* Rows a claim or a retry makes obsolete while it prepares those of C.    *)
Obsolete(rs, C) ==
    {i \in DOMAIN rs :
        /\ rs[i].state \in Waiting /\ IsAlert(rs[i])
        /\ \E c \in C : /\ IsAlert(rs[c]) /\ Ready(rs[c])
                        /\ rs[c].dest = rs[i].dest /\ rs[c].seq # rs[i].seq}

(* Refused unless the row could be sent now: nothing it changed is kept.   *)
RetryNotificationDelivery(i) ==
    /\ Edit("retry")
    /\ rows[i].state = "failed" /\ rows[i].expires > clock /\ Ready(rows[i])
    /\ rows' = [j \in DOMAIN rows |->
                  IF j = i THEN [rows[i] EXCEPT !.state = "pending", !.next = clock]
                  ELSE IF j \in Obsolete(rows, {i}) THEN Superseded(rows[j])
                  ELSE rows[j]]
    /\ UNCHANGED <<condition, config, sender, world, clock, faults>>

-----------------------------------------------------------------------------
(* ClaimNotificationDelivery.                                              *)

(* Mutant of Reconciled: an expired row is left as it is while muted.      *)
ReconciledUnlessMuted(r) ==
    IF r.state \in {"pending", "failed", "leased"} /\ r.expires <= clock
    THEN [r EXCEPT !.state = "expired", !.lease = Never, !.next = Never,
                   !.unknown = @ \/ r.state = "leased",
                   !.job = IF @ \in JobOpen THEN "failed" ELSE @]
    ELSE IF r.state = "leased" /\ r.lease <= clock
    THEN [r EXCEPT !.state = "failed", !.lease = Never, !.next = clock,
                   !.unknown = TRUE]
    ELSE r

(* Mutant of Reconciled: a row whose lease ran out is not due again.       *)
ReconciledNotDue(r) ==
    IF r.state \in Waiting \cup {"leased"} /\ r.expires <= clock
    THEN [r EXCEPT !.state = "expired", !.lease = Never, !.next = Never,
                   !.unknown = @ \/ r.state = "leased",
                   !.job = IF @ \in JobOpen THEN "failed" ELSE @]
    ELSE IF r.state = "leased" /\ r.lease <= clock
    THEN [r EXCEPT !.state = "failed", !.lease = Never, !.unknown = TRUE]
    ELSE r

(* reconcileDeliveryLeasesTx: rows and leases that ran out.                *)
Reconciled(r) ==
    IF r.state \in Waiting \cup {"leased"} /\ r.expires <= clock
    THEN [r EXCEPT !.state = "expired", !.lease = Never, !.next = Never,
                   !.unknown = @ \/ r.state = "leased",
                   !.job = IF @ \in JobOpen THEN "failed" ELSE @]
    ELSE IF r.state = "leased" /\ r.lease <= clock
    THEN [r EXCEPT !.state = "failed", !.lease = Never, !.next = clock,
                   !.unknown = TRUE]
    ELSE r

(* Mutant of Contended: a message may overtake the one before it.          *)
ContendedNever(rs, i) == FALSE

(* Another message about this alert is leased to the same destination.     *)
Contended(rs, i) ==
    /\ IsAlert(rs[i])
    /\ \E j \in DOMAIN rs \ {i} : /\ IsAlert(rs[j]) /\ rs[j].state = "leased"
                                  /\ rs[j].dest = rs[i].dest

(* A due row that cannot be sent.  A lease never lasts beyond now + Lease. *)
PassedOver(r) ==
    IF Stale(r) THEN Superseded(r)
    ELSE IF HeldUntil(r) # Never
    THEN [r EXCEPT !.state = "muted", !.next = HeldUntil(r)]
    ELSE [r EXCEPT !.state = "pending", !.next = clock + Lease]

Earlier(rs, i, j) ==
    \/ rs[i].next < rs[j].next
    \/ rs[i].next = rs[j].next /\ rs[i].created < rs[j].created

(* currentSummaryPayloadTx                                                 *)
Payload(rs, i) ==
    LET r == rs[i]
        same(j) == IsAlert(r) /\ IsAlert(rs[j]) /\ rs[j].dest = r.dest
    IN [row |-> i, attempt |-> r.attempts + 1, dest |-> r.dest, seq |-> r.seq,
        says |-> r.says,
        alone |-> /\ IsAlert(r) /\ instance.state = "RESOLVED"
                  /\ ~\E j \in DOMAIN rs : /\ same(j) /\ rs[j].says = "FIRING"
                                           /\ rs[j].state = "sent",
        unknown |-> \E j \in DOMAIN rs :
                        same(j) /\ rs[j].seq < r.seq /\ rs[j].unknown]

AllReconciled == [i \in DOMAIN rows |-> Reconciled(rows[i])]
NothingToDo == AllReconciled = rows /\ Due(rows) = {}

Sendable(rs) == {i \in Due(rs) : Ready(rs[i]) /\ ~Contended(rs, i)}

(* A claim passes the rows C over and coalesces what they make obsolete.   *)
Prepared(rs, C) ==
    [i \in DOMAIN rs |-> IF i \in C THEN PassedOver(rs[i])
                         ELSE IF i \in Obsolete(rs, C) THEN Superseded(rs[i])
                         ELSE rs[i]]

Leased(r) ==
    [r EXCEPT !.state = "leased", !.next = Never, !.attempts = @ + 1,
              !.lease = clock + Lease,
              !.job = IF @ = "queued" THEN "running" ELSE @]

(* The dispatcher takes the due rows in the order of their times (rows of  *)
(* equal times in any order) until one can be sent, and sends it.          *)
Claim ==
    /\ sender = {} /\ ~NothingToDo
    /\ LET rs == AllReconciled
           due == Due(rs)
       IN \/ /\ Sendable(rs) = {} /\ rows' = Prepared(rs, due)
             /\ UNCHANGED <<sender, net>>
          \/ \E i \in Sendable(rs), C \in SUBSET (due \ Sendable(rs)) :
                /\ \A j \in due : Earlier(rs, j, i) => j \in C
                /\ \A j \in C : ~Earlier(rs, i, j)
                /\ rows' = [Prepared(rs, C \cup {i}) EXCEPT ![i] = Leased(rs[i])]
                /\ sender' = {[row |-> i, attempt |-> rs[i].attempts + 1,
                               answer |-> "none"]}
                /\ net' = net \cup {Payload(rs, i)}
    /\ UNCHANGED <<condition, config, accepted, clock, faults, edits>>

-----------------------------------------------------------------------------
(* The receiver, and the network to it.                                    *)

(* What the receiver answers reaches the dispatcher if it still waits.     *)
Answer(q, answer) ==
    sender' = {IF s.row = q.row /\ s.attempt = q.attempt
               THEN [s EXCEPT !.answer = answer] ELSE s : s \in sender}

Accept(q) ==
    /\ net' = net \ {q} /\ accepted' = accepted \cup {q}
    /\ Answer(q, "accepted")
    /\ UNCHANGED <<condition, config, rows, clock, faults, edits>>

Refuse(q) ==
    /\ \E a \in {"busy", "rejected"} : Fault(a) /\ Answer(q, a)
    /\ net' = net \ {q}
    /\ UNCHANGED <<condition, config, rows, accepted, clock, edits>>

Lose(q) ==
    /\ Fault("lost") /\ net' = net \ {q}
    /\ UNCHANGED <<condition, config, rows, sender, accepted, clock, edits>>

-----------------------------------------------------------------------------
(* CompleteNotificationDelivery, and the dispatcher that dies before it.   *)

Delay(attempt) ==
    Delays[IF attempt > Len(Delays) THEN Len(Delays) ELSE attempt]

Final(r, succeeded) ==
    [r EXCEPT !.state = IF succeeded THEN "sent" ELSE "failed",
              !.lease = Never,
              !.job = IF @ \in JobOpen
                      THEN IF succeeded THEN "succeeded" ELSE "failed" ELSE @]

(* A message that is to be tried again, unless it became stale or is held  *)
(* back by now (revalidateDeliveryForRetryTx) or its time is over.         *)
Retried(r, outcome, wait) ==
    IF Stale(r) THEN Superseded(r)
    ELSE IF HeldUntil(r) # Never
    THEN [r EXCEPT !.state = "muted", !.lease = Never, !.next = HeldUntil(r),
                   !.unknown = TRUE]
    ELSE IF clock + wait >= r.expires
    THEN [r EXCEPT !.state = "expired", !.lease = Never]
    ELSE [r EXCEPT !.state = "failed", !.lease = Never, !.next = clock + wait,
                   !.unknown = @ \/ outcome = "unsure"]

(* A completion that comes after its lease changes nothing.                *)
Completed(i, outcome, wait) ==
    [rows EXCEPT ![i] =
        IF @.state # "leased" \/ @.lease <= clock THEN @
        ELSE IF outcome = "accepted" THEN Final(@, TRUE)
        ELSE IF outcome = "rejected" \/ ~IsAlert(@) THEN Final(@, FALSE)
        ELSE Retried(@, outcome, wait)]

Complete ==
    /\ \E s \in sender :
          /\ s.answer # "none" /\ sender' = {}
          /\ \E wait \in {Delay(s.attempt)} \cup
                           (IF s.answer = "busy" THEN RetryAfter ELSE {}) :
                rows' = Completed(s.row, s.answer, wait)
    /\ UNCHANGED <<condition, config, world, clock, faults, edits>>

(* No answer, or one that was lost: the receiver may have the message.     *)
GiveUp ==
    /\ \E s \in sender :
          /\ \/ /\ s.answer = "none" /\ UNCHANGED faults
                /\ \A q \in net : q.row # s.row \/ q.attempt # s.attempt
             \/ Fault("timeout")
          /\ sender' = {}
          /\ rows' = Completed(s.row, "unsure", Delay(s.attempt))
    /\ UNCHANGED <<condition, config, world, clock, edits>>

Crash ==
    /\ Fault("crash") /\ sender # {} /\ sender' = {}
    /\ UNCHANGED <<condition, config, rows, world, clock, edits>>

(* Time passes while the dispatcher has work only when it is late.         *)
ClockTick ==
    /\ clock < MaxClock /\ clock' = clock + 1
    /\ \/ sender = {} /\ NothingToDo /\ UNCHANGED faults
       \/ Fault("late")
    /\ UNCHANGED <<condition, config, rows, sender, world, edits>>

OutboxNext ==
    \/ \E state \in {"FIRING", "RECOVERING", "RESOLVED"} : Transition(state)
    \/ ReviseRule \/ ParentChanges \/ MuteAlertIncident \/ UnmuteAlertIncident
    \/ \E d \in Destinations : ReviseDestination(d) \/ EnqueueDestinationTest(d)
    \/ \E i \in DOMAIN rows : RetryNotificationDelivery(i)
    \/ Claim \/ Complete \/ GiveUp \/ Crash \/ ClockTick
    \/ \E q \in net : Accept(q) \/ Refuse(q) \/ Lose(q)

OutboxSpec == OutboxInit /\ [][OutboxNext]_outboxVars

(* The dispatcher polls for as long as the hub runs, a send ends after its *)
(* timeout, and a receiver that is not at fault answers.                   *)
FairSpec ==
    /\ OutboxSpec
    /\ WF_outboxVars(ClockTick) /\ WF_outboxVars(Claim)
    /\ WF_outboxVars(Complete \/ GiveUp)
    /\ WF_outboxVars(\E q \in net : Accept(q))

-----------------------------------------------------------------------------
(* What the outbox knows of its receivers: as long as a message may have   *)
(* arrived or may still arrive, its row is being sent, is sent, or says    *)
(* accepted_unknown, whatever was retried, recovered, muted or superseded. *)
(* Rows that expired are excepted: the last failed attempt before the      *)
(* expiry leaves no mark (CompleteNotificationDelivery).                   *)
UnknownIsMarked ==
    \A q \in accepted \cup net :
        LET r == rows[q.row]
        IN \/ ~IsAlert(q) \/ r.unknown \/ r.state \in {"sent", "expired"}
           \/ r.state = "leased" /\ r.attempts = q.attempt

(* A receiver that gets an older message about the alert after a newer one *)
(* was told with the newer that this may be (accepted_unknown).            *)
OvertakenIsDeclared ==
    [][\A q \in accepted' \ accepted, p \in accepted :
          /\ IsAlert(q) /\ p.dest = q.dest /\ p.seq > q.seq
          /\ rows[q.row].state # "expired"
          => p.unknown]_outboxVars

(* A receiver told that the alert "occurred and recovered", and that       *)
(* nothing older is unknown, was not told that it was firing and will not  *)
(* be (currentSummaryPayloadTx).                                           *)
SummaryIsTrue ==
    \A p \in accepted \cup net : p.alone /\ ~p.unknown =>
        \A q \in accepted \cup net :
            q.dest = p.dest /\ q.says = "FIRING" => rows[q.row].state = "expired"

(* What the rows say of their receivers is true in both ways.              *)
ReceiversAreKnown == UnknownIsMarked /\ SummaryIsTrue

Outlived(r) == r.expires <= MaxClock
Over(r) == r.state \notin {"pending", "muted", "leased"} /\ r.next = Never

(* A row does not wait or stay leased beyond its lifetime, whatever the    *)
(* operator does: it is sent, superseded, expired or failed for good.      *)
EveryIntentEnds ==
    []<>(\A i \in DOMAIN rows : Outlived(rows[i]) => Over(rows[i]))

(* While no operator and no suppressing alert interferes, the receiver     *)
(* does not refuse, a message is sent, or superseded by a newer one, a     *)
(* bounded time after it was written, although the dispatcher is late or   *)
(* dies or requests are lost.                                              *)
Undisturbed ==
    /\ edits = 0 /\ ~parent
    /\ \A s \in sender : s.answer \in {"none", "accepted"}

Old(r) == r.created + Slack <= MaxClock
ToldOrReplaced(r) == r.state \in {"sent", "superseded"}

NewsArrives ==
    []Undisturbed =>
        []<>(\A i \in DOMAIN rows : Old(rows[i]) => ToldOrReplaced(rows[i]))
=============================================================================
