---------------------------- MODULE ControlLane ----------------------------
(***************************************************************************)
(* The control lane: how the collector tells the hub what the spool lost.  *)
(* One goroutine runs the collector's cycle (scheduler/runner.go):         *)
(* append frames, send one status message, run the two data lanes.  The    *)
(* hub's side is IngestSourceStatus (store/ingest.go), one SQLite          *)
(* transaction per request.                                                *)
(*                                                                         *)
(* Losses are numbered as the spool records them.  Intervals of one key (a *)
(* source and a reason) are merged in the journal.  The two machines have  *)
(* clocks of their own, which never run backwards here.                    *)
(***************************************************************************)
EXTENDS Naturals, Sequences, FiniteSetsExt

CONSTANTS
    Keys,           \* the sources and reasons losses are merged by
    Cap,            \* 16: loss intervals a status message may carry
    Window,         \* 60000 ms: how far a new status may be from hub time
    Drift,          \* how far the two clocks may be apart
    Faults,         \* what may go wrong: "request", "answer", "late", "crash"
    MaxLosses,      \* bound: losses recorded
    MaxStatus,      \* bound: status messages acknowledged per process
    MaxBoots,       \* bound: collector processes
    MaxNow,         \* bound: both clocks
    MaxFaults       \* bound: calls that fail

Loss == 1 .. MaxLosses

ASSUME ControlLaneAssumption ==
    /\ Cap \in Nat \ {0}
    /\ {Window, Drift, MaxLosses, MaxStatus, MaxBoots, MaxNow,
        MaxFaults} \subseteq Nat
    /\ Faults \subseteq {"request", "answer", "late", "crash"}

VARIABLES
    queue,          \* losses.json: intervals the hub was not told of
    revision,       \* losses.json, revision
    recorded,       \* how many losses were recorded
    boot,           \* the running collector process and its session
    sequence,       \* statusSequence
    pendingStatus,  \* the status being sent, {} when there is none
    pendingLossRev, \* the journal's revision it was built from
    pendingLosses,  \* how many intervals it carries
    pc,             \* where the cycle is
    call,           \* what became of the current request
    late,           \* requests the collector gave up that the hub may handle
    session,        \* hub: the current session
    stored,         \* hub: source_status
    now, hubNow,    \* the two clocks
    cycleNow,       \* the collector's time when the cycle began
    faults          \* calls that failed so far

journal == <<queue, revision, recorded>>
collector == <<boot, sequence, pendingStatus, pendingLossRev, pendingLosses>>
hub == <<session, stored>>
clocks == <<now, hubNow, cycleNow>>
vars == <<journal, collector, pc, call, late, hub, clocks, faults>>

Status == [boot : 1 .. MaxBoots, seq : 0 .. MaxStatus, at : 0 .. MaxNow,
           losses : SUBSET Loss]

Interval == [key : Keys, losses : SUBSET Loss]

LossesOf(intervals) ==
    UNION {intervals[i].losses : i \in DOMAIN intervals}

TypeOK ==
    /\ queue \in Seq(Interval) /\ Len(queue) <= MaxLosses
    /\ revision \in Nat /\ recorded \in 0 .. MaxLosses
    /\ boot \in 1 .. MaxBoots /\ sequence \in 0 .. MaxStatus
    /\ pendingStatus \subseteq Status /\ Cardinality(pendingStatus) <= 1
    /\ pendingLossRev \in Nat /\ pendingLosses \in 0 .. Cap
    /\ pc \in {"append", "status", "wait", "lanes"}
    /\ call \in {"none", "asked", "stored", "duplicate", "expired", "refused"}
    /\ late \subseteq Status
    /\ session \in 1 .. MaxBoots /\ stored \subseteq Status
    /\ now \in 0 .. MaxNow /\ hubNow \in 0 .. MaxNow /\ cycleNow \in 0 .. now
    /\ faults \in 0 .. MaxFaults

Init ==
    /\ queue = <<>> /\ revision = 0 /\ recorded = 0
    /\ boot = 1 /\ sequence = 0
    /\ pendingStatus = {} /\ pendingLossRev = 0 /\ pendingLosses = 0
    /\ pc = "append" /\ call = "none" /\ late = {}
    /\ session = 1 /\ stored = {}
    /\ now = 0 /\ hubNow = 0 /\ cycleNow = 0 /\ faults = 0

-----------------------------------------------------------------------------
(* The spool's side: Append and ReadPending prune, and pruning may record  *)
(* losses.  The bound leaves enough sequence numbers to tell them all.     *)

RecordLoss(key) ==
    /\ pc \in {"append", "lanes"}
    /\ recorded < MaxLosses /\ sequence + Len(queue) + 2 <= MaxStatus
    /\ recorded' = recorded + 1 /\ revision' = revision + 1
    /\ \/ \E i \in DOMAIN queue :
             /\ queue[i].key = key
             /\ queue' = [queue EXCEPT ![i].losses = @ \cup {recorded + 1}]
       \/ /\ \A i \in DOMAIN queue : queue[i].key # key
          /\ queue' = Append(queue, [key |-> key, losses |-> {recorded + 1}])
    /\ UNCHANGED <<collector, pc, call, late, hub, clocks, faults>>

(* Mutant of AckLossesPrefix: the journal's revision is not compared.      *)
AckLossesAtAnyRevision ==
    /\ pendingLosses <= Len(queue)
    /\ queue' = SubSeq(queue, pendingLosses + 1, Len(queue))
    /\ revision' = revision + 1

(* Nothing is written while the journal moved on since the status was built*)
AckLossesPrefix ==
    /\ pendingLossRev = revision /\ pendingLosses <= Len(queue)
    /\ queue' = SubSeq(queue, pendingLosses + 1, Len(queue))
    /\ revision' = revision + 1

-----------------------------------------------------------------------------
(* sendStatus and transmitStatus.  A status is sent until it is settled.   *)

AppendFrames ==
    /\ pc = "append" /\ pc' = "status" /\ cycleNow' = now
    /\ UNCHANGED <<journal, collector, call, late, hub, now, hubNow, faults>>

(* The control budget allows one message in five seconds.                  *)
SkipStatus ==
    /\ pc = "status" /\ pc' = "lanes"
    /\ UNCHANGED <<journal, collector, call, late, hub, clocks, faults>>

BuildStatus ==
    LET intervals == SubSeq(queue, 1, IF Len(queue) < Cap THEN Len(queue)
                                                          ELSE Cap)
    IN  /\ pc = "status" /\ pendingStatus = {} /\ sequence < MaxStatus
        /\ pendingStatus' = {[boot |-> boot, seq |-> sequence, at |-> cycleNow,
                              losses |-> LossesOf(intervals)]}
        /\ pendingLossRev' = revision
        /\ pendingLosses' = Len(intervals)
        /\ pc' = "wait" /\ call' = "asked"
        /\ UNCHANGED <<journal, boot, sequence, late, hub, clocks, faults>>

RetryStatus ==
    /\ pc = "status" /\ pendingStatus # {}
    /\ pc' = "wait" /\ call' = "asked"
    /\ UNCHANGED <<journal, collector, late, hub, clocks, faults>>

ForgetStatus ==
    pendingStatus' = {} /\ pendingLossRev' = 0 /\ pendingLosses' = 0

(* Acknowledged: the told losses go first, then the status is forgotten.   *)
Settle ==
    /\ pc = "wait" /\ call \in {"stored", "duplicate"}
    /\ IF pendingLosses > 0 THEN AckLossesPrefix
                            ELSE UNCHANGED <<queue, revision>>
    /\ sequence' = sequence + 1 /\ ForgetStatus
    /\ pc' = "lanes" /\ call' = "none"
    /\ UNCHANGED <<recorded, boot, late, hub, clocks, faults>>

(* AckLossesPrefix returns ErrCursor: the cycle ends and the status stays. *)
SettleStale ==
    /\ pc = "wait" /\ call \in {"stored", "duplicate"}
    /\ pendingLosses > 0 /\ pendingLossRev # revision
    /\ pc' = "append" /\ call' = "none"
    /\ UNCHANGED <<journal, collector, late, hub, clocks, faults>>

(* Mutants of Expired: any refusal drops the status; none ever does.       *)
ExpiredOrRefused ==
    /\ pc = "wait" /\ call \in {"expired", "refused"}
    /\ ForgetStatus
    /\ pc' = "append" /\ call' = "none"
    /\ UNCHANGED <<journal, boot, sequence, late, hub, clocks, faults>>

ExpiredKept ==
    /\ pc = "wait" /\ call = "expired"
    /\ pc' = "append" /\ call' = "none"
    /\ UNCHANGED <<journal, collector, late, hub, clocks, faults>>

(* 410 for an old status proves that it was never stored.                  *)
Expired ==
    /\ pc = "wait" /\ call = "expired"
    /\ \E s \in pendingStatus :
          IF cycleNow > s.at + Window
          THEN ForgetStatus
          ELSE UNCHANGED <<pendingStatus, pendingLossRev, pendingLosses>>
    /\ pc' = "append" /\ call' = "none"
    /\ UNCHANGED <<journal, boot, sequence, late, hub, clocks, faults>>

Refused ==
    /\ pc = "wait" /\ call = "refused"
    /\ pc' = "append" /\ call' = "none"
    /\ UNCHANGED <<journal, collector, late, hub, clocks, faults>>

(* The call fails: the request is lost, or still on its way, or the answer *)
(* is lost.  The cycle ends before the data lanes.                         *)
CallFails ==
    /\ pc = "wait" /\ faults < MaxFaults /\ faults' = faults + 1
    /\ \/ call = "asked" /\ "request" \in Faults /\ UNCHANGED late
       \/ call = "asked" /\ "late" \in Faults /\ late' = late \cup pendingStatus
       \/ call # "asked" /\ "answer" \in Faults /\ UNCHANGED late
    /\ pc' = "append" /\ call' = "none"
    /\ UNCHANGED <<journal, collector, hub, clocks>>

RunLanes ==
    /\ pc = "lanes" /\ pc' = "append"
    /\ UNCHANGED <<journal, collector, call, late, hub, clocks, faults>>

(* A new process opens the journal, activates a session of its own and     *)
(* starts again at sequence 0; what it was sending is forgotten.           *)
Restart ==
    /\ "crash" \in Faults /\ boot < MaxBoots
    /\ boot' = boot + 1 /\ session' = boot + 1 /\ sequence' = 0
    /\ ForgetStatus
    /\ late' \in {late, IF call = "asked" THEN late \cup pendingStatus ELSE late}
    /\ pc' = "append" /\ call' = "none"
    /\ UNCHANGED <<journal, stored, clocks, faults>>

-----------------------------------------------------------------------------
(* IngestSourceStatus.                                                     *)

SameSequence(s) == {t \in stored : t.boot = s.boot /\ t.seq = s.seq}
NewerStored(s) == {t \in stored : t.boot = s.boot /\ t.seq >= s.seq}

Unseen(s) == s.boot = session /\ SameSequence(s) = {}

TooOld(s) == Unseen(s) /\ s.at + Window < hubNow

Admitted(s) ==
    /\ Unseen(s) /\ NewerStored(s) = {}
    /\ s.at + Window >= hubNow /\ s.at <= hubNow + Window

Verdict(s) ==
    IF s.boot = session /\ s \in stored THEN "duplicate"
    ELSE IF TooOld(s) THEN "expired"
    ELSE IF Admitted(s) THEN "stored" ELSE "refused"

IngestSourceStatus(s) ==
    /\ stored' = IF Verdict(s) = "stored" THEN stored \cup {s} ELSE stored
    /\ UNCHANGED session

HubAnswers ==
    /\ pc = "wait" /\ call = "asked"
    /\ \E s \in pendingStatus : IngestSourceStatus(s) /\ call' = Verdict(s)
    /\ UNCHANGED <<journal, collector, pc, late, clocks, faults>>

(* A request the collector gave up on is handled after all.                *)
HubAnswersLate ==
    /\ \E s \in late : IngestSourceStatus(s) /\ late' = late \ {s}
    /\ UNCHANGED <<journal, collector, pc, call, clocks, faults>>

Tick ==
    /\ now < MaxNow /\ now < hubNow + Drift /\ now' = now + 1
    /\ UNCHANGED <<journal, collector, pc, call, late, hub, hubNow, cycleNow,
                   faults>>

HubTick ==
    /\ hubNow < MaxNow /\ hubNow < now + Drift /\ hubNow' = hubNow + 1
    /\ UNCHANGED <<journal, collector, pc, call, late, hub, now, cycleNow,
                   faults>>

SendStatus == BuildStatus \/ RetryStatus
Answered == Settle \/ SettleStale \/ Expired \/ Refused

Next ==
    \/ \E key \in Keys : RecordLoss(key)
    \/ AppendFrames \/ SkipStatus \/ SendStatus \/ Answered \/ CallFails
    \/ RunLanes \/ Restart \/ HubAnswers \/ HubAnswersLate \/ Tick \/ HubTick

Spec == Init /\ [][Next]_vars

(* The cycle runs on a ticker; a third tick is always five seconds after   *)
(* the last control message, so a status is not skipped for ever; a call   *)
(* ends by an answer or a failure.                                         *)
FairSpec ==
    /\ Spec
    /\ WF_vars(AppendFrames) /\ WF_vars(SendStatus \/ SkipStatus)
    /\ SF_vars(SendStatus) /\ WF_vars(RunLanes)
    /\ WF_vars(HubAnswers) /\ WF_vars(Answered)
    /\ WF_vars(Tick) /\ WF_vars(HubTick)

-----------------------------------------------------------------------------
Told == UNION {s.losses : s \in stored}

(* A loss leaves the journal only once a status that carries it is stored  *)
(* (AckLosses: "must follow the durable ... acknowledgement").             *)
DroppedIsStored == (1 .. recorded) \ LossesOf(queue) \subseteq Told

(* One process never has a loss stored by two status messages, whatever is *)
(* retried, late, expired or replaced.                                     *)
ToldOncePerProcess ==
    \A s, t \in stored : s.boot = t.boot /\ s # t => s.losses \cap t.losses = {}

(* Both at once: the hub counts each loss of a process exactly once before *)
(* the collector forgets it.                                               *)
LossesAreToldOnce == DroppedIsStored /\ ToldOncePerProcess

(* The sequence number the collector is using is free at the hub, or holds *)
(* exactly the message being retried: reusing the number of an expired     *)
(* message is safe, even while a copy of it is still on its way.           *)
SequenceAgrees ==
    \A s \in stored : s.boot = boot /\ s.seq >= sequence => s \in pendingStatus

(* As long as every call is answered and the two clocks agree within the   *)
(* window of the hub, losses recorded are in the end told and leave the    *)
(* journal (AckLossesPrefix: "Remaining intervals stay queued").           *)
LossesAreSettled ==
    [](faults = 0 /\ now <= hubNow + Window /\ hubNow <= now + Window) =>
        \A l \in Loss : l <= recorded ~> l \in Told \ LossesOf(queue)
=============================================================================
