------------------------------- MODULE Spool --------------------------------
(***************************************************************************)
(* The collector's disk spool (internal/collector/spool).  A record is an  *)
(* observation frame; records are numbered in the order they are appended. *)
(* A segment file is named by the record whose Append created it, so names *)
(* are fresh and sorted like the zero-padded serials of the code.  A byte  *)
(* offset is the number of the last record before it (0: start of file).   *)
(*                                                                         *)
(* The mutex of the code makes one operation run at a time; the model      *)
(* splits an operation at every durable write, and Crash may fall between  *)
(* any two of them.  The copy of offsets.json and losses.json in memory    *)
(* equals the file whenever no fault is set, and a faulted spool only      *)
(* waits for a restart, so one copy of each is kept: the one on disk.      *)
(***************************************************************************)
EXTENDS Naturals, FiniteSetsExt

CONSTANTS
    MaxRecords,     \* bound: Appends attempted
    MaxBoots,       \* bound: collector processes
    MaxNow,         \* bound: wall clock
    Sources,        \* observation sources
    SourceOf,       \* the source of each record
    SizeOf,         \* the encoded size of each record
    GenerationOf,   \* the security generation each process runs under
    Window,         \* 5000 ms: a segment groups records this close
    CurrentAge,     \* 15000 ms: younger segments of this boot are current
    MaxAge,         \* Options.Age
    Capacity,       \* Options.Bytes
    SegmentCap,     \* segmentBytes
    MaxSegments,    \* maxSegments
    Failing         \* what may go wrong: the calls "remove", "journal" and
                    \* "write" may fail, "clock" may be stepped back

Record == 1 .. MaxRecords

ASSUME SpoolAssumption ==
    /\ MaxRecords \in Nat /\ MaxBoots \in Nat /\ MaxNow \in Nat
    /\ SourceOf \in [Record -> Sources]
    /\ SizeOf \in [Record -> Nat]
    /\ Failing \subseteq {"remove", "journal", "write", "clock"}

VARIABLES
    segs,           \* names of the segment files in the directory
    recs,           \* the intact records of each segment file
    torn,           \* segment files that end in an incomplete record
    offsets,        \* offsets.json, offsets: acknowledged prefix per segment
    quarantined,    \* offsets.json, quarantined
    revision,       \* losses.json, revision
    pending,        \* losses.json, losses: the records counted in them
    discarded,      \* losses.json, discarded
    active,         \* memory: segment open for appending (0: none)
    fault,          \* memory: a failed write stopped the spool
    boot,           \* the running (or last) process
    pc,             \* the next step of the operation that holds the mutex
    after,          \* where that operation goes on when prune is done
    incoming,       \* the record being appended
    victim, why,    \* the segment being pruned and why
    cursor,         \* the caller's batch: last ReadPending not yet settled
    snapshot,       \* the caller's status: losses read and not yet settled
    now, born, bootOf,  \* clock, Appends attempted, and each record's origin
    observed,
    durable, acked, hub, reported, told, recounted  \* history

disk == <<segs, recs, torn>>
offsetsFile == <<offsets, quarantined>>
lossesFile == <<revision, pending, discarded>>
memory == <<active, fault, boot, after, incoming, victim, why>>
caller == <<cursor, snapshot>>
origin == <<now, born, bootOf, observed>>
history == <<durable, acked, hub, reported, told, recounted>>
vars == <<disk, offsetsFile, lossesFile, memory, pc, caller, origin, history>>

NoCursor == [seg |-> 0, start |-> 0, end |-> 0, recs |-> {}]
NoSnapshot == [revision |-> 0, sources |-> {}, recs |-> {}]

Unacked(n) == {r \in recs[n] : r > offsets[n]}
Retained == UNION {recs[n] : n \in segs}
Bytes(S) == MapThenSumSet(LAMBDA r : SizeOf[r], S)

(* The records some loss interval covers, still queued or already told.    *)
Counted == pending \cup reported

IsFirst(n, S) == n \in S /\ \A m \in S : n <= m
IsLast(n, S) == n \in S /\ \A m \in S : m <= n

-----------------------------------------------------------------------------
DiskType ==
    /\ segs \subseteq Record
    /\ recs \in [Record -> SUBSET Record]
    /\ torn \subseteq Record

JournalType ==
    /\ offsets \in [Record -> 0 .. MaxRecords]
    /\ quarantined \subseteq Record
    /\ revision \in Nat
    /\ pending \subseteq Record
    /\ discarded \subseteq Record

MemoryType ==
    /\ active \in 0 .. MaxRecords
    /\ fault \in BOOLEAN
    /\ boot \in 0 .. MaxBoots
    /\ after \in {"idle", "append", "readCurrent", "readReplay"}
    /\ incoming \in 0 .. MaxRecords
    /\ victim \in 0 .. MaxRecords
    /\ why \in {"drained", "spool_age", "spool_capacity"}

PcType ==
    pc \in {"down", "corrupt", "discard", "roffsets", "rlosses", "idle",
            "prune", "remove", "offsets", "losses", "append", "write",
            "readCurrent", "readReplay"}

CallerType ==
    /\ cursor \in [seg : 0 .. MaxRecords, start : 0 .. MaxRecords,
                   end : 0 .. MaxRecords, recs : SUBSET Record]
    /\ snapshot \in [revision : Nat, sources : SUBSET Sources,
                     recs : SUBSET Record]

OriginType ==
    /\ now \in 0 .. MaxNow
    /\ born \in 0 .. MaxRecords
    /\ bootOf \in [Record -> 0 .. MaxBoots]
    /\ observed \in [Record -> 0 .. MaxNow]

HistoryType ==
    /\ durable \subseteq Record /\ acked \subseteq Record
    /\ hub \subseteq Record /\ reported \subseteq Record
    /\ told \subseteq Record /\ recounted \subseteq Record

TypeOK ==
    /\ DiskType /\ JournalType /\ MemoryType /\ PcType
    /\ CallerType /\ OriginType /\ HistoryType

Init ==
    /\ segs = {} /\ recs = [r \in Record |-> {}] /\ torn = {}
    /\ offsets = [r \in Record |-> 0] /\ quarantined = {}
    /\ revision = 0 /\ pending = {} /\ discarded = {}
    /\ active = 0 /\ fault = FALSE /\ boot = 0
    /\ pc = "down" /\ after = "idle" /\ incoming = 0
    /\ victim = 0 /\ why = "drained"
    /\ cursor = NoCursor /\ snapshot = NoSnapshot
    /\ now = 0 /\ born = 0
    /\ bootOf = [r \in Record |-> 0] /\ observed = [r \in Record |-> 0]
    /\ durable = {} /\ acked = {} /\ hub = {}
    /\ reported = {} /\ told = {} /\ recounted = {}

Ready == pc = "idle" /\ ~fault

-----------------------------------------------------------------------------
(* prune: fully acknowledged segments first, then expired ones, then the   *)
(* oldest one while the spool with the incoming record is over its limits. *)

Drained == {n \in segs : Unacked(n) = {}}

Expired == {n \in segs : now - observed[n] >= MaxAge /\ now >= observed[n]}

OverCapacity ==
    LET new == IF after = "append" THEN {incoming} ELSE {}
    IN  \/ Bytes(Retained) + Bytes(new) > Capacity
        \/ Cardinality(segs) >= MaxSegments

StartPrune(next) == pc' = "prune" /\ after' = next

Evict(n, reason) ==
    /\ victim' = n /\ why' = reason /\ pc' = "remove"
    /\ UNCHANGED <<disk, offsetsFile, active, fault, boot, after, incoming,
                   caller, origin, durable, acked, hub, reported, told>>

(* recordSegmentLoss: losses.json first, and not twice for one segment.    *)
RecordSegmentLoss(n) ==
    IF n \in discarded
    THEN UNCHANGED <<lossesFile, recounted>>
    ELSE /\ revision' = revision + 1
         /\ pending' = pending \cup Unacked(n)
         /\ discarded' = discarded \cup {n}
         /\ recounted' = recounted \cup (Unacked(n) \cap Counted)

PruneDrained ==
    /\ pc = "prune"
    /\ \E n \in segs : IsFirst(n, Drained) /\ Evict(n, "drained")
    /\ UNCHANGED <<lossesFile, recounted>>

PruneExpired ==
    /\ pc = "prune" /\ Drained = {}
    /\ \E n \in segs : /\ IsFirst(n, Expired)
                       /\ Evict(n, "spool_age")
                       /\ RecordSegmentLoss(n)

(* Mutant of PruneOldest: an eviction for room counts no loss.             *)
PruneOldestUncounted ==
    /\ pc = "prune" /\ Drained = {} /\ Expired = {} /\ OverCapacity
    /\ \E n \in segs : IsFirst(n, segs) /\ Evict(n, "spool_capacity")
    /\ UNCHANGED <<lossesFile, recounted>>

PruneOldest ==
    /\ pc = "prune" /\ Drained = {} /\ Expired = {} /\ OverCapacity
    /\ \E n \in segs : /\ IsFirst(n, segs)
                       /\ Evict(n, "spool_capacity")
                       /\ RecordSegmentLoss(n)

PruneDone ==
    /\ pc = "prune" /\ Drained = {} /\ Expired = {}
    /\ ~OverCapacity \/ segs = {}
    /\ pc' = after
    /\ UNCHANGED <<disk, offsetsFile, lossesFile, memory, caller, origin,
                   history>>

RemoveSegment ==
    /\ pc = "remove"
    /\ segs' = segs \ {victim}
    /\ recs' = [recs EXCEPT ![victim] = {}]
    /\ pc' = "offsets"
    /\ UNCHANGED <<torn, offsetsFile, lossesFile, memory, caller, origin,
                   history>>

(* os.Remove failed: the operation returns the error; no fault is set.     *)
RemoveFails ==
    /\ pc = "remove" /\ "remove" \in Failing
    /\ pc' = "idle"
    /\ UNCHANGED <<disk, offsetsFile, lossesFile, memory, caller, origin,
                   history>>

PruneOffsets ==
    /\ pc = "offsets"
    /\ offsets' = [offsets EXCEPT ![victim] = 0]
    /\ quarantined' = quarantined \ {victim}
    /\ active' = IF active = victim THEN 0 ELSE active
    /\ pc' = IF why = "drained" THEN "prune" ELSE "losses"
    /\ UNCHANGED <<disk, lossesFile, fault, boot, after, incoming, victim,
                   why, caller, origin, history>>

PruneLosses ==
    /\ pc = "losses"
    /\ discarded' = discarded \ {victim}
    /\ pc' = "prune"
    /\ UNCHANGED <<disk, offsetsFile, revision, pending, memory, caller,
                   origin, history>>

(* recordSegmentLoss could not replace losses.json: nothing is evicted.    *)
LossJournalFails ==
    /\ pc = "prune" /\ Drained = {} /\ "journal" \in Failing
    /\ \/ Expired # {}
       \/ OverCapacity /\ segs # {}
    /\ pc' = "idle"
    /\ UNCHANGED <<disk, offsetsFile, lossesFile, memory, caller, origin,
                   history>>

(* offsets.json or losses.json could not be replaced: the spool stops.     *)
JournalFails ==
    /\ pc \in {"offsets", "losses"} /\ "journal" \in Failing
    /\ fault' = TRUE /\ pc' = "idle"
    /\ UNCHANGED <<disk, offsetsFile, lossesFile, active, boot, after,
                   incoming, victim, why, caller, origin, history>>

-----------------------------------------------------------------------------
(* Append: prune for the new record, reuse or create a segment, write.     *)

Append ==
    /\ Ready /\ born < MaxRecords
    /\ born' = born + 1 /\ incoming' = born + 1
    /\ bootOf' = [bootOf EXCEPT ![born + 1] = boot]
    /\ observed' = [observed EXCEPT ![born + 1] = now]
    /\ StartPrune("append")
    /\ UNCHANGED <<disk, offsetsFile, lossesFile, active, fault, boot,
                   victim, why, caller, now, history>>

CanReuse ==
    /\ IsLast(active, segs)
    /\ Bytes(recs[active]) + SizeOf[incoming] <= SegmentCap
    /\ bootOf[active] = bootOf[incoming]
    /\ GenerationOf[bootOf[active]] = GenerationOf[bootOf[incoming]]
    /\ observed[active] <= observed[incoming]
    /\ observed[incoming] - observed[active] < Window

ReuseSegment ==
    /\ pc = "append" /\ CanReuse
    /\ pc' = "write"
    /\ UNCHANGED <<disk, offsetsFile, lossesFile, memory, caller, origin,
                   history>>

CreateSegment ==
    /\ pc = "append" /\ ~CanReuse
    /\ segs' = segs \cup {incoming}
    /\ active' = incoming
    /\ pc' = "write"
    /\ UNCHANGED <<recs, torn, offsetsFile, lossesFile, fault, boot, after,
                   incoming, victim, why, caller, origin, history>>

(* What one write and fsync of the incoming record can leave in the file.  *)
PutRecord ==
    /\ recs' = [recs EXCEPT ![active] = @ \cup {incoming}]
    /\ UNCHANGED torn

TearRecord == torn' = torn \cup {active} /\ UNCHANGED recs

WriteRecord ==
    /\ pc = "write"
    /\ PutRecord
    /\ durable' = durable \cup {incoming}
    /\ pc' = "idle"
    /\ UNCHANGED <<segs, offsetsFile, lossesFile, memory, caller, origin,
                   acked, hub, reported, told, recounted>>

(* Mutant of WriteFails: the spool goes on after a failed write.           *)
WriteFailsUnnoticed ==
    /\ pc = "write" /\ "write" \in Failing
    /\ PutRecord \/ TearRecord \/ UNCHANGED <<recs, torn>>
    /\ pc' = "idle"
    /\ UNCHANGED <<segs, offsetsFile, lossesFile, memory, caller, origin,
                   history>>

(* Nothing may be appended behind a possibly incomplete record.            *)
WriteFails ==
    /\ pc = "write" /\ "write" \in Failing
    /\ PutRecord \/ TearRecord \/ UNCHANGED <<recs, torn>>
    /\ fault' = TRUE /\ pc' = "idle"
    /\ UNCHANGED <<segs, offsetsFile, lossesFile, active, boot, after,
                   incoming, victim, why, caller, origin, history>>

-----------------------------------------------------------------------------
(* ReadPending, and what the collector does with the batch it returns.     *)

ReadPending(lane) ==
    /\ Ready /\ cursor = NoCursor
    /\ StartPrune(lane)
    /\ UNCHANGED <<disk, offsetsFile, lossesFile, active, fault, boot,
                   incoming, victim, why, caller, origin, history>>

IsCurrent(n) ==
    /\ bootOf[n] = boot
    /\ observed[n] <= now /\ now - observed[n] <= CurrentAge

(* Mutant of Sendable: the replay lane takes only what grew old.           *)
SendableByAge(current) ==
    {n \in segs : /\ n \notin quarantined
                  /\ Unacked(n) # {}
                  /\ GenerationOf[bootOf[n]] = GenerationOf[boot]
                  /\ IF current THEN IsCurrent(n)
                                ELSE observed[n] + CurrentAge < now}

Sendable(current) ==
    {n \in segs : /\ n \notin quarantined
                  /\ Unacked(n) # {}
                  /\ GenerationOf[bootOf[n]] = GenerationOf[boot]
                  /\ IsCurrent(n) = current}

(* A contiguous prefix of the unacknowledged records of segment n: where   *)
(* it ends depends on the frame and byte limits.                           *)
BatchUpTo(n, last) ==
    [seg |-> n, start |-> offsets[n], end |-> last,
     recs |-> {r \in Unacked(n) : r <= last}]

ReadBatch ==
    /\ pc \in {"readCurrent", "readReplay"}
    /\ LET lane == Sendable(pc = "readCurrent")
       IN  IF lane = {}
           THEN UNCHANGED cursor
           ELSE \E n \in lane :
                   /\ IF pc = "readCurrent" THEN IsLast(n, lane)
                                            ELSE IsFirst(n, lane)
                   /\ \E r \in Unacked(n) : cursor' = BatchUpTo(n, r)
    /\ pc' = "idle"
    /\ UNCHANGED <<disk, offsetsFile, lossesFile, memory, snapshot, origin,
                   history>>

(* The hub commits the batch; its answer may still be lost.                *)
HubStores ==
    /\ ~(cursor.recs \subseteq hub)
    /\ hub' = hub \cup cursor.recs
    /\ UNCHANGED <<disk, offsetsFile, lossesFile, memory, pc, caller, origin,
                   durable, acked, reported, told, recounted>>

AnswerLost ==
    /\ Ready /\ cursor # NoCursor
    /\ cursor' = NoCursor
    /\ UNCHANGED <<disk, offsetsFile, lossesFile, memory, pc, snapshot,
                   origin, history>>

CursorMatches ==
    /\ cursor.seg \in segs
    /\ offsets[cursor.seg] = cursor.start

(* Ack after the hub's all-or-nothing durable answer.                      *)
Ack ==
    /\ Ready /\ cursor # NoCursor /\ cursor.recs \subseteq hub
    /\ cursor' = NoCursor
    /\ IF CursorMatches /\ cursor.seg \notin quarantined
       THEN /\ offsets' = [offsets EXCEPT ![cursor.seg] = cursor.end]
            /\ acked' = acked \cup cursor.recs
            /\ StartPrune("idle")
       ELSE UNCHANGED <<offsets, acked, pc, after>>
    /\ UNCHANGED <<disk, quarantined, lossesFile, active, fault, boot,
                   incoming, victim, why, snapshot, origin, durable, hub,
                   reported, told, recounted>>

(* The hub refuses the batch as poison: the whole segment is set aside.    *)
Quarantine ==
    /\ Ready /\ cursor # NoCursor
    /\ cursor' = NoCursor
    /\ IF CursorMatches
       THEN /\ quarantined' = quarantined \cup {cursor.seg}
            /\ active' = IF active = cursor.seg THEN 0 ELSE active
       ELSE UNCHANGED <<quarantined, active>>
    /\ UNCHANGED <<disk, offsets, lossesFile, fault, boot, after, incoming,
                   victim, why, pc, snapshot, origin, history>>

(* Ack and Quarantine journal before they change memory; a failed journal  *)
(* write stops the spool.                                                  *)
SettleFails ==
    /\ Ready /\ cursor # NoCursor /\ CursorMatches /\ "journal" \in Failing
    /\ cursor' = NoCursor
    /\ fault' = TRUE
    /\ UNCHANGED <<disk, offsetsFile, lossesFile, active, boot, after,
                   incoming, victim, why, pc, snapshot, origin, history>>

-----------------------------------------------------------------------------
(* Losses and AckLossesPrefix, around the control-lane status message.     *)

(* A loss interval of the journal covers every counted record of a source. *)
Intervals(S) == {r \in pending : SourceOf[r] \in S}

ReadLosses ==
    /\ Ready /\ snapshot = NoSnapshot
    /\ \E S \in SUBSET {SourceOf[r] : r \in pending} :
          /\ S # {}
          /\ snapshot' = [revision |-> revision, sources |-> S,
                          recs |-> Intervals(S)]
    /\ UNCHANGED <<disk, offsetsFile, lossesFile, memory, pc, cursor, origin,
                   history>>

HubLearnsLosses ==
    /\ ~(snapshot.recs \subseteq told)
    /\ told' = told \cup snapshot.recs
    /\ UNCHANGED <<disk, offsetsFile, lossesFile, memory, pc, caller, origin,
                   durable, acked, hub, reported, recounted>>

StatusLost ==
    /\ Ready /\ snapshot # NoSnapshot
    /\ snapshot' = NoSnapshot
    /\ UNCHANGED <<disk, offsetsFile, lossesFile, memory, pc, cursor, origin,
                   history>>

AckLossesPrefix ==
    /\ Ready /\ snapshot # NoSnapshot /\ snapshot.recs \subseteq told
    /\ snapshot' = NoSnapshot
    /\ IF snapshot.revision = revision
       THEN /\ revision' = revision + 1
            /\ pending' = pending \ Intervals(snapshot.sources)
            /\ reported' = reported \cup Intervals(snapshot.sources)
       ELSE UNCHANGED <<revision, pending, reported>>
    /\ UNCHANGED <<disk, offsetsFile, discarded, memory, pc, cursor, origin,
                   durable, acked, hub, told, recounted>>

-----------------------------------------------------------------------------
(* Crash loses the memory; a write in progress leaves anything it can.     *)

Crash ==
    /\ pc \notin {"down", "corrupt"}
    /\ IF pc = "write"
       THEN PutRecord \/ TearRecord \/ UNCHANGED <<recs, torn>>
       ELSE UNCHANGED <<recs, torn>>
    /\ pc' = "down" /\ after' = "idle"
    /\ active' = 0 /\ fault' = FALSE
    /\ incoming' = 0 /\ victim' = 0 /\ why' = "drained"
    /\ cursor' = NoCursor /\ snapshot' = NoSnapshot
    /\ UNCHANGED <<segs, offsetsFile, lossesFile, boot, origin, history>>

(* What makes recover refuse the directory as corrupt.                     *)
Unreadable ==
    \/ \E n \in torn : ~IsLast(n, segs)
    \/ \E n \in segs : offsets[n] # 0 /\ offsets[n] \notin recs[n]
    \/ \E n \in segs : \E r, q \in recs[n] : bootOf[r] # bootOf[q]

(* Mutant of Open: a torn segment is cut to nothing.                       *)
OpenCutsAll ==
    /\ pc = "down" /\ boot < MaxBoots
    /\ boot' = boot + 1 /\ pc' = "discard" /\ torn' = {}
    /\ recs' = [n \in Record |-> IF n \in torn THEN {} ELSE recs[n]]
    /\ UNCHANGED <<segs, offsetsFile, lossesFile, active, fault, after,
                   incoming, victim, why, caller, origin, history>>

(* recover: read both journals, scan the segments, cut the torn tail.      *)
Open ==
    /\ pc = "down" /\ boot < MaxBoots
    /\ boot' = boot + 1
    /\ IF Unreadable
       THEN pc' = "corrupt" /\ UNCHANGED torn
       ELSE pc' = "discard" /\ torn' = {}
    /\ UNCHANGED <<segs, recs, offsetsFile, lossesFile, active, fault, after,
                   incoming, victim, why, caller, origin, history>>

(* Finish the evictions losses.json already accounts for.                  *)
FinishDiscard ==
    /\ pc = "discard"
    /\ \E n \in segs : /\ IsFirst(n, segs \cap discarded)
                       /\ segs' = segs \ {n}
                       /\ recs' = [recs EXCEPT ![n] = {}]
    /\ UNCHANGED <<torn, offsetsFile, lossesFile, memory, pc, caller, origin,
                   history>>

FinishedDiscard ==
    /\ pc = "discard" /\ segs \cap discarded = {}
    /\ pc' = "roffsets"
    /\ UNCHANGED <<disk, offsetsFile, lossesFile, memory, caller, origin,
                   history>>

(* Mutant of RecoverOffsets: only the offsets are kept.                    *)
RecoverOffsetsOnly ==
    /\ pc = "roffsets"
    /\ offsets' = [n \in Record |-> IF n \in segs THEN offsets[n] ELSE 0]
    /\ quarantined' = {}
    /\ pc' = "rlosses"
    /\ UNCHANGED <<disk, lossesFile, memory, caller, origin, history>>

RecoverOffsets ==
    /\ pc = "roffsets"
    /\ offsets' = [n \in Record |-> IF n \in segs THEN offsets[n] ELSE 0]
    /\ quarantined' = quarantined \cap segs
    /\ pc' = "rlosses"
    /\ UNCHANGED <<disk, lossesFile, memory, caller, origin, history>>

RecoverLosses ==
    /\ pc = "rlosses"
    /\ discarded' = discarded \cap segs
    /\ StartPrune("idle")
    /\ UNCHANGED <<disk, offsetsFile, revision, pending, active, fault, boot,
                   incoming, victim, why, caller, origin, history>>

(* The wall clock advances, or is stepped.                                 *)
Tick ==
    /\ \E t \in 0 .. MaxNow : (t >= now \/ "clock" \in Failing) /\ now' = t
    /\ UNCHANGED <<disk, offsetsFile, lossesFile, memory, pc, caller, born,
                   bootOf, observed, history>>

-----------------------------------------------------------------------------
Prune ==
    \/ PruneDrained \/ PruneExpired \/ PruneOldest \/ PruneDone
    \/ RemoveSegment \/ RemoveFails \/ PruneOffsets \/ PruneLosses
    \/ LossJournalFails \/ JournalFails

Recover ==
    \/ Open \/ FinishDiscard \/ FinishedDiscard \/ RecoverOffsets
    \/ RecoverLosses

Next ==
    \/ Prune \/ Recover \/ Crash \/ Tick
    \/ Append \/ ReuseSegment \/ CreateSegment \/ WriteRecord \/ WriteFails
    \/ ReadPending("readCurrent") \/ ReadPending("readReplay") \/ ReadBatch
    \/ HubStores \/ AnswerLost \/ Ack \/ Quarantine \/ SettleFails
    \/ ReadLosses \/ HubLearnsLosses \/ StatusLost \/ AckLossesPrefix

Spec == Init /\ [][Next]_vars

(* A started process runs each operation to its end and keeps offering     *)
(* both lanes; a batch the hub keeps being sent is stored and its answer   *)
(* arrives in the end.                                                     *)
Fairness ==
    /\ WF_vars(Prune) /\ WF_vars(Recover)
    /\ WF_vars(ReuseSegment \/ CreateSegment \/ WriteRecord)
    /\ SF_vars(ReadPending("readCurrent")) /\ SF_vars(ReadPending("readReplay"))
    /\ WF_vars(ReadBatch) /\ SF_vars(HubStores) /\ SF_vars(Ack)

FairSpec == Spec /\ Fairness

-----------------------------------------------------------------------------
(* Properties.                                                             *)

(* spool.go:768: "unacked segments are never removed without first         *)
(* recording their loss separately".  Whatever prune, recover and a crash  *)
(* between their writes do, a record whose Append returned is acknowledged *)
(* or still on disk or covered by a loss interval on disk or told.         *)
NoSilentLoss == durable \subseteq acked \cup Retained \cup Counted

(* spool.go:710: a journaled eviction is finished "without recounting its  *)
(* records": no record is added to the loss journal twice, and none that   *)
(* was acknowledged is in it.                                              *)
CountedOnce == recounted = {} /\ pending \cap reported = {}

(* spool.go:835-885: only the unacknowledged suffix of a segment is        *)
(* counted, so the loss total never covers what was acknowledged.          *)
LostNotAcked == Counted \cap acked = {}

(* spool.go:389: an acknowledgement covers only what the hub stored, even  *)
(* for a stale cursor or a segment that grew after the batch was read.     *)
AckedIsStored ==
    /\ acked \subseteq hub
    /\ \A n \in segs : \A r \in recs[n] : r <= offsets[n] => r \in hub

(* spool.go:471: "A concurrent new loss invalidates this snapshot instead  *)
(* of erasing it": what AckLossesPrefix drops, the hub has been told.      *)
DroppedIsTold == reported \subseteq told

(* spool.go:592-770: no crash, failed write or torn tail leaves a          *)
(* directory that the next start refuses as corrupt.                       *)
AlwaysRecovers == pc # "corrupt"

(* spool.go:423: a quarantined segment is retained "without retrying       *)
(* poison or pretending the hub stored it", across restarts too.           *)
QuarantineHolds ==
    [][\A n \in quarantined \cap segs :
          /\ recs[n] \cap (acked' \ acked) = {}
          /\ n \in segs' => n \in quarantined'
          /\ cursor' # cursor => cursor'.seg # n]_vars

(* runner.go:852-859 with spool.go:332-387: while a process keeps running  *)
(* without a fault, its clock is not stepped back for ever and no system   *)
(* call fails for ever, every durable record leaves the backlog:           *)
(* acknowledged, counted as lost, or set aside with its segment, which is  *)
(* quarantined or awaits an approved recovery in a new generation.         *)
CallsFail == RemoveFails \/ LossJournalFails

SetAside(n) ==
    n \in quarantined \/ GenerationOf[bootOf[n]] # GenerationOf[boot]

Settled(r) ==
    \/ r \in acked \cup Counted
    \/ \E n \in segs : SetAside(n) /\ r \in recs[n]

BacklogDrains ==
    <>[](pc # "down" /\ ~fault) /\ <>[][now' >= now /\ ~CallsFail]_vars =>
        \A r \in Record : (r \in durable) ~> Settled(r)

(* The spool keeps the promise of EvidenceLedger.                          *)
FateOf(r) ==
    IF r \in Counted THEN "lost"
    ELSE IF r \in acked THEN "delivered"
    ELSE IF r \in Retained THEN "retained"
    ELSE "unborn"

Ledger == INSTANCE EvidenceLedger WITH fate <- [r \in Record |-> FateOf(r)]

Promise == Ledger!Spec

=============================================================================
