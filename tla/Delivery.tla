------------------------------ MODULE Delivery ------------------------------
(***************************************************************************)
(* The data lanes: from an observation of the runtime to its row at the    *)
(* hub.  A collector process activates a session (scheduler/runner.go      *)
(* bootstrap, pairing/state.go), then runs cycles: observe, append to the  *)
(* spool, send one batch of the current lane and one of the replay lane.   *)
(* The hub admits a batch in one SQLite transaction (store/ingest.go) and  *)
(* derives configuration changes from what it has admitted.                *)
(*                                                                         *)
(* Frames are those that carry a configuration observation of the one      *)
(* target; they are numbered as they are observed, and time passes between *)
(* two observations.  A boot identity and its activation request are drawn *)
(* together and are one number.  The spool is its list of segments: what   *)
(* a crash or an eviction does to it is module Spool's.                    *)
(***************************************************************************)
EXTENDS Naturals, Sequences, FiniteSetsExt, SequencesExt

CONSTANTS
    Configs,        \* configuration hashes
    Aligned,        \* whether the collector knows hub time: subset of BOOLEAN
    Span,           \* 5000 ms: a segment groups records this close
    CurrentAge,     \* 15000 ms: younger segments of this boot are current
    Faults,         \* "request" "answer" "late" "busy" "store" "append"
                    \* "crash" "edit"
    MaxFrames,      \* bound: observations
    MaxBoots,       \* bound: boot identities drawn
    MaxNow,         \* bound: the clock
    MaxFaults       \* bound: faults

Frame == 1 .. MaxFrames
Boot == 1 .. MaxBoots

ASSUME DeliveryAssumption ==
    /\ {Span, CurrentAge, MaxFrames, MaxBoots, MaxNow, MaxFaults} \subseteq Nat
    /\ Aligned \subseteq BOOLEAN
    /\ Faults \subseteq {"request", "answer", "late", "busy", "store",
                         "append", "crash", "edit"}

VARIABLES
    frames,         \* every observation made, kept or not
    segs,           \* the spool's segments
    previous,       \* pairing.json, previous_session
    pending,        \* pairing.json, pending_activation
    boots,          \* boot identities drawn so far
    boot, session,  \* the running (or last) process
    sequence,       \* its next sequence number
    lastConfig,     \* its last configuration observation
    pc,             \* where it is
    call,           \* what became of its current request
    batch,          \* the batch it is sending
    late,           \* requests given up that the hub may still handle
    sessions,       \* hub: collector_sessions; the last one is current
    stored,         \* hub: source_frames in order of admission
    events,         \* hub: configuration changes found
    now, faults

spool == <<frames, segs>>
pairing == <<previous, pending, boots>>
process == <<boot, session, sequence, lastConfig>>
hub == <<sessions, stored, events>>
vars == <<spool, pairing, process, pc, call, batch, late, hub, now, faults>>

Claim == [hash : Configs, at : 0 .. MaxNow]
Observation == [boot : Boot, seq : 0 .. MaxFrames, at : 0 .. MaxNow,
                hash : Configs, prev : SUBSET Claim, aligned : Aligned]
Segment == [boot : Boot, session : Boot, first : 0 .. MaxNow, ids : Seq(Frame),
            ack : 0 .. MaxFrames, bad : BOOLEAN]
Request == [boot : Boot, expected : 0 .. MaxBoots]
Batch == [mode : {"current", "replay"}, boot : Boot, session : Boot,
          ids : Seq(Frame)]
Row == [id : Frame, mode : {"current", "replay"}]
Event == [from : 0 .. MaxFrames, to : Frame]  \* from 0: no predecessor known

TypeOK ==
    /\ frames \in Seq(Observation) /\ segs \in Seq(Segment)
    /\ previous \in 0 .. MaxBoots /\ boots \in 0 .. MaxBoots
    /\ pending \subseteq Request
    /\ boot \in 0 .. MaxBoots /\ session \in 0 .. MaxBoots
    /\ sequence \in 0 .. MaxFrames /\ lastConfig \subseteq Claim
    /\ pc \in {"down", "activate", "idle", "current", "replay"}
    /\ call \in {"none", "asked", "granted", "stored", "refused", "poison"}
    /\ batch \subseteq Batch
    /\ batch # {} <=> pc \in {"current", "replay"} /\ call # "none"
    /\ late \subseteq Request \cup Batch
    /\ sessions \in Seq(Request) /\ stored \in Seq(Row)
    /\ events \subseteq Event
    /\ now \in 0 .. MaxNow /\ faults \in 0 .. MaxFaults

Init ==
    /\ frames = <<>> /\ segs = <<>>
    /\ previous = 0 /\ pending = {} /\ boots = 0
    /\ boot = 0 /\ session = 0 /\ sequence = 0 /\ lastConfig = {}
    /\ pc = "down" /\ call = "none" /\ batch = {} /\ late = {}
    /\ sessions = <<>> /\ stored = <<>> /\ events = {}
    /\ now = 0 /\ faults = 0

Fault(kind) == kind \in Faults /\ faults < MaxFaults /\ faults' = faults + 1

-----------------------------------------------------------------------------
(* The session bootstrap.                                                  *)

(* An activation that was prepared is sent again until it is answered.     *)
PrepareActivation ==
    IF pending # {}
    THEN /\ \E r \in pending : boot' = r.boot
         /\ UNCHANGED <<pending, boots>>
    ELSE /\ boots < MaxBoots /\ boots' = boots + 1 /\ boot' = boots + 1
         /\ pending' = {[boot |-> boots + 1, expected |-> previous]}

Start ==
    /\ pc = "down" /\ PrepareActivation
    /\ session' = 0 /\ sequence' = 0 /\ lastConfig' = {}
    /\ pc' = "activate" /\ call' = "asked"
    /\ UNCHANGED <<spool, previous, batch, late, hub, now, faults>>

(* Mutant of CompleteActivation: the request stays in pairing.json.        *)
CompleteActivationKept ==
    /\ pc = "activate" /\ call = "granted"
    /\ \E n \in DOMAIN sessions :
          sessions[n].boot = boot /\ previous' = n /\ session' = n
    /\ pc' = "idle" /\ call' = "none"
    /\ UNCHANGED <<spool, pending, boots, boot, sequence, lastConfig, batch,
                   late, hub, now, faults>>

CompleteActivation ==
    /\ pc = "activate" /\ call = "granted"
    /\ \E n \in DOMAIN sessions :
          sessions[n].boot = boot /\ previous' = n /\ session' = n
    /\ pending' = {}
    /\ pc' = "idle" /\ call' = "none"
    /\ UNCHANGED <<spool, boots, boot, sequence, lastConfig, batch, late, hub,
                   now, faults>>

(* The process ends; a refused activation ends it too.  What it was asking *)
(* may still reach the hub.                                                *)
Exit ==
    /\ pc # "down" /\ (boots < MaxBoots \/ pending # {})
    /\ IF pc = "activate" /\ call = "refused" THEN UNCHANGED faults
                                              ELSE Fault("crash")
    /\ late' \in {late, IF call # "asked" \/ "late" \notin Faults THEN late
                        ELSE late \cup (IF pc = "activate" THEN pending
                                                           ELSE batch)}
    /\ pc' = "down" /\ call' = "none" /\ batch' = {}
    /\ UNCHANGED <<spool, pairing, process, hub, now>>

-----------------------------------------------------------------------------
(* One cycle: observe, append, and two lanes.                              *)

(* Hashes are only compared, so that the first may as well be fixed.       *)
Observe(hash, aligned) ==
    /\ frames = <<>> => hash = CHOOSE h \in Configs : TRUE
    /\ Len(frames) < MaxFrames /\ now + CurrentAge < MaxNow
    /\ \A i \in DOMAIN frames : frames[i].at < now
    /\ frames' = Append(frames, [boot |-> boot, seq |-> sequence, at |-> now,
                                 hash |-> hash, prev |-> lastConfig,
                                 aligned |-> aligned])
    /\ sequence' = sequence + 1
    /\ lastConfig' = {[hash |-> hash, at |-> now]}
    /\ UNCHANGED <<boot, session>>

(* A record joins the last segment or opens a new one; a segment that is   *)
(* acknowledged to its end has been removed.                               *)
AppendRecord ==
    LET id == Len(frames) + 1
    IN  \/ segs' = Append(segs, [boot |-> boot, session |-> session,
                                 first |-> now, ids |-> <<id>>, ack |-> 0,
                                 bad |-> FALSE])
        \/ /\ segs # <<>> /\ Last(segs).boot = boot /\ ~Last(segs).bad
           /\ Last(segs).ack < Len(Last(segs).ids)
           /\ now - Last(segs).first <= Span
           /\ segs' = [segs EXCEPT ![Len(segs)].ids = Append(@, id)]

AppendFrames(hash, aligned) ==
    /\ pc = "idle" /\ Observe(hash, aligned) /\ AppendRecord
    /\ pc' = "current"
    /\ UNCHANGED <<pairing, call, batch, late, hub, now, faults>>

(* The spool takes no record (full, or the file cannot be made): the       *)
(* sequence number is spent and the cycle ends.                            *)
AppendFails(hash, aligned) ==
    /\ pc = "idle" /\ Observe(hash, aligned) /\ Fault("append")
    /\ UNCHANGED <<segs, pairing, pc, call, batch, late, hub, now>>

(* A cycle that observes no configuration.                                 *)
OtherCycle ==
    /\ pc = "idle" /\ pc' = "current"
    /\ UNCHANGED <<spool, pairing, process, call, batch, late, hub, now,
                   faults>>

(* The target is revised under the same identity: its collector is new.    *)
RefreshTarget ==
    /\ pc = "idle" /\ lastConfig # {} /\ Fault("edit")
    /\ lastConfig' = {}
    /\ UNCHANGED <<spool, pairing, boot, session, sequence, pc, call, batch,
                   late, hub, now>>

(* Mutant of IsCurrent: the age of a segment does not matter.              *)
IsCurrentAtAnyAge(seg) ==
    seg.boot = boot

IsCurrent(seg) ==
    seg.boot = boot /\ now - seg.first <= CurrentAge

(* ReadPending: the newest current segment, or the oldest other one.       *)
ReadPending(lane) ==
    LET eligible == {k \in DOMAIN segs :
                        /\ ~segs[k].bad /\ segs[k].ack < Len(segs[k].ids)
                        /\ IsCurrent(segs[k]) <=> lane = "current"}
    IN  IF eligible = {} THEN {}
        ELSE {IF lane = "current" THEN Max(eligible) ELSE Min(eligible)}

(* The byte limit, and the halving after a 413, leave any prefix.          *)
Send(lane) ==
    /\ pc = lane /\ call = "none"
    /\ \E k \in ReadPending(lane) :
         \E n \in segs[k].ack + 1 .. Len(segs[k].ids) :
            batch' = {[mode |-> lane, boot |-> segs[k].boot,
                       session |-> segs[k].session,
                       ids |-> SubSeq(segs[k].ids, segs[k].ack + 1, n)]}
    /\ call' = "asked"
    /\ UNCHANGED <<spool, pairing, process, pc, late, hub, now, faults>>

NextLane == pc' = IF pc = "current" THEN "replay" ELSE "idle"

(* Nothing is pending, or the byte budget is spent.                        *)
SkipLane ==
    /\ pc \in {"current", "replay"} /\ call = "none" /\ NextLane
    /\ UNCHANGED <<spool, pairing, process, call, batch, late, hub, now,
                   faults>>

(* The segment a batch was read from.  Nothing of it moves while it is out.*)
Source(b) ==
    CHOOSE k \in DOMAIN segs : Range(b.ids) \subseteq Range(segs[k].ids)

Settle ==
    /\ call = "stored"
    /\ \E b \in batch : segs' = [segs EXCEPT ![Source(b)].ack = @ + Len(b.ids)]
    /\ NextLane /\ call' = "none" /\ batch' = {}
    /\ UNCHANGED <<frames, pairing, process, late, hub, now, faults>>

(* 422: the segment is set aside, and the lane goes on.                    *)
Quarantine ==
    /\ call = "poison"
    /\ \E b \in batch : segs' = [segs EXCEPT ![Source(b)].bad = TRUE]
    /\ NextLane /\ call' = "none" /\ batch' = {}
    /\ UNCHANGED <<frames, pairing, process, late, hub, now, faults>>

(* Any other refusal ends the cycle, before the replay lane.               *)
Refused ==
    /\ pc \in {"current", "replay"} /\ call = "refused"
    /\ pc' = "idle" /\ call' = "none" /\ batch' = {}
    /\ UNCHANGED <<spool, pairing, process, late, hub, now, faults>>

(* The call fails: the request is lost, or still on its way, or the answer *)
(* is lost.  An activation is sent again, a batch ends the cycle.          *)
CallFails ==
    /\ call # "none"
    /\ \/ call = "asked" /\ Fault("request") /\ UNCHANGED late
       \/ call = "asked" /\ Fault("late")
          /\ late' = late \cup (IF pc = "activate" THEN pending ELSE batch)
       \/ call # "asked" /\ Fault("answer") /\ UNCHANGED late
    /\ IF pc = "activate" THEN pc' = pc /\ call' = "asked"
                          ELSE pc' = "idle" /\ call' = "none"
    /\ batch' = {}
    /\ UNCHANGED <<spool, pairing, process, hub, now>>

-----------------------------------------------------------------------------
(* The hub: ActivateCollectorSession.  A request it knows is answered as   *)
(* long as its session is current; a new one must expect the current one.  *)

SessionsOf(b) == {n \in DOMAIN sessions : sessions[n].boot = b}

Grants(r) ==
    IF SessionsOf(r.boot) # {}
    THEN r = Last(sessions)
    ELSE r.expected = Len(sessions)

Activate(r) ==
    /\ sessions' = IF Grants(r) /\ SessionsOf(r.boot) = {}
                   THEN Append(sessions, r) ELSE sessions
    /\ UNCHANGED <<stored, events>>

-----------------------------------------------------------------------------
(* The hub: IngestCollectorBatch.                                          *)

Admitted(rows) == {rows[n].id : n \in DOMAIN rows}

SameIdentity(i) ==
    {j \in Admitted(stored) : /\ frames[j].boot = frames[i].boot
                              /\ frames[j].seq = frames[i].seq}

IsFresh(i) == SameIdentity(i) = {}

(* The rows after the first k frames of a batch: one the hub held before   *)
(* is passed over, each other one is inserted before the next is looked at.*)
Rows(b) ==
    LET rows[k \in 0 .. Len(b.ids)] ==
            IF k = 0 THEN stored
            ELSE IF IsFresh(b.ids[k])
                 THEN Append(rows[k - 1], [id |-> b.ids[k], mode |-> b.mode])
                 ELSE rows[k - 1]
    IN  rows

(* Mutant of SessionAdmits: a superseded session still sends current data. *)
SessionAdmitsAny(b) ==
    b.session \in SessionsOf(b.boot)

SessionAdmits(b) ==
    /\ b.session \in SessionsOf(b.boot)
    /\ b.mode = "current" => b.session = Len(sessions)

(* validateCurrentFrameOrder: sequence numbers of current frames grow.     *)
InOrder(b) ==
    b.mode = "current" =>
        \A k \in DOMAIN b.ids : IsFresh(b.ids[k]) =>
            \A row \in Range(Rows(b)[k - 1]) :
                row.mode = "current" /\ frames[row.id].boot = b.boot
                    => frames[row.id].seq < frames[b.ids[k]].seq

(* Mutant of ClaimedPredecessor: the newest of the boot is good enough.    *)
NewestOfTheBoot(rows, i) ==
    LET before == {j \in Admitted(rows) : /\ frames[j].boot = frames[i].boot
                                          /\ frames[j].seq < frames[i].seq}
    IN  IF before = {} THEN {} ELSE {Max(before)}

(* The very observation the collector compared with, if it was admitted.   *)
ClaimedPredecessor(rows, i) ==
    {j \in Admitted(rows) :
        /\ frames[j].boot = frames[i].boot /\ frames[j].seq < frames[i].seq
        /\ [hash |-> frames[j].hash, at |-> frames[j].at] \in frames[i].prev
        /\ frames[j].aligned = frames[i].aligned}

(* The newest one of another boot that is older by hub time.               *)
CrossBootPredecessor(rows, i) ==
    LET before == {j \in Admitted(rows) :
                      /\ frames[j].boot # frames[i].boot
                      /\ frames[j].aligned /\ frames[j].at < frames[i].at}
    IN  IF before = {} THEN {} ELSE {Max(before)}

Predecessor(rows, i, mode) ==
    IF frames[i].prev # {} THEN ClaimedPredecessor(rows, i)
    ELSE IF mode = "current" /\ frames[i].aligned
         THEN CrossBootPredecessor(rows, i)
         ELSE {}

(* persistConfigObservation, with rows already admitted.                   *)
ConfigEvents(rows, i, mode) ==
    LET from == Predecessor(rows, i, mode)
    IN  IF from # {}
        THEN {[from |-> j, to |-> i] : j \in {k \in from :
                                          frames[k].hash # frames[i].hash}}
        ELSE IF mode = "current" /\ rows # <<>> THEN {[from |-> 0, to |-> i]}
                                                ELSE {}

Admits(b) ==
    /\ SessionAdmits(b) /\ InOrder(b)
    /\ \A i \in Range(b.ids) : SameIdentity(i) \subseteq {i}

(* One transaction: all of the batch or nothing.                           *)
Ingest(b) ==
    /\ IF Admits(b)
       THEN /\ stored' = Rows(b)[Len(b.ids)]
            /\ events' = events \cup
                 UNION {ConfigEvents(Rows(b)[k - 1], b.ids[k], b.mode) :
                           k \in {k \in DOMAIN b.ids : IsFresh(b.ids[k])}}
       ELSE UNCHANGED <<stored, events>>
    /\ UNCHANGED sessions

HubActivates ==
    /\ pc = "activate" /\ call = "asked"
    /\ \E r \in pending :
          Activate(r) /\ call' = IF Grants(r) THEN "granted" ELSE "refused"
    /\ UNCHANGED <<spool, pairing, process, pc, batch, late, now, faults>>

HubIngests ==
    /\ call = "asked"
    /\ \E b \in batch :
          Ingest(b) /\ call' = IF Admits(b) THEN "stored" ELSE "refused"
    /\ UNCHANGED <<spool, pairing, process, pc, batch, late, now, faults>>

(* 429 or 503: the gate is taken, the byte budget is spent, the writer is  *)
(* busy or bulk ingest is paused.                                          *)
HubIsBusy ==
    /\ call = "asked" /\ batch # {} /\ Fault("busy") /\ call' = "refused"
    /\ UNCHANGED <<spool, pairing, process, pc, batch, late, hub, now>>

(* 422: an error of the store that neither listener knows.                 *)
HubRejects ==
    /\ call = "asked" /\ batch # {} /\ Fault("store") /\ call' = "poison"
    /\ UNCHANGED <<spool, pairing, process, pc, batch, late, hub, now>>

(* A request the collector gave up on is handled after all.                *)
HubHandlesLate ==
    /\ \E r \in late :
          /\ late' = late \ {r}
          /\ IF r \in Request THEN Activate(r) ELSE Ingest(r)
    /\ UNCHANGED <<spool, pairing, process, pc, call, batch, now, faults>>

(* Time passes between cycles and while a request is out.                  *)
Tick ==
    /\ pc \in {"down", "idle"} \/ call = "asked"
    /\ now < MaxNow /\ now' = now + 1
    /\ UNCHANGED <<spool, pairing, process, pc, call, batch, late, hub, faults>>

Cycle ==
    \/ OtherCycle \/ RefreshTarget
    \/ \E h \in Configs, a \in Aligned : AppendFrames(h, a) \/ AppendFails(h, a)

Answered == CompleteActivation \/ Settle \/ Quarantine \/ Refused

Next ==
    \/ Start \/ Exit \/ Cycle
    \/ Send("current") \/ Send("replay") \/ SkipLane
    \/ Answered \/ CallFails
    \/ HubActivates \/ HubIngests \/ HubIsBusy \/ HubRejects \/ HubHandlesLate \/ Tick

Spec == Init /\ [][Next]_vars

(* launchd restarts the process and the ticker starts the cycles; a call   *)
(* ends by an answer or a timeout; the byte budget refills between cycles, *)
(* so that no lane is skipped for ever.                                    *)
FairSpec ==
    /\ Spec
    /\ WF_vars(Start) /\ WF_vars(Cycle) /\ WF_vars(Send("current") \/ SkipLane)
    /\ SF_vars(Send("current")) /\ SF_vars(Send("replay"))
    /\ WF_vars(Answered) /\ WF_vars(HubActivates) /\ WF_vars(HubIngests)
    /\ SF_vars(Tick)

-----------------------------------------------------------------------------
(* No two observations share a boot and a sequence number, whatever was    *)
(* retried or crashed around an activation: the hub takes such a pair for  *)
(* an exact duplicate or refuses it (ingest.go: ErrOwnershipMismatch).     *)
IdentityIsUnique ==
    \A i, j \in DOMAIN frames :
        frames[i].boot = frames[j].boot /\ frames[i].seq = frames[j].seq
            => i = j

(* The bootstrap is never fenced by its own retries: a lost answer, a late *)
(* copy or a crash leaves a request the hub grants, so that a process does *)
(* not end with ErrGenerationConflict.                                     *)
BootstrapIsGranted == pc = "activate" => call # "refused"

(* Live data never runs backwards: a frame admitted as current is newer    *)
(* than every frame admitted as current before, whatever the process, the  *)
(* session or the delay of its batch.                                      *)
CurrentNeverRegresses ==
    \A m, n \in DOMAIN stored :
        m < n /\ stored[m].mode = "current" /\ stored[n].mode = "current"
            => stored[m].id < stored[n].id

(* A change reported within one process is between two observations that   *)
(* followed each other, even if replay admits them out of order or one in  *)
(* between was lost (ingest.go: the "exact prior config observation").     *)
TransitionIsExact ==
    \A e \in events :
        e.from # 0 /\ frames[e.from].boot = frames[e.to].boot =>
            \A i \in e.from + 1 .. e.to - 1 : frames[i].boot # frames[e.to].boot

(* What the spool may drop as acknowledged is durable at the hub.          *)
AckedIsStored ==
    \A k \in DOMAIN segs :
        \A n \in 1 .. segs[k].ack : segs[k].ids[n] \in Admitted(stored)

(* Hub and collector agree on who observed what: the three together.       *)
SidesAgree == IdentityIsUnique /\ BootstrapIsGranted /\ AckedIsStored

(* Every observation the spool took reaches the hub, through either lane,  *)
(* by this process or a later one, unless its segment was set aside.       *)
EveryFrameArrives ==
    <>[](\A k \in DOMAIN segs :
            segs[k].bad \/ Range(segs[k].ids) \subseteq Admitted(stored))
=============================================================================
