--------------------------- MODULE DeliveryProofs ---------------------------
(***************************************************************************)
(* Proofs about Delivery: collector and hub agree on who observed what and *)
(* what is stored, current data never runs backwards, and a configuration  *)
(* change found within one process is between two observations in a row.   *)
(* They hold for any number of observations, boots and faults.             *)
(*                                                                         *)
(* The invariant follows a frame: Bootstrap and Process give its boot one  *)
(* session, Chronology orders the observations, Spooled keeps them apart   *)
(* until AdmittedRows has them at the hub.                                 *)
(***************************************************************************)
EXTENDS Delivery, FiniteSetTheorems, SequenceTheorems, TLAPS

-----------------------------------------------------------------------------
(* The activation of the n-th boot.                                        *)
RequestOf(n) == [boot |-> n, expected |-> n - 1]

(* Activations: boot n expects session n - 1 and becomes session n; at     *)
(* most the last one is not at the hub, and then it is the pending one.    *)
Bootstrap ==
    /\ Len(sessions) <= boots /\ boots <= Len(sessions) + 1
    /\ \A n \in DOMAIN sessions : sessions[n] = RequestOf(n)
    /\ pending = {} => Len(sessions) = boots /\ previous = boots
    /\ pending # {} =>
          boots = previous + 1 /\ pending = {RequestOf(boots)}
    /\ \A r \in late : r \in Request => r.boot <= boots /\ r = RequestOf(r.boot)

(* A process observes only after its activation is complete.               *)
Process ==
    /\ boot <= boots /\ sequence <= Len(frames)
    /\ call # "none" => pc \in {"activate", "current", "replay"}
    /\ pc = "activate" =>
          /\ pending # {} /\ boot = boots
          /\ call \in {"asked", "granted"}
          /\ call = "granted" => Len(sessions) = boots
    /\ pc \in {"idle", "current", "replay"} =>
          pending = {} /\ boots > 0 /\ boot = boots /\ session = boots

(* What the next observation says it was compared with.                    *)
ClaimOf(f) == [hash |-> f.hash, at |-> f.at]

(* Observations are in order of boot, of time and, within a boot, of       *)
(* sequence number; a predecessor is the observation just before.          *)
Chronology ==
    /\ Len(frames) <= MaxFrames
    /\ \A i, j \in DOMAIN frames : i < j =>
          /\ frames[i].boot <= frames[j].boot /\ frames[i].at < frames[j].at
          /\ frames[i].boot = frames[j].boot => frames[i].seq < frames[j].seq
    /\ \A i \in DOMAIN frames :
          /\ frames[i].boot <= boots
          /\ pending # {} => frames[i].boot < boots
          /\ frames[i].boot = boot => frames[i].seq < sequence
          /\ frames[i].prev # {} =>
                i > 1 /\ frames[i].prev = {ClaimOf(frames[i - 1])}
    /\ lastConfig # {} =>
          frames # <<>> /\ lastConfig = {ClaimOf(frames[Len(frames)])}

(* Frame i was observed by boot b.                                         *)
Of(i, b) == i \in DOMAIN frames /\ frames[i].boot = b

(* A batch has frames of its own boot only, and its session.               *)
Honest(b) ==
    /\ b.session = b.boot /\ b.boot <= boots
    /\ \A n \in DOMAIN b.ids : Of(b.ids[n], b.boot)

(* The records after the first ack, up to the n-th.                        *)
Part(ids, ack, n) == SubSeq(ids, ack + 1, n)

(* Batch b was read from segment k as it still is.                         *)
ReadFrom(b, k) ==
    \E n \in segs[k].ack + 1 .. Len(segs[k].ids) :
        b.ids = Part(segs[k].ids, segs[k].ack, n)

(* Segments hold the frames of one boot each and share none.               *)
Spooled ==
    /\ \A k \in DOMAIN segs :
          /\ segs[k].session = segs[k].boot /\ segs[k].boot <= boots
          /\ segs[k].ack <= Len(segs[k].ids) /\ Len(segs[k].ids) <= Len(frames)
          /\ \A n \in DOMAIN segs[k].ids : Of(segs[k].ids[n], segs[k].boot)
    /\ \A k, l \in DOMAIN segs : k # l =>
          \A m \in DOMAIN segs[k].ids, n \in DOMAIN segs[l].ids :
              segs[k].ids[m] # segs[l].ids[n]
    /\ \A b \in batch : Honest(b) /\ \E k \in DOMAIN segs : ReadFrom(b, k)
    /\ \A b, c \in batch : b = c
    /\ \A b \in late : b \in Batch => Honest(b)

(* Rows are frames of activated boots; an answer speaks the truth.         *)
AdmittedRows ==
    /\ \A n \in DOMAIN stored :
          /\ stored[n].id \in DOMAIN frames
          /\ frames[stored[n].id].boot <= Len(sessions)
    /\ call = "stored" =>
          \A b \in batch : Range(b.ids) \subseteq Admitted(stored)
    /\ AckedIsStored /\ CurrentNeverRegresses

(* A change is about two frames; within a boot, two in a row.              *)
Found(e) ==
    /\ e.from \in 0 .. Len(frames) /\ e.to \in DOMAIN frames
    /\ e.from # 0 /\ frames[e.from].boot = frames[e.to].boot => e.to = e.from + 1

(* The inductive invariant.                                                *)
IInv ==
    /\ TypeOK /\ Bootstrap /\ Process /\ Chronology /\ Spooled /\ AdmittedRows
    /\ \A e \in events : Found(e)

-----------------------------------------------------------------------------
(* Induction over the numbers, by the pigeonhole principle: if a number    *)
(* were missing, so would be its predecessor, and k |-> k - 1 would map    *)
(* the finite set of the missing ones up to it into a smaller set.         *)
LEMMA SetInduction ==
  ASSUME NEW S, 0 \in S, \A n \in Nat : n \in S => n + 1 \in S
  PROVE  Nat \subseteq S
<1>1. SUFFICES ASSUME NEW n \in Nat, n \notin S PROVE FALSE
  OBVIOUS
<1> DEFINE T == {k \in 0 .. n : k \notin S}
           f == [k \in T |-> k - 1]
<1>2. \A k \in T : k - 1 \in T \ {n}
  OBVIOUS
<1>3. n \in T /\ T \subseteq 0 .. n
  BY <1>1
<1>4. f \in [T -> T \ {n}]
  BY <1>2
<1> HIDE DEF T
<1>5. \A x, y \in T : x # y => f[x] # f[y]
  BY <1>3
<1> HIDE DEF f
<1>6. /\ IsFiniteSet(T) /\ IsFiniteSet(T \ {n})
      /\ Cardinality(T \ {n}) < Cardinality(T)
  <2>1. IsFiniteSet(0 .. n)
    BY FS_Interval
  <2>2. IsFiniteSet(T)
    BY <1>3, <2>1, FS_Subset
  <2>3. Cardinality(T) \in Nat
    BY <2>2, FS_CardinalityType
  <2>4. IsFiniteSet(T \ {n}) /\ Cardinality(T \ {n}) = Cardinality(T) - 1
    BY <1>3, <2>2, FS_RemoveElement
  <2> QED BY <2>2, <2>3, <2>4
<1>7. \E x, y \in T : x # y /\ f[x] = f[y]
  BY <1>4, <1>6, FS_PigeonHole
<1> QED BY <1>5, <1>7

(* The same up to a bound.                                                 *)
LEMMA InductionUpTo ==
  ASSUME NEW N \in Nat, NEW S, 0 \in S,
         \A k \in 0 .. N : k < N /\ k \in S => k + 1 \in S
  PROVE  \A k \in 0 .. N : k \in S
<1> DEFINE T == {k \in Nat : k <= N => k \in S}
<1>1. 0 \in T
  OBVIOUS
<1>2. \A k \in Nat : k \in T => k + 1 \in T
  OBVIOUS
<1> HIDE DEF T
<1>3. Nat \subseteq T
  BY <1>1, <1>2, SetInduction
<1> QED BY <1>3 DEF T

(* A set of numbers with a bound has a largest and a smallest member.      *)
LEMMA Extremes ==
  ASSUME NEW n \in Nat, NEW S \in SUBSET (0 .. n), S # {}
  PROVE  Max(S) \in S /\ Min(S) \in S
<1> DEFINE Bounded(T) == \E x, z \in T : \A y \in T : x >= y /\ z <= y
           Good == {m \in Nat : \A T \in SUBSET (0 .. m) : T # {} => Bounded(T)}
<1>1. 0 \in Good
  <2>1. SUFFICES ASSUME NEW T \in SUBSET (0 .. 0), T # {} PROVE Bounded(T)
    OBVIOUS
  <2>2. PICK x \in T : TRUE
    BY <2>1
  <2>3. \A y \in T : y = 0
    OBVIOUS
  <2> QED BY <2>2, <2>3
<1>2. ASSUME NEW m \in Nat, m \in Good PROVE m + 1 \in Good
  <2>1. SUFFICES ASSUME NEW T \in SUBSET (0 .. m + 1), T # {} PROVE Bounded(T)
    OBVIOUS
  <2> DEFINE U == T \cap (0 .. m)
  <2>2. CASE U = {}
    <3>1. \A y \in T : y = m + 1
      BY <2>2
    <3>2. PICK x \in T : TRUE
      BY <2>1
    <3> QED BY <3>1, <3>2
  <2>3. CASE U # {}
    <3>1. PICK x \in U, z \in U : \A y \in U : x >= y /\ z <= y
      BY <1>2, <2>3
    <3>2. CASE m + 1 \in T
      <4>1. \A y \in T : m + 1 >= y /\ z <= y
        BY <3>1, <3>2
      <4> QED BY <3>2, <4>1
    <3>3. CASE m + 1 \notin T
      <4>1. \A y \in T : y \in 0 .. m
        BY <3>3
      <4>2. \A y \in T : x >= y /\ z <= y
        BY <3>1, <4>1
      <4> QED BY <4>2
    <3> QED BY <3>2, <3>3
  <2> QED BY <2>2, <2>3
<1>3. Bounded(S)
  <2>1. Nat \subseteq Good
    <3> HIDE DEF Good
    <3> QED BY <1>1, <1>2, SetInduction
  <2> QED BY <2>1
<1>4. PICK x \in S, z \in S : \A y \in S : x >= y /\ z <= y
  BY <1>3
<1>5. Max(S) \in S
  BY <1>4, Zenon DEF Max
<1>6. Min(S) \in S
  BY <1>4, Zenon DEF Min
<1> QED BY <1>5, <1>6

(* The bounds are numbers.                                                 *)
LEMMA ConstantsAreNumbers ==
  /\ Span \in Nat /\ CurrentAge \in Nat /\ MaxFrames \in Nat
  /\ MaxBoots \in Nat /\ MaxNow \in Nat /\ MaxFaults \in Nat
  BY DeliveryAssumption DEF DeliveryAssumption

(* A request the hub has not handled is an activation or a batch.          *)
LEMMA TwoKinds == \A r : r \in Request => r \notin Batch
<1> SUFFICES ASSUME NEW r, r \in Request, r \in Batch PROVE FALSE
  OBVIOUS
<1>1. "expected" \in DOMAIN r /\ DOMAIN r = {"mode", "boot", "session", "ids"}
  BY DEF Request, Batch
<1> QED BY <1>1

(* What TypeOK says of the parts of the state.                             *)
LEMMA Shapes ==
  ASSUME TypeOK
  PROVE  /\ boots \in Nat /\ boot \in Nat /\ sequence \in Nat /\ now \in Nat
         /\ Len(frames) \in Nat /\ DOMAIN frames = 1 .. Len(frames)
         /\ \A i \in DOMAIN frames :
               /\ frames[i] \in Observation
               /\ frames[i].boot \in Nat /\ frames[i].seq \in Nat
               /\ frames[i].at \in Nat
         /\ Len(segs) \in Nat /\ DOMAIN segs = 1 .. Len(segs)
         /\ \A k \in DOMAIN segs :
               /\ segs[k] \in Segment /\ segs[k].ids \in Seq(Frame)
               /\ segs[k].boot \in Nat /\ segs[k].ack \in Nat
               /\ Len(segs[k].ids) \in Nat
               /\ DOMAIN segs[k].ids = 1 .. Len(segs[k].ids)
         /\ Len(sessions) \in Nat /\ DOMAIN sessions = 1 .. Len(sessions)
         /\ Len(stored) \in Nat /\ DOMAIN stored = 1 .. Len(stored)
<1>1. /\ boots \in Nat /\ boot \in Nat /\ sequence \in Nat /\ now \in Nat
      /\ sessions \in Seq(Request) /\ stored \in Seq(Row)
      /\ frames \in Seq(Observation) /\ segs \in Seq(Segment)
  BY ConstantsAreNumbers DEF TypeOK
<1>2. \A i \in DOMAIN frames : frames[i] \in Observation
  BY <1>1
<1>3. \A f \in Observation : f.boot \in Nat /\ f.seq \in Nat /\ f.at \in Nat
  BY ConstantsAreNumbers DEF Observation, Boot
<1>4. \A k \in DOMAIN segs : segs[k] \in Segment
  BY <1>1
<1>5. \A s \in Segment :
        s.ids \in Seq(Frame) /\ s.boot \in Nat /\ s.ack \in Nat
  BY ConstantsAreNumbers DEF Segment, Boot
<1>6. \A k \in DOMAIN segs : segs[k].ids \in Seq(Frame)
  BY <1>4, <1>5
<1>7. \A s \in Seq(Frame) : Len(s) \in Nat /\ DOMAIN s = 1 .. Len(s)
  OBVIOUS
<1> QED BY <1>1, <1>2, <1>3, <1>4, <1>5, <1>6, <1>7

(* The invariant holds before the first process.                           *)
LEMMA InitIInv == Init => IInv
<1> SUFFICES ASSUME Init PROVE IInv
  OBVIOUS
<1>1. TypeOK
  BY ConstantsAreNumbers DEF Init, TypeOK
<1>2. Bootstrap /\ Process /\ Chronology /\ Spooled /\ \A e \in events : Found(e)
  BY ConstantsAreNumbers DEF Init, Bootstrap, Process, Chronology, Spooled
<1>3. AdmittedRows
  BY DEF Init, AdmittedRows, AckedIsStored, CurrentNeverRegresses
<1> QED BY <1>1, <1>2, <1>3 DEF IInv

(* A step that leaves alone what a part of the invariant speaks of keeps   *)
(* that part.                                                              *)
LEMMA BootstrapKept ==
  Bootstrap /\ UNCHANGED <<sessions, pairing, late>> => Bootstrap'
  BY DEF Bootstrap, pairing

(* The same for the order of observations.                                 *)
LEMMA ChronologyKept ==
  Chronology /\ UNCHANGED <<frames, pairing, process>> => Chronology'
  BY DEF Chronology, pairing, process

(* The same for the rows, as long as no new answer claims a batch.         *)
LEMMA AdmittedKept ==
  /\ AdmittedRows /\ UNCHANGED <<spool, hub>>
  /\ call' = "stored" => call = "stored" /\ batch' = batch
  => AdmittedRows'
  BY DEF AdmittedRows, AckedIsStored, CurrentNeverRegresses, Admitted, spool, hub

(* The same for the spool: batches may be given up, none is made.          *)
LEMMA SpooledKept ==
  /\ Spooled /\ UNCHANGED <<spool, boots>> /\ batch' \subseteq batch
  /\ \A b \in late' : b \in Batch => b \in late \cup batch
  => Spooled'
  BY DEF Spooled, spool, Honest, Of, ReadFrom

(* The same for the configuration changes.                                 *)
LEMMA FoundKept ==
  (\A e \in events : Found(e)) /\ UNCHANGED <<frames, events>>
  => (\A e \in events : Found(e))'
  BY DEF Found

(* Whatever activation is under way was prepared by PrepareActivation.     *)
LEMMA PendingIsSound ==
  ASSUME TypeOK, Bootstrap,
         NEW r \in late \cup pending \cup batch, r \in Request
  PROVE  r.boot <= boots /\ r = RequestOf(r.boot)
<1>1. r \notin batch
  BY TwoKinds DEF TypeOK
<1>2. CASE r \in late
  BY <1>2 DEF Bootstrap
<1>3. CASE r \in pending
  <2>1. r = RequestOf(boots) /\ boots \in Nat
    BY <1>3, Shapes DEF Bootstrap
  <2>2. r.boot = boots
    BY <2>1 DEF RequestOf
  <2> QED BY <2>1, <2>2
<1> QED BY <1>1, <1>2, <1>3

(* A new boot identity is drawn only when the previous activation is       *)
(* complete, so that no observation has it yet.                            *)
LEMMA StartStep == IInv /\ Start => IInv'
<1> SUFFICES ASSUME IInv, Start PROVE IInv'
  OBVIOUS
<1> USE ConstantsAreNumbers
<1>1. /\ frames' = frames /\ segs' = segs /\ previous' = previous
      /\ batch' = batch /\ late' = late /\ sessions' = sessions
      /\ stored' = stored /\ events' = events
      /\ session' = 0 /\ sequence' = 0 /\ lastConfig' = {}
      /\ pc = "down" /\ pc' = "activate" /\ call' = "asked"
      /\ now' = now /\ faults' = faults
  BY DEF Start, spool, hub
<1>2. PICK n \in Boot :
         /\ boots' = n /\ boot' = n /\ pending' = {RequestOf(n)}
         /\ Len(sessions) <= n /\ n <= Len(sessions) + 1 /\ n = previous + 1
         /\ pending = {} => n = boots + 1
         /\ pending # {} => n = boots
  <2>1. CASE pending = {}
    BY <2>1 DEF Start, PrepareActivation, IInv, TypeOK, Bootstrap, RequestOf, Boot
  <2>2. CASE pending # {}
    <3>1. /\ boots' = boots /\ pending' = pending
          /\ \E r \in pending : boot' = r.boot
      BY <2>2 DEF Start, PrepareActivation
    <3>2. /\ pending = {RequestOf(boots)} /\ boots = previous + 1
          /\ Len(sessions) <= boots /\ boots <= Len(sessions) + 1
      BY <2>2 DEF IInv, Bootstrap
    <3>3. boot' = boots
      BY <3>1, <3>2 DEF RequestOf
    <3>4. previous \in Nat /\ boots \in 0 .. MaxBoots
      BY ConstantsAreNumbers DEF IInv, TypeOK
    <3>5. boots \in Boot
      BY <3>2, <3>4 DEF Boot
    <3>6. previous = boots - 1
      BY <3>2, <3>4
    <3> QED BY <2>2, <3>1, <3>2, <3>3, <3>5, <3>6
  <2> QED BY <2>1, <2>2
<1>3. n \in Nat /\ n \in 1 .. MaxBoots /\ boots \in Nat /\ boots <= n
  <2>1. n \in Nat /\ n \in 1 .. MaxBoots
    BY DEF Boot
  <2>2. boots \in Nat
    BY Shapes DEF IInv
  <2> QED BY <1>2, <2>1, <2>2
<1>4. TypeOK'
  <2>1. pending' \subseteq Request
    BY <1>2, <1>3 DEF RequestOf, Request, Boot
  <2>2. batch = {}
    BY <1>1 DEF IInv, TypeOK
  <2> QED BY <1>1, <1>2, <1>3, <2>1, <2>2 DEF IInv, TypeOK
<1>5. Bootstrap'
  <2>1. \A r \in Request : r.boot \in Nat
    BY DEF Request, Boot
  <2>2. \A r \in late : r \in Request => r.boot <= n /\ r = RequestOf(r.boot)
    BY <1>3, <2>1 DEF IInv, Bootstrap
  <2>3. pending' # {} /\ n > 0
    BY <1>2, <1>3
  <2> QED BY <1>1, <1>2, <2>2, <2>3 DEF IInv, Bootstrap
<1>6. Process'
  <2>1. Len(frames) >= 0
    BY Shapes DEF IInv
  <2>2. pending' # {}
    BY <1>2
  <2> QED BY <1>1, <1>2, <1>3, <2>1, <2>2 DEF Process
<1>7. Chronology'
  <2>1. \A i \in DOMAIN frames : frames[i].boot \in Nat /\ frames[i].boot < n
    <3> SUFFICES ASSUME NEW i \in DOMAIN frames
                 PROVE  frames[i].boot \in Nat /\ frames[i].boot < n
      OBVIOUS
    <3>1. frames[i].boot \in Nat
      BY Shapes DEF IInv
    <3>2. frames[i].boot <= boots /\ (pending # {} => frames[i].boot < boots)
      BY DEF IInv, Chronology
    <3> QED BY <1>2, <1>3, <3>1, <3>2
  <2> QED BY <1>1, <1>2, <1>3, <2>1 DEF IInv, Chronology
<1>8. Spooled'
  <2>1. \A k \in DOMAIN segs : segs[k].boot <= n
    BY <1>3, Shapes DEF IInv, Spooled
  <2>2. \A b \in Batch : b.boot \in Nat
    BY DEF Batch, Boot
  <2>3. \A b : b \in Batch /\ Honest(b) => Honest(b)'
    BY <1>1, <1>2, <1>3, <2>2 DEF Honest, Of
  <2>4. batch \subseteq Batch
    BY DEF IInv, TypeOK
  <2>5. Spooled
    BY DEF IInv
  <2> QED BY <1>1, <1>2, <2>1, <2>3, <2>4, <2>5 DEF Spooled, ReadFrom, Of
<1>9. AdmittedRows'
  BY <1>1, AdmittedKept DEF IInv, spool, hub
<1>10. (\A e \in events : Found(e))'
  BY <1>1, FoundKept DEF IInv
<1> QED BY <1>4, <1>5, <1>6, <1>7, <1>8, <1>9, <1>10 DEF IInv

(* What a dead process was asking may still be on its way.                 *)
LEMMA ExitStep == IInv /\ Exit => IInv'
<1> SUFFICES ASSUME IInv, Exit PROVE IInv'
  OBVIOUS
<1> USE ConstantsAreNumbers
<1>1. /\ UNCHANGED <<spool, pairing, process, hub, now>>
      /\ pc' = "down" /\ call' = "none" /\ batch' = {}
      /\ late' \subseteq late \cup pending \cup batch
      /\ faults' \in 0 .. MaxFaults
  BY DEF Exit, Fault, IInv, TypeOK
<1>2. TypeOK'
  BY <1>1 DEF IInv, TypeOK, spool, pairing, process, hub
<1>3. Bootstrap'
  <2>1. \A r \in late' : r \in Request => r.boot <= boots /\ r = RequestOf(r.boot)
    BY <1>1, PendingIsSound DEF IInv
  <2> QED BY <1>1, <2>1 DEF IInv, Bootstrap, pairing, hub
<1>4. Process'
  BY <1>1 DEF IInv, Process, spool, pairing, process, hub
<1>5. Chronology'
  BY <1>1, ChronologyKept DEF IInv, spool
<1>6. Spooled'
  <2>1. \A b \in late' : b \in Batch => b \in late \cup batch
    BY <1>1, TwoKinds DEF IInv, TypeOK
  <2> QED BY <1>1, <2>1, SpooledKept DEF IInv, pairing
<1>7. AdmittedRows'
  BY <1>1, AdmittedKept DEF IInv
<1>8. (\A e \in events : Found(e))'
  BY <1>1, FoundKept DEF IInv, spool, hub
<1> QED BY <1>2, <1>3, <1>4, <1>5, <1>6, <1>7, <1>8 DEF IInv

(* Steps that move the cycle on and touch neither spool nor hub.           *)
LEMMA QuietStep ==
  ASSUME IInv, OtherCycle \/ SkipLane \/ Refused \/ Tick \/ HubIsBusy \/ HubRejects
  PROVE  IInv'
<1> USE ConstantsAreNumbers
<1>1. /\ UNCHANGED <<spool, pairing, process, late, hub>>
      /\ now' \in 0 .. MaxNow /\ faults' \in 0 .. MaxFaults
  <2>1. now \in 0 .. MaxNow /\ faults \in 0 .. MaxFaults
    BY DEF IInv, TypeOK
  <2>2. now' = now \/ (now < MaxNow /\ now' = now + 1)
    BY DEF OtherCycle, SkipLane, Refused, Tick, HubIsBusy, HubRejects
  <2>3. faults' = faults \/ (faults < MaxFaults /\ faults' = faults + 1)
    BY DEF OtherCycle, SkipLane, Refused, Tick, HubIsBusy, HubRejects, Fault
  <2>4. UNCHANGED <<spool, pairing, process, late, hub>>
    BY DEF OtherCycle, SkipLane, Refused, Tick, HubIsBusy, HubRejects, Fault
  <2> QED BY <2>1, <2>2, <2>3, <2>4
<1>2. /\ batch' = batch \/ batch' = {}
      /\ \/ pc' = pc /\ batch' = batch /\ call' = call
         \/ pc' = pc /\ batch' = batch /\ batch # {} /\ call = "asked"
               /\ call' \in {"refused", "poison"}
         \/ pc \in {"idle", "current", "replay"} /\ call' = "none"
               /\ pc' \in {"idle", "current", "replay"}
      /\ batch' # {} <=> pc' \in {"current", "replay"} /\ call' # "none"
  <2>1. batch # {} <=> pc \in {"current", "replay"} /\ call # "none"
    BY DEF IInv, TypeOK
  <2>2. pc = "idle" => call = "none"
    BY DEF IInv, Process
  <2> QED BY <2>1, <2>2 DEF OtherCycle, SkipLane, NextLane, Refused, Tick, HubIsBusy,
                       HubRejects
<1>3. TypeOK'
  BY <1>1, <1>2 DEF IInv, TypeOK, spool, pairing, process, hub
<1>4. Bootstrap'
  BY <1>1, BootstrapKept DEF IInv, hub
<1>5. Process'
  <2>1. batch # {} => pc \in {"current", "replay"}
    BY DEF IInv, TypeOK
  <2> QED BY <1>1, <1>2, <2>1 DEF IInv, Process, spool, pairing, process, hub
<1>6. Chronology'
  BY <1>1, ChronologyKept DEF IInv, spool
<1>7. Spooled'
  BY <1>1, <1>2, SpooledKept DEF IInv, pairing
<1>8. AdmittedRows'
  BY <1>1, <1>2, AdmittedKept DEF IInv
<1>9. (\A e \in events : Found(e))'
  BY <1>1, FoundKept DEF IInv, spool, hub
<1> QED BY <1>3, <1>4, <1>5, <1>6, <1>7, <1>8, <1>9 DEF IInv

(* A revised target is observed without a predecessor.                     *)
LEMMA RefreshTargetStep == IInv /\ RefreshTarget => IInv'
<1> SUFFICES ASSUME IInv, RefreshTarget PROVE IInv'
  OBVIOUS
<1> USE ConstantsAreNumbers
<1>1. /\ UNCHANGED <<spool, pairing, boot, session, sequence, pc, call, batch,
                     late, hub, now>>
      /\ lastConfig' = {} /\ faults' \in 0 .. MaxFaults
  BY DEF RefreshTarget, Fault, IInv, TypeOK
<1>2. TypeOK'
  BY <1>1 DEF IInv, TypeOK, spool, pairing, hub
<1>3. Bootstrap'
  BY <1>1, BootstrapKept DEF IInv, hub
<1>4. Process'
  BY <1>1 DEF IInv, Process, spool, pairing, hub
<1>5. Chronology'
  BY <1>1 DEF IInv, Chronology, spool, pairing
<1>6. Spooled'
  BY <1>1, SpooledKept DEF IInv, pairing
<1>7. AdmittedRows'
  BY <1>1, AdmittedKept DEF IInv
<1>8. (\A e \in events : Found(e))'
  BY <1>1, FoundKept DEF IInv, spool, hub
<1> QED BY <1>2, <1>3, <1>4, <1>5, <1>6, <1>7, <1>8 DEF IInv

(* A call that fails leaves what it asked on its way, or lost.             *)
LEMMA CallFailsStep == IInv /\ CallFails => IInv'
<1> SUFFICES ASSUME IInv, CallFails PROVE IInv'
  OBVIOUS
<1> USE ConstantsAreNumbers
<1>1. /\ UNCHANGED <<spool, pairing, process, hub, now>>
      /\ batch' = {} /\ faults' \in 0 .. MaxFaults
      /\ late' \subseteq late \cup pending \cup batch
      /\ \/ pc = "activate" /\ pc' = pc /\ call' = "asked"
         \/ pc \in {"current", "replay"} /\ pc' = "idle" /\ call' = "none"
  <2>1. faults \in 0 .. MaxFaults
    BY DEF IInv, TypeOK
  <2>2. pc \in {"activate", "current", "replay"}
    BY DEF IInv, Process, CallFails
  <2>3. faults' \in 0 .. MaxFaults
    BY <2>1 DEF CallFails, Fault
  <2>4. late' \subseteq late \cup pending \cup batch
    BY DEF CallFails
  <2> QED BY <2>2, <2>3, <2>4 DEF CallFails
<1>2. TypeOK'
  BY <1>1 DEF IInv, TypeOK, spool, pairing, process, hub
<1>3. Bootstrap'
  <2>1. \A r \in late' : r \in Request => r.boot <= boots /\ r = RequestOf(r.boot)
    BY <1>1, PendingIsSound DEF IInv
  <2> QED BY <1>1, <2>1 DEF IInv, Bootstrap, pairing, hub
<1>4. Process'
  BY <1>1 DEF IInv, Process, spool, pairing, process, hub
<1>5. Chronology'
  BY <1>1, ChronologyKept DEF IInv, spool
<1>6. Spooled'
  <2>1. \A b \in late' : b \in Batch => b \in late \cup batch
    BY <1>1, TwoKinds DEF IInv, TypeOK
  <2> QED BY <1>1, <2>1, SpooledKept DEF IInv, pairing
<1>7. AdmittedRows'
  BY <1>1, AdmittedKept DEF IInv
<1>8. (\A e \in events : Found(e))'
  BY <1>1, FoundKept DEF IInv, spool, hub
<1> QED BY <1>2, <1>3, <1>4, <1>5, <1>6, <1>7, <1>8 DEF IInv

(* A late activation is one the hub knows or the pending one; the pending  *)
(* one is always granted.                                                  *)
LEMMA ActivateIsSound ==
  ASSUME TypeOK, Bootstrap, NEW r \in late \cup pending, r \in Request, Activate(r)
  PROVE  /\ sessions' \in Seq(Request) /\ stored' = stored /\ events' = events
         /\ Len(sessions') \in Nat /\ Len(sessions) <= Len(sessions')
         /\ Len(sessions') <= boots /\ boots <= Len(sessions') + 1
         /\ \A n \in DOMAIN sessions' : sessions'[n] = RequestOf(n)
         /\ pending = {} => Len(sessions') = boots
         /\ r \in pending => Grants(r) /\ Len(sessions') = boots
<1> USE ConstantsAreNumbers
<1> DEFINE len == Len(sessions)
<1>1. /\ sessions \in Seq(Request) /\ boots \in Nat /\ len \in Nat
      /\ DOMAIN sessions = 1 .. len
      /\ stored' = stored /\ events' = events
  BY Shapes DEF TypeOK, Activate
<1>2. len <= boots /\ boots <= len + 1 /\ (pending = {} => len = boots)
  BY DEF Bootstrap
<1>3. \A n \in DOMAIN sessions : sessions[n] = RequestOf(n)
  BY DEF Bootstrap
<1>4. r.boot <= boots /\ r = RequestOf(r.boot) /\ r.boot \in Nat /\ r.boot > 0
  BY PendingIsSound DEF Request, Boot
<1>5. \A n \in DOMAIN sessions : sessions[n].boot = n
  BY <1>3 DEF RequestOf
<1>6. r.expected = r.boot - 1
  BY <1>4 DEF RequestOf
<1>7. r \in pending => r.boot = boots
  BY DEF Bootstrap, RequestOf
<1>8. CASE r.boot <= len
  <2>1. r.boot \in SessionsOf(r.boot)
    BY <1>1, <1>4, <1>5, <1>8 DEF SessionsOf
  <2>2. sessions' = sessions
    BY <2>1 DEF Activate
  <2>3. ASSUME r \in pending PROVE len = boots /\ Grants(r)
    <3> HIDE DEF len
    <3>1. r.boot = boots
      BY <1>7, <2>3
    <3>2. len = boots
      BY <1>1, <1>2, <1>8, <3>1
    <3>3. r = sessions[len]
      BY <1>1, <1>3, <1>4, <1>8, <3>1, <3>2
    <3> QED BY <2>1, <3>2, <3>3 DEF Grants, Last, len
  <2>4. sessions' \in Seq(Request) /\ Len(sessions') = len
    BY <1>1, <2>2
  <2>5. \A n \in DOMAIN sessions' : sessions'[n] = RequestOf(n)
    BY <1>3, <2>2
  <2>6. Len(sessions') \in Nat /\ Len(sessions) <= Len(sessions')
    BY <1>1, <2>4
  <2>7. /\ Len(sessions') <= boots /\ boots <= Len(sessions') + 1
        /\ pending = {} => Len(sessions') = boots
    BY <1>2, <2>4
  <2>8. r \in pending => Grants(r) /\ Len(sessions') = boots
    BY <2>3, <2>4
  <2> QED BY <1>1, <2>4, <2>5, <2>6, <2>7, <2>8
<1>9. CASE r.boot > len
  <2>1. SessionsOf(r.boot) = {}
    BY <1>1, <1>4, <1>5, <1>9 DEF SessionsOf
  <2>2. boots = len + 1 /\ r.boot = boots
    <3> HIDE DEF len
    <3> QED BY <1>1, <1>2, <1>4, <1>9
  <2>3. Grants(r)
    BY <1>1, <1>6, <2>1, <2>2 DEF Grants
  <2>4. sessions' = Append(sessions, r)
    BY <2>1, <2>3 DEF Activate
  <2>5. sessions' \in Seq(Request) /\ Len(sessions') = boots
    BY <1>1, <2>2, <2>4
  <2>6. \A n \in DOMAIN sessions' : sessions'[n] = RequestOf(n)
    BY <1>1, <1>3, <1>4, <2>2, <2>4
  <2> QED BY <1>1, <2>2, <2>3, <2>5, <2>6
<1> QED BY <1>1, <1>4, <1>8, <1>9

(* Another session at the hub takes nothing from the rows.                 *)
LEMMA AdmittedGrows ==
  /\ AdmittedRows /\ UNCHANGED <<spool, stored>>
  /\ Len(sessions) \in Nat /\ Len(sessions') \in Nat
  /\ Len(sessions) <= Len(sessions')
  /\ \A i \in DOMAIN frames : frames[i].boot \in Nat
  /\ call' = "stored" => call = "stored" /\ batch' = batch
  => AdmittedRows'
<1> SUFFICES ASSUME AdmittedRows, UNCHANGED <<spool, stored>>,
                    Len(sessions) \in Nat, Len(sessions') \in Nat,
                    Len(sessions) <= Len(sessions'),
                    \A i \in DOMAIN frames : frames[i].boot \in Nat,
                    call' = "stored" => call = "stored" /\ batch' = batch
             PROVE  AdmittedRows'
  OBVIOUS
<1>1. \A n \in DOMAIN stored :
         /\ stored[n].id \in DOMAIN frames
         /\ frames[stored[n].id].boot <= Len(sessions')
  BY DEF AdmittedRows
<1> QED BY <1>1 DEF AdmittedRows, AckedIsStored, CurrentNeverRegresses, Admitted, spool

(* The activation of the running bootstrap is granted.                     *)
LEMMA HubActivatesStep == IInv /\ HubActivates => IInv'
<1> SUFFICES ASSUME IInv, HubActivates PROVE IInv'
  OBVIOUS
<1>1. /\ UNCHANGED <<spool, pairing, process, pc, batch, late, now, faults>>
      /\ pc = "activate"
  BY DEF HubActivates
<1>2. PICK r \in pending :
         Activate(r) /\ call' = IF Grants(r) THEN "granted" ELSE "refused"
  BY DEF HubActivates
<1>3. r \in Request /\ TypeOK /\ Bootstrap
  BY DEF IInv, TypeOK
<1>4. /\ sessions' \in Seq(Request) /\ UNCHANGED <<stored, events>>
      /\ Len(sessions') \in Nat /\ Len(sessions) <= Len(sessions')
      /\ Len(sessions') = boots /\ call' = "granted"
      /\ \A n \in DOMAIN sessions' : sessions'[n] = RequestOf(n)
  BY <1>2, <1>3, ActivateIsSound
<1>5. TypeOK'
  BY <1>1, <1>3, <1>4 DEF TypeOK, spool, pairing, process
<1>6. Bootstrap'
  BY <1>1, <1>3, <1>4 DEF Bootstrap, pairing
<1>7. Process'
  BY <1>1, <1>4 DEF IInv, Process, spool, pairing, process
<1>8. Chronology'
  BY <1>1, ChronologyKept DEF IInv, spool
<1>9. Spooled'
  BY <1>1, SpooledKept DEF IInv, pairing
<1>10. AdmittedRows'
  BY <1>1, <1>3, <1>4, Shapes, AdmittedGrows DEF IInv
<1>11. (\A e \in events : Found(e))'
  BY <1>1, <1>4, FoundKept DEF IInv, spool
<1> QED BY <1>5, <1>6, <1>7, <1>8, <1>9, <1>10, <1>11 DEF IInv

(* The session a process learns is the one of its boot.                    *)
LEMMA CompleteActivationStep == IInv /\ CompleteActivation => IInv'
<1> SUFFICES ASSUME IInv, CompleteActivation PROVE IInv'
  OBVIOUS
<1>1. /\ UNCHANGED <<spool, boots, boot, sequence, lastConfig, batch, late, hub,
                     now, faults>>
      /\ pc = "activate" /\ call = "granted" /\ pending' = {}
      /\ pc' = "idle" /\ call' = "none"
  BY DEF CompleteActivation
<1>2. /\ boot = boots /\ boots > 0 /\ boots \in Nat /\ Len(sessions) = boots
      /\ boots \in 0 .. MaxBoots
  BY <1>1, Shapes DEF IInv, Process, Bootstrap, TypeOK
<1>3. previous' = boots /\ session' = boots
  <2>1. PICK n \in DOMAIN sessions :
           sessions[n].boot = boot /\ previous' = n /\ session' = n
    BY DEF CompleteActivation
  <2>2. sessions[n] = RequestOf(n)
    BY DEF IInv, Bootstrap
  <2>3. n = boots
    BY <1>2, <2>1, <2>2 DEF RequestOf
  <2> QED BY <2>1, <2>3
<1>4. TypeOK'
  BY <1>1, <1>2, <1>3 DEF IInv, TypeOK, spool, hub
<1>5. Bootstrap'
  BY <1>1, <1>2, <1>3 DEF IInv, Bootstrap, hub
<1>6. Process'
  BY <1>1, <1>2, <1>3 DEF IInv, Process, spool, hub
<1>7. Chronology'
  BY <1>1 DEF IInv, Chronology, spool
<1>8. Spooled'
  BY <1>1, SpooledKept DEF IInv
<1>9. AdmittedRows'
  BY <1>1, AdmittedKept DEF IInv
<1>10. (\A e \in events : Found(e))'
  BY <1>1, FoundKept DEF IInv, spool, hub
<1> QED BY <1>4, <1>5, <1>6, <1>7, <1>8, <1>9, <1>10 DEF IInv

(* What ReadPending takes of a segment: the records after those            *)
(* acknowledged, up to the last one taken.                                 *)
LEMMA PartShape ==
  ASSUME NEW s \in Seq(Frame), NEW c \in Nat, NEW n \in c + 1 .. Len(s)
  PROVE  /\ Part(s, c, n) \in Seq(Frame)
         /\ Len(Part(s, c, n)) \in Nat /\ Len(Part(s, c, n)) >= 1
         /\ DOMAIN Part(s, c, n) = 1 .. Len(Part(s, c, n))
         /\ c + Len(Part(s, c, n)) = n
         /\ \A m \in DOMAIN Part(s, c, n) : \E l \in DOMAIN s : Part(s, c, n)[m] = s[l]
         /\ \A m \in 1 .. n : m <= c \/ s[m] \in Range(Part(s, c, n))
<1> DEFINE t == Part(s, c, n)
<1>1. Len(s) \in Nat /\ DOMAIN s = 1 .. Len(s) /\ n \in Nat
  OBVIOUS
<1>2. /\ t \in Seq(Frame) /\ Len(t) = n - c
      /\ \A m \in 1 .. n - c : t[m] = s[m + c]
  BY <1>1 DEF Part
<1> HIDE DEF t
<1>3. /\ Len(t) \in Nat /\ Len(t) >= 1 /\ c + Len(t) = n
      /\ DOMAIN t = 1 .. Len(t)
  BY <1>1, <1>2
<1>4. ASSUME NEW m \in DOMAIN t PROVE \E l \in DOMAIN s : t[m] = s[l]
  <2>1. m \in 1 .. n - c
    BY <1>2, <1>3
  <2>2. m + c \in DOMAIN s
    BY <1>1, <2>1
  <2> QED BY <1>2, <2>1, <2>2
<1>5. ASSUME NEW m \in 1 .. n, m > c PROVE s[m] \in Range(t)
  <2>1. m - c \in DOMAIN t /\ m - c \in 1 .. n - c /\ (m - c) + c = m
    BY <1>1, <1>2, <1>3, <1>5
  <2>2. t[m - c] = s[m]
    BY <1>2, <2>1
  <2> QED BY <2>1, <2>2 DEF Range
<1>6. \A m \in 1 .. n : m <= c \/ m > c
  BY <1>1
<1> QED BY <1>2, <1>3, <1>4, <1>5, <1>6 DEF t

(* ReadPending gives a segment of the spool.                               *)
LEMMA PendingIsASegment ==
  ASSUME TypeOK, NEW lane, NEW k \in ReadPending(lane)
  PROVE  k \in DOMAIN segs
<1> DEFINE eligible == {l \in DOMAIN segs :
                           /\ ~segs[l].bad /\ segs[l].ack < Len(segs[l].ids)
                           /\ IsCurrent(segs[l]) <=> lane = "current"}
<1>1. eligible # {} /\ k \in {Max(eligible), Min(eligible)}
  BY DEF ReadPending
<1>2. Len(segs) \in Nat /\ eligible \in SUBSET (0 .. Len(segs))
  BY Shapes
<1> HIDE DEF eligible
<1>3. k \in eligible
  BY <1>1, <1>2, Extremes
<1> QED BY <1>3 DEF eligible

(* A batch is a part of one segment.                                       *)
LEMMA SendStep ==
  ASSUME IInv, NEW lane \in {"current", "replay"}, Send(lane)
  PROVE  IInv'
<1>1. /\ UNCHANGED <<spool, pairing, process, pc, late, hub, now, faults>>
      /\ pc = lane /\ call = "none" /\ call' = "asked"
  BY DEF Send
<1>2. PICK k \in ReadPending(lane) : \E n \in segs[k].ack + 1 .. Len(segs[k].ids) :
         batch' = {[mode |-> lane, boot |-> segs[k].boot,
                    session |-> segs[k].session,
                    ids |-> Part(segs[k].ids, segs[k].ack, n)]}
  BY DEF Send, Part
<1>3. PICK n \in segs[k].ack + 1 .. Len(segs[k].ids) :
         batch' = {[mode |-> lane, boot |-> segs[k].boot,
                    session |-> segs[k].session,
                    ids |-> Part(segs[k].ids, segs[k].ack, n)]}
  BY <1>2
<1> DEFINE ids == Part(segs[k].ids, segs[k].ack, n)
           b == [mode |-> lane, boot |-> segs[k].boot,
                 session |-> segs[k].session, ids |-> ids]
<1>4. TypeOK /\ Spooled /\ k \in DOMAIN segs
  BY <1>2, PendingIsASegment DEF IInv
<1>5. /\ segs[k] \in Segment /\ segs[k].ids \in Seq(Frame)
      /\ segs[k].ack \in Nat /\ Len(segs[k].ids) \in Nat
  BY <1>4, Shapes
<1>6. /\ ids \in Seq(Frame)
      /\ \A m \in DOMAIN ids : \E l \in DOMAIN segs[k].ids : ids[m] = segs[k].ids[l]
  BY <1>5, PartShape
<1>7. b \in Batch
  BY <1>5, <1>6 DEF Segment, Batch
<1>8. PICK c \in Batch : c = b /\ batch' = {c}
  BY <1>3, <1>7
<1>9. Honest(c) /\ ReadFrom(c, k)
  <2>1. segs[k].session = segs[k].boot /\ segs[k].boot <= boots
        /\ \A m \in DOMAIN segs[k].ids : Of(segs[k].ids[m], segs[k].boot)
    BY <1>4 DEF Spooled
  <2>2. b.ids = ids /\ b.boot = segs[k].boot /\ b.session = segs[k].session
    OBVIOUS
  <2>3. ReadFrom(b, k)
    BY <1>3 DEF ReadFrom
  <2> HIDE DEF b, ids
  <2> QED BY <1>6, <1>8, <2>1, <2>2, <2>3 DEF Honest
<1> HIDE DEF b
<1>10. TypeOK'
  BY <1>1, <1>4, <1>8 DEF TypeOK, spool, pairing, process, hub
<1>11. Bootstrap'
  BY <1>1, BootstrapKept DEF IInv, hub
<1>12. Process'
  BY <1>1 DEF IInv, Process, spool, pairing, process, hub
<1>13. Chronology'
  BY <1>1, ChronologyKept DEF IInv, spool
<1>14. Spooled'
  <2>1. Honest(c)' /\ ReadFrom(c, k)'
    BY <1>1, <1>9 DEF spool, pairing, Honest, Of, ReadFrom
  <2>2. /\ \A d \in batch' : Honest(d)' /\ \E l \in DOMAIN segs' : ReadFrom(d, l)'
        /\ \A d, e \in batch' : d = e
    BY <1>1, <1>4, <1>8, <2>1 DEF spool
  <2>3. \A d \in late : d \in Batch => Honest(d)'
    BY <1>1, <1>4 DEF Spooled, spool, pairing, Honest, Of
  <2> QED BY <1>1, <1>4, <2>2, <2>3 DEF Spooled, spool, pairing, Of
<1>15. AdmittedRows'
  BY <1>1, AdmittedKept DEF IInv
<1>16. (\A e \in events : Found(e))'
  BY <1>1, FoundKept DEF IInv, spool, hub
<1> QED BY <1>10, <1>11, <1>12, <1>13, <1>14, <1>15, <1>16 DEF IInv

(* The acknowledgement goes to the segment the batch was read from: no     *)
(* other one holds its records.                                            *)
LEMMA SourceIsWhereItWasRead ==
  ASSUME TypeOK, Spooled, NEW b \in batch
  PROVE  /\ Source(b) \in DOMAIN segs /\ ReadFrom(b, Source(b))
         /\ Len(b.ids) \in Nat
<1>1. PICK k \in DOMAIN segs : ReadFrom(b, k)
  BY DEF Spooled
<1>2. PICK n \in segs[k].ack + 1 .. Len(segs[k].ids) :
         b.ids = Part(segs[k].ids, segs[k].ack, n)
  BY <1>1 DEF ReadFrom
<1>3. /\ segs[k].ids \in Seq(Frame) /\ segs[k].ack \in Nat
      /\ Len(segs[k].ids) \in Nat
      /\ DOMAIN segs[k].ids = 1 .. Len(segs[k].ids)
  BY Shapes
<1>4. /\ Len(b.ids) \in Nat /\ DOMAIN b.ids = 1 .. Len(b.ids)
      /\ Len(b.ids) >= 1
      /\ \A m \in DOMAIN b.ids : \E l \in DOMAIN segs[k].ids : b.ids[m] = segs[k].ids[l]
  <2> DEFINE t == Part(segs[k].ids, segs[k].ack, n)
  <2>1. /\ Len(t) \in Nat /\ DOMAIN t = 1 .. Len(t) /\ Len(t) >= 1
        /\ \A m \in DOMAIN t : \E l \in DOMAIN segs[k].ids : t[m] = segs[k].ids[l]
    BY <1>3, PartShape
  <2>2. b.ids = t
    BY <1>2
  <2> HIDE DEF t
  <2> QED BY <2>1, <2>2
<1> DEFINE From(l) == Range(b.ids) \subseteq Range(segs[l].ids)
<1>5. From(k)
  BY <1>4 DEF Range
<1>6. \A l \in DOMAIN segs : From(l) => l = k
  <2>1. SUFFICES ASSUME NEW l \in DOMAIN segs, From(l), l # k PROVE FALSE
    OBVIOUS
  <2>2. b.ids[1] \in Range(b.ids) /\ 1 \in DOMAIN b.ids
    BY <1>4 DEF Range
  <2>3. PICK m \in DOMAIN segs[l].ids : segs[l].ids[m] = b.ids[1]
    BY <2>1, <2>2 DEF Range
  <2>4. PICK j \in DOMAIN segs[k].ids : segs[k].ids[j] = b.ids[1]
    BY <1>4, <2>2
  <2> QED BY <2>1, <2>3, <2>4 DEF Spooled
<1>7. Source(b) = CHOOSE l \in DOMAIN segs : From(l)
  BY DEF Source
<1> HIDE DEF From
<1>8. Source(b) = k
  BY <1>5, <1>6, <1>7
<1> QED BY <1>1, <1>4, <1>8

(* An acknowledged batch moves the mark over its records and no other.     *)
LEMMA WhatAReadCovers ==
  ASSUME TypeOK, NEW b, NEW k \in DOMAIN segs, ReadFrom(b, k)
  PROVE  /\ Len(b.ids) \in Nat
         /\ segs[k].ack + Len(b.ids) <= Len(segs[k].ids)
         /\ \A m \in 1 .. segs[k].ack + Len(b.ids) :
               m <= segs[k].ack \/ segs[k].ids[m] \in Range(b.ids)
<1>1. /\ segs[k].ids \in Seq(Frame) /\ segs[k].ack \in Nat
      /\ Len(segs[k].ids) \in Nat
  BY Shapes
<1>2. PICK n \in segs[k].ack + 1 .. Len(segs[k].ids) :
         b.ids = Part(segs[k].ids, segs[k].ack, n)
  BY DEF ReadFrom
<1>3. /\ Len(b.ids) \in Nat /\ segs[k].ack + Len(b.ids) = n
      /\ \A m \in 1 .. n : m <= segs[k].ack \/ segs[k].ids[m] \in Range(b.ids)
  <2> DEFINE t == Part(segs[k].ids, segs[k].ack, n)
  <2>1. /\ Len(t) \in Nat /\ segs[k].ack + Len(t) = n
        /\ \A m \in 1 .. n : m <= segs[k].ack \/ segs[k].ids[m] \in Range(t)
    BY <1>1, PartShape
  <2>2. b.ids = t
    BY <1>2
  <2> HIDE DEF t
  <2> QED BY <2>1, <2>2
<1>4. n <= Len(segs[k].ids)
  BY <1>1
<1> QED BY <1>3, <1>4

(* An answer changes one segment and nothing else, and may only mark as    *)
(* acknowledged what the hub has.                                          *)
LEMMA SegmentMarked ==
  ASSUME IInv, call' = "none", batch' = {}, pc \in {"current", "replay"},
         NextLane,
         UNCHANGED <<frames, pairing, process, late, hub, now, faults>>,
         NEW k \in DOMAIN segs, segs' \in Seq(Segment), DOMAIN segs' = DOMAIN segs,
         \A l \in DOMAIN segs :
            /\ segs'[l].boot = segs[l].boot /\ segs'[l].session = segs[l].session
            /\ segs'[l].ids = segs[l].ids
            /\ l # k => segs'[l].ack = segs[l].ack,
         segs'[k].ack \in Nat, segs'[k].ack <= Len(segs[k].ids),
         \A m \in 1 .. segs'[k].ack : segs[k].ids[m] \in Admitted(stored)
  PROVE  IInv'
<1>1. pc' \in {"idle", "replay"}
  BY DEF NextLane
<1>2. TypeOK'
  BY <1>1 DEF IInv, TypeOK, pairing, process, hub
<1>3. Bootstrap'
  BY BootstrapKept DEF IInv, hub
<1>4. Process'
  BY <1>1 DEF IInv, Process, pairing, process, hub
<1>5. Chronology'
  BY ChronologyKept DEF IInv
<1>6. Spooled'
  <2>1. Spooled /\ boots' = boots
    BY DEF IInv, pairing
  <2>2. \A l \in DOMAIN segs' :
          /\ segs'[l].session = segs'[l].boot /\ segs'[l].boot <= boots
          /\ segs'[l].ack <= Len(segs'[l].ids) /\ Len(segs'[l].ids) <= Len(frames)
          /\ \A n \in DOMAIN segs'[l].ids : Of(segs'[l].ids[n], segs'[l].boot)
    BY <2>1 DEF Spooled
  <2>3. \A l, m \in DOMAIN segs' : l # m =>
          \A i \in DOMAIN segs'[l].ids, j \in DOMAIN segs'[m].ids :
              segs'[l].ids[i] # segs'[m].ids[j]
    BY <2>1 DEF Spooled
  <2>4. \A b \in late : b \in Batch => Honest(b)'
    BY <2>1 DEF Spooled, Honest, Of
  <2> QED BY <2>1, <2>2, <2>3, <2>4 DEF Spooled, Of
<1>7. AdmittedRows'
  <2>1. AckedIsStored'
    <3>1. SUFFICES ASSUME NEW l \in DOMAIN segs, NEW m \in 1 .. segs'[l].ack
                   PROVE  segs[l].ids[m] \in Admitted(stored)
      BY DEF AckedIsStored, Admitted, hub
    <3>2. CASE l = k
      BY <3>1, <3>2
    <3>3. CASE l # k
      BY <3>1, <3>3 DEF IInv, AdmittedRows, AckedIsStored
    <3> QED BY <3>2, <3>3
  <2> QED BY <2>1 DEF IInv, AdmittedRows, CurrentNeverRegresses, hub
<1>8. (\A e \in events : Found(e))'
  BY FoundKept DEF IInv, hub
<1> QED BY <1>2, <1>3, <1>4, <1>5, <1>6, <1>7, <1>8 DEF IInv

(* What is acknowledged was in the answer.                                 *)
LEMMA SettleStep == IInv /\ Settle => IInv'
<1> SUFFICES ASSUME IInv, Settle PROVE IInv'
  OBVIOUS
<1>1. /\ NextLane /\ call' = "none" /\ batch' = {} /\ call = "stored"
      /\ UNCHANGED <<frames, pairing, process, late, hub, now, faults>>
  BY DEF Settle
<1>2. PICK b \in batch : segs' = [segs EXCEPT ![Source(b)].ack = @ + Len(b.ids)]
  BY DEF Settle
<1>3. PICK k \in DOMAIN segs : k = Source(b) /\ ReadFrom(b, k)
  BY SourceIsWhereItWasRead DEF IInv
<1>4. PICK size \in Nat : size = Len(b.ids) /\ segs[k].ack + size <= Len(segs[k].ids)
         /\ \A m \in 1 .. segs[k].ack + size :
               m <= segs[k].ack \/ segs[k].ids[m] \in Range(b.ids)
  BY <1>3, WhatAReadCovers DEF IInv
<1>5. pc \in {"current", "replay"}
  BY <1>2 DEF IInv, TypeOK
<1>6. /\ segs \in Seq(Segment) /\ segs[k] \in Segment
      /\ segs[k].ack \in Nat /\ segs[k].ids \in Seq(Frame)
      /\ Len(segs[k].ids) \in Nat /\ Len(segs[k].ids) <= MaxFrames
      /\ MaxFrames \in Nat
  <2>1. Len(segs[k].ids) <= Len(frames) /\ Len(frames) \in Nat
    BY Shapes DEF IInv, Spooled
  <2>2. Len(frames) <= MaxFrames
    BY DEF IInv, Chronology
  <2> QED BY <2>1, <2>2, Shapes, ConstantsAreNumbers DEF IInv, TypeOK
<1> DEFINE seg == [segs[k] EXCEPT !.ack = @ + size]
<1>7. segs' = [segs EXCEPT ![k] = seg]
  BY <1>2, <1>3, <1>4
<1>8. /\ seg \in Segment /\ seg.ack = segs[k].ack + size
      /\ seg.boot = segs[k].boot /\ seg.session = segs[k].session
      /\ seg.ids = segs[k].ids
  <2>1. segs[k].ack + size \in 0 .. MaxFrames
    BY <1>4, <1>6
  <2> QED BY <1>6, <2>1 DEF Segment
<1> HIDE DEF seg
<1>9. /\ segs' \in Seq(Segment) /\ DOMAIN segs' = DOMAIN segs /\ segs'[k] = seg
      /\ \A l \in DOMAIN segs : l # k => segs'[l] = segs[l]
  BY <1>6, <1>7, <1>8
<1>10. \A m \in 1 .. seg.ack : segs[k].ids[m] \in Admitted(stored)
  <2>1. Range(b.ids) \subseteq Admitted(stored)
    BY <1>1, <1>2 DEF IInv, AdmittedRows
  <2>2. \A m \in 1 .. segs[k].ack : segs[k].ids[m] \in Admitted(stored)
    BY <1>3 DEF IInv, AdmittedRows, AckedIsStored
  <2> QED BY <1>4, <1>6, <1>8, <2>1, <2>2
<1>11. seg.ack \in Nat /\ seg.ack <= Len(segs[k].ids)
  BY <1>4, <1>6, <1>8
<1> QED BY <1>1, <1>3, <1>5, <1>8, <1>9, <1>10, <1>11, SegmentMarked

(* A segment set aside keeps its marks.                                    *)
LEMMA QuarantineStep == IInv /\ Quarantine => IInv'
<1> SUFFICES ASSUME IInv, Quarantine PROVE IInv'
  OBVIOUS
<1>1. /\ NextLane /\ call' = "none" /\ batch' = {}
      /\ UNCHANGED <<frames, pairing, process, late, hub, now, faults>>
  BY DEF Quarantine
<1>2. PICK b \in batch : segs' = [segs EXCEPT ![Source(b)].bad = TRUE]
  BY DEF Quarantine
<1>3. PICK k \in DOMAIN segs : k = Source(b)
  BY SourceIsWhereItWasRead DEF IInv
<1>4. pc \in {"current", "replay"}
  BY <1>2 DEF IInv, TypeOK, Quarantine
<1>5. segs \in Seq(Segment) /\ segs[k] \in Segment /\ segs[k].ack \in Nat
  BY Shapes DEF IInv, TypeOK
<1> DEFINE seg == [segs[k] EXCEPT !.bad = TRUE]
<1>6. segs' = [segs EXCEPT ![k] = seg]
  BY <1>2, <1>3
<1>7. /\ seg \in Segment /\ seg.ack = segs[k].ack /\ seg.boot = segs[k].boot
      /\ seg.session = segs[k].session /\ seg.ids = segs[k].ids
  BY <1>5 DEF Segment
<1> HIDE DEF seg
<1>8. /\ segs' \in Seq(Segment) /\ DOMAIN segs' = DOMAIN segs /\ segs'[k] = seg
      /\ \A l \in DOMAIN segs : l # k => segs'[l] = segs[l]
  BY <1>5, <1>6, <1>7
<1>9. /\ \A m \in 1 .. segs[k].ack : segs[k].ids[m] \in Admitted(stored)
      /\ segs[k].ack <= Len(segs[k].ids)
  BY DEF IInv, AdmittedRows, AckedIsStored, Spooled
<1> QED BY <1>1, <1>4, <1>5, <1>7, <1>8, <1>9, SegmentMarked

(* The newest observation is of the newest boot, later than all others,    *)
(* and names the one it was compared with.                                 *)
LEMMA ObserveIsSound ==
  ASSUME IInv, pc = "idle", NEW hash \in Configs, NEW aligned \in Aligned,
         Observe(hash, aligned), UNCHANGED pairing
  PROVE  /\ Chronology' /\ boot' = boot /\ session' = session
         /\ frames' \in Seq(Observation) /\ lastConfig' \subseteq Claim
         /\ sequence' \in 0 .. MaxFrames /\ sequence' <= Len(frames')
         /\ Len(frames') = Len(frames) + 1 /\ Len(frames') \in Frame
         /\ \A i \in DOMAIN frames : i \in DOMAIN frames' /\ frames'[i] = frames[i]
         /\ Len(frames') \in DOMAIN frames' /\ frames'[Len(frames')].boot = boots
<1> USE ConstantsAreNumbers
<1>1. /\ frames \in Seq(Observation) /\ Len(frames) \in Nat
      /\ DOMAIN frames = 1 .. Len(frames) /\ boots \in Nat
      /\ sequence \in Nat /\ lastConfig \subseteq Claim
      /\ now \in 0 .. MaxNow /\ now \in Nat
  BY Shapes DEF IInv, TypeOK
<1>2. /\ pending = {} /\ boots > 0 /\ boot = boots /\ sequence <= Len(frames)
      /\ boot \in Boot
  <2>1. pending = {} /\ boots > 0 /\ boot = boots /\ sequence <= Len(frames)
    BY DEF IInv, Process
  <2> QED BY <2>1, <1>1 DEF IInv, TypeOK, Boot
<1>3. /\ Len(frames) < MaxFrames /\ \A i \in DOMAIN frames : frames[i].at < now
      /\ sequence' = sequence + 1 /\ lastConfig' = {[hash |-> hash, at |-> now]}
      /\ boot' = boot /\ session' = session
  BY DEF Observe
<1>4. PICK f : /\ f = [boot |-> boot, seq |-> sequence, at |-> now, hash |-> hash,
                       prev |-> lastConfig, aligned |-> aligned]
               /\ frames' = Append(frames, f)
  BY DEF Observe
<1>5. /\ f.boot = boots /\ f.seq = sequence /\ f.at = now /\ f.prev = lastConfig
      /\ ClaimOf(f) = [hash |-> hash, at |-> now]
  BY <1>2, <1>4 DEF ClaimOf
<1>6. sequence \in 0 .. MaxFrames /\ sequence + 1 \in 0 .. MaxFrames
      /\ sequence + 1 <= Len(frames) + 1 /\ Len(frames) + 1 \in Frame
  BY <1>1, <1>2, <1>3 DEF Frame
<1>7. f \in Observation
  BY <1>1, <1>2, <1>4, <1>6 DEF Observation
<1>8. /\ frames' \in Seq(Observation) /\ Len(frames') = Len(frames) + 1
      /\ DOMAIN frames' = 1 .. Len(frames) + 1
      /\ \A i \in DOMAIN frames : i \in DOMAIN frames' /\ frames'[i] = frames[i]
      /\ frames'[Len(frames) + 1] = f
  BY <1>1, <1>4, <1>7
<1>9. \A i \in DOMAIN frames' : i \in DOMAIN frames \/ i = Len(frames) + 1
  BY <1>1, <1>8
<1>10. \A i \in DOMAIN frames : /\ frames[i].boot \in Nat /\ frames[i].seq \in Nat
                               /\ frames[i].at \in Nat
  BY Shapes DEF IInv
<1>11. /\ \A i, j \in DOMAIN frames : i < j =>
             /\ frames[i].boot <= frames[j].boot /\ frames[i].at < frames[j].at
             /\ frames[i].boot = frames[j].boot => frames[i].seq < frames[j].seq
       /\ \A i \in DOMAIN frames :
             /\ frames[i].boot <= boots
             /\ frames[i].boot = boot => frames[i].seq < sequence
             /\ frames[i].prev # {} =>
                   i > 1 /\ frames[i].prev = {ClaimOf(frames[i - 1])}
       /\ lastConfig # {} =>
             frames # <<>> /\ lastConfig = {ClaimOf(frames[Len(frames)])}
  BY DEF IInv, Chronology
<1>12. pending' = {} /\ boots' = boots
  BY <1>2 DEF pairing
<1>13. Chronology'
  <2>1. Len(frames') <= MaxFrames
    BY <1>1, <1>3, <1>8
  <2>2. ASSUME NEW i \in DOMAIN frames', NEW j \in DOMAIN frames', i < j
        PROVE  /\ frames'[i].boot <= frames'[j].boot /\ frames'[i].at < frames'[j].at
               /\ frames'[i].boot = frames'[j].boot => frames'[i].seq < frames'[j].seq
    <3>1. i \in DOMAIN frames /\ frames'[i] = frames[i]
      BY <1>1, <1>8, <2>2
    <3>2. CASE j \in DOMAIN frames
      <4>1. frames'[j] = frames[j]
        BY <1>8, <3>2
      <4> QED BY <1>11, <2>2, <3>1, <3>2, <4>1
    <3>3. CASE j = Len(frames) + 1
      <4>1. frames'[j] = f
        BY <1>8, <3>3
      <4>2. frames[i].boot <= boots /\ frames[i].at < now
            /\ (frames[i].boot = boots => frames[i].seq < sequence)
        BY <1>2, <1>3, <1>11, <3>1
      <4> QED BY <1>5, <3>1, <4>1, <4>2
    <3> QED BY <1>9, <3>2, <3>3
  <2>3. ASSUME NEW i \in DOMAIN frames'
        PROVE  /\ frames'[i].boot <= boots
               /\ frames'[i].boot = boot => frames'[i].seq < sequence + 1
               /\ frames'[i].prev # {} =>
                     i > 1 /\ frames'[i].prev = {ClaimOf(frames'[i - 1])}
    <3>1. CASE i \in DOMAIN frames
      <4>1. frames'[i] = frames[i]
        BY <1>8, <3>1
      <4>2. i > 1 => frames'[i - 1] = frames[i - 1]
        BY <1>1, <1>8, <3>1
      <4>3. frames[i].boot = boot => frames[i].seq < sequence + 1
        BY <1>1, <1>10, <1>11, <3>1
      <4> QED BY <1>11, <3>1, <4>1, <4>2, <4>3
    <3>2. CASE i = Len(frames) + 1
      <4>1. frames'[i] = f
        BY <1>8, <3>2
      <4>2. ASSUME lastConfig # {}
            PROVE  i > 1 /\ lastConfig = {ClaimOf(frames'[i - 1])}
        <5>1. frames # <<>> /\ lastConfig = {ClaimOf(frames[Len(frames)])}
          BY <1>11, <4>2
        <5>2. Len(frames) \in DOMAIN frames /\ i - 1 = Len(frames) /\ i > 1
          BY <1>1, <3>2, <5>1
        <5>3. frames'[i - 1] = frames[Len(frames)]
          BY <1>8, <5>2
        <5> QED BY <5>1, <5>2, <5>3
      <4>3. sequence < sequence + 1 /\ boots <= boots
        BY <1>1
      <4> QED BY <1>5, <4>1, <4>2, <4>3
    <3> QED BY <1>9, <3>1, <3>2
  <2>4. lastConfig' = {ClaimOf(frames'[Len(frames')])} /\ frames' # <<>>
    BY <1>1, <1>3, <1>5, <1>8
  <2> QED BY <1>3, <1>12, <2>1, <2>2, <2>3, <2>4 DEF Chronology
<1>14. lastConfig' \subseteq Claim
  BY <1>1, <1>3 DEF Claim
<1>15. Len(frames') \in DOMAIN frames' /\ frames'[Len(frames')].boot = boots
  BY <1>1, <1>5, <1>8
<1> QED BY <1>3, <1>6, <1>8, <1>13, <1>14, <1>15

(* What an observation leaves behind, whether the spool takes it or not.   *)
Observed ==
    /\ Chronology' /\ boot' = boot /\ session' = session
    /\ frames' \in Seq(Observation) /\ lastConfig' \subseteq Claim
    /\ sequence' \in 0 .. MaxFrames /\ sequence' <= Len(frames')
    /\ Len(frames') = Len(frames) + 1 /\ Len(frames') \in Frame
    /\ \A i \in DOMAIN frames : i \in DOMAIN frames' /\ frames'[i] = frames[i]
    /\ Len(frames') \in DOMAIN frames' /\ frames'[Len(frames')].boot = boots

(* An observation changes nothing that is already at the hub.              *)
LEMMA ObservedStep ==
  ASSUME IInv, pc = "idle", pc' \in {"idle", "current"}, Observed,
         UNCHANGED <<pairing, call, batch, late, hub, now>>,
         faults' \in 0 .. MaxFaults,
         segs' \in Seq(Segment), Spooled', AckedIsStored'
  PROVE  IInv'
<1>1. TypeOK'
  <2>1. batch = {} /\ call = "none"
    BY DEF IInv, TypeOK, Process
  <2> QED BY <2>1 DEF Observed, IInv, TypeOK, pairing, hub
<1>2. Bootstrap'
  BY BootstrapKept DEF IInv, hub
<1>3. Process'
  BY DEF Observed, IInv, Process, pairing, hub
<1>4. AdmittedRows'
  <2>1. \A n \in DOMAIN stored : /\ stored[n].id \in DOMAIN frames'
                                /\ frames'[stored[n].id].boot <= Len(sessions)
    BY DEF Observed, IInv, AdmittedRows
  <2>2. call' # "stored"
    BY DEF IInv, Process
  <2>3. CurrentNeverRegresses
    BY DEF IInv, AdmittedRows
  <2> QED BY <2>1, <2>2, <2>3 DEF AdmittedRows, CurrentNeverRegresses, hub
<1>5. (\A e \in events : Found(e))'
  <2>1. SUFFICES ASSUME NEW e \in events PROVE Found(e)'
    BY DEF hub
  <2>2. Found(e) /\ DOMAIN frames = 1 .. Len(frames) /\ Len(frames) \in Nat
    BY Shapes DEF IInv
  <2>3. e.from # 0 => e.from \in DOMAIN frames
    BY <2>2 DEF Found
  <2>4. e.from \in 0 .. Len(frames')
    BY <2>2 DEF Found, Observed
  <2> QED BY <2>2, <2>3, <2>4 DEF Found, Observed
<1> QED BY <1>1, <1>2, <1>3, <1>4, <1>5 DEF Observed, IInv

(* A segment that is in order after the observation.                       *)
Fits(seg) ==
    /\ seg.session = seg.boot /\ seg.boot <= boots
    /\ seg.ack <= Len(seg.ids) /\ Len(seg.ids) <= Len(frames')
    /\ \A n \in DOMAIN seg.ids :
          seg.ids[n] \in DOMAIN frames' /\ frames'[seg.ids[n]].boot = seg.boot

(* The record is new to every segment.                                     *)
LEMMA AppendRecordIsSound ==
  ASSUME IInv, pc = "idle", Observed, AppendRecord,
         UNCHANGED <<pairing, batch, late, hub>>
  PROVE  segs' \in Seq(Segment) /\ Spooled' /\ AckedIsStored'
<1> USE ConstantsAreNumbers
<1> DEFINE id == Len(frames) + 1
<1>1. /\ TypeOK /\ Spooled /\ AckedIsStored /\ boots' = boots /\ boots \in Nat
      /\ segs \in Seq(Segment) /\ Len(segs) \in Nat /\ DOMAIN segs = 1 .. Len(segs)
      /\ Len(frames) \in Nat /\ DOMAIN frames = 1 .. Len(frames)
  BY Shapes DEF IInv, TypeOK, AdmittedRows, pairing
<1>2. boot = boots /\ session = boots /\ boots \in Boot /\ now \in 0 .. MaxNow
  <2>1. boot = boots /\ session = boots /\ boots > 0
    BY DEF IInv, Process
  <2> QED BY <1>1, <2>1 DEF TypeOK, Boot
<1>3. /\ id \in Frame /\ id = Len(frames') /\ id \in DOMAIN frames'
      /\ frames'[id].boot = boots
  BY <1>1 DEF Observed
<1>4. id \notin DOMAIN frames
  BY <1>1
<1>5. batch = {}
  BY <1>1 DEF TypeOK, IInv, Process
<1>6. \A b : Honest(b) => Honest(b)'
  BY <1>1 DEF Honest, Of, Observed
<1>7. ASSUME NEW k \in DOMAIN segs
      PROVE  Fits(segs[k]) /\ \A n \in DOMAIN segs[k].ids : segs[k].ids[n] # id
  <2>1. /\ segs[k].session = segs[k].boot /\ segs[k].boot <= boots
        /\ segs[k].ack <= Len(segs[k].ids) /\ Len(segs[k].ids) <= Len(frames)
        /\ \A n \in DOMAIN segs[k].ids : Of(segs[k].ids[n], segs[k].boot)
    BY <1>1 DEF Spooled
  <2>2. Len(segs[k].ids) <= Len(frames')
    BY <1>1, <2>1, Shapes DEF Observed
  <2>3. ASSUME NEW n \in DOMAIN segs[k].ids
        PROVE  /\ segs[k].ids[n] \in DOMAIN frames'
               /\ frames'[segs[k].ids[n]].boot = segs[k].boot
               /\ segs[k].ids[n] # id
    <3>1. PICK i \in DOMAIN frames : i = segs[k].ids[n] /\ frames[i].boot = segs[k].boot
      BY <2>1 DEF Of
    <3>2. i \in DOMAIN frames' /\ frames'[i] = frames[i] /\ i # id
      BY <1>4 DEF Observed
    <3> QED BY <3>1, <3>2
  <2> QED BY <2>1, <2>2, <2>3 DEF Fits
<1> HIDE DEF id
<1>8. ASSUME segs' \in Seq(Segment), \A k \in DOMAIN segs' : Fits(segs'[k]),
             \A k, l \in DOMAIN segs' : k # l =>
                \A m \in DOMAIN segs'[k].ids, n \in DOMAIN segs'[l].ids :
                    segs'[k].ids[m] # segs'[l].ids[n]
      PROVE  Spooled'
  <2>1. \A b \in late' : b \in Batch => Honest(b)'
    BY <1>1, <1>6 DEF Spooled
  <2> QED BY <1>1, <1>5, <1>8, <2>1 DEF Spooled, Fits, Of
<1>9. \A k, l \in DOMAIN segs : k # l =>
        \A m \in DOMAIN segs[k].ids, n \in DOMAIN segs[l].ids :
            segs[k].ids[m] # segs[l].ids[n]
  BY <1>1 DEF Spooled
<1>10. CASE segs' = Append(segs, [boot |-> boot, session |-> session, first |-> now,
                                  ids |-> <<id>>, ack |-> 0, bad |-> FALSE])
  <2>1. PICK seg : /\ seg = [boot |-> boot, session |-> session, first |-> now,
                             ids |-> <<id>>, ack |-> 0, bad |-> FALSE]
                   /\ segs' = Append(segs, seg)
    BY <1>10
  <2>2. seg \in Segment
    BY <1>2, <1>3, <2>1 DEF Segment
  <2>3. /\ seg.boot = boots /\ seg.session = boots /\ seg.ack = 0
        /\ DOMAIN seg.ids = {1} /\ seg.ids[1] = id /\ Len(seg.ids) = 1
    BY <1>2, <2>1
  <2>4. Fits(seg)
    BY <1>1, <1>3, <2>3 DEF Fits, Observed
  <2>5. /\ segs' \in Seq(Segment) /\ DOMAIN segs' = 1 .. Len(segs) + 1
        /\ \A k \in DOMAIN segs : segs'[k] = segs[k]
        /\ segs'[Len(segs) + 1] = seg
    BY <1>1, <2>1, <2>2
  <2>6. \A k \in DOMAIN segs' :
           k \in DOMAIN segs \/ (segs'[k] = seg /\ k = Len(segs) + 1)
    <3>1. \A k \in 1 .. Len(segs) + 1 : k \in 1 .. Len(segs) \/ k = Len(segs) + 1
      BY <1>1
    <3> QED BY <1>1, <2>5, <3>1
  <2>7. \A k \in DOMAIN segs' : Fits(segs'[k])
    BY <1>7, <2>4, <2>5, <2>6
  <2>8. ASSUME NEW k \in DOMAIN segs', NEW l \in DOMAIN segs', k # l,
               NEW m \in DOMAIN segs'[k].ids, NEW n \in DOMAIN segs'[l].ids
        PROVE  segs'[k].ids[m] # segs'[l].ids[n]
    <3>1. CASE k \in DOMAIN segs /\ l \in DOMAIN segs
      BY <1>9, <2>5, <2>8, <3>1
    <3>2. CASE k \in DOMAIN segs /\ segs'[l] = seg
      BY <1>7, <2>3, <2>5, <2>8, <3>2
    <3>3. CASE l \in DOMAIN segs /\ segs'[k] = seg
      BY <1>7, <2>3, <2>5, <2>8, <3>3
    <3> QED BY <2>6, <2>8, <3>1, <3>2, <3>3
  <2>9. AckedIsStored'
    <3>1. Admitted(stored)' = Admitted(stored)
      BY DEF hub, Admitted
    <3>2. \A k \in DOMAIN segs' : \A j \in 1 .. segs'[k].ack :
             segs'[k].ids[j] \in Admitted(stored)
      <4>1. \A k \in DOMAIN segs : \A j \in 1 .. segs'[k].ack :
             segs'[k].ids[j] \in Admitted(stored)
        BY <1>1, <2>5 DEF AckedIsStored
      <4> QED BY <2>3, <2>6, <4>1
    <3> QED BY <3>1, <3>2 DEF AckedIsStored
  <2> QED BY <1>8, <2>5, <2>7, <2>8, <2>9
<1>11. CASE /\ segs # <<>> /\ Last(segs).boot = boot
            /\ Last(segs).ack < Len(Last(segs).ids)
            /\ segs' = [segs EXCEPT ![Len(segs)].ids = Append(@, id)]
  <2>1. PICK L \in DOMAIN segs : L = Len(segs) /\ segs[L].boot = boots
    BY <1>1, <1>2, <1>11 DEF Last
  <2>2. /\ segs[L] \in Segment /\ segs[L].ids \in Seq(Frame) /\ segs[L].ack \in Nat
        /\ Len(segs[L].ids) \in Nat /\ DOMAIN segs[L].ids = 1 .. Len(segs[L].ids)
    BY <1>1, Shapes
  <2> DEFINE ids == Append(segs[L].ids, id)
             seg == [segs[L] EXCEPT !.ids = ids]
  <2>3. segs' = [segs EXCEPT ![L] = seg]
    BY <1>11, <2>1
  <2>4. /\ ids \in Seq(Frame) /\ Len(ids) = Len(segs[L].ids) + 1
        /\ DOMAIN ids = 1 .. Len(segs[L].ids) + 1
        /\ \A n \in DOMAIN segs[L].ids : ids[n] = segs[L].ids[n]
        /\ ids[Len(segs[L].ids) + 1] = id
    BY <1>3, <2>2
  <2>5. \A n \in DOMAIN ids : ids[n] = id \/ (n \in DOMAIN segs[L].ids /\ ids[n] = segs[L].ids[n])
    BY <2>2, <2>4
  <2> HIDE DEF ids
  <2>6. /\ seg \in Segment /\ seg.boot = segs[L].boot /\ seg.session = segs[L].session
        /\ seg.ack = segs[L].ack /\ seg.ids = ids
    BY <2>2, <2>4 DEF Segment
  <2> HIDE DEF seg
  <2>7. Fits(seg)
    <3>1. Len(ids) <= Len(frames')
      <4>1. Len(segs[L].ids) <= Len(frames)
        BY <1>1 DEF Spooled
      <4> QED BY <1>1, <2>2, <2>4, <4>1 DEF Observed
    <3>2. seg.ack <= Len(ids)
      BY <1>7, <2>2, <2>4, <2>6 DEF Fits
    <3>3. \A n \in DOMAIN ids : ids[n] \in DOMAIN frames' /\ frames'[ids[n]].boot = boots
      BY <1>3, <1>7, <2>1, <2>5 DEF Fits
    <3> QED BY <1>7, <2>1, <2>6, <3>1, <3>2, <3>3 DEF Fits
  <2>8. /\ segs' \in Seq(Segment) /\ DOMAIN segs' = DOMAIN segs /\ segs'[L] = seg
        /\ \A k \in DOMAIN segs : k # L => segs'[k] = segs[k]
    BY <1>1, <2>3, <2>6
  <2>9. \A k \in DOMAIN segs' : Fits(segs'[k])
    BY <1>7, <2>7, <2>8
  <2>10. ASSUME NEW k \in DOMAIN segs', NEW l \in DOMAIN segs', k # l,
                NEW m \in DOMAIN segs'[k].ids, NEW n \in DOMAIN segs'[l].ids
         PROVE  segs'[k].ids[m] # segs'[l].ids[n]
    <3>1. CASE k # L /\ l # L
      BY <1>9, <2>8, <2>10, <3>1
    <3>2. CASE k = L
      BY <1>7, <1>9, <2>5, <2>6, <2>8, <2>10, <3>2
    <3>3. CASE l = L
      BY <1>7, <1>9, <2>5, <2>6, <2>8, <2>10, <3>3
    <3> QED BY <3>1, <3>2, <3>3
  <2>11. AckedIsStored'
    <3>1. Admitted(stored)' = Admitted(stored)
      BY DEF hub, Admitted
    <3>2. ASSUME NEW k \in DOMAIN segs, NEW j \in 1 .. segs'[k].ack
          PROVE  segs'[k].ids[j] \in Admitted(stored)
      <4>1. CASE k # L
        BY <1>1, <2>8, <3>2, <4>1 DEF AckedIsStored
      <4>2. CASE k = L
        <5>1. j \in DOMAIN segs[L].ids /\ j \in 1 .. segs[L].ack
          BY <1>7, <2>2, <2>6, <2>8, <3>2, <4>2 DEF Fits
        <5>2. segs'[k].ids[j] = segs[L].ids[j]
          BY <2>4, <2>6, <2>8, <4>2, <5>1
        <5> QED BY <1>1, <5>1, <5>2 DEF AckedIsStored
      <4> QED BY <4>1, <4>2
    <3> QED BY <2>8, <3>1, <3>2 DEF AckedIsStored
  <2> QED BY <1>8, <2>8, <2>9, <2>10, <2>11
<1> QED BY <1>10, <1>11 DEF AppendRecord, id

(* Observe and append.                                                     *)
LEMMA AppendFramesStep ==
  ASSUME IInv, NEW hash \in Configs, NEW aligned \in Aligned,
         AppendFrames(hash, aligned)
  PROVE  IInv'
<1>1. /\ pc = "idle" /\ pc' = "current" /\ Observe(hash, aligned) /\ AppendRecord
      /\ UNCHANGED <<pairing, call, batch, late, hub, now, faults>>
  BY DEF AppendFrames
<1>2. Observed
  BY <1>1, ObserveIsSound DEF Observed
<1>3. segs' \in Seq(Segment) /\ Spooled' /\ AckedIsStored'
  BY <1>1, <1>2, AppendRecordIsSound
<1>4. faults' \in 0 .. MaxFaults
  BY <1>1 DEF IInv, TypeOK
<1> QED BY <1>1, <1>2, <1>3, <1>4, ObservedStep

(* Observe and lose.                                                       *)
LEMMA AppendFailsStep ==
  ASSUME IInv, NEW hash \in Configs, NEW aligned \in Aligned,
         AppendFails(hash, aligned)
  PROVE  IInv'
<1>1. /\ pc = "idle" /\ pc' = "idle" /\ Observe(hash, aligned) /\ Fault("append")
      /\ UNCHANGED <<segs, pairing, call, batch, late, hub, now>>
  BY DEF AppendFails
<1>2. Observed
  BY <1>1, ObserveIsSound DEF Observed
<1>3. faults' \in 0 .. MaxFaults
  BY <1>1, ConstantsAreNumbers DEF IInv, TypeOK, Fault
<1>4. AckedIsStored'
  BY <1>1 DEF IInv, AdmittedRows, AckedIsStored, Admitted, hub
<1>5. \A i, b : Of(i, b) => Of(i, b)'
  BY <1>2 DEF Observed, Of
<1>6. Spooled'
  <2>1. Spooled /\ boots' = boots /\ batch = {} /\ TypeOK
    BY <1>1 DEF IInv, TypeOK, pairing
  <2>2. ASSUME NEW k \in DOMAIN segs
        PROVE  Len(segs[k].ids) <= Len(frames')
    BY <1>2, <2>1, Shapes DEF Spooled, Observed
  <2>3. \A k \in DOMAIN segs : \A n \in DOMAIN segs[k].ids :
           /\ segs[k].ids[n] \in DOMAIN frames'
           /\ frames'[segs[k].ids[n]].boot = segs[k].boot
    BY <1>2, <2>1 DEF Spooled, Observed, Of
  <2>4. \A b \in late : b \in Batch => Honest(b)'
    BY <1>2, <2>1 DEF Spooled, Observed, Honest, Of
  <2> QED BY <1>1, <2>1, <2>2, <2>3, <2>4 DEF Spooled, Of
<1>7. segs' \in Seq(Segment)
  BY <1>1 DEF IInv, TypeOK
<1> QED BY <1>1, <1>2, <1>3, <1>4, <1>6, <1>7, ObservedStep

(* What Rows adds to the rows before for the k-th frame of a batch.        *)
NextRows(b, rows, k) ==
    IF k = 0 THEN stored
    ELSE IF IsFresh(b.ids[k])
         THEN Append(rows[k - 1], [id |-> b.ids[k], mode |-> b.mode])
         ELSE rows[k - 1]

(* Rows has the value its recursive definition describes.                  *)
LEMMA RowsUnfold ==
  ASSUME NEW b, Len(b.ids) \in Nat
  PROVE  Rows(b) = [k \in 0 .. Len(b.ids) |-> NextRows(b, Rows(b), k)]
<1> DEFINE Is(g, n) == g = [k \in 0 .. n |-> NextRows(b, g, k)]
           S == {n \in Nat : \E g : Is(g, n)}
<1>1. 0 \in S
  <2>1. Is([k \in 0 .. 0 |-> stored], 0)
    BY DEF NextRows
  <2> QED BY <2>1
<1>2. ASSUME NEW n \in Nat, n \in S PROVE n + 1 \in S
  <2>1. PICK g : Is(g, n)
    BY <1>2
  <2> DEFINE h == [k \in 0 .. n + 1 |->
                      IF k = n + 1 THEN NextRows(b, g, k) ELSE g[k]]
  <2>2. \A k \in 0 .. n : h[k] = g[k]
    OBVIOUS
  <2> HIDE DEF h
  <2>3. ASSUME NEW k \in 0 .. n + 1 PROVE NextRows(b, h, k) = NextRows(b, g, k)
    <3>1. CASE k = 0
      BY <3>1 DEF NextRows
    <3>2. CASE k # 0
      <4>1. h[k - 1] = g[k - 1]
        BY <2>2, <3>2
      <4> QED BY <4>1 DEF NextRows
    <3> QED BY <3>1, <3>2
  <2>4. \A k \in 0 .. n : g[k] = NextRows(b, g, k)
    BY <2>1
  <2>5. h = [k \in 0 .. n + 1 |-> NextRows(b, g, k)]
    BY <2>4 DEF h
  <2>6. Is(h, n + 1)
    BY <2>3, <2>5
  <2> HIDE DEF Is
  <2> QED BY <2>6
<1> HIDE DEF Is
<1>3. \E g : Is(g, Len(b.ids))
  <2>1. Nat \subseteq S
    <3> HIDE DEF S
    <3> QED BY <1>1, <1>2, SetInduction
  <2> QED BY <2>1
<1>4. Rows(b) = CHOOSE g : Is(g, Len(b.ids))
  BY DEF Rows, NextRows, Is
<1>5. Is(Rows(b), Len(b.ids))
  BY <1>3, <1>4
<1> QED BY <1>5 DEF Is

(* Rows, one frame at a time.                                              *)
LEMMA RowsStep ==
  ASSUME NEW b, Len(b.ids) \in Nat
  PROVE  /\ Rows(b)[0] = stored
         /\ \A k \in 0 .. Len(b.ids) : k < Len(b.ids) =>
               Rows(b)[k + 1] =
                   IF IsFresh(b.ids[k + 1])
                   THEN Append(Rows(b)[k], [id |-> b.ids[k + 1], mode |-> b.mode])
                   ELSE Rows(b)[k]
<1>1. \A k \in 0 .. Len(b.ids) : Rows(b)[k] = NextRows(b, Rows(b), k)
  BY RowsUnfold
<1>2. Rows(b)[0] = stored
  <2>1. 0 \in 0 .. Len(b.ids)
    OBVIOUS
  <2>2. Rows(b)[0] = NextRows(b, Rows(b), 0)
    BY <1>1, <2>1
  <2> QED BY <2>2 DEF NextRows
<1>3. ASSUME NEW k \in 0 .. Len(b.ids), k < Len(b.ids)
      PROVE  Rows(b)[k + 1] =
                IF IsFresh(b.ids[k + 1])
                THEN Append(Rows(b)[k], [id |-> b.ids[k + 1], mode |-> b.mode])
                ELSE Rows(b)[k]
  <2>1. k + 1 \in 0 .. Len(b.ids) /\ k + 1 # 0 /\ (k + 1) - 1 = k
    BY <1>3
  <2>2. Rows(b)[k + 1] = NextRows(b, Rows(b), k + 1)
    BY <1>1, <2>1
  <2> QED BY <2>1, <2>2 DEF NextRows
<1> QED BY <1>2, <1>3

(* Rows that may stand at the hub.                                         *)
Sound(rows) ==
    /\ rows \in Seq(Row)
    /\ \A n \in DOMAIN rows :
          rows[n].id \in DOMAIN frames /\ frames[rows[n].id].boot <= Len(sessions)
    /\ \A m, n \in DOMAIN rows :
          m < n /\ rows[m].mode = "current" /\ rows[n].mode = "current"
              => rows[m].id < rows[n].id

(* One more row: a current one is newer than every current row, be it of   *)
(* the same boot (sequence numbers) or of an earlier session.              *)
LEMMA RowAppended ==
  ASSUME TypeOK, Chronology, NEW rows, Sound(rows),
         NEW i \in DOMAIN frames, i \in Frame, NEW mode \in {"current", "replay"},
         frames[i].boot <= Len(sessions),
         mode = "current" =>
            /\ frames[i].boot = Len(sessions)
            /\ \A row \in Range(rows) :
                  row.mode = "current" /\ frames[row.id].boot = frames[i].boot
                      => frames[row.id].seq < frames[i].seq
  PROVE  LET after == Append(rows, [id |-> i, mode |-> mode])
         IN  /\ Sound(after) /\ i \in Admitted(after)
             /\ Admitted(rows) \subseteq Admitted(after)
<1> DEFINE row == [id |-> i, mode |-> mode]
           after == Append(rows, row)
<1>1. rows \in Seq(Row) /\ row \in Row
  BY DEF Sound, Row
<1>2. /\ after \in Seq(Row) /\ Len(rows) \in Nat /\ DOMAIN rows = 1 .. Len(rows)
      /\ DOMAIN after = 1 .. Len(rows) + 1 /\ after[Len(rows) + 1] = row
      /\ \A n \in DOMAIN rows : n \in DOMAIN after /\ after[n] = rows[n]
  BY <1>1
<1>3. row.id = i /\ row.mode = mode
  OBVIOUS
<1> HIDE DEF after, row
<1>4. \A n \in DOMAIN after : n \in DOMAIN rows \/ n = Len(rows) + 1
  BY <1>2
<1>5. \A n \in DOMAIN after : after[n].id \in DOMAIN frames
                             /\ frames[after[n].id].boot <= Len(sessions)
  BY <1>2, <1>3, <1>4 DEF Sound
<1>6. ASSUME NEW m \in DOMAIN after, NEW n \in DOMAIN after, m < n,
             after[m].mode = "current", after[n].mode = "current"
      PROVE  after[m].id < after[n].id
  <2>1. m \in DOMAIN rows /\ after[m] = rows[m]
    BY <1>2, <1>6
  <2>2. CASE n \in DOMAIN rows
    BY <1>2, <1>6, <2>1, <2>2 DEF Sound
  <2>3. CASE n = Len(rows) + 1
    <3>1. after[n].id = i /\ mode = "current"
      BY <1>2, <1>3, <1>6, <2>3
    <3>2. PICK j \in DOMAIN frames : j = rows[m].id /\ frames[j].boot <= Len(sessions)
      BY <2>1 DEF Sound
    <3>3. rows[m] \in Range(rows)
      BY <2>1 DEF Range
    <3>4. frames[j].boot = frames[i].boot => frames[j].seq < frames[i].seq
      BY <1>6, <2>1, <3>1, <3>2, <3>3
    <3>5. frames[i].boot = Len(sessions)
      BY <3>1
    <3>6. /\ i \in Nat /\ j \in Nat /\ Len(sessions) \in Nat
          /\ frames[j].boot \in Nat /\ frames[i].seq \in Nat /\ frames[j].seq \in Nat
      BY Shapes
    <3>7. i < j => /\ frames[i].boot <= frames[j].boot
                   /\ frames[i].boot = frames[j].boot => frames[i].seq < frames[j].seq
      BY DEF Chronology
    <3>8. ~(i < j) /\ i # j
      BY <3>2, <3>4, <3>5, <3>6, <3>7
    <3> QED BY <2>1, <3>1, <3>2, <3>6, <3>8
  <2> QED BY <1>4, <2>2, <2>3
<1>7. i \in Admitted(after) /\ Admitted(rows) \subseteq Admitted(after)
  <2>1. Len(rows) + 1 \in DOMAIN after
    BY <1>2
  <2> QED BY <1>2, <1>3, <2>1 DEF Admitted
<1> QED BY <1>2, <1>5, <1>6, <1>7 DEF Sound, after, row

(* A batch that is admitted keeps the rows in order and leaves none of its *)
(* frames out.                                                             *)
LEMMA RowsAreSound ==
  ASSUME TypeOK, Chronology, Bootstrap, Sound(stored),
         NEW b \in Batch, Honest(b), Admits(b)
  PROVE  /\ Sound(Rows(b)[Len(b.ids)])
         /\ Admitted(stored) \subseteq Admitted(Rows(b)[Len(b.ids)])
         /\ Range(b.ids) \subseteq Admitted(Rows(b)[Len(b.ids)])
         /\ \A k \in 0 .. Len(b.ids) : Sound(Rows(b)[k])
<1> DEFINE rows == Rows(b)
           N == Len(b.ids)
           Good(k) == /\ Sound(rows[k]) /\ Admitted(stored) \subseteq Admitted(rows[k])
                      /\ \A j \in 1 .. k : b.ids[j] \in Admitted(rows[k])
           S == {k \in 0 .. N : Good(k)}
<1>1. /\ b.ids \in Seq(Frame) /\ N \in Nat /\ DOMAIN b.ids = 1 .. N
      /\ b.mode \in {"current", "replay"} /\ b.boot \in Nat
  BY DEF Batch, Boot
<1>2. /\ rows[0] = stored
      /\ \A k \in 0 .. N : k < N =>
            rows[k + 1] = IF IsFresh(b.ids[k + 1])
                          THEN Append(rows[k], [id |-> b.ids[k + 1], mode |-> b.mode])
                          ELSE rows[k]
  BY <1>1, RowsStep
<1> HIDE DEF rows
<1>3. /\ b.session = b.boot /\ \A n \in DOMAIN b.ids : Of(b.ids[n], b.boot)
      /\ SessionAdmits(b) /\ InOrder(b)
      /\ \A i \in Range(b.ids) : SameIdentity(i) \subseteq {i}
  BY DEF Honest, Admits
<1>4. b.boot <= Len(sessions) /\ (b.mode = "current" => b.boot = Len(sessions))
  BY <1>3, Shapes DEF SessionAdmits, SessionsOf
<1>5. 0 \in S
  BY <1>1, <1>2
<1>6. ASSUME NEW k \in 0 .. N, k < N, k \in S PROVE k + 1 \in S
  <2>1. PICK i \in Frame : i = b.ids[k + 1] /\ i \in Range(b.ids)
    <3>1. k + 1 \in DOMAIN b.ids
      BY <1>1, <1>6
    <3> QED BY <1>1, <3>1 DEF Range
  <2>2. i \in DOMAIN frames /\ frames[i].boot = b.boot
    BY <1>1, <1>3, <1>6, <2>1 DEF Of
  <2>3. Sound(rows[k + 1]) /\ i \in Admitted(rows[k + 1])
        /\ Admitted(rows[k]) \subseteq Admitted(rows[k + 1])
    <3>1. CASE IsFresh(i)
      <4>1. rows[k + 1] = Append(rows[k], [id |-> i, mode |-> b.mode])
        BY <1>2, <1>6, <2>1, <3>1
      <4>2. b.mode = "current" =>
               \A row \in Range(rows[k]) :
                  row.mode = "current" /\ frames[row.id].boot = frames[i].boot
                      => frames[row.id].seq < frames[i].seq
        <5>1. k + 1 \in DOMAIN b.ids /\ (k + 1) - 1 = k
          BY <1>1, <1>6
        <5> QED BY <1>3, <2>1, <2>2, <3>1, <5>1 DEF InOrder, rows
      <4>3. Sound(rows[k])
        BY <1>6
      <4> QED BY <1>1, <1>4, <2>2, <4>1, <4>2, <4>3, RowAppended
    <3>2. CASE ~IsFresh(i)
      <4>1. rows[k + 1] = rows[k]
        BY <1>2, <1>6, <2>1, <3>2
      <4>2. i \in Admitted(stored)
        BY <1>3, <2>1, <3>2 DEF IsFresh, SameIdentity
      <4> QED BY <1>6, <4>1, <4>2
    <3> QED BY <3>1, <3>2
  <2>4. \A j \in 1 .. k + 1 : b.ids[j] \in Admitted(rows[k + 1])
    <3>1. \A j \in 1 .. k + 1 : j \in 1 .. k \/ j = k + 1
      BY <1>1
    <3> QED BY <1>6, <2>1, <2>3, <3>1
  <2> QED BY <1>1, <1>6, <2>3, <2>4
<1>7. \A k \in 0 .. N : Good(k)
  <2>1. \A k \in 0 .. N : k \in S
    <3> HIDE DEF S, N
    <3> QED BY <1>1, <1>5, <1>6, InductionUpTo
  <2> QED BY <2>1
<1>8. Good(N) /\ \A k \in 0 .. N : Sound(rows[k])
  BY <1>1, <1>7
<1>9. Range(b.ids) \subseteq Admitted(rows[N])
  BY <1>1, <1>8 DEF Range
<1> QED BY <1>8, <1>9 DEF rows

(* A predecessor of the same boot is the observation just before.          *)
LEMMA EventsAreExact ==
  ASSUME TypeOK, Chronology, NEW rows, Sound(rows), NEW i \in DOMAIN frames,
         i \in Frame, NEW mode, NEW e \in ConfigEvents(rows, i, mode)
  PROVE  e \in Event /\ Found(e)
<1> DEFINE from == Predecessor(rows, i, mode)
<1>1. e = [from |-> e.from, to |-> i] /\ (e.from = 0 \/ e.from \in from)
  BY DEF ConfigEvents
<1>2. /\ Len(frames) \in Nat /\ DOMAIN frames = 1 .. Len(frames)
      /\ Len(frames) <= MaxFrames /\ MaxFrames \in Nat
      /\ \A j \in DOMAIN frames : frames[j].boot \in Nat /\ frames[j].at \in Nat
  BY Shapes, ConstantsAreNumbers DEF Chronology
<1>3. \A j \in Admitted(rows) : j \in DOMAIN frames
  BY DEF Sound, Admitted
<1>4. ASSUME NEW j \in ClaimedPredecessor(rows, i), frames[i].prev # {}
      PROVE  j \in DOMAIN frames /\ i = j + 1
  <2>1. /\ j \in DOMAIN frames
        /\ [hash |-> frames[j].hash, at |-> frames[j].at] \in frames[i].prev
    BY <1>3 DEF ClaimedPredecessor
  <2>2. i > 1 /\ frames[i].prev = {ClaimOf(frames[i - 1])}
    BY <1>4 DEF Chronology
  <2>3. PICK p \in DOMAIN frames : p = i - 1
    BY <1>2, <2>2
  <2>4. frames[j].at = frames[p].at
    BY <2>1, <2>2, <2>3 DEF ClaimOf
  <2>5. ~(j < p) /\ ~(p < j)
    BY <1>2, <2>1, <2>3, <2>4 DEF Chronology
  <2> QED BY <1>2, <2>1, <2>3, <2>5
<1>5. ASSUME NEW j \in CrossBootPredecessor(rows, i)
      PROVE  j \in DOMAIN frames /\ frames[j].boot # frames[i].boot
  <2> DEFINE before == {k \in Admitted(rows) :
                           /\ frames[k].boot # frames[i].boot
                           /\ frames[k].aligned /\ frames[k].at < frames[i].at}
  <2>1. before # {} /\ j = Max(before)
    BY DEF CrossBootPredecessor
  <2>2. before \in SUBSET (0 .. Len(frames))
    BY <1>2, <1>3
  <2>3. j \in before
    <3> HIDE DEF before
    <3> QED BY <1>2, <2>1, <2>2, Extremes
  <2> QED BY <1>3, <2>3
<1>6. \A j \in from :
         j \in DOMAIN frames /\ (frames[j].boot = frames[i].boot => i = j + 1)
  BY <1>4, <1>5 DEF Predecessor
<1> HIDE DEF from
<1>7. /\ e.to = i
      /\ e.from # 0 => /\ e.from \in DOMAIN frames
                       /\ frames[e.from].boot = frames[i].boot => i = e.from + 1
  BY <1>1, <1>6
<1>8. e.from \in 0 .. Len(frames) /\ e.from \in 0 .. MaxFrames
  BY <1>2, <1>7
<1> QED BY <1>1, <1>7, <1>8 DEF Event, Found

(* One transaction of the hub.                                             *)
LEMMA IngestIsSound ==
  ASSUME TypeOK, Bootstrap, Chronology, AdmittedRows, \A e \in events : Found(e),
         NEW b \in Batch, Honest(b), Ingest(b), UNCHANGED frames
  PROVE  /\ sessions' = sessions /\ stored' \in Seq(Row) /\ events' \subseteq Event
         /\ Sound(stored') /\ Admitted(stored) \subseteq Admitted(stored')
         /\ Admits(b) => Range(b.ids) \subseteq Admitted(stored')
         /\ \A e \in events' : Found(e)
<1>1. Sound(stored)
  BY DEF Sound, AdmittedRows, CurrentNeverRegresses, TypeOK
<1>2. sessions' = sessions /\ events \subseteq Event
  BY DEF Ingest, TypeOK
<1>3. CASE ~Admits(b)
  <2>1. stored' = stored /\ events' = events
    BY <1>3 DEF Ingest
  <2> QED BY <1>1, <1>2, <1>3, <2>1 DEF Sound
<1>4. CASE Admits(b)
  <2>1. /\ stored' = Rows(b)[Len(b.ids)]
        /\ events' = events \cup
              UNION {ConfigEvents(Rows(b)[k - 1], b.ids[k], b.mode) :
                        k \in {k \in DOMAIN b.ids : IsFresh(b.ids[k])}}
    BY <1>4 DEF Ingest
  <2>2. /\ Sound(stored') /\ Admitted(stored) \subseteq Admitted(stored')
        /\ Range(b.ids) \subseteq Admitted(stored')
        /\ \A k \in 0 .. Len(b.ids) : Sound(Rows(b)[k])
    BY <1>1, <1>4, <2>1, RowsAreSound
  <2>3. /\ b.ids \in Seq(Frame) /\ Len(b.ids) \in Nat
        /\ DOMAIN b.ids = 1 .. Len(b.ids)
    BY DEF Batch
  <2>4. ASSUME NEW k \in DOMAIN b.ids,
               NEW e \in ConfigEvents(Rows(b)[k - 1], b.ids[k], b.mode)
        PROVE  e \in Event /\ Found(e)
    <3>1. Sound(Rows(b)[k - 1])
      <4>1. k - 1 \in 0 .. Len(b.ids)
        BY <2>3
      <4> QED BY <2>2, <4>1
    <3>2. b.ids[k] \in DOMAIN frames /\ b.ids[k] \in Frame
      BY <2>3 DEF Honest, Of
    <3> QED BY <2>4, <3>1, <3>2, EventsAreExact
  <2>5. \A e \in events' : e \in Event /\ Found(e)
    BY <1>2, <2>1, <2>4
  <2> QED BY <1>2, <2>2, <2>5 DEF Sound
<1> QED BY <1>3, <1>4

(* The transaction as a step, of the running call or of a late one.        *)
LEMMA IngestedStep ==
  ASSUME IInv, NEW b \in Batch, Honest(b), Ingest(b), late' \subseteq late,
         UNCHANGED <<spool, pairing, process, pc, batch, now, faults>>,
         \/ call' = call
         \/ /\ call = "asked" /\ batch = {b}
            /\ call' = IF Admits(b) THEN "stored" ELSE "refused"
  PROVE  IInv'
<1>1. /\ sessions' = sessions /\ stored' \in Seq(Row) /\ events' \subseteq Event
      /\ Sound(stored') /\ Admitted(stored) \subseteq Admitted(stored')
      /\ Admits(b) => Range(b.ids) \subseteq Admitted(stored')
      /\ \A e \in events' : Found(e)
  BY IngestIsSound DEF IInv, spool
<1>2. call' # "none" <=> call # "none"
  OBVIOUS
<1>3. batch # {} <=> pc \in {"current", "replay"} /\ call # "none"
  BY DEF IInv, TypeOK
<1>4. TypeOK'
  BY <1>1, <1>2, <1>3 DEF IInv, TypeOK, spool, pairing, process
<1>5. Bootstrap'
  BY <1>1 DEF IInv, Bootstrap, pairing
<1>6. Process'
  <2>1. call' = call \/ pc # "activate"
    BY <1>3
  <2> QED BY <1>1, <1>2, <2>1 DEF IInv, Process, spool, pairing, process
<1>7. Chronology'
  BY ChronologyKept DEF IInv, spool
<1>8. Spooled'
  BY SpooledKept DEF IInv, pairing
<1>9. AdmittedRows'
  <2>1. Admitted(stored)' = Admitted(stored')
    BY DEF Admitted
  <2>2. AckedIsStored'
    BY <1>1, <2>1 DEF IInv, AdmittedRows, AckedIsStored, spool
  <2>3. CurrentNeverRegresses'
    BY <1>1 DEF Sound, CurrentNeverRegresses
  <2>4. call' = "stored" =>
           \A c \in batch' : Range(c.ids) \subseteq Admitted(stored')
    BY <1>1 DEF IInv, AdmittedRows
  <2> QED BY <1>1, <2>1, <2>2, <2>3, <2>4 DEF AdmittedRows, Sound, spool
<1>10. (\A e \in events : Found(e))'
  BY <1>1 DEF Found, spool
<1> QED BY <1>4, <1>5, <1>6, <1>7, <1>8, <1>9, <1>10 DEF IInv

(* The hub answers the running call.                                       *)
LEMMA HubIngestsStep == IInv /\ HubIngests => IInv'
<1> SUFFICES ASSUME IInv, HubIngests PROVE IInv'
  OBVIOUS
<1>1. PICK b \in batch :
         Ingest(b) /\ call' = IF Admits(b) THEN "stored" ELSE "refused"
  BY DEF HubIngests
<1>2. /\ UNCHANGED <<spool, pairing, process, pc, batch, late, now, faults>>
      /\ call = "asked"
  BY DEF HubIngests
<1>3. b \in Batch /\ Honest(b) /\ batch = {b}
  BY DEF IInv, TypeOK, Spooled
<1> QED BY <1>1, <1>2, <1>3, IngestedStep

(* The hub handles what the collector gave up on.                          *)
LEMMA HubHandlesLateStep == IInv /\ HubHandlesLate => IInv'
<1> SUFFICES ASSUME IInv, HubHandlesLate PROVE IInv'
  OBVIOUS
<1>1. PICK r \in late : /\ late' = late \ {r}
                        /\ IF r \in Request THEN Activate(r) ELSE Ingest(r)
  BY DEF HubHandlesLate
<1>2. UNCHANGED <<spool, pairing, process, pc, call, batch, now, faults>>
  BY DEF HubHandlesLate
<1>3. TypeOK /\ Bootstrap /\ r \in Request \cup Batch
  BY DEF IInv, TypeOK
<1>4. CASE r \notin Request
  <2>1. r \in Batch /\ Honest(r) /\ Ingest(r)
    BY <1>1, <1>3, <1>4 DEF IInv, Spooled
  <2> QED BY <1>1, <1>2, <2>1, IngestedStep
<1>5. CASE r \in Request
  <2>1. /\ sessions' \in Seq(Request) /\ UNCHANGED <<stored, events>>
        /\ Len(sessions') \in Nat /\ Len(sessions) <= Len(sessions')
        /\ Len(sessions') <= boots /\ boots <= Len(sessions') + 1
        /\ \A n \in DOMAIN sessions' : sessions'[n] = RequestOf(n)
        /\ pending = {} => Len(sessions') = boots
    BY <1>1, <1>3, <1>5, ActivateIsSound
  <2>2. TypeOK'
    BY <1>1, <1>2, <1>3, <2>1 DEF TypeOK, spool, pairing, process
  <2>3. Bootstrap'
    BY <1>1, <1>2, <1>3, <2>1 DEF Bootstrap, pairing
  <2>4. Process'
    <3>1. Len(sessions) \in Nat /\ boots \in Nat
      BY <1>3, Shapes
    <3>2. Len(sessions) = boots => Len(sessions') = boots
      BY <2>1, <3>1
    <3> QED BY <1>2, <2>1, <3>2 DEF IInv, Process, spool, pairing, process
  <2>5. Chronology'
    BY <1>2, ChronologyKept DEF IInv, spool
  <2>6. Spooled'
    BY <1>1, <1>2, SpooledKept DEF IInv, pairing
  <2>7. AdmittedRows'
    BY <1>2, <1>3, <2>1, Shapes, AdmittedGrows DEF IInv
  <2>8. (\A e \in events : Found(e))'
    BY <1>2, <2>1, FoundKept DEF IInv, spool
  <2> QED BY <2>2, <2>3, <2>4, <2>5, <2>6, <2>7, <2>8 DEF IInv
<1> QED BY <1>4, <1>5

(* A step that changes nothing.                                            *)
LEMMA StutterStep == IInv /\ UNCHANGED vars => IInv'
<1> SUFFICES ASSUME IInv, UNCHANGED vars PROVE IInv'
  OBVIOUS
<1>1. UNCHANGED <<spool, pairing, process, pc, call, batch, late, hub, now, faults>>
  BY DEF vars
<1>2. TypeOK'
  BY <1>1 DEF IInv, TypeOK, spool, pairing, process, hub
<1>3. Bootstrap' /\ Process'
  BY <1>1 DEF IInv, Bootstrap, Process, spool, pairing, process, hub
<1>4. Chronology'
  BY <1>1, ChronologyKept DEF IInv, spool
<1>5. Spooled'
  BY <1>1, SpooledKept DEF IInv, pairing
<1>6. AdmittedRows'
  BY <1>1, AdmittedKept DEF IInv
<1>7. (\A e \in events : Found(e))'
  BY <1>1, FoundKept DEF IInv, spool, hub
<1> QED BY <1>2, <1>3, <1>4, <1>5, <1>6, <1>7 DEF IInv

(* The inductive invariant holds in every reachable state, whatever is     *)
(* lost, late, refused or crashed.                                         *)
THEOREM Invariance == Spec => []IInv
<1>1. IInv /\ [Next]_vars => IInv'
  <2> SUFFICES ASSUME IInv, [Next]_vars PROVE IInv'
    OBVIOUS
  <2>1. CASE Start \/ Exit \/ RefreshTarget \/ CallFails
    BY <2>1, StartStep, ExitStep, RefreshTargetStep, CallFailsStep
  <2>2. CASE OtherCycle \/ SkipLane \/ Refused \/ Tick \/ HubIsBusy \/ HubRejects
    BY <2>2, QuietStep
  <2>3. ASSUME NEW h \in Configs, NEW a \in Aligned,
               AppendFrames(h, a) \/ AppendFails(h, a)
        PROVE  IInv'
    BY <2>3, AppendFramesStep, AppendFailsStep
  <2>4. CASE Send("current") \/ Send("replay")
    BY <2>4, SendStep
  <2>5. CASE CompleteActivation \/ Settle \/ Quarantine
    BY <2>5, CompleteActivationStep, SettleStep, QuarantineStep
  <2>6. CASE HubActivates \/ HubIngests \/ HubHandlesLate
    BY <2>6, HubActivatesStep, HubIngestsStep, HubHandlesLateStep
  <2>7. CASE UNCHANGED vars
    BY <2>7, StutterStep
  <2> QED BY <2>1, <2>2, <2>3, <2>4, <2>5, <2>6, <2>7 DEF Next, Cycle, Answered
<1> QED BY <1>1, InitIInv, PTL DEF Spec

(* Every variable keeps its type, and the bounds of the model hold.        *)
THEOREM TypeCorrectness == Spec => []TypeOK
<1>1. IInv => TypeOK
  BY DEF IInv
<1> QED BY <1>1, Invariance, PTL

(* Collector and hub agree: no two observations share an identity, no      *)
(* bootstrap is fenced by its own retries, and what the spool counts as    *)
(* acknowledged is stored (pairing/state.go, spool.go Ack, ingest.go).     *)
THEOREM SidesAlwaysAgree == Spec => []SidesAgree
<1>1. IInv => SidesAgree
  <2> SUFFICES ASSUME IInv PROVE SidesAgree
    OBVIOUS
  <2>1. IdentityIsUnique
    <3> SUFFICES ASSUME NEW i \in DOMAIN frames, NEW j \in DOMAIN frames,
                        frames[i].boot = frames[j].boot,
                        frames[i].seq = frames[j].seq
                 PROVE  i = j
      BY DEF IdentityIsUnique
    <3>1. i \in Nat /\ j \in Nat /\ frames[i].seq \in Nat
      BY Shapes DEF IInv
    <3>2. ~(i < j) /\ ~(j < i)
      BY <3>1 DEF IInv, Chronology
    <3> QED BY <3>1, <3>2
  <2>2. BootstrapIsGranted
    BY DEF IInv, Process, BootstrapIsGranted
  <2>3. AckedIsStored
    BY DEF IInv, AdmittedRows
  <2> QED BY <2>1, <2>2, <2>3 DEF SidesAgree
<1> QED BY <1>1, Invariance, PTL

(* Data admitted as current never runs backwards, whatever boot, session   *)
(* or delay it comes from (ingest.go validateBatchSession and              *)
(* validateCurrentFrameOrder).                                             *)
THEOREM CurrentNeverRunsBack == Spec => []CurrentNeverRegresses
<1>1. IInv => CurrentNeverRegresses
  BY DEF IInv, AdmittedRows
<1> QED BY <1>1, Invariance, PTL

(* A configuration change found within one process is between an           *)
(* observation and the very next one (ingest.go                            *)
(* verifiedConfigPredecessor).                                             *)
THEOREM TransitionsAreExact == Spec => []TransitionIsExact
<1>1. IInv => TransitionIsExact
  <2> SUFFICES ASSUME IInv, NEW e \in events, e.from # 0,
                      frames[e.from].boot = frames[e.to].boot
               PROVE  e.from + 1 .. e.to - 1 = {}
    BY DEF TransitionIsExact
  <2>1. e.to = e.from + 1 /\ e.from \in Nat
    BY Shapes DEF IInv, Found
  <2> QED BY <2>1
<1> QED BY <1>1, Invariance, PTL
=============================================================================
