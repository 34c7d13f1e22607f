-------------------------- MODULE CollectorProofs --------------------------
(***************************************************************************)
(* What a hub and a collector agree on, for any number of processes,       *)
(* losses, tokens, keys and certificates and whichever calls fail: that    *)
(* the hub counts each loss once and before the collector forgets it       *)
(* (ControlLane), and that they name one identity (Enrollment).            *)
(***************************************************************************)
EXTENDS ControlLane, Enrollment, SequenceTheorems, TLAPS

Message == [boot : Nat, seq : Nat, at : Nat, losses : SUBSET Nat]

Apart(q) ==
    \A i, j \in DOMAIN q : i # j => q[i].losses \cap q[j].losses = {}

Numbers ==
    /\ queue \in Seq(Interval) /\ Apart(queue)
    /\ revision \in Nat /\ recorded \in Nat
    /\ boot \in Nat /\ sequence \in Nat /\ session = boot
    /\ pendingLossRev \in Nat /\ pendingLosses \in Nat
    /\ hubNow \in Nat /\ cycleNow \in Nat /\ now \in Nat

Messages ==
    /\ stored \subseteq Message /\ late \subseteq Message
    /\ pendingStatus \subseteq Message
    /\ \A m \in stored \cup late \cup pendingStatus : m.boot <= boot

(* A loss that is not yet recorded is in no interval and no message.       *)
Counted ==
    /\ \A l \in LossesOf(queue) : l \in Nat /\ l <= recorded
    /\ \A m \in stored \cup pendingStatus : \A l \in m.losses : l <= recorded

(* The one message under way has the number in use, and while the journal  *)
(* has not moved on it carries exactly the intervals it is to drop.        *)
OneMessage ==
    /\ \A p, q \in pendingStatus : p = q
    /\ \A p \in pendingStatus : p.boot = boot /\ p.seq = sequence
    /\ pendingLossRev <= revision
    /\ pendingLosses = 0 => \A p \in pendingStatus : p.losses = {}

CarriesItsPrefix ==
    (pendingStatus # {} /\ pendingLosses > 0 /\ pendingLossRev = revision) =>
        /\ pendingLosses <= Len(queue)
        /\ \A p \in pendingStatus :
              p.losses = LossesOf(SubSeq(queue, 1, pendingLosses))

(* What an answer says of the message under way stays true.                *)
AnswersStand ==
    pc = "wait" =>
        /\ pendingStatus # {}
        /\ call \in {"stored", "duplicate"} => pendingStatus \subseteq stored
        /\ call = "expired" => \A p \in pendingStatus :
              p \notin stored /\ p.at + Window < hubNow

(* Every number below the one in use is taken at the hub.                  *)
SettledAreStored ==
    \A n \in Nat : n < sequence =>
        \E t \in stored : t.boot = boot /\ t.seq = n

(* A copy that is still on its way is of the message under way, or its     *)
(* number is taken, or it is too old to be admitted.                       *)
LateIsHarmless ==
    \A m \in late : m.boot = boot =>
        m \in pendingStatus \/ m.seq < sequence \/ m.at + Window < hubNow

(* What this process has told is in no interval and no other message.      *)
ToldIsGone ==
    \A t \in stored : t.boot = boot =>
        /\ t \notin pendingStatus =>
              \A l \in t.losses : l \notin LossesOf(queue)
        /\ \A p \in pendingStatus : t # p =>
              \A l \in t.losses : l \notin p.losses

Lane ==
    /\ Numbers /\ Messages /\ Counted
    /\ OneMessage /\ CarriesItsPrefix /\ AnswersStand
    /\ SettledAreStored /\ LateIsHarmless /\ ToldIsGone
    /\ SequenceAgrees /\ DroppedIsStored /\ ToldOncePerProcess

(* The types of the constants of ControlLane.                              *)
LEMMA ConstantsAreNumbers ==
    Cap \in Nat \ {0} /\ Window \in Nat /\ MaxLosses \in Nat
  BY ControlLaneAssumption

-----------------------------------------------------------------------------
(* The losses of a journal.                                                *)

(* A loss of a queue is a loss of one of its intervals.                    *)
LEMMA InLossesOf ==
    ASSUME NEW q, NEW l
    PROVE  l \in LossesOf(q) <=> \E i \in DOMAIN q : l \in q[i].losses
  BY DEF LossesOf

(* A journal is its prefix and its suffix; they have no loss in common.    *)
LEMMA PrefixAndSuffix ==
    ASSUME NEW q \in Seq(Interval), Apart(q), NEW n \in 0 .. Len(q)
    PROVE  LET head == SubSeq(q, 1, n)
               tail == SubSeq(q, n + 1, Len(q))
           IN  /\ tail \in Seq(Interval) /\ Apart(tail) /\ Len(head) = n
               /\ \A l : l \in LossesOf(q) <=> l \in LossesOf(head) \/ l \in LossesOf(tail)
               /\ \A l \in LossesOf(head) : l \notin LossesOf(tail)
<1> DEFINE head == SubSeq(q, 1, n)
           tail == SubSeq(q, n + 1, Len(q))
<1>1. Len(q) \in Nat /\ n \in Nat /\ n <= Len(q) /\ DOMAIN q = 1 .. Len(q)
  OBVIOUS
<1>2. /\ head \in Seq(Interval) /\ Len(head) = n /\ DOMAIN head = 1 .. n
      /\ \A i \in 1 .. n : head[i] = q[i]
  BY <1>1
<1>3. /\ tail \in Seq(Interval) /\ Len(tail) = Len(q) - n
      /\ DOMAIN tail = 1 .. (Len(q) - n)
      /\ \A i \in 1 .. (Len(q) - n) : tail[i] = q[i + n]
  <2>1. \A i \in n + 1 .. Len(q) : q[i] \in Interval
    BY <1>1
  <2>2. /\ tail \in Seq(Interval)
        /\ Len(tail) = IF n + 1 <= Len(q) THEN Len(q) - (n + 1) + 1 ELSE 0
        /\ \A i \in 1 .. Len(q) - (n + 1) + 1 : tail[i] = q[(n + 1) + i - 1]
    <3>1. n + 1 \in Int /\ Len(q) \in Int
      BY <1>1
    <3> HIDE DEF tail
    <3> QED
      BY <2>1, <3>1, SubSeqProperties DEF tail
  <2> HIDE DEF tail
  <2>3. Len(tail) = Len(q) - n
    <3> DEFINE all == Len(q)
    <3>1. Len(tail) = IF n + 1 <= all THEN all - (n + 1) + 1 ELSE 0
      BY <2>2
    <3>2. all \in Nat /\ n \in Nat /\ n <= all
      BY <1>1
    <3> HIDE DEF all
    <3>3. (IF n + 1 <= all THEN all - (n + 1) + 1 ELSE 0) = all - n
      BY <3>2
    <3>4. Len(tail) = all - n
      BY <3>1, <3>3
    <3> QED
      BY <3>4 DEF all
  <2>4. DOMAIN tail = 1 .. Len(tail)
    BY <2>2
  <2>5. ASSUME NEW i \in 1 .. (Len(q) - n) PROVE tail[i] = q[i + n]
    <3>1. (n + 1) + i - 1 = i + n /\ i \in 1 .. Len(q) - (n + 1) + 1
      BY <1>1
    <3> QED
      BY <2>2, <3>1
  <2> QED
    BY <2>2, <2>3, <2>4, <2>5
<1> HIDE DEF head, tail
<1>4. Apart(tail)
  <2> SUFFICES ASSUME NEW i \in DOMAIN tail, NEW j \in DOMAIN tail, i # j
               PROVE  tail[i].losses \cap tail[j].losses = {}
    BY DEF Apart
  <2>1. /\ i + n \in DOMAIN q /\ j + n \in DOMAIN q /\ i + n # j + n
        /\ tail[i] = q[i + n] /\ tail[j] = q[j + n]
    BY <1>1, <1>3
  <2> QED
    BY <2>1 DEF Apart
<1>5. ASSUME NEW l, l \in LossesOf(q) PROVE l \in LossesOf(head) \/ l \in LossesOf(tail)
  <2>1. PICK i \in DOMAIN q : l \in q[i].losses
    BY <1>5, InLossesOf
  <2>2. CASE i <= n
    <3>1. i \in DOMAIN head /\ head[i] = q[i]
      BY <1>1, <1>2, <2>2
    <3> QED
      BY <2>1, <3>1, InLossesOf
  <2>3. CASE ~(i <= n)
    <3>1. i - n \in DOMAIN tail /\ (i - n) + n = i
      BY <1>1, <1>3, <2>3
    <3>2. tail[i - n] = q[i]
      BY <1>3, <3>1
    <3> QED
      BY <2>1, <3>1, <3>2, InLossesOf
  <2> QED
    BY <2>2, <2>3
<1>6. ASSUME NEW l, l \in LossesOf(head) PROVE l \in LossesOf(q) /\ l \notin LossesOf(tail)
  <2>1. PICK i \in DOMAIN head : l \in head[i].losses
    BY <1>6, InLossesOf
  <2>2. i \in DOMAIN q /\ head[i] = q[i] /\ i <= n
    BY <1>1, <1>2
  <2>3. ASSUME NEW j \in DOMAIN tail PROVE l \notin tail[j].losses
    <3>1. j + n \in DOMAIN q /\ i # j + n /\ tail[j] = q[j + n]
      BY <1>1, <1>3, <2>2
    <3> QED
      BY <2>1, <2>2, <3>1 DEF Apart
  <2> QED
    BY <2>1, <2>2, <2>3, InLossesOf
<1>7. ASSUME NEW l, l \in LossesOf(tail) PROVE l \in LossesOf(q)
  <2>1. PICK j \in DOMAIN tail : l \in tail[j].losses
    BY <1>7, InLossesOf
  <2>2. j + n \in DOMAIN q /\ tail[j] = q[j + n]
    BY <1>1, <1>3
  <2> QED
    BY <2>1, <2>2, InLossesOf
<1> QED
  BY <1>2, <1>3, <1>4, <1>5, <1>6, <1>7 DEF head, tail

(* A recorded loss joins one interval or opens one.                        *)
LEMMA LossJoins ==
    ASSUME Numbers, Counted, NEW key \in Keys, RecordLoss(key)
    PROVE  /\ queue' \in Seq(Interval) /\ Apart(queue')
           /\ \A l : l \in LossesOf(queue') <=> l \in LossesOf(queue) \/ l = recorded + 1
<1> DEFINE new == recorded + 1
<1>1. new \in Loss /\ recorded \in Nat /\ new \in Nat
  <2>1. recorded \in Nat
    BY DEF Numbers
  <2>2. recorded < MaxLosses
    BY DEF RecordLoss
  <2>3. recorded + 1 \in 1 .. MaxLosses
    BY <2>1, <2>2, ConstantsAreNumbers
  <2> QED
    BY <2>1, <2>3 DEF Loss
<1>2. \A l \in LossesOf(queue) : l # new
  BY <1>1 DEF Counted
<1>3. \A i \in DOMAIN queue : queue[i].losses \subseteq LossesOf(queue)
  BY InLossesOf
<1>4. queue \in Seq(Interval) /\ Apart(queue) /\ Len(queue) \in Nat /\ DOMAIN queue = 1 .. Len(queue)
  BY DEF Numbers
<1>5. ASSUME NEW i \in DOMAIN queue, queue' = [queue EXCEPT ![i].losses = @ \cup {new}]
      PROVE  /\ queue' \in Seq(Interval) /\ Apart(queue')
             /\ \A l : l \in LossesOf(queue') <=> l \in LossesOf(queue) \/ l = new
  <2> DEFINE grown == [queue[i] EXCEPT !.losses = queue[i].losses \cup {new}]
  <2>1. queue' = [queue EXCEPT ![i] = grown]
    BY <1>5
  <2>2. queue[i] \in Interval
    BY <1>4
  <2>3. grown \in Interval /\ grown.losses = queue[i].losses \cup {new}
    BY <1>1, <2>2 DEF Interval
  <2> HIDE DEF grown, new
  <2>4. /\ queue' \in Seq(Interval) /\ DOMAIN queue' = DOMAIN queue
        /\ queue'[i] = grown /\ \A j \in DOMAIN queue : j # i => queue'[j] = queue[j]
    BY <1>4, <2>1, <2>3
  <2>5. Apart(queue')
    <3> SUFFICES ASSUME NEW j \in DOMAIN queue', NEW k \in DOMAIN queue', j # k
                 PROVE  queue'[j].losses \cap queue'[k].losses = {}
      BY DEF Apart
    <3>1. queue[j].losses \cap queue[k].losses = {}
      BY <1>4, <2>4 DEF Apart
    <3>2. new \notin queue[j].losses /\ new \notin queue[k].losses
      BY <1>2, <1>3, <2>4
    <3>3. CASE j = i
      BY <2>3, <2>4, <3>1, <3>2, <3>3
    <3>4. CASE k = i
      BY <2>3, <2>4, <3>1, <3>2, <3>4
    <3>5. CASE j # i /\ k # i
      BY <2>4, <3>1, <3>5
    <3> QED
      BY <3>3, <3>4, <3>5
  <2>6. ASSUME NEW l PROVE l \in LossesOf(queue') <=> l \in LossesOf(queue) \/ l = new
    <3>1. \A j \in DOMAIN queue : l \in queue'[j].losses <=> l \in queue[j].losses \/ (j = i /\ l = new)
      BY <2>3, <2>4
    <3> QED
      BY <2>4, <3>1, InLossesOf
  <2> QED
    BY <2>4, <2>5, <2>6
<1>6. ASSUME queue' = Append(queue, [key |-> key, losses |-> {new}])
      PROVE  /\ queue' \in Seq(Interval) /\ Apart(queue')
             /\ \A l : l \in LossesOf(queue') <=> l \in LossesOf(queue) \/ l = new
  <2> DEFINE one == [key |-> key, losses |-> {new}]
             n == Len(queue) + 1
  <2>1. one \in Interval /\ one.losses = {new}
    BY <1>1 DEF Interval
  <2> HIDE DEF one, new
  <2>2. /\ queue' \in Seq(Interval) /\ DOMAIN queue' = DOMAIN queue \cup {n}
        /\ n \notin DOMAIN queue
        /\ queue'[n] = one /\ \A j \in DOMAIN queue : queue'[j] = queue[j]
    BY <1>4, <1>6, <2>1 DEF one
  <2> HIDE DEF n
  <2>3. Apart(queue')
    <3> SUFFICES ASSUME NEW j \in DOMAIN queue', NEW k \in DOMAIN queue', j # k
                 PROVE  queue'[j].losses \cap queue'[k].losses = {}
      BY DEF Apart
    <3>1. CASE j = n
      BY <1>2, <1>3, <2>1, <2>2, <3>1
    <3>2. CASE k = n
      BY <1>2, <1>3, <2>1, <2>2, <3>2
    <3>3. CASE j # n /\ k # n
      BY <1>4, <2>2, <3>3 DEF Apart
    <3> QED
      BY <3>1, <3>2, <3>3
  <2>4. ASSUME NEW l PROVE l \in LossesOf(queue') <=> l \in LossesOf(queue) \/ l = new
    BY <2>1, <2>2, InLossesOf
  <2> QED
    BY <2>2, <2>3, <2>4
<1>7. \/ \E i \in DOMAIN queue : queue' = [queue EXCEPT ![i].losses = @ \cup {new}]
      \/ queue' = Append(queue, [key |-> key, losses |-> {new}])
  BY DEF RecordLoss
<1> QED
  BY <1>5, <1>6, <1>7

-----------------------------------------------------------------------------
(* The relations of a message hold at the start.                           *)
LEMMA LaneInit == Init => Lane
<1> SUFFICES ASSUME Init PROVE Lane
  OBVIOUS
<1>1. queue = <<>> /\ DOMAIN queue = {}
  BY DEF Init
<1>2. \A l : l \notin LossesOf(queue)
  BY <1>1, InLossesOf
<1>3. Numbers
  BY <1>1 DEF Init, Numbers, Apart
<1>4. Messages /\ Counted /\ OneMessage /\ CarriesItsPrefix
  BY <1>2 DEF Init, Messages, Counted, OneMessage, CarriesItsPrefix
<1>5. AnswersStand /\ SettledAreStored /\ LateIsHarmless /\ ToldIsGone
  BY DEF Init, AnswersStand, SettledAreStored, LateIsHarmless, ToldIsGone
<1>6. SequenceAgrees /\ DroppedIsStored /\ ToldOncePerProcess
  BY DEF Init, SequenceAgrees, DroppedIsStored, ToldOncePerProcess
<1> QED
  BY <1>3, <1>4, <1>5, <1>6 DEF Lane

(* The steps that move the cycle, the clocks and the copies on their way.  *)
LEMMA CycleMoves ==
    ASSUME Lane, UNCHANGED <<journal, collector, hub>>,
           hubNow' \in Nat, hubNow <= hubNow', cycleNow' \in Nat, now' \in Nat,
           late' \subseteq late \cup pendingStatus,
           pc' = "wait" => pendingStatus # {} /\ (call' = "asked" \/ (pc = "wait" /\ call' = call))
    PROVE  Lane'
<1>1. UNCHANGED <<queue, revision, recorded, boot, sequence, pendingStatus,
                  pendingLossRev, pendingLosses, session, stored>>
  BY DEF journal, collector, hub
<1>2. Numbers'
  BY <1>1 DEF Lane, Numbers, Apart
<1>3. Messages'
  BY <1>1 DEF Lane, Messages
<1>4. Counted' /\ OneMessage' /\ CarriesItsPrefix'
  BY <1>1 DEF Lane, Counted, OneMessage, CarriesItsPrefix
<1>5. \A m \in stored \cup late \cup pendingStatus :
         m.at \in Nat /\ m.at + Window \in Nat /\ m.seq \in Nat /\ m.boot \in Nat
  BY ConstantsAreNumbers DEF Lane, Messages, Message
<1>6. \A m \in late \cup pendingStatus : m.at + Window < hubNow => m.at + Window < hubNow'
  BY <1>5 DEF Lane, Numbers
<1>7. AnswersStand'
  BY <1>1, <1>6 DEF Lane, AnswersStand
<1>8. LateIsHarmless'
  BY <1>1, <1>6 DEF Lane, LateIsHarmless
<1>9. SettledAreStored' /\ ToldIsGone'
  BY <1>1 DEF Lane, SettledAreStored, ToldIsGone
<1>10. SequenceAgrees' /\ DroppedIsStored' /\ ToldOncePerProcess'
  BY <1>1 DEF Lane, SequenceAgrees, DroppedIsStored, ToldOncePerProcess, Told
<1> QED
  BY <1>2, <1>3, <1>4, <1>7, <1>8, <1>9, <1>10 DEF Lane

(* A loss goes to an interval of its own key, with a new number.           *)
LEMMA RecordKeeps == ASSUME Lane, NEW key \in Keys, RecordLoss(key) PROVE Lane'
<1>1. /\ UNCHANGED <<boot, sequence, pendingStatus, pendingLossRev, pendingLosses>>
      /\ UNCHANGED <<pc, call, late, session, stored, now, hubNow, cycleNow>>
      /\ recorded' = recorded + 1 /\ revision' = revision + 1
      /\ pc \in {"append", "lanes"}
  BY DEF RecordLoss, collector, hub, clocks
<1>2. /\ queue' \in Seq(Interval) /\ Apart(queue')
      /\ \A l : l \in LossesOf(queue') <=> l \in LossesOf(queue) \/ l = recorded + 1
  BY LossJoins DEF Lane
<1>3. recorded \in Nat /\ revision \in Nat /\ pendingLossRev \in Nat
  BY DEF Lane, Numbers
<1>4. Numbers'
  BY <1>1, <1>2, <1>3 DEF Lane, Numbers
<1>5. Messages'
  BY <1>1 DEF Lane, Messages
<1>6. \A m \in stored \cup pendingStatus : \A l \in m.losses : l \in Nat /\ l <= recorded
  BY DEF Lane, Counted, Messages, Message
<1>7. Counted'
  <2>1. ASSUME NEW l, l \in LossesOf(queue) \/ l = recorded + 1 PROVE l \in Nat /\ l <= recorded + 1
    BY <1>3, <2>1 DEF Lane, Counted
  <2>2. ASSUME NEW m \in stored \cup pendingStatus, NEW l \in m.losses PROVE l <= recorded + 1
    BY <1>3, <1>6
  <2> QED
    BY <1>1, <1>2, <2>1, <2>2 DEF Counted
<1>8. OneMessage'
  BY <1>1, <1>3 DEF Lane, OneMessage
<1>9. CarriesItsPrefix'
  <2>1. pendingLossRev' # revision'
    BY <1>1, <1>3 DEF Lane, OneMessage
  <2> QED
    BY <2>1 DEF CarriesItsPrefix
<1>10. AnswersStand' /\ SettledAreStored' /\ LateIsHarmless'
  BY <1>1 DEF Lane, AnswersStand, SettledAreStored, LateIsHarmless
<1>11. ToldIsGone'
  <2>1. \A t \in stored : \A l \in t.losses : l # recorded + 1
    BY <1>3, <1>6
  <2> QED
    BY <1>1, <1>2, <2>1 DEF Lane, ToldIsGone
<1>12. SequenceAgrees' /\ ToldOncePerProcess'
  BY <1>1 DEF Lane, SequenceAgrees, ToldOncePerProcess
<1>13. DroppedIsStored'
  <2>1. \A l \in 1 .. recorded' : l \in 1 .. recorded \/ l = recorded + 1
    BY <1>1, <1>3
  <2>2. Told' = Told
    BY <1>1 DEF Told
  <2> QED
    BY <1>2, <2>1, <2>2 DEF Lane, DroppedIsStored
<1> QED
  BY <1>4, <1>5, <1>7, <1>8, <1>9, <1>10, <1>11, <1>12, <1>13 DEF Lane

(* A message is built from the head of the journal.                        *)
LEMMA BuildKeeps == ASSUME Lane, BuildStatus PROVE Lane'
<1> DEFINE n == IF Len(queue) < Cap THEN Len(queue) ELSE Cap
           intervals == SubSeq(queue, 1, n)
           p == [boot |-> boot, seq |-> sequence, at |-> cycleNow,
                 losses |-> LossesOf(intervals)]
<1>1. /\ pendingStatus = {} /\ pendingStatus' = {p}
      /\ pendingLossRev' = revision /\ pendingLosses' = Len(intervals)
      /\ pc' = "wait" /\ call' = "asked"
      /\ UNCHANGED <<queue, revision, recorded, boot, sequence, late, session, stored>>
      /\ UNCHANGED <<now, hubNow, cycleNow>>
  BY DEF BuildStatus, journal, hub, clocks
<1>2. queue \in Seq(Interval) /\ Apart(queue) /\ Len(queue) \in Nat
  BY DEF Lane, Numbers
<1>3. n \in 0 .. Len(queue)
  BY <1>2, ConstantsAreNumbers
<1> HIDE DEF n
<1>4. /\ Len(intervals) = n
      /\ \A l \in LossesOf(intervals) : l \in LossesOf(queue)
  BY <1>2, <1>3, PrefixAndSuffix
<1>5. n = 0 => LossesOf(intervals) = {}
  <2> SUFFICES ASSUME n = 0, NEW l, l \in LossesOf(intervals) PROVE FALSE
    OBVIOUS
  <2>1. DOMAIN intervals = {}
    BY <1>2
  <2> QED
    BY <2>1, InLossesOf
<1> HIDE DEF intervals
<1>6. /\ p.boot = boot /\ p.seq = sequence /\ p.losses = LossesOf(intervals)
      /\ \A l \in LossesOf(intervals) : l \in Nat /\ l <= recorded
  BY <1>4 DEF Lane, Counted
<1>7. p \in Message
  BY <1>6 DEF Lane, Numbers, Message
<1> HIDE DEF p
<1>8. Numbers'
  BY <1>1, <1>2, <1>3, <1>4 DEF Lane, Numbers
<1>9. Messages'
  BY <1>1, <1>6, <1>7 DEF Lane, Messages, Numbers
<1>10. Counted' /\ OneMessage'
  BY <1>1, <1>4, <1>5, <1>6 DEF Lane, Counted, OneMessage, Numbers
<1>11. CarriesItsPrefix'
  <2>1. p.losses = LossesOf(SubSeq(queue, 1, n)) /\ n <= Len(queue)
    BY <1>2, <1>3, <1>6 DEF intervals
  <2> QED
    BY <1>1, <1>4, <2>1 DEF CarriesItsPrefix
<1>12. AnswersStand' /\ SettledAreStored'
  BY <1>1 DEF Lane, AnswersStand, SettledAreStored
<1>13. LateIsHarmless'
  BY <1>1 DEF Lane, LateIsHarmless
<1>14. ToldIsGone'
  BY <1>1, <1>4, <1>6 DEF Lane, ToldIsGone
<1>15. SequenceAgrees'
  BY <1>1 DEF Lane, SequenceAgrees
<1>16. DroppedIsStored' /\ ToldOncePerProcess'
  BY <1>1 DEF Lane, DroppedIsStored, ToldOncePerProcess, Told
<1> QED
  BY <1>8, <1>9, <1>10, <1>11, <1>12, <1>13, <1>14, <1>15, <1>16 DEF Lane

(* The acknowledged intervals are those the stored message carries.        *)
LEMMA SettleKeeps == ASSUME Lane, Settle PROVE Lane'
<1>1. /\ pc = "wait" /\ call \in {"stored", "duplicate"} /\ pc' = "lanes"
      /\ sequence' = sequence + 1
      /\ pendingStatus' = {} /\ pendingLossRev' = 0 /\ pendingLosses' = 0
      /\ UNCHANGED <<recorded, boot, late, session, stored, now, hubNow, cycleNow>>
  BY DEF Settle, ForgetStatus, hub, clocks
<1>2. PICK p \in pendingStatus : TRUE
  BY <1>1 DEF Lane, AnswersStand
<1>3. /\ pendingStatus = {p} /\ p \in stored
      /\ p.boot = boot /\ p.seq = sequence /\ sequence \in Nat
  BY <1>1, <1>2 DEF Lane, AnswersStand, OneMessage, Numbers
<1>4. /\ queue' \in Seq(Interval) /\ Apart(queue') /\ revision' \in Nat
      /\ \A l \in LossesOf(queue') : l \in LossesOf(queue) /\ l \notin p.losses
      /\ \A l \in LossesOf(queue) : l \in LossesOf(queue') \/ l \in p.losses
  <2>1. CASE pendingLosses > 0
    <3> DEFINE head == SubSeq(queue, 1, pendingLosses)
               tail == SubSeq(queue, pendingLosses + 1, Len(queue))
    <3>1. /\ pendingLossRev = revision /\ pendingLosses <= Len(queue)
          /\ queue' = tail /\ revision' = revision + 1
      BY <2>1 DEF Settle, AckLossesPrefix
    <3>2. p.losses = LossesOf(head)
      BY <1>2, <2>1, <3>1 DEF Lane, CarriesItsPrefix
    <3>3. queue \in Seq(Interval) /\ Apart(queue) /\ pendingLosses \in 0 .. Len(queue)
      BY <3>1 DEF Lane, Numbers
    <3>4. /\ tail \in Seq(Interval) /\ Apart(tail)
          /\ \A l : l \in LossesOf(queue) <=> l \in LossesOf(head) \/ l \in LossesOf(tail)
          /\ \A l \in LossesOf(head) : l \notin LossesOf(tail)
      BY <3>3, PrefixAndSuffix
    <3> HIDE DEF head, tail
    <3>5. revision' \in Nat
      BY <3>1 DEF Lane, Numbers
    <3> QED
      BY <3>1, <3>2, <3>4, <3>5
  <2>2. CASE ~(pendingLosses > 0)
    <3>1. UNCHANGED <<queue, revision>>
      BY <2>2 DEF Settle
    <3>2. p.losses = {}
      BY <1>2, <2>2 DEF Lane, OneMessage, Numbers
    <3> QED
      BY <3>1, <3>2 DEF Lane, Numbers
  <2> QED
    BY <2>1, <2>2
<1>5. Numbers'
  BY <1>1, <1>3, <1>4 DEF Lane, Numbers
<1>6. Messages'
  BY <1>1 DEF Lane, Messages
<1>7. Counted' /\ OneMessage' /\ CarriesItsPrefix' /\ AnswersStand'
  BY <1>1, <1>4 DEF Lane, Counted, OneMessage, CarriesItsPrefix, AnswersStand
<1>8. \A m \in stored \cup late : m.seq \in Nat
  BY DEF Lane, Messages, Message
<1>9. SettledAreStored'
  <2> SUFFICES ASSUME NEW n \in Nat, n < sequence + 1
               PROVE  \E t \in stored : t.boot = boot /\ t.seq = n
    BY <1>1 DEF SettledAreStored
  <2>1. n = sequence \/ n < sequence
    BY <1>3
  <2> QED
    BY <1>3, <2>1 DEF Lane, SettledAreStored
<1>10. LateIsHarmless'
  <2> SUFFICES ASSUME NEW m \in late, m.boot = boot
               PROVE  m.seq < sequence + 1 \/ m.at + Window < hubNow
    BY <1>1 DEF LateIsHarmless
  <2>1. m = p \/ m.seq < sequence \/ m.at + Window < hubNow
    BY <1>3 DEF Lane, LateIsHarmless
  <2> QED
    BY <1>3, <1>8, <2>1
<1>11. ToldIsGone'
  BY <1>1, <1>3, <1>4 DEF Lane, ToldIsGone
<1>12. SequenceAgrees'
  <2> SUFFICES ASSUME NEW s \in stored, s.boot = boot, s.seq >= sequence + 1 PROVE FALSE
    BY <1>1 DEF SequenceAgrees
  <2>1. s.seq >= sequence /\ s.seq # sequence
    BY <1>3, <1>8
  <2>2. s = p
    BY <1>3, <2>1 DEF Lane, SequenceAgrees
  <2> QED
    BY <1>3, <2>1, <2>2
<1>13. DroppedIsStored'
  <2>1. Told' = Told /\ \A l \in p.losses : l \in Told
    BY <1>1, <1>3 DEF Told
  <2> QED
    BY <1>1, <1>4, <2>1 DEF Lane, DroppedIsStored
<1>14. ToldOncePerProcess'
  BY <1>1 DEF Lane, ToldOncePerProcess
<1> QED
  BY <1>5, <1>6, <1>7, <1>9, <1>10, <1>11, <1>12, <1>13, <1>14 DEF Lane

(* An expired message was never stored, and no copy of it ever will be.    *)
LEMMA ForgetKeeps ==
    ASSUME Lane, ForgetStatus, UNCHANGED <<journal, boot, sequence, late, hub, clocks>>,
           pc' = "append", \A p \in pendingStatus : p \notin stored /\ p.at + Window < hubNow
    PROVE  Lane'
<1>1. /\ UNCHANGED <<queue, revision, recorded, boot, sequence, late, session, stored>>
      /\ UNCHANGED <<now, hubNow, cycleNow>>
      /\ pendingStatus' = {} /\ pendingLossRev' = 0 /\ pendingLosses' = 0
  BY DEF ForgetStatus, journal, hub, clocks
<1>2. Numbers' /\ Messages'
  BY <1>1 DEF Lane, Numbers, Messages, Apart
<1>3. Counted' /\ OneMessage' /\ CarriesItsPrefix' /\ AnswersStand' /\ SettledAreStored'
  BY <1>1 DEF Lane, Counted, OneMessage, CarriesItsPrefix, AnswersStand, SettledAreStored, Numbers
<1>4. LateIsHarmless'
  BY <1>1 DEF Lane, LateIsHarmless
<1>5. ToldIsGone'
  BY <1>1 DEF Lane, ToldIsGone
<1>6. SequenceAgrees' /\ DroppedIsStored' /\ ToldOncePerProcess'
  BY <1>1 DEF Lane, SequenceAgrees, DroppedIsStored, ToldOncePerProcess, Told
<1> QED
  BY <1>2, <1>3, <1>4, <1>5, <1>6 DEF Lane

(* A new process uses numbers of its own; the old ones' copies are refused.*)
LEMMA RestartKeeps == ASSUME Lane, Restart PROVE Lane'
<1>1. /\ boot' = boot + 1 /\ session' = boot + 1 /\ sequence' = 0
      /\ pendingStatus' = {} /\ pendingLossRev' = 0 /\ pendingLosses' = 0
      /\ late' \subseteq late \cup pendingStatus /\ pc' = "append"
      /\ UNCHANGED <<queue, revision, recorded, stored, now, hubNow, cycleNow>>
  BY DEF Restart, ForgetStatus, journal, clocks
<1>2. boot \in Nat /\ \A m \in stored \cup late \cup pendingStatus : m.boot \in Nat /\ m.boot <= boot
  BY DEF Lane, Numbers, Messages, Message
<1>3. \A m \in stored \cup late \cup pendingStatus : m.boot <= boot' /\ m.boot # boot'
  BY <1>1, <1>2
<1>4. Numbers'
  BY <1>1 DEF Lane, Numbers, Apart
<1>5. Messages'
  BY <1>1, <1>3 DEF Lane, Messages
<1>6. Counted' /\ OneMessage' /\ CarriesItsPrefix' /\ AnswersStand'
  BY <1>1 DEF Lane, Counted, OneMessage, CarriesItsPrefix, AnswersStand, Numbers
<1>7. SettledAreStored'
  BY <1>1 DEF SettledAreStored
<1>8. LateIsHarmless' /\ ToldIsGone' /\ SequenceAgrees'
  BY <1>1, <1>3 DEF LateIsHarmless, ToldIsGone, SequenceAgrees
<1>9. DroppedIsStored' /\ ToldOncePerProcess'
  BY <1>1 DEF Lane, DroppedIsStored, ToldOncePerProcess, Told
<1> QED
  BY <1>4, <1>5, <1>6, <1>7, <1>8, <1>9 DEF Lane

(***************************************************************************)
(* The hub admits a message only if it is the one under way.               *)
(***************************************************************************)
LEMMA AdmittedIsUnderWay ==
    ASSUME Lane, NEW s \in late \cup pendingStatus, Admitted(s)
    PROVE  s \in pendingStatus /\ s \notin stored /\ ~(s.at + Window < hubNow)
<1>1. /\ s.boot = session /\ SameSequence(s) = {} /\ s.at + Window >= hubNow
  BY DEF Admitted, Unseen
<1>2. s \in Message /\ s.at + Window \in Nat /\ hubNow \in Nat /\ s.seq \in Nat
  BY ConstantsAreNumbers DEF Lane, Messages, Message, Numbers
<1>3. s.boot = boot /\ ~(s.at + Window < hubNow)
  BY <1>1, <1>2 DEF Lane, Numbers
<1>4. ~(s.seq < sequence)
  BY <1>1, <1>2, <1>3 DEF Lane, SettledAreStored, SameSequence
<1>5. s \notin stored
  BY <1>1 DEF SameSequence
<1> QED
  BY <1>3, <1>4, <1>5 DEF Lane, LateIsHarmless

(* The hub handles the message under way or an old copy; it may answer.    *)
LEMMA HubHandles ==
    ASSUME Lane, NEW s \in late \cup pendingStatus, IngestSourceStatus(s),
           UNCHANGED <<journal, collector, pc, clocks>>, late' \subseteq late,
           \/ call' = call
           \/ pc = "wait" /\ s \in pendingStatus /\ call' = Verdict(s)
    PROVE  Lane'
<1>1. /\ UNCHANGED <<queue, revision, recorded, boot, sequence, pendingStatus,
                     pendingLossRev, pendingLosses, now, hubNow, cycleNow, session, pc>>
  BY DEF journal, collector, clocks, IngestSourceStatus
<1>2. Verdict(s) = "stored" => Admitted(s)
  BY DEF Verdict
<1>3. Verdict(s) = "stored" => s \in pendingStatus /\ s \notin stored /\ ~(s.at + Window < hubNow)
  BY <1>2, AdmittedIsUnderWay
<1>4. /\ stored \subseteq stored'
      /\ \A t \in stored' : t \in stored \/ (Verdict(s) = "stored" /\ t = s)
      /\ Verdict(s) = "stored" => s \in stored'
  BY DEF IngestSourceStatus
<1>5. Numbers'
  BY <1>1 DEF Lane, Numbers, Apart
<1>6. Messages' /\ Counted'
  BY <1>1, <1>3, <1>4 DEF Lane, Messages, Counted
<1>7. OneMessage' /\ CarriesItsPrefix'
  BY <1>1 DEF Lane, OneMessage, CarriesItsPrefix
<1>8. AnswersStand'
  <2> SUFFICES ASSUME pc = "wait"
               PROVE  /\ pendingStatus # {}
                      /\ call' \in {"stored", "duplicate"} => pendingStatus \subseteq stored'
                      /\ call' = "expired" => \A p \in pendingStatus :
                            p \notin stored' /\ p.at + Window < hubNow
    BY <1>1 DEF AnswersStand
  <2>1. pendingStatus # {}
    BY DEF Lane, AnswersStand
  <2>2. CASE call' = call
    <3>1. call \in {"stored", "duplicate"} => pendingStatus \subseteq stored'
      BY <1>4 DEF Lane, AnswersStand
    <3>2. call = "expired" => \A p \in pendingStatus : p \notin stored' /\ p.at + Window < hubNow
      BY <1>3, <1>4 DEF Lane, AnswersStand
    <3> QED
      BY <2>1, <2>2, <3>1, <3>2
  <2>3. CASE s \in pendingStatus /\ call' = Verdict(s)
    <3>1. \A p \in pendingStatus : p = s
      BY <2>3 DEF Lane, OneMessage
    <3>2. Verdict(s) = "duplicate" => s \in stored'
      BY <1>4 DEF Verdict
    <3>3. Verdict(s) = "expired" => TooOld(s)
      BY DEF Verdict
    <3>4. TooOld(s) => s \notin stored /\ s.at + Window < hubNow
      BY DEF TooOld, Unseen, SameSequence
    <3>5. Verdict(s) = "expired" => s \notin stored'
      BY <1>4, <3>3, <3>4
    <3> QED
      BY <1>4, <2>1, <2>3, <3>1, <3>2, <3>3, <3>4, <3>5
  <2> QED
    BY <2>2, <2>3
<1>9. SettledAreStored'
  BY <1>1, <1>4 DEF Lane, SettledAreStored
<1>10. LateIsHarmless'
  BY <1>1 DEF Lane, LateIsHarmless
<1>11. ToldIsGone'
  <2> SUFFICES ASSUME NEW t \in stored', t.boot = boot
               PROVE  /\ t \notin pendingStatus => \A l \in t.losses : l \notin LossesOf(queue)
                      /\ \A p \in pendingStatus : t # p => \A l \in t.losses : l \notin p.losses
    BY <1>1 DEF ToldIsGone
  <2>1. CASE t \in stored
    BY <2>1 DEF Lane, ToldIsGone
  <2>2. CASE t = s /\ s \in pendingStatus
    BY <2>2 DEF Lane, OneMessage
  <2> QED
    BY <1>3, <1>4, <2>1, <2>2
<1>12. SequenceAgrees'
  BY <1>1, <1>3, <1>4 DEF Lane, SequenceAgrees
<1>13. DroppedIsStored'
  <2>1. \A l \in Told : l \in Told'
    BY <1>4 DEF Told
  <2> QED
    BY <1>1, <2>1 DEF Lane, DroppedIsStored
<1>14. ToldOncePerProcess'
  <2> SUFFICES ASSUME NEW t \in stored', NEW u \in stored', t.boot = u.boot, t # u,
                      NEW l \in t.losses, l \in u.losses
               PROVE  FALSE
    BY DEF ToldOncePerProcess
  <2>1. CASE t \in stored /\ u \in stored
    BY <2>1 DEF Lane, ToldOncePerProcess
  <2>2. CASE s \in pendingStatus /\ t = s /\ u \in stored
    BY <2>2 DEF Lane, OneMessage, ToldIsGone
  <2>3. CASE s \in pendingStatus /\ u = s /\ t \in stored
    BY <2>3 DEF Lane, OneMessage, ToldIsGone
  <2> QED
    BY <1>3, <1>4, <2>1, <2>2, <2>3
<1> QED
  BY <1>5, <1>6, <1>7, <1>8, <1>9, <1>10, <1>11, <1>12, <1>13, <1>14 DEF Lane

(* Every step keeps them.                                                  *)
LEMMA LaneStep == ASSUME Lane, [Next]_vars PROVE Lane'
<1> hubNow \in Nat /\ cycleNow \in Nat /\ now \in Nat /\ hubNow <= hubNow
  BY DEF Lane, Numbers
<1> USE DEF clocks
<1>1. ASSUME NEW key \in Keys, RecordLoss(key) PROVE Lane'
  BY <1>1, RecordKeeps
<1>2. ASSUME AppendFrames \/ SkipStatus \/ RunLanes \/ Refused \/ SettleStale PROVE Lane'
  BY <1>2, CycleMoves DEF AppendFrames, SkipStatus, RunLanes, Refused, SettleStale
<1>3. ASSUME BuildStatus PROVE Lane'
  BY <1>3, BuildKeeps
<1>4. ASSUME RetryStatus PROVE Lane'
  BY <1>4, CycleMoves DEF RetryStatus
<1>5. ASSUME Settle PROVE Lane'
  BY <1>5, SettleKeeps
<1>6. ASSUME Expired PROVE Lane'
  <2>1. /\ pc = "wait" /\ call = "expired" /\ pc' = "append"
        /\ UNCHANGED <<journal, boot, sequence, late, hub, clocks>>
        /\ ForgetStatus \/ UNCHANGED <<pendingStatus, pendingLossRev, pendingLosses>>
    BY <1>6 DEF Expired
  <2>2. CASE ForgetStatus
    BY <2>1, <2>2, ForgetKeeps DEF Lane, AnswersStand
  <2>3. CASE UNCHANGED <<pendingStatus, pendingLossRev, pendingLosses>>
    BY <2>1, <2>3, CycleMoves DEF collector
  <2> QED
    BY <2>1, <2>2, <2>3
<1>7. ASSUME CallFails PROVE Lane'
  <2>1. /\ UNCHANGED <<journal, collector, hub, clocks>> /\ pc' = "append"
        /\ late' \subseteq late \cup pendingStatus
    BY <1>7 DEF CallFails
  <2> QED
    BY <2>1, CycleMoves
<1>8. ASSUME Restart PROVE Lane'
  BY <1>8, RestartKeeps
<1>9. ASSUME HubAnswers PROVE Lane'
  <2>1. PICK s \in pendingStatus : IngestSourceStatus(s) /\ call' = Verdict(s)
    BY <1>9 DEF HubAnswers
  <2>2. pc = "wait" /\ UNCHANGED <<journal, collector, pc, late, clocks>>
    BY <1>9 DEF HubAnswers
  <2> QED
    BY <2>1, <2>2, HubHandles
<1>10. ASSUME HubAnswersLate PROVE Lane'
  <2>1. PICK s \in late : IngestSourceStatus(s) /\ late' = late \ {s}
    BY <1>10 DEF HubAnswersLate
  <2>2. UNCHANGED <<journal, collector, pc, call, clocks>>
    BY <1>10 DEF HubAnswersLate
  <2> QED
    BY <2>1, <2>2, HubHandles
<1>11. ASSUME Tick \/ HubTick PROVE Lane'
  <2>1. /\ UNCHANGED <<journal, collector, pc, call, late, hub, cycleNow>>
        /\ hubNow' \in Nat /\ hubNow <= hubNow' /\ now' \in Nat
    BY <1>11 DEF Tick, HubTick
  <2>2. pc = "wait" => pendingStatus # {}
    BY DEF Lane, AnswersStand
  <2> QED
    BY <2>1, <2>2, CycleMoves
<1>12. CASE UNCHANGED vars
  <2>1. pc = "wait" => pendingStatus # {}
    BY DEF Lane, AnswersStand
  <2> QED
    BY <1>12, <2>1, CycleMoves DEF vars
<1> QED
  BY <1>1, <1>2, <1>3, <1>4, <1>5, <1>6, <1>7, <1>8, <1>9, <1>10, <1>11, <1>12
     DEF Next, SendStatus, Answered

(* They hold in every state.                                               *)
LEMMA LaneAlways == Spec => []Lane
  BY LaneInit, LaneStep, PTL DEF Spec

(* The hub counts each loss of a process exactly once, and before the      *)
(* collector forgets it, whatever is lost, late, retried, expired or cut   *)
(* by a restart (transmitStatus, AckLossesPrefix, IngestSourceStatus).     *)
THEOREM LossesAreCounted == Spec => []LossesAreToldOnce
<1>1. Lane => LossesAreToldOnce
  BY DEF Lane, LossesAreToldOnce
<1> QED
  BY <1>1, LaneAlways, PTL

(* The number the collector uses is free at the hub or holds the message   *)
(* being retried, so that reusing the number of an expired one is safe.    *)
THEOREM NumbersAreSafe == Spec => []SequenceAgrees
<1>1. Lane => SequenceAgrees
  BY DEF Lane
<1> QED
  BY <1>1, LaneAlways, PTL

-----------------------------------------------------------------------------
(* Trust: what the hub keeps, what the Mac keeps, and the two together.    *)


(* What the hub keeps of one token, certificate, host and renewal.         *)
Token   == [gen : Nat, host : Nat, exp : Nat, used : BOOLEAN, again : BOOLEAN, inst : Nat]
Cert    == [gen : Nat, host : Nat, key : Nat, exp : Nat, revoked : Nat, prior : Nat, issued : Nat]
Host    == [id : Nat, inst : Nat, live : BOOLEAN]
Renewal == [serial : Nat, csr : Nat, cert : Nat, exp : Nat]

(* Two certificates of one identity.                                       *)
SameIdentity(c, d) == c.key = d.key /\ c.host = d.host /\ c.gen = d.gen

HubTypes ==
  /\ clock \in Nat /\ clock <= MaxClock /\ gen \in {1, 2}
  /\ hosts \in SUBSET Host /\ tokens \in Seq(Token) /\ creds \in Seq(Cert)
  /\ Len(tokens) <= MaxToken
  /\ renewed \in SUBSET Renewal /\ banned \in SUBSET Nat
  /\ DOMAIN receipts = 1..MaxToken
  /\ \A t \in 1..MaxToken : receipts[t].kind = "receipt" => receipts[t].cert \in 1..Len(creds)

(* A host is known by its number, and has one installation.                *)
OneRow == \A h, k \in hosts : h.id = k.id => h = k

(* A certificate is of a generation that was, and of a live host while its *)
(* generation is the hub's.                                                *)
CertsAreOfHosts ==
  \A s \in 1..Len(creds) :
    /\ creds[s].gen \in 1..gen /\ creds[s].prior \in 0..Len(creds)
    /\ creds[s].gen = gen => \E h \in hosts : h.live /\ h.id = creds[s].host

(* A certificate dies by the end of the overlap with each of its           *)
(* successors, and not before unless somebody decided so.                  *)
DiesInTime(s) ==
  \A c \in 1..Len(creds) : creds[c].prior = s => creds[s].revoked <= creds[c].issued + Overlap
DiesForAReason(s) ==
  \/ creds[s].revoked = Never \/ s \in banned \/ creds[s].gen # gen
  \/ \E c \in 1..Len(creds) : creds[c].prior = s /\ creds[s].revoked = creds[c].issued + Overlap
Overlaps == \A s \in 1..Len(creds) : DiesInTime(s) /\ DiesForAReason(s)

(* A renewal's certificate is of the identity it renews.                   *)
RenewalsAreOfOne ==
  \A r \in renewed :
    /\ r.serial \in 1..Len(creds) /\ r.cert \in 1..Len(creds)
    /\ SameIdentity(creds[r.serial], creds[r.cert])

HubInv == HubTypes /\ OneRow /\ CertsAreOfHosts /\ Overlaps /\ RenewalsAreOfOne

-----------------------------------------------------------------------------
(* The types of the constants of Enrollment.                               *)
LEMMA EnrollNumbers ==
    /\ MaxToken \in Nat /\ MaxFresh \in Nat /\ MaxCert \in Nat /\ MaxClock \in Nat /\ MaxFault \in Nat
    /\ TokenLife \in Nat /\ ReceiptLife \in Nat /\ Overlap \in Nat /\ RenewBefore \in Nat /\ CertLife \in Nat
    /\ Never \in Nat
    /\ \A n \in Nat : n <= MaxClock => n < Never /\ n + Overlap < Never
  BY Lifetimes DEF Never

(* The clock ends before a certificate that nobody has ended.              *)
LEMMA ClockIsEarlier ==
    ASSUME HubTypes
    PROVE  clock \in Nat /\ Overlap \in Nat /\ clock + Overlap \in Nat /\ clock + Overlap < Never /\ Never \in Nat
<1>1. clock \in Nat /\ clock <= MaxClock
  BY DEF HubTypes
<1> QED
  BY <1>1, EnrollNumbers

(* A sequence of certificates and what is appended to it.                  *)
LEMMA OneMore ==
    ASSUME NEW S, NEW q \in Seq(S), NEW x \in S
    PROVE  /\ Append(q, x) \in Seq(S) /\ Len(Append(q, x)) = Len(q) + 1 /\ Len(q) \in Nat
           /\ 1..Len(q) \subseteq 1..(Len(q) + 1) /\ Len(q) + 1 \in 1..(Len(q) + 1)
           /\ Append(q, x)[Len(q) + 1] = x /\ \A i \in 1..Len(q) : Append(q, x)[i] = q[i]
           /\ \A i \in 1..(Len(q) + 1) : i \in 1..Len(q) \/ i = Len(q) + 1
  OBVIOUS

(* What is in the sequences.                                               *)
LEMMA HubElements ==
    ASSUME HubTypes
    PROVE  /\ Len(creds) \in Nat /\ Len(tokens) \in Nat
           /\ DOMAIN creds = 1..Len(creds) /\ DOMAIN tokens = 1..Len(tokens)
           /\ \A s \in 1..Len(creds) : creds[s] \in Cert
           /\ \A t \in 1..Len(tokens) : tokens[t] \in Token
  BY DEF HubTypes

(* The types of a certificate's fields.                                    *)
LEMMA FieldsOfCert ==
    ASSUME NEW c \in Cert
    PROVE  /\ c.gen \in Nat /\ c.host \in Nat /\ c.key \in Nat /\ c.exp \in Nat
           /\ c.revoked \in Nat /\ c.prior \in Nat /\ c.issued \in Nat
  BY DEF Cert

(* A new certificate.                                                      *)
IsSigned(c, host, key, prior) ==
  /\ c \in Cert /\ c.gen = gen /\ c.host = host /\ c.key = key
  /\ c.revoked = Never /\ c.prior = prior /\ c.issued = clock

(* What the hub signs is a new certificate.                                *)
LEMMA SignedIsCert ==
    ASSUME HubTypes, NEW host \in Nat, NEW key \in Nat, NEW prior \in Nat
    PROVE  IsSigned(Signed(host, key, prior), host, key, prior)
<1>1. clock \in Nat /\ gen \in Nat /\ Never \in Nat /\ clock + CertLife \in Nat
  BY EnrollNumbers DEF HubTypes
<1>2. PICK c : c = Signed(host, key, prior)
  OBVIOUS
<1>3. c \in Cert
  BY <1>1, <1>2 DEF Signed, Cert
<1>4. /\ c.gen = gen /\ c.host = host /\ c.key = key
      /\ c.revoked = Never /\ c.prior = prior /\ c.issued = clock
  BY <1>2 DEF Signed
<1> QED
  BY <1>2, <1>3, <1>4 DEF IsSigned

(* The hub is told nothing about certificates.                             *)
LEMMA CertsUntouched ==
    ASSUME HubInv, UNCHANGED <<clock, gen, creds, renewed, banned, receipts>>,
           tokens' \in Seq(Token), Len(tokens') <= MaxToken, hosts' \in SUBSET Host, OneRow',
           \A h \in hosts : h.live => \E k \in hosts' : k.live /\ k.id = h.id
    PROVE  HubInv'
<1>1. HubTypes'
  BY DEF HubInv, HubTypes
<1>2. CertsAreOfHosts'
  BY DEF HubInv, CertsAreOfHosts
<1>3. Overlaps'
  BY DEF HubInv, Overlaps, DiesInTime, DiesForAReason
<1>4. RenewalsAreOfOne'
  BY DEF HubInv, RenewalsAreOfOne
<1> QED
  BY <1>1, <1>2, <1>3, <1>4 DEF HubInv

(* Time, and nothing else, passes.                                         *)
LEMMA ClockTickKeepsHub == ASSUME HubInv, ClockTick PROVE HubInv'
<1>1. clock' = clock + 1 /\ clock < MaxClock /\ UNCHANGED <<gen, hosts, tokens, receipts, creds, renewed, banned>>
  BY DEF ClockTick, trust
<1>2. HubTypes'
  BY <1>1, EnrollNumbers DEF HubInv, HubTypes
<1>3. OneRow' /\ CertsAreOfHosts' /\ RenewalsAreOfOne'
  BY <1>1 DEF HubInv, OneRow, CertsAreOfHosts, RenewalsAreOfOne
<1>4. Overlaps'
  BY <1>1 DEF HubInv, Overlaps, DiesInTime, DiesForAReason
<1> QED
  BY <1>2, <1>3, <1>4 DEF HubInv

(* Tokens are reserved, and the hub registers its own host.                *)
LEMMA ReserveKeepsHub ==
    ASSUME HubInv, NEW host \in Nat, NEW again \in BOOLEAN, NEW inst \in Nat,
           Reserve(host, again, inst)
    PROVE  HubInv'
<1>1. PICK t : t = [gen |-> gen, host |-> host, exp |-> clock + TokenLife,
                    used |-> FALSE, again |-> again, inst |-> inst]
  OBVIOUS
<1>2. tokens' = Append(tokens, t) /\ UNCHANGED <<clock, gen, hosts, receipts, creds, renewed, banned>>
  BY <1>1 DEF Reserve
<1>3. t \in Token
  BY <1>1, EnrollNumbers DEF HubInv, HubTypes, Token
<1>4. tokens' \in Seq(Token) /\ Len(tokens') <= MaxToken /\ hosts' \in SUBSET Host
  <2>1. Len(tokens) < MaxToken /\ Len(tokens) \in Nat /\ MaxToken \in Nat /\ tokens \in Seq(Token)
    BY HubElements, EnrollNumbers DEF Reserve, HubInv, HubTypes
  <2>2. tokens' \in Seq(Token) /\ Len(tokens') = Len(tokens) + 1
    BY <1>2, <1>3, <2>1
  <2> QED
    BY <1>2, <2>1, <2>2 DEF HubInv, HubTypes
<1>5. OneRow'
  BY <1>2 DEF HubInv, OneRow
<1> QED
  BY <1>2, <1>4, <1>5, CertsUntouched

(* A token is issued, again or for the first time.                         *)
LEMMA IssueKeepsHub == ASSUME HubInv, Issue \/ IssueAgain PROVE HubInv'
<1>1. CASE Issue
  <2>1. Len(tokens) + 1 \in Nat
    BY HubElements DEF HubInv
  <2> QED
    BY <1>1, <2>1, ReserveKeepsHub DEF Issue
<1>2. CASE IssueAgain
  <2>1. PICK h \in hosts : Reserve(h.id, TRUE, h.inst)
    BY <1>2 DEF IssueAgain
  <2>2. h.id \in Nat /\ h.inst \in Nat
    BY <2>1 DEF HubInv, HubTypes, Host
  <2> QED
    BY <2>1, <2>2, ReserveKeepsHub
<1> QED
  BY <1>1, <1>2

(* The hub's own host is registered, or enrolled again.                    *)
LEMMA LocalHostKeepsHub == ASSUME HubInv, RegisterLocalHost \/ ReEnrollLocalHost PROVE HubInv'
<1>1. UNCHANGED <<clock, gen, creds, renewed, banned, receipts, tokens>>
  BY DEF RegisterLocalHost, ReEnrollLocalHost
<1>2. CASE RegisterLocalHost
  <2>1. PICK l : l = [id |-> Local, inst |-> MaxFresh + 1, live |-> TRUE]
    OBVIOUS
  <2>2. hosts' = hosts \cup {l} /\ l.id = Local /\ l \in Host /\ \A h \in hosts : h.id # Local
    BY <1>2, <2>1, EnrollNumbers DEF RegisterLocalHost, Host, Local
  <2>3. hosts' \in SUBSET Host /\ OneRow'
    BY <2>2 DEF HubInv, HubTypes, OneRow
  <2> QED
    BY <1>1, <2>2, <2>3, CertsUntouched DEF HubInv, HubTypes
<1>3. CASE ReEnrollLocalHost
  <2>1. PICK h \in hosts : ~h.live /\ hosts' = (hosts \ {h}) \cup {[h EXCEPT !.live = TRUE]}
    BY <1>3 DEF ReEnrollLocalHost
  <2>2. PICK l : l = [h EXCEPT !.live = TRUE]
    OBVIOUS
  <2>3. l \in Host /\ l.id = h.id /\ l.live
    BY <2>1, <2>2 DEF HubInv, HubTypes, Host
  <2>4. hosts' \in SUBSET Host
    BY <2>1, <2>2, <2>3 DEF HubInv, HubTypes
  <2>5. OneRow'
    <3>1. hosts' = (hosts \ {h}) \cup {l} /\ \A x, y \in hosts : x.id = y.id => x = y
      BY <2>1, <2>2 DEF HubInv, OneRow
    <3>2. \A x \in hosts \ {h} : x.id # l.id
      BY <2>1, <2>3, <3>1
    <3>3. \A x, y \in hosts' : x.id = y.id => x = y
      BY <3>1, <3>2
    <3> QED
      BY <3>3 DEF OneRow
  <2> QED
    BY <1>1, <2>1, <2>2, <2>3, <2>4, <2>5, CertsUntouched DEF HubInv, HubTypes
<1> QED
  BY <1>2, <1>3

-----------------------------------------------------------------------------
(* A token is redeemed, for whomever.                                      *)

(* What a redemption does unless it is answered from its receipt.          *)
Redeems(t, req) ==
  /\ Redeemable(t, req) /\ HostAdmits(t, req)
  /\ hosts' = HostsWith(t, req)
  /\ creds' = Append(creds, Signed(tokens[t].host, req.key, 0))
  /\ tokens' = [tokens EXCEPT ![t].used = TRUE]
  /\ receipts' = [receipts EXCEPT ![t] =
       [kind |-> "receipt", req |-> req, cert |-> Len(creds) + 1, exp |-> clock + ReceiptLife]]
  /\ UNCHANGED <<gen, renewed, banned>>

(* A redemption signs a certificate or repeats its receipt.                *)
LEMMA RedeemOrReplay ==
    ASSUME NEW t, NEW req, Redeem(t, req)
    PROVE  t \in 1..Len(tokens) /\ ((Replayed(t, req) /\ UNCHANGED trust) \/ Redeems(t, req))
  BY DEF Redeem, Recognised, Redeems

(* The host row of a redeemed token is the one there was, alive again, or  *)
(* one of a number that was not taken.                                     *)
LEMMA HostsOfRedeem ==
    ASSUME HubInv, NEW t \in 1..Len(tokens), NEW req, req.inst \in Nat, HostAdmits(t, req),
           NEW after, after = HostsWith(t, req)
    PROVE  /\ after \in SUBSET Host
           /\ \A h, k \in after : h.id = k.id => h = k
           /\ \A h \in hosts : \E k \in after : k.id = h.id /\ k.inst = h.inst /\ (h.live => k.live)
           /\ \E k \in after : k.id = tokens[t].host /\ k.inst = req.inst /\ k.live
<1>1. PICK l : l = [id |-> tokens[t].host, inst |-> req.inst, live |-> TRUE]
  OBVIOUS
<1>2. tokens[t] \in Token /\ hosts \in SUBSET Host
  BY HubElements DEF HubInv, HubTypes
<1>3. l \in Host /\ l.id = tokens[t].host /\ l.inst = req.inst /\ l.live
  BY <1>1, <1>2 DEF Token, Host
<1>4. after = {h \in hosts : h.id # l.id} \cup {l}
  BY <1>1, <1>3 DEF HostsWith
<1>5. after \in SUBSET Host
  BY <1>2, <1>3, <1>4
<1>6. \A h, k \in after : h.id = k.id => h = k
  BY <1>4 DEF HubInv, OneRow
<1>7. ASSUME NEW h \in hosts
      PROVE  \E k \in after : k.id = h.id /\ k.inst = h.inst /\ (h.live => k.live)
  <2>1. CASE h.id # l.id
    BY <1>4, <2>1
  <2>2. CASE h.id = l.id
    <3>1. PICK g \in hosts : g.id = tokens[t].host /\ g.inst = req.inst
      BY <1>3, <2>2 DEF HostAdmits
    <3>2. g = h
      BY <1>3, <2>2, <3>1 DEF HubInv, OneRow
    <3> QED
      BY <1>3, <1>4, <2>2, <3>1, <3>2
  <2> QED
    BY <2>1, <2>2
<1>8. \E k \in after : k.id = tokens[t].host /\ k.inst = req.inst /\ k.live
  BY <1>3, <1>4
<1> QED
  BY <1>5, <1>6, <1>7, <1>8

(* One more certificate, of a live host of this generation, after none or  *)
(* after one that is given its overlap.                                    *)
OthersAsTheyWere(cs, p) ==
  \A s \in 1..Len(creds) :
    /\ SameIdentity(creds[s], cs[s]) /\ cs[s].prior = creds[s].prior
    /\ cs[s].issued = creds[s].issued
    /\ s # p => cs[s].revoked = creds[s].revoked
    /\ s = p => cs[s].revoked = RevokedAt(s)

(* A certificate is appended and those it renews are shortened.            *)
LEMMA OneMoreCert ==
    ASSUME HubInv, NEW c \in Cert, NEW cs \in Seq(Cert),
           Len(cs) = Len(creds), creds' = Append(cs, c),
           c.gen = gen, c.issued = clock, c.revoked = Never, c.prior \in 0..Len(creds),
           OthersAsTheyWere(cs, c.prior),
           UNCHANGED <<clock, gen, banned>>,
           hosts' \in SUBSET Host, OneRow', tokens' \in Seq(Token), Len(tokens') <= MaxToken,
           renewed' \in SUBSET Renewal,
           \A h \in hosts : h.live => \E k \in hosts' : k.live /\ k.id = h.id,
           \E k \in hosts' : k.live /\ k.id = c.host,
           DOMAIN receipts' = 1..MaxToken,
           \A t \in 1..MaxToken : receipts'[t].kind = "receipt" => receipts'[t].cert \in 1..(Len(creds) + 1),
           \A r \in renewed' :
             r \in renewed \/ /\ r.serial \in 1..Len(creds) /\ r.cert = Len(creds) + 1
                              /\ SameIdentity(creds[r.serial], c)
    PROVE  HubInv'
<1>1. PICK n \in Nat : n = Len(creds) /\ n = Len(cs)
  BY HubElements DEF HubInv
<1>2. \A s \in 1..n : creds[s] \in Cert /\ cs[s] \in Cert
  BY <1>1, HubElements DEF HubInv
<1>3. /\ creds' \in Seq(Cert) /\ Len(creds') = n + 1 /\ creds'[n + 1] = c
      /\ \A s \in 1..n : creds'[s] = cs[s]
      /\ \A s \in 1..(n + 1) : s \in 1..n \/ s = n + 1
      /\ 1..n \subseteq 1..(n + 1) /\ n + 1 \in 1..(n + 1)
  BY <1>1, OneMore
<1>4. HubTypes'
  BY <1>1, <1>3 DEF HubInv, HubTypes
<1>5. CertsAreOfHosts'
  <2> SUFFICES ASSUME NEW s \in 1..(n + 1)
               PROVE  /\ creds'[s].gen \in 1..gen /\ creds'[s].prior \in 0..(n + 1)
                      /\ creds'[s].gen = gen => \E h \in hosts' : h.live /\ h.id = creds'[s].host
    BY <1>3 DEF CertsAreOfHosts
  <2>1. CASE s \in 1..n
    <3>1. /\ creds[s].gen \in 1..gen /\ creds[s].prior \in 0..n
          /\ creds[s].gen = gen => \E h \in hosts : h.live /\ h.id = creds[s].host
      BY <1>1, <2>1 DEF HubInv, CertsAreOfHosts
    <3>2. /\ creds'[s].gen = creds[s].gen /\ creds'[s].host = creds[s].host
          /\ creds'[s].prior = creds[s].prior
      BY <1>1, <1>3, <2>1 DEF SameIdentity, OthersAsTheyWere
    <3> QED
      BY <3>1, <3>2
  <2>2. CASE s = n + 1
    <3>1. gen \in 1..gen
      BY DEF HubInv, HubTypes
    <3> QED
      BY <1>1, <1>3, <2>2, <3>1
  <2> QED
    BY <1>3, <2>1, <2>2
<1>6. \A s \in 1..n : /\ creds'[s].gen = creds[s].gen /\ creds'[s].issued = creds[s].issued
                      /\ creds'[s].prior = creds[s].prior
                      /\ s # c.prior => creds'[s].revoked = creds[s].revoked
                      /\ s = c.prior => creds'[s].revoked = RevokedAt(s)
  BY <1>1, <1>3 DEF SameIdentity, OthersAsTheyWere
<1>7. clock \in Nat /\ Overlap \in Nat /\ clock + Overlap \in Nat /\ clock + Overlap < Never /\ Never \in Nat
  BY ClockIsEarlier DEF HubInv
<1>8. ASSUME NEW s \in 1..n
      PROVE  /\ RevokedAt(s) \in Nat /\ RevokedAt(s) <= creds[s].revoked /\ RevokedAt(s) <= clock + Overlap
             /\ RevokedAt(s) = clock + Overlap \/ (RevokedAt(s) = creds[s].revoked /\ RevokedAt(s) # Never)
  <2>1. creds[s].revoked \in Nat
    BY <1>2, FieldsOfCert
  <2> QED
    BY <1>7, <2>1 DEF RevokedAt, Min2
<1>9. ASSUME NEW s \in 1..n, NEW d \in 1..n, creds[d].prior = s
      PROVE  creds'[s].revoked <= creds'[d].issued + Overlap
  <2>1. creds[s].revoked <= creds[d].issued + Overlap
    BY <1>1, <1>9 DEF HubInv, Overlaps, DiesInTime, DiesForAReason
  <2>2. creds[s].revoked \in Nat /\ creds[d].issued \in Nat
    BY <1>2, FieldsOfCert
  <2>3. PICK a, b, i : a = creds[s].revoked /\ b = creds'[s].revoked /\ i = creds[d].issued
    OBVIOUS
  <2>4. creds'[d].issued = i
    BY <1>6, <2>3
  <2>5. b = a \/ b = RevokedAt(s)
    BY <1>6, <2>3
  <2>6. a \in Nat /\ i \in Nat /\ a <= i + Overlap
    BY <2>1, <2>2, <2>3
  <2>7. RevokedAt(s) \in Nat /\ RevokedAt(s) <= a
    BY <1>8, <2>3
  <2>8. b \in Nat /\ b <= a
    BY <2>5, <2>6, <2>7
  <2>9. b <= i + Overlap
    <3> HIDE <2>3
    <3> QED
      BY <1>7, <2>6, <2>8
  <2> QED
    BY <2>3, <2>4, <2>9
<1>10. ASSUME NEW s \in 1..n PROVE s = c.prior => creds'[s].revoked <= creds'[n + 1].issued + Overlap
  BY <1>3, <1>6, <1>8
<1>11. ASSUME NEW d \in 1..(n + 1) PROVE creds'[d].prior # n + 1
  <2>1. CASE d \in 1..n
    BY <1>1, <1>6, <2>1 DEF HubInv, CertsAreOfHosts
  <2>2. CASE d = n + 1
    BY <1>1, <1>3, <2>2
  <2> QED
    BY <1>3, <2>1, <2>2
<1>12. ASSUME NEW s \in 1..n
       PROVE  \/ creds'[s].revoked = Never \/ s \in banned \/ creds'[s].gen # gen
              \/ \E d \in 1..(n + 1) : creds'[d].prior = s /\ creds'[s].revoked = creds'[d].issued + Overlap
  <2>1. \/ creds[s].revoked = Never \/ s \in banned \/ creds[s].gen # gen
        \/ \E d \in 1..n : creds[d].prior = s /\ creds[s].revoked = creds[d].issued + Overlap
    BY <1>1 DEF HubInv, Overlaps, DiesInTime, DiesForAReason
  <2>2. CASE s # c.prior \/ RevokedAt(s) = creds[s].revoked
    <3>1. /\ creds'[s].revoked = creds[s].revoked /\ creds'[s].gen = creds[s].gen
      BY <1>6, <2>2
    <3>2. \A d \in 1..n : creds'[d].prior = creds[d].prior /\ creds'[d].issued = creds[d].issued
      BY <1>6
    <3>3. ASSUME NEW d \in 1..n, creds[d].prior = s /\ creds[s].revoked = creds[d].issued + Overlap
          PROVE  \E e \in 1..(n + 1) : creds'[e].prior = s /\ creds'[s].revoked = creds'[e].issued + Overlap
      <4>1. d \in 1..(n + 1) /\ creds'[d].prior = s
        BY <1>3, <3>2, <3>3
      <4>2. creds'[s].revoked = creds'[d].issued + Overlap
        BY <3>1, <3>2, <3>3
      <4> QED
        BY <4>1, <4>2
    <3> QED
      BY <2>1, <3>1, <3>3
  <2>3. CASE s = c.prior /\ RevokedAt(s) = clock + Overlap
    <3>1. creds'[s].revoked = clock + Overlap
      BY <1>6, <2>3
    <3>2. creds'[n + 1].prior = s /\ creds'[n + 1].issued = clock
      BY <1>3, <2>3
    <3> QED
      BY <1>3, <3>1, <3>2
  <2> QED
    BY <1>8, <2>2, <2>3
<1>13. Overlaps'
  <2> SUFFICES ASSUME NEW s \in 1..(n + 1) PROVE DiesInTime(s)' /\ DiesForAReason(s)'
    BY <1>3 DEF Overlaps
  <2>1. ASSUME NEW d \in 1..(n + 1), creds'[d].prior = s
        PROVE  creds'[s].revoked <= creds'[d].issued + Overlap
    <3>1. s \in 1..n
      BY <1>3, <1>11, <2>1
    <3>2. CASE d \in 1..n
      BY <1>6, <1>9, <2>1, <3>1, <3>2
    <3>3. CASE d = n + 1
      BY <1>3, <1>10, <2>1, <3>1, <3>3
    <3> QED
      BY <1>3, <3>2, <3>3
  <2>2. DiesInTime(s)'
    BY <1>3, <2>1 DEF DiesInTime
  <2>3. DiesForAReason(s)'
    <3>1. CASE s \in 1..n
      BY <1>3, <1>12, <3>1 DEF DiesForAReason
    <3>2. CASE s = n + 1
      BY <1>3, <3>2 DEF DiesForAReason
    <3> QED
      BY <1>3, <3>1, <3>2
  <2> QED
    BY <2>2, <2>3
<1>14. RenewalsAreOfOne'
  <2> SUFFICES ASSUME NEW r \in renewed'
               PROVE  /\ r.serial \in 1..(n + 1) /\ r.cert \in 1..(n + 1)
                      /\ SameIdentity(creds'[r.serial], creds'[r.cert])
    BY <1>3 DEF RenewalsAreOfOne
  <2>1. CASE r \in renewed
    <3>1. /\ r.serial \in 1..n /\ r.cert \in 1..n
          /\ SameIdentity(creds[r.serial], creds[r.cert])
      BY <1>1, <2>1 DEF HubInv, RenewalsAreOfOne
    <3>2. /\ creds'[r.serial] = cs[r.serial] /\ SameIdentity(creds[r.serial], cs[r.serial])
          /\ creds'[r.cert] = cs[r.cert] /\ SameIdentity(creds[r.cert], cs[r.cert])
      BY <1>1, <1>3, <3>1 DEF OthersAsTheyWere
    <3>3. SameIdentity(creds'[r.serial], creds'[r.cert])
      BY <3>1, <3>2 DEF SameIdentity
    <3> QED
      BY <1>3, <3>1, <3>3
  <2>2. CASE r \notin renewed
    <3>1. r.serial \in 1..n /\ r.cert = n + 1 /\ SameIdentity(creds[r.serial], c)
      BY <1>1, <2>2
    <3>2. creds'[r.serial] = cs[r.serial] /\ SameIdentity(creds[r.serial], cs[r.serial])
      BY <1>1, <1>3, <3>1 DEF OthersAsTheyWere
    <3>3. creds'[r.cert] = c
      BY <1>3, <3>1
    <3>4. SameIdentity(creds'[r.serial], creds'[r.cert])
      <4>1. PICK x, y : x = creds[r.serial] /\ y = cs[r.serial]
        OBVIOUS
      <4>2. SameIdentity(x, c) /\ SameIdentity(x, y)
        BY <3>1, <3>2, <4>1
      <4>3. SameIdentity(y, c)
        BY <4>2 DEF SameIdentity
      <4> QED
        BY <3>2, <3>3, <4>1, <4>3
    <3> QED
      BY <1>3, <3>1, <3>4
  <2> QED
    BY <2>1, <2>2
<1> QED
  BY <1>4, <1>5, <1>13, <1>14 DEF HubInv

(* A token is redeemed.                                                    *)
LEMMA RedeemKeepsHub ==
    ASSUME HubInv, NEW t, NEW req, req.inst \in Nat, req.key \in Nat, Redeem(t, req), clock' = clock
    PROVE  HubInv'
<1>1. t \in 1..Len(tokens) /\ (UNCHANGED trust \/ Redeems(t, req))
  BY RedeemOrReplay
<1>2. CASE UNCHANGED trust
  <2>1. UNCHANGED <<gen, hosts, tokens, receipts, creds, renewed, banned>>
    BY <1>2 DEF trust
  <2>2. HubTypes' /\ OneRow' /\ RenewalsAreOfOne'
    BY <2>1 DEF HubInv, HubTypes, OneRow, RenewalsAreOfOne
  <2>3. CertsAreOfHosts' /\ Overlaps'
    BY <2>1 DEF HubInv, CertsAreOfHosts, Overlaps, DiesInTime, DiesForAReason
  <2> QED
    BY <2>2, <2>3 DEF HubInv
<1>3. CASE Redeems(t, req)
  <2>1. tokens[t] \in Token /\ tokens[t].host \in Nat /\ Len(creds) \in Nat /\ creds \in Seq(Cert)
    BY <1>1, HubElements DEF HubInv, HubTypes, Token
  <2>2. PICK c : c = Signed(tokens[t].host, req.key, 0)
    OBVIOUS
  <2>3. /\ c \in Cert /\ c.gen = gen /\ c.host = tokens[t].host /\ c.revoked = Never
        /\ c.prior = 0 /\ c.issued = clock
    <3>1. HubTypes /\ 0 \in Nat
      BY DEF HubInv
    <3>2. PICK h \in Nat, k \in Nat : h = tokens[t].host /\ k = req.key
      BY <2>1
    <3>3. c = Signed(h, k, 0)
      BY <2>2, <3>2
    <3>4. IsSigned(c, h, k, 0)
      BY <3>1, <3>3, SignedIsCert
    <3> QED
      BY <3>2, <3>4 DEF IsSigned
  <2>4. /\ hosts' \in SUBSET Host
        /\ \A h, k \in hosts' : h.id = k.id => h = k
        /\ \A h \in hosts : \E k \in hosts' : k.id = h.id /\ k.inst = h.inst /\ (h.live => k.live)
        /\ \E k \in hosts' : k.id = tokens[t].host /\ k.inst = req.inst /\ k.live
    BY <1>1, <1>3, HostsOfRedeem DEF Redeems
  <2>5. tokens' \in Seq(Token) /\ Len(tokens') <= MaxToken
    <3>1. tokens' = [tokens EXCEPT ![t] = [tokens[t] EXCEPT !.used = TRUE]]
      BY <1>3 DEF Redeems
    <3>2. [tokens[t] EXCEPT !.used = TRUE] \in Token
      BY <2>1 DEF Token
    <3> QED
      BY <1>1, <3>1, <3>2 DEF HubInv, HubTypes
  <2>6. /\ DOMAIN receipts' = 1..MaxToken
        /\ \A u \in 1..MaxToken : receipts'[u].kind = "receipt" => receipts'[u].cert \in 1..(Len(creds) + 1)
    <3>1. PICK r : r = [kind |-> "receipt", req |-> req, cert |-> Len(creds) + 1, exp |-> clock + ReceiptLife]
      OBVIOUS
    <3>2. receipts' = [receipts EXCEPT ![t] = r] /\ r.cert = Len(creds) + 1
      BY <1>3, <3>1 DEF Redeems
    <3> QED
      BY <2>1, <3>2 DEF HubInv, HubTypes
  <2>7. UNCHANGED <<clock, gen, banned, renewed>> /\ creds' = Append(creds, c)
    BY <1>3, <2>2 DEF Redeems
  <2>8. OthersAsTheyWere(creds, c.prior)
    BY <2>3 DEF SameIdentity, OthersAsTheyWere
  <2>9. OneRow' /\ renewed' \in SUBSET Renewal /\ c.prior \in 0..Len(creds)
    BY <2>1, <2>3, <2>4, <2>7 DEF OneRow, HubInv, HubTypes
  <2>10. /\ \A h \in hosts : h.live => \E k \in hosts' : k.live /\ k.id = h.id
         /\ \E k \in hosts' : k.live /\ k.id = c.host
    BY <2>3, <2>4
  <2> QED
    BY <2>1, <2>3, <2>4, <2>5, <2>6, <2>7, <2>8, <2>9, <2>10, OneMoreCert
<1> QED
  BY <1>1, <1>2, <1>3

-----------------------------------------------------------------------------
(* A certificate is renewed on its own connection.                         *)

(* What a renewal does unless it is answered from its receipt.             *)
Renews(s, csr) ==
  /\ creds' = Append([creds EXCEPT ![s].revoked = RevokedAt(s)],
                     Signed(creds[s].host, creds[s].key, s))
  /\ renewed' = {r \in renewed : r.serial # s \/ r.csr # csr}
       \cup {[serial |-> s, csr |-> csr, cert |-> Len(creds) + 1, exp |-> clock + ReceiptLife]}
  /\ UNCHANGED <<gen, hosts, tokens, receipts, banned>>

(* A renewal signs a certificate or repeats its receipt.                   *)
LEMMA RenewOrReplay ==
    ASSUME NEW s, NEW csr, Renew(s, csr)
    PROVE  /\ s \in 1..Len(creds) /\ Accepted(s)
           /\ \/ RenewalOf(s, csr) # {} /\ UNCHANGED trust
              \/ RenewalOf(s, csr) = {} /\ Renews(s, csr)
  BY DEF Renew, Accepted, Renews

(* Nothing of the hub changes, and no time passes.                         *)
LEMMA HubUntouched == ASSUME HubInv, UNCHANGED <<clock, trust>> PROVE HubInv'
<1>1. UNCHANGED <<clock, gen, hosts, tokens, receipts, creds, renewed, banned>>
  BY DEF trust
<1>2. HubTypes' /\ OneRow' /\ RenewalsAreOfOne'
  BY <1>1 DEF HubInv, HubTypes, OneRow, RenewalsAreOfOne
<1>3. CertsAreOfHosts' /\ Overlaps'
  BY <1>1 DEF HubInv, CertsAreOfHosts, Overlaps, DiesInTime, DiesForAReason
<1> QED
  BY <1>2, <1>3 DEF HubInv

(* The predecessor keeps everything but the end of its life.               *)
Shorter(s, x) == [creds EXCEPT ![s].revoked = x]
IsShorter(cs, s, x) ==
  /\ cs \in Seq(Cert) /\ Len(cs) = Len(creds) /\ cs[s].revoked = x
  /\ \A i \in 1..Len(creds) :
       /\ SameIdentity(creds[i], cs[i]) /\ cs[i].prior = creds[i].prior
       /\ cs[i].issued = creds[i].issued
       /\ i # s => cs[i].revoked = creds[i].revoked

(* The certificate a renewal shortens stays the same identity.             *)
LEMMA Shortened ==
    ASSUME HubInv, NEW s \in 1..Len(creds), NEW x \in Nat,
           NEW cs, cs = Shorter(s, x)
    PROVE  IsShorter(cs, s, x)
<1>1. creds \in Seq(Cert) /\ creds[s] \in Cert
  BY HubElements DEF HubInv, HubTypes
<1>2. PICK c : c = [creds[s] EXCEPT !.revoked = x]
  OBVIOUS
<1>3. /\ c \in Cert /\ c.revoked = x /\ SameIdentity(creds[s], c) /\ c.prior = creds[s].prior
      /\ c.issued = creds[s].issued /\ c.exp = creds[s].exp
  BY <1>1, <1>2 DEF Cert, SameIdentity
<1>4. cs = [creds EXCEPT ![s] = c]
  BY <1>2 DEF Shorter
<1>5. cs \in Seq(Cert) /\ Len(cs) = Len(creds) /\ cs[s] = c
  BY <1>1, <1>3, <1>4
<1>6. \A i \in 1..Len(creds) : i # s => cs[i] = creds[i]
  BY <1>1, <1>4
<1> QED
  BY <1>3, <1>5, <1>6 DEF SameIdentity, IsShorter

(* A certificate is renewed.                                               *)
LEMMA RenewKeepsHub ==
    ASSUME HubInv, NEW s, NEW csr \in Nat, Renew(s, csr), clock' = clock
    PROVE  HubInv'
<1>1. s \in 1..Len(creds) /\ (UNCHANGED trust \/ Renews(s, csr))
  BY RenewOrReplay
<1>2. CASE UNCHANGED trust
  BY <1>2, HubUntouched
<1>3. CASE Renews(s, csr)
  <2>1. /\ creds[s] \in Cert /\ Len(creds) \in Nat /\ HubTypes /\ s \in Nat
        /\ clock \in Nat /\ Overlap \in Nat /\ clock + Overlap \in Nat /\ clock + ReceiptLife \in Nat
    <3>1. HubTypes /\ creds[s] \in Cert /\ Len(creds) \in Nat
      BY <1>1, HubElements DEF HubInv
    <3>2. clock \in Nat
      BY <3>1 DEF HubTypes
    <3> QED
      BY <1>1, <3>1, <3>2, EnrollNumbers
  <2>2. creds[s].host \in Nat /\ creds[s].key \in Nat /\ creds[s].revoked \in Nat /\ creds[s].gen \in Nat
    BY <2>1, FieldsOfCert
  <2>3. PICK host \in Nat, key \in Nat : host = creds[s].host /\ key = creds[s].key
    BY <2>2
  <2>4. PICK p, c : p \in Nat /\ p = s /\ c = Signed(host, key, p)
    BY <2>1
  <2>5. /\ c \in Cert /\ c.gen = gen /\ c.host = host /\ c.key = key /\ c.revoked = Never
        /\ c.prior = p /\ c.issued = clock
    <3>1. IsSigned(c, host, key, p)
      BY <2>1, <2>4, SignedIsCert
    <3> QED
      BY <2>4, <3>1 DEF IsSigned
  <2>6. RevokedAt(s) \in Nat
    BY <2>1, <2>2 DEF RevokedAt, Min2
  <2>7. PICK x, q, cs :
          x \in Nat /\ q \in 1..Len(creds) /\ x = RevokedAt(s) /\ q = s /\ cs = Shorter(q, x)
    BY <1>1, <2>6
  <2>8. /\ cs \in Seq(Cert) /\ Len(cs) = Len(creds) /\ cs[s].revoked = RevokedAt(s)
        /\ \A i \in 1..Len(creds) :
             /\ SameIdentity(creds[i], cs[i]) /\ cs[i].prior = creds[i].prior
             /\ cs[i].issued = creds[i].issued
             /\ i # s => cs[i].revoked = creds[i].revoked
    <3>1. IsShorter(cs, q, x)
      BY <2>7, Shortened
    <3> QED
      BY <2>7, <3>1 DEF IsShorter
  <2>9. creds' = Append(cs, c) /\ UNCHANGED <<gen, hosts, tokens, receipts, banned>>
    BY <1>3, <2>3, <2>4, <2>7 DEF Renews, Shorter
  <2>10. creds[s].gen = gen /\ \E k \in hosts : k.live /\ k.id = creds[s].host
    BY RenewOrReplay DEF Accepted, Active
  <2>11. SameIdentity(creds[s], c)
    BY <2>3, <2>4, <2>5, <2>10 DEF SameIdentity
  <2>12. PICK r : r = [serial |-> s, csr |-> csr, cert |-> Len(creds) + 1, exp |-> clock + ReceiptLife]
    OBVIOUS
  <2>13. r \in Renewal /\ r.serial = s /\ r.cert = Len(creds) + 1
    BY <2>1, <2>12 DEF Renewal
  <2>14. renewed' \subseteq renewed \cup {r}
    BY <1>3, <2>12 DEF Renews
  <2>15. /\ renewed' \in SUBSET Renewal /\ hosts' \in SUBSET Host /\ OneRow'
         /\ tokens' \in Seq(Token) /\ Len(tokens') <= MaxToken
         /\ DOMAIN receipts' = 1..MaxToken
         /\ \A t \in 1..MaxToken : receipts'[t].kind = "receipt" => receipts'[t].cert \in 1..(Len(creds) + 1)
    BY <2>1, <2>9, <2>13, <2>14 DEF HubInv, HubTypes, OneRow
  <2>16. /\ \A h \in hosts : h.live => \E k \in hosts' : k.live /\ k.id = h.id
         /\ \E k \in hosts' : k.live /\ k.id = c.host
    BY <2>3, <2>5, <2>9, <2>10
  <2>17. \A w \in renewed' : \/ w \in renewed
                             \/ /\ w.serial \in 1..Len(creds) /\ w.cert = Len(creds) + 1
                                /\ SameIdentity(creds[w.serial], c)
    BY <1>1, <2>11, <2>13, <2>14
  <2>18. c.prior \in 0..Len(creds) /\ OthersAsTheyWere(cs, c.prior)
    BY <1>1, <2>1, <2>4, <2>5, <2>8 DEF OthersAsTheyWere
  <2> QED
    BY <2>5, <2>8, <2>9, <2>15, <2>16, <2>17, <2>18, OneMoreCert
<1> QED
  BY <1>1, <1>2, <1>3

-----------------------------------------------------------------------------
(* An administrator revokes, and a restore forgets, without a new one.     *)
LEMMA CertsEndEarlier ==
    ASSUME HubInv, creds' \in Seq(Cert), Len(creds') = Len(creds),
           UNCHANGED <<clock, tokens, receipts, renewed>>, gen' \in {gen, 2}, banned' \in SUBSET Nat,
           banned \subseteq banned', hosts' \in SUBSET Host, OneRow',
           \A s \in 1..Len(creds) :
             /\ SameIdentity(creds[s], creds'[s]) /\ creds'[s].prior = creds[s].prior
             /\ creds'[s].issued = creds[s].issued /\ creds'[s].revoked <= creds[s].revoked
             /\ creds'[s].revoked = creds[s].revoked \/ s \in banned' \/ gen' # gen,
           gen' = gen => hosts' = hosts
    PROVE  HubInv'
<1>1. PICK n \in Nat : n = Len(creds) /\ n = Len(creds')
  BY HubElements DEF HubInv
<1>2. HubTypes'
  BY <1>1 DEF HubInv, HubTypes
<1>3. \A s \in 1..n : creds[s] \in Cert /\ creds'[s] \in Cert
  BY <1>1, HubElements DEF HubInv
<1>4. \A s \in 1..n : /\ creds'[s].gen = creds[s].gen /\ creds'[s].host = creds[s].host
                      /\ creds'[s].prior = creds[s].prior /\ creds'[s].issued = creds[s].issued
                      /\ creds'[s].revoked <= creds[s].revoked
                      /\ creds'[s].revoked = creds[s].revoked \/ s \in banned' \/ gen' # gen
  BY <1>1 DEF SameIdentity
<1>5. gen \in {1, 2} /\ (gen' = gen \/ (gen = 1 /\ gen' = 2))
  BY DEF HubInv, HubTypes
<1>6. \A s \in 1..n : creds[s].gen \in 1..gen /\ (gen' # gen => creds'[s].gen # gen')
  BY <1>1, <1>4, <1>5 DEF HubInv, CertsAreOfHosts
<1>7. CertsAreOfHosts'
  <2> SUFFICES ASSUME NEW s \in 1..n
               PROVE  /\ creds'[s].gen \in 1..gen' /\ creds'[s].prior \in 0..n
                      /\ creds'[s].gen = gen' => \E h \in hosts' : h.live /\ h.id = creds'[s].host
    BY <1>1 DEF CertsAreOfHosts
  <2>1. creds[s].gen = gen => \E h \in hosts : h.live /\ h.id = creds[s].host
    BY <1>1 DEF HubInv, CertsAreOfHosts
  <2>2. creds'[s].gen \in 1..gen'
    BY <1>4, <1>5, <1>6
  <2>3. creds'[s].prior \in 0..n
    BY <1>1, <1>4 DEF HubInv, CertsAreOfHosts
  <2> QED
    BY <1>4, <1>5, <1>6, <2>1, <2>2, <2>3
<1>8. Overlaps'
  <2>1. ASSUME NEW s \in 1..n, NEW d \in 1..n, creds'[d].prior = s
        PROVE  creds'[s].revoked <= creds'[d].issued + Overlap
    <3>1. creds[s].revoked <= creds[d].issued + Overlap
      BY <1>1, <1>4, <2>1 DEF HubInv, Overlaps, DiesInTime, DiesForAReason
    <3>2. /\ creds[s].revoked \in Nat /\ creds'[s].revoked \in Nat /\ creds[d].issued \in Nat
          /\ Overlap \in Nat /\ creds'[s].revoked <= creds[s].revoked
          /\ creds'[d].issued = creds[d].issued
      BY <1>3, <1>4, FieldsOfCert, EnrollNumbers
    <3> QED
      BY <3>1, <3>2
  <2>2. ASSUME NEW s \in 1..n
        PROVE  \/ creds'[s].revoked = Never \/ s \in banned' \/ creds'[s].gen # gen'
               \/ \E d \in 1..n : creds'[d].prior = s /\ creds'[s].revoked = creds'[d].issued + Overlap
    <3>1. \/ creds[s].revoked = Never \/ s \in banned \/ creds[s].gen # gen
          \/ \E d \in 1..n : creds[d].prior = s /\ creds[s].revoked = creds[d].issued + Overlap
      BY <1>1 DEF HubInv, Overlaps, DiesInTime, DiesForAReason
    <3>2. CASE gen' # gen \/ s \in banned'
      BY <1>6, <3>2
    <3>3. CASE gen' = gen /\ s \notin banned'
      BY <1>4, <3>1, <3>3
    <3> QED
      BY <3>2, <3>3
  <2> QED
    BY <1>1, <2>1, <2>2 DEF Overlaps, DiesInTime, DiesForAReason
<1>9. RenewalsAreOfOne'
  BY <1>1 DEF HubInv, RenewalsAreOfOne, SameIdentity
<1> QED
  BY <1>2, <1>7, <1>8, <1>9 DEF HubInv

(* An administrator revokes a certificate.                                 *)
LEMMA RevokeKeepsHub == ASSUME HubInv, Revoke PROVE HubInv'
<1>1. PICK id : /\ creds' = [s \in 1..Len(creds) |->
                     IF s \in Living(id) THEN [creds[s] EXCEPT !.revoked = clock] ELSE creds[s]]
                /\ banned' = banned \cup Living(id)
                /\ UNCHANGED <<clock, gen, hosts, tokens, receipts, renewed>>
  BY DEF Revoke
<1>2. PICK n \in Nat : n = Len(creds)
  BY HubElements DEF HubInv
<1>3. clock \in Nat /\ banned \in SUBSET Nat /\ hosts \in SUBSET Host /\ gen \in {gen, 2} /\ OneRow
  BY DEF HubInv, HubTypes
<1>4. Living(id) \subseteq 1..n /\ \A s \in Living(id) : creds[s].revoked > clock
  BY <1>2 DEF Living
<1>5. \A s \in 1..n : creds[s] \in Cert
  BY <1>2, HubElements DEF HubInv
<1>6. ASSUME NEW s \in 1..n
      PROVE  /\ creds'[s] \in Cert
             /\ SameIdentity(creds[s], creds'[s]) /\ creds'[s].prior = creds[s].prior
             /\ creds'[s].issued = creds[s].issued /\ creds'[s].revoked <= creds[s].revoked
             /\ creds'[s].revoked = creds[s].revoked \/ s \in banned' \/ gen' # gen
  <2>1. CASE s \in Living(id)
    <3>1. creds'[s] = [creds[s] EXCEPT !.revoked = clock] /\ s \in banned'
      BY <1>1, <1>2, <2>1
    <3>2. PICK c \in Cert : c = creds[s]
      BY <1>5
    <3>3. creds'[s] = [c EXCEPT !.revoked = clock]
      BY <3>1, <3>2
    <3>4. PICK d : d = [c EXCEPT !.revoked = clock]
      OBVIOUS
    <3>5. d \in Cert /\ SameIdentity(c, d) /\ d.prior = c.prior /\ d.issued = c.issued /\ d.revoked = clock
      BY <1>3, <3>4 DEF Cert, SameIdentity
    <3>6. clock <= c.revoked
      BY <1>3, <1>4, <2>1, <3>2, FieldsOfCert
    <3> QED
      BY <3>1, <3>2, <3>3, <3>4, <3>5, <3>6
  <2>2. CASE s \notin Living(id)
    <3>1. creds'[s] = creds[s]
      BY <1>1, <1>2, <2>2
    <3>2. creds[s].revoked \in Nat
      BY <1>5, FieldsOfCert
    <3> QED
      BY <1>5, <3>1, <3>2 DEF SameIdentity
  <2> QED
    BY <2>1, <2>2
<1>7. creds' \in Seq(Cert) /\ Len(creds') = n
  <2>1. DOMAIN creds' = 1..n /\ creds' = [s \in 1..n |-> creds'[s]]
    BY <1>1, <1>2
  <2>2. creds' \in [1..n -> Cert]
    BY <1>6, <2>1
  <2> QED
    BY <2>2
<1>8. banned' \in SUBSET Nat /\ banned \subseteq banned'
  BY <1>1, <1>3, <1>4
<1>9. OneRow' /\ hosts' \in SUBSET Host /\ gen' \in {gen, 2}
  BY <1>1, <1>3 DEF OneRow
<1> QED
  BY <1>1, <1>2, <1>6, <1>7, <1>8, <1>9, CertsEndEarlier

(* A restored hub trusts nothing of its former generation.                 *)
LEMMA TrustResetKeepsHub == ASSUME HubInv, TrustReset PROVE HubInv'
<1>1. /\ creds' = [s \in 1..Len(creds) |-> [creds[s] EXCEPT !.revoked = Min2(@, clock)]]
      /\ hosts' = {[h EXCEPT !.live = FALSE] : h \in hosts} /\ gen = 1 /\ gen' = 2
      /\ UNCHANGED <<clock, tokens, receipts, renewed, banned>>
  BY DEF TrustReset
<1>2. PICK n \in Nat : n = Len(creds)
  BY HubElements DEF HubInv
<1>3. clock \in Nat /\ banned \in SUBSET Nat /\ hosts \in SUBSET Host /\ gen' \in {gen, 2}
  BY <1>1 DEF HubInv, HubTypes
<1>4. \A s \in 1..n : creds[s] \in Cert
  BY <1>2, HubElements DEF HubInv
<1>5. ASSUME NEW s \in 1..n
      PROVE  /\ creds'[s] \in Cert
             /\ SameIdentity(creds[s], creds'[s]) /\ creds'[s].prior = creds[s].prior
             /\ creds'[s].issued = creds[s].issued /\ creds'[s].revoked <= creds[s].revoked
  <2>1. PICK c \in Cert : c = creds[s]
    BY <1>4
  <2>2. PICK m : m = Min2(c.revoked, clock)
    OBVIOUS
  <2>3. m \in Nat /\ m <= c.revoked
    BY <1>3, <2>2, FieldsOfCert DEF Min2
  <2>4. creds'[s] = [c EXCEPT !.revoked = m]
    BY <1>1, <1>2, <2>1, <2>2
  <2>5. PICK d : d = [c EXCEPT !.revoked = m]
    OBVIOUS
  <2>6. d \in Cert /\ SameIdentity(c, d) /\ d.prior = c.prior /\ d.issued = c.issued /\ d.revoked = m
    BY <2>3, <2>5 DEF Cert, SameIdentity
  <2> QED
    BY <2>1, <2>3, <2>4, <2>5, <2>6
<1>6. creds' \in Seq(Cert) /\ Len(creds') = n
  <2>1. DOMAIN creds' = 1..n /\ creds' = [s \in 1..n |-> creds'[s]]
    BY <1>1, <1>2
  <2>2. creds' \in [1..n -> Cert]
    BY <1>5, <2>1
  <2> QED
    BY <2>2
<1>7. hosts' \in SUBSET Host
  <2>1. \A h \in hosts : [h EXCEPT !.live = FALSE] \in Host
    BY <1>3 DEF Host
  <2> QED
    BY <1>1, <2>1
<1>8. OneRow'
  <2>1. \A h \in hosts : [h EXCEPT !.live = FALSE].id = h.id
    BY <1>3 DEF Host
  <2>2. ASSUME NEW x \in hosts', NEW y \in hosts', x.id = y.id PROVE x = y
    <3>1. PICK h \in hosts, k \in hosts : x = [h EXCEPT !.live = FALSE] /\ y = [k EXCEPT !.live = FALSE]
      BY <1>1
    <3>2. h.id = k.id
      BY <2>1, <2>2, <3>1
    <3>3. h = k
      BY <3>2 DEF HubInv, OneRow
    <3> QED
      BY <3>1, <3>3
  <2> QED
    BY <2>2 DEF OneRow
<1> QED
  BY <1>1, <1>2, <1>3, <1>5, <1>6, <1>7, <1>8, CertsEndEarlier

-----------------------------------------------------------------------------
(* What a collector's Mac has in its files.                                *)
Pairing   == [kind : {"pairing"}, gen : Nat, host : Nat, inst : Nat]
Attempted == [kind : {"pending"}, host : Nat, inst : Nat, ca : Nat]
Config    == [kind : {"config"}, gen : Nat, host : Nat, inst : Nat, ca : Nat, exp : Nat]
Journal   == [kind : {"journal"}, host : Nat, inst : Nat, prev : Nat, prevca : Nat,
              nextca : Nat, result : Nat]
Asked     == [kind : {"renewal"}, serial : Nat, csr : Nat]
PairFile    == Pairing \cup {Absent, Torn}
RemoteFile  == Attempted \cup Config \cup {Absent}
JournalFile == Journal \cup {Absent}
RenewalFile == Asked \cup {Absent}
Disk == [key : Nat, cert : Nat, ca : Nat, pair : PairFile, conf : Nat, remote : RemoteFile,
         next : Nat, journal : JournalFile, renewal : RenewalFile]

Before == {"idle", "attempt", "journal", "exchange"}
Writes == {"key", "cert", "ca", "pair", "fill", "conf", "remote"}
After  == {"clean", "unstage"}
Setup  == [pc : Before \cup Writes \cup After, file : Nat, again : BOOLEAN, result : Nat]
Runs   == [pc : {"off", "run", "cert", "config", "reload"}, serial : Nat, result : Nat]

MacTypes == disk \in Disk /\ fresh \in Nat /\ setup \in Setup /\ run \in Runs

(* The host and the installation are those of the configuration, or of the *)
(* attempt that comes before it.                                           *)
OfRemote(x) == disk.remote # Absent /\ x.host = disk.remote.host /\ x.inst = disk.remote.inst
CertOfRemote(s) == s \in 1..Len(creds) /\ creds[s].host = disk.remote.host

FilesAgree ==
  /\ disk.cert \in 0..Len(creds)
  /\ disk.pair \notin {Absent, Torn} => OfRemote(disk.pair)
  /\ disk.journal # Absent =>
       OfRemote(disk.journal) /\ (disk.journal.result # 0 => CertOfRemote(disk.journal.result))

(* What a setup has reached holds of the files it has still to write.      *)
SetupKnows ==
  /\ setup.pc # "idle" => setup.file \in 1..Len(tokens)
  /\ setup.pc = "attempt" => disk.remote = Absent /\ ~setup.again
  /\ setup.pc \notin {"idle", "attempt"} =>
       disk.remote # Absent /\ tokens[setup.file].host = disk.remote.host
  /\ setup.pc \in {"journal", "key"} => setup.again
  /\ setup.again => IsConfig(disk) /\ disk.pair \notin {Absent, Torn}
  /\ setup.again /\ setup.pc \in {"exchange"} \cup Writes => disk.journal # Absent
  /\ ~setup.again /\ setup.pc \in {"exchange"} \cup Writes => disk.remote.kind = "pending"
  /\ setup.pc \in Writes => CertOfRemote(setup.result)

(* A certificate that is of the files.                                     *)
Usable(s) ==
  /\ s \in 1..Len(creds) /\ disk.key # 0 /\ creds[s].key = disk.key
  /\ creds[s].gen = disk.ca /\ creds[s].gen = disk.pair.gen /\ creds[s].host = disk.remote.host

(* A collector runs while no setup writes the files of an identity, and    *)
(* every certificate it has to do with is of them.                         *)
RunIsSafe ==
  run.pc # "off" =>
    /\ setup.pc \in {"idle", "journal", "exchange"} /\ (setup.pc # "idle" => setup.again)
    /\ IsConfig(disk) /\ disk.pair \notin {Absent, Torn}
    /\ Usable(run.serial) /\ Usable(disk.cert)
    /\ run.pc # "run" => Usable(run.result)

(* A certificate of this Mac's keys names its host, which the hub knows    *)
(* with its installation.                                                  *)
CertsAreOurs ==
  \A s \in 1..Len(creds) : creds[s].key # 0 =>
    /\ disk.remote # Absent /\ creds[s].host = disk.remote.host
    /\ \E h \in hosts : h.id = creds[s].host /\ h.inst = disk.remote.inst

MacInv == MacTypes /\ FilesAgree /\ SetupKnows /\ RunIsSafe /\ CertsAreOurs

(* The hub forgets no token, certificate or host.                          *)
HubGrows ==
  /\ 1..Len(tokens) \subseteq 1..Len(tokens')
  /\ \A t \in 1..Len(tokens) : tokens'[t].host = tokens[t].host
  /\ Len(creds) \in Nat /\ Len(creds') \in Nat /\ Len(creds) <= Len(creds')
  /\ \A s \in 1..Len(creds) : SameIdentity(creds[s], creds'[s])
  /\ \A h \in hosts : \E k \in hosts' : k.id = h.id /\ k.inst = h.inst

(* Nothing else happens to the Mac.                                        *)
LEMMA MacKept ==
    ASSUME MacInv, HubGrows, CertsAreOurs', UNCHANGED mac
    PROVE  MacInv'
<1>1. UNCHANGED <<disk, setup, run, fresh>>
  BY DEF mac
<1>2. 1..Len(creds) \subseteq 1..Len(creds') /\ 0..Len(creds) \subseteq 0..Len(creds')
  BY DEF HubGrows
<1>3. \A s : (CertOfRemote(s) => CertOfRemote(s)') /\ (Usable(s) => Usable(s)')
  BY <1>1, <1>2 DEF HubGrows, CertOfRemote, Usable, SameIdentity
<1>4. MacTypes'
  BY <1>1 DEF MacInv, MacTypes
<1>5. FilesAgree'
  BY <1>1, <1>2, <1>3 DEF MacInv, FilesAgree, OfRemote
<1>6. SetupKnows'
  BY <1>1, <1>3 DEF MacInv, SetupKnows, HubGrows, IsConfig
<1>7. RunIsSafe'
  BY <1>1, <1>3 DEF MacInv, RunIsSafe, IsConfig
<1> QED
  BY <1>4, <1>5, <1>6, <1>7 DEF MacInv

(* The hub's part, and what of it may be new.                              *)
Ours(s) ==
  /\ disk.remote # Absent /\ creds[s].host = disk.remote.host
  /\ \E h \in hosts : h.id = creds[s].host /\ h.inst = disk.remote.inst

(* A certificate of our key stays of our host.                             *)
LEMMA StillOurs ==
    ASSUME MacInv, HubGrows, disk'.remote # Absent \/ disk.remote = Absent,
           disk.remote # Absent => /\ disk'.remote.host = disk.remote.host
                                   /\ disk'.remote.inst = disk.remote.inst,
           \A s \in 1..Len(creds') : s \notin 1..Len(creds) /\ creds'[s].key # 0 => Ours(s)'
    PROVE  CertsAreOurs'
<1> SUFFICES ASSUME NEW s \in 1..Len(creds'), creds'[s].key # 0
             PROVE  /\ disk'.remote # Absent /\ creds'[s].host = disk'.remote.host
                    /\ \E h \in hosts' : h.id = creds'[s].host /\ h.inst = disk'.remote.inst
  BY DEF CertsAreOurs
<1>1. CASE s \in 1..Len(creds)
  <2>1. creds[s].key # 0 /\ creds'[s].host = creds[s].host
    BY <1>1 DEF HubGrows, SameIdentity
  <2>2. PICK h \in hosts : /\ h.id = creds[s].host /\ h.inst = disk.remote.inst
                           /\ disk.remote # Absent /\ creds[s].host = disk.remote.host
    BY <1>1, <2>1 DEF MacInv, CertsAreOurs
  <2>3. PICK k \in hosts' : k.id = h.id /\ k.inst = h.inst
    BY <2>2 DEF HubGrows
  <2> QED
    BY <2>1, <2>2, <2>3
<1>2. CASE s \notin 1..Len(creds)
  BY <1>2 DEF Ours
<1> QED
  BY <1>1, <1>2

(* The Mac's files are as they were, and no certificate is new.            *)
LEMMA MacIdle ==
    ASSUME MacInv, HubGrows, UNCHANGED mac, Len(creds') = Len(creds)
    PROVE  MacInv'
<1>1. UNCHANGED disk
  BY DEF mac
<1>2. CertsAreOurs'
  BY <1>1, StillOurs
<1> QED
  BY <1>2, MacKept

(* The one certificate that is new.                                        *)
OneNew(host, key) ==
  /\ Len(creds') = Len(creds) + 1 /\ creds'[Len(creds) + 1].host = host
  /\ creds'[Len(creds) + 1].key = key /\ creds'[Len(creds) + 1].gen = gen
HostKnown(id, inst) == \E h \in hosts : h.id = id /\ h.inst = inst

(* A redemption forgets nothing.                                           *)
LEMMA RedeemGrows ==
    ASSUME HubInv, NEW t, NEW req, req.inst \in Nat, req.key \in Nat, Redeem(t, req)
    PROVE  /\ t \in 1..Len(tokens) /\ HubGrows
           /\ \/ UNCHANGED trust /\ Replayed(t, req)
              \/ /\ OneNew(tokens[t].host, req.key) /\ HostKnown(tokens[t].host, req.inst)'
                 /\ receipts[t].kind = "absent"
<1>1. t \in 1..Len(tokens) /\ ((Replayed(t, req) /\ UNCHANGED trust) \/ Redeems(t, req))
  BY RedeemOrReplay
<1>2. Len(creds) \in Nat /\ Len(tokens) \in Nat
  BY HubElements DEF HubInv
<1>3. CASE Replayed(t, req) /\ UNCHANGED trust
  <2>1. UNCHANGED <<hosts, tokens, creds>>
    BY <1>3 DEF trust
  <2> QED
    BY <1>1, <1>2, <1>3, <2>1 DEF HubGrows, SameIdentity
<1>4. CASE Redeems(t, req)
  <2>1. PICK host, key : host = tokens[t].host /\ key = req.key
    OBVIOUS
  <2>2. tokens[t] \in Token /\ tokens \in Seq(Token) /\ creds \in Seq(Cert) /\ HubTypes
    BY <1>1, HubElements DEF HubInv, HubTypes
  <2>3. host \in Nat /\ key \in Nat
    BY <2>1, <2>2 DEF Token
  <2>4. PICK c : c = Signed(host, key, 0)
    OBVIOUS
  <2>5. c \in Cert /\ c.gen = gen /\ c.host = host /\ c.key = key
    <3>1. IsSigned(c, host, key, 0)
      BY <2>2, <2>3, <2>4, SignedIsCert
    <3> QED
      BY <3>1 DEF IsSigned
  <2>6. creds' = Append(creds, c) /\ hosts' = HostsWith(t, req) /\ HostAdmits(t, req)
        /\ receipts[t].kind = "absent"
    BY <1>4, <2>1, <2>4 DEF Redeems, Redeemable
  <2>7. /\ Len(creds') = Len(creds) + 1 /\ creds'[Len(creds) + 1] = c
        /\ \A s \in 1..Len(creds) : creds'[s] = creds[s]
    BY <2>2, <2>5, <2>6, OneMore
  <2>8. /\ \A h \in hosts : \E k \in hosts' : k.id = h.id /\ k.inst = h.inst
        /\ \E k \in hosts' : k.id = tokens[t].host /\ k.inst = req.inst
    BY <1>1, <2>6, HostsOfRedeem
  <2>9. 1..Len(tokens) \subseteq 1..Len(tokens') /\ \A u \in 1..Len(tokens) : tokens'[u].host = tokens[u].host
    <3>1. tokens' = [tokens EXCEPT ![t] = [tokens[t] EXCEPT !.used = TRUE]]
      BY <1>4 DEF Redeems
    <3>2. PICK u : u = [tokens[t] EXCEPT !.used = TRUE]
      OBVIOUS
    <3>3. u.host = tokens[t].host
      BY <2>2, <3>2 DEF Token
    <3>4. tokens' = [tokens EXCEPT ![t] = u]
      BY <3>1, <3>2
    <3> QED
      BY <1>1, <1>2, <2>2, <3>3, <3>4
  <2>10. HubGrows
    BY <1>2, <2>7, <2>8, <2>9 DEF HubGrows, SameIdentity
  <2>11. OneNew(tokens[t].host, req.key) /\ HostKnown(tokens[t].host, req.inst)'
    <3>1. OneNew(host, key)
      BY <2>5, <2>7 DEF OneNew
    <3>2. tokens'[t].host = tokens[t].host
      BY <1>1, <2>9
    <3> QED
      BY <2>1, <2>8, <3>1, <3>2 DEF HostKnown
  <2> QED
    BY <1>1, <2>6, <2>10, <2>11
<1> QED
  BY <1>1, <1>3, <1>4

(* A renewal forgets nothing.                                              *)
LEMMA RenewGrows ==
    ASSUME HubInv, NEW s, NEW csr \in Nat, Renew(s, csr)
    PROVE  /\ s \in 1..Len(creds) /\ creds[s].gen = gen /\ HubGrows
           /\ \/ RenewalOf(s, csr) # {} /\ UNCHANGED trust
              \/ /\ RenewalOf(s, csr) = {} /\ UNCHANGED hosts
                 /\ OneNew(creds[s].host, creds[s].key)
<1>1. /\ s \in 1..Len(creds) /\ creds[s].gen = gen
      /\ \/ RenewalOf(s, csr) # {} /\ UNCHANGED trust
         \/ RenewalOf(s, csr) = {} /\ Renews(s, csr)
  BY RenewOrReplay DEF Accepted
<1>2. Len(creds) \in Nat /\ Len(tokens) \in Nat
  BY HubElements DEF HubInv
<1>3. CASE RenewalOf(s, csr) # {} /\ UNCHANGED trust
  <2>1. UNCHANGED <<hosts, tokens, creds>>
    BY <1>3 DEF trust
  <2> QED
    BY <1>1, <1>2, <1>3, <2>1 DEF HubGrows, SameIdentity
<1>4. CASE RenewalOf(s, csr) = {} /\ Renews(s, csr)
  <2>1. creds[s] \in Cert /\ HubTypes /\ clock \in Nat /\ clock + Overlap \in Nat /\ s \in Nat
    BY <1>1, HubElements, EnrollNumbers DEF HubInv, HubTypes
  <2>2. PICK host, key, p, c :
          /\ host \in Nat /\ key \in Nat /\ p \in Nat
          /\ host = creds[s].host /\ key = creds[s].key /\ p = s /\ c = Signed(host, key, p)
    BY <2>1, FieldsOfCert
  <2>3. c \in Cert /\ c.gen = gen /\ c.host = host /\ c.key = key
    <3>1. IsSigned(c, host, key, p)
      BY <2>1, <2>2, SignedIsCert
    <3> QED
      BY <3>1 DEF IsSigned
  <2>4. RevokedAt(s) \in Nat
    BY <2>1, FieldsOfCert DEF RevokedAt, Min2
  <2>5. PICK x, q, cs :
          x \in Nat /\ q \in 1..Len(creds) /\ x = RevokedAt(s) /\ q = s /\ cs = Shorter(q, x)
    BY <1>1, <2>4
  <2>6. /\ cs \in Seq(Cert) /\ Len(cs) = Len(creds)
        /\ \A i \in 1..Len(creds) : SameIdentity(creds[i], cs[i])
    <3>1. IsShorter(cs, q, x)
      BY <2>5, Shortened
    <3> QED
      BY <3>1 DEF IsShorter
  <2>7. creds' = Append(cs, c) /\ UNCHANGED <<gen, hosts, tokens>>
    BY <1>4, <2>2, <2>5 DEF Renews, Shorter
  <2>8. /\ Len(creds') = Len(creds) + 1 /\ creds'[Len(creds) + 1] = c
        /\ \A i \in 1..Len(creds) : creds'[i] = cs[i]
    BY <2>3, <2>6, <2>7, OneMore
  <2>9. HubGrows
    BY <1>2, <2>6, <2>7, <2>8 DEF HubGrows
  <2>10. OneNew(creds[s].host, creds[s].key)
    BY <2>2, <2>3, <2>8 DEF OneNew
  <2> QED
    BY <1>1, <1>4, <2>7, <2>9, <2>10
<1> QED
  BY <1>1, <1>3, <1>4

(* What the hub does by itself leaves every certificate's identity alone.  *)
LEMMA HubGrowsAlone ==
    ASSUME HubInv, ClockTick \/ Issue \/ IssueAgain \/ RegisterLocalHost \/ ReEnrollLocalHost
                     \/ Revoke \/ TrustReset
    PROVE  HubGrows /\ Len(creds') = Len(creds) /\ UNCHANGED mac
<1>1. /\ Len(creds) \in Nat /\ Len(tokens) \in Nat /\ tokens \in Seq(Token) /\ hosts \in SUBSET Host
      /\ \A s \in 1..Len(creds) : creds[s] \in Cert
  BY HubElements DEF HubInv, HubTypes
<1>2. ASSUME UNCHANGED <<creds, hosts>>, 1..Len(tokens) \subseteq 1..Len(tokens'),
             \A t \in 1..Len(tokens) : tokens'[t].host = tokens[t].host
      PROVE  HubGrows /\ Len(creds') = Len(creds)
  BY <1>1, <1>2 DEF HubGrows, SameIdentity
<1>3. ASSUME UNCHANGED <<creds, tokens>>,
             \A h \in hosts : \E k \in hosts' : k.id = h.id /\ k.inst = h.inst
      PROVE  HubGrows /\ Len(creds') = Len(creds)
  BY <1>1, <1>3 DEF HubGrows, SameIdentity
<1>4. CASE ClockTick
  BY <1>2, <1>4 DEF ClockTick, trust
<1>5. CASE Issue \/ IssueAgain
  <2>1. PICK host, again, inst : Reserve(host, again, inst)
    BY <1>5 DEF Issue, IssueAgain
  <2>2. PICK t : tokens' = Append(tokens, t)
    BY <2>1 DEF Reserve
  <2>3. 1..Len(tokens) \subseteq 1..Len(tokens') /\ \A i \in 1..Len(tokens) : tokens'[i] = tokens[i]
    BY <1>1, <2>2
  <2> QED
    BY <1>2, <2>1, <2>3 DEF Reserve
<1>6. CASE RegisterLocalHost
  BY <1>3, <1>6 DEF RegisterLocalHost
<1>7. CASE ReEnrollLocalHost
  <2>1. PICK h \in hosts : hosts' = (hosts \ {h}) \cup {[h EXCEPT !.live = TRUE]}
    BY <1>7 DEF ReEnrollLocalHost
  <2>2. PICK l : l = [h EXCEPT !.live = TRUE]
    OBVIOUS
  <2>3. l.id = h.id /\ l.inst = h.inst /\ hosts' = (hosts \ {h}) \cup {l}
    BY <1>1, <2>1, <2>2 DEF Host
  <2>4. \A g \in hosts : \E k \in hosts' : k.id = g.id /\ k.inst = g.inst
    BY <2>3
  <2> QED
    BY <1>3, <1>7, <2>4 DEF ReEnrollLocalHost
<1>8. ASSUME Len(creds') = Len(creds), \A s \in 1..Len(creds) : SameIdentity(creds[s], creds'[s]),
             UNCHANGED tokens, \A h \in hosts : \E k \in hosts' : k.id = h.id /\ k.inst = h.inst
      PROVE  HubGrows
  BY <1>1, <1>8 DEF HubGrows
<1>9. \A s \in 1..Len(creds) : \A x : SameIdentity(creds[s], [creds[s] EXCEPT !.revoked = x])
  <2> SUFFICES ASSUME NEW s \in 1..Len(creds), NEW x
               PROVE  SameIdentity(creds[s], [creds[s] EXCEPT !.revoked = x])
    OBVIOUS
  <2>1. PICK c \in Cert : c = creds[s]
    BY <1>1
  <2>2. PICK d : d = [c EXCEPT !.revoked = x]
    OBVIOUS
  <2>3. d.gen = c.gen /\ d.host = c.host /\ d.key = c.key
    BY <2>2 DEF Cert
  <2> QED
    BY <2>1, <2>2, <2>3 DEF SameIdentity
<1>10. CASE Revoke
  <2>1. PICK id : /\ creds' = [s \in 1..Len(creds) |->
                       IF s \in Living(id) THEN [creds[s] EXCEPT !.revoked = clock] ELSE creds[s]]
                  /\ UNCHANGED <<tokens, hosts, mac>>
    BY <1>10 DEF Revoke
  <2>2. Len(creds') = Len(creds)
    BY <1>1, <2>1
  <2>3. \A s \in 1..Len(creds) : SameIdentity(creds[s], creds'[s])
    BY <1>9, <2>1 DEF SameIdentity
  <2> QED
    BY <1>8, <2>1, <2>2, <2>3
<1>11. CASE TrustReset
  <2>1. /\ creds' = [s \in 1..Len(creds) |-> [creds[s] EXCEPT !.revoked = Min2(@, clock)]]
        /\ hosts' = {[h EXCEPT !.live = FALSE] : h \in hosts} /\ UNCHANGED <<tokens, mac>>
    BY <1>11 DEF TrustReset
  <2>2. Len(creds') = Len(creds)
    BY <1>1, <2>1
  <2>3. \A s \in 1..Len(creds) : SameIdentity(creds[s], creds'[s])
    BY <1>9, <2>1
  <2>4. ASSUME NEW h \in hosts PROVE \E k \in hosts' : k.id = h.id /\ k.inst = h.inst
    <3>1. [h EXCEPT !.live = FALSE].id = h.id /\ [h EXCEPT !.live = FALSE].inst = h.inst
      BY <1>1 DEF Host
    <3> QED
      BY <2>1, <3>1
  <2> QED
    BY <1>8, <2>1, <2>2, <2>3, <2>4
<1> QED
  BY <1>4, <1>5, <1>6, <1>7, <1>10, <1>11 DEF ClockTick, Issue, IssueAgain, Reserve, RegisterLocalHost,
     ReEnrollLocalHost, Revoke, TrustReset

(* What the hub does alone leaves the Mac consistent.                      *)
LEMMA HubAloneKeepsMac ==
    ASSUME HubInv, MacInv, ClockTick \/ Issue \/ IssueAgain \/ RegisterLocalHost \/ ReEnrollLocalHost
                             \/ Revoke \/ TrustReset
    PROVE  HubInv' /\ MacInv'
<1>1. HubInv'
  BY ClockTickKeepsHub, IssueKeepsHub, LocalHostKeepsHub, RevokeKeepsHub, TrustResetKeepsHub
<1>2. MacInv'
  BY HubGrowsAlone, MacIdle
<1> QED
  BY <1>1, <1>2

(* Another Mac redeems a token.                                            *)
LEMMA OtherMacKeeps == ASSUME HubInv, MacInv, OtherMac PROVE HubInv' /\ MacInv'
<1>1. PICK t \in 1..Len(tokens) :
        /\ Redeem(t, [host |-> tokens[t].host, inst |-> Foreign, key |-> Foreign, ca |-> tokens[t].gen])
        /\ UNCHANGED <<clock, mac>>
  BY DEF OtherMac
<1>2. PICK req : req = [host |-> tokens[t].host, inst |-> Foreign, key |-> Foreign, ca |-> tokens[t].gen]
  OBVIOUS
<1>3. req.inst = 0 /\ req.key = 0 /\ Redeem(t, req) /\ req.inst \in Nat /\ req.key \in Nat
  BY <1>1, <1>2 DEF Foreign
<1>4. HubInv'
  BY <1>1, <1>3, RedeemKeepsHub
<1>5. HubGrows /\ (UNCHANGED trust \/ OneNew(tokens[t].host, req.key))
  BY <1>3, RedeemGrows
<1>6. UNCHANGED disk
  BY <1>1 DEF mac
<1>7. ASSUME NEW s \in 1..Len(creds'), s \notin 1..Len(creds), creds'[s].key # 0 PROVE FALSE
  <2>1. CASE UNCHANGED trust
    BY <1>7, <2>1 DEF trust
  <2>2. CASE OneNew(tokens[t].host, req.key)
    <3>1. s = Len(creds) + 1
      BY <1>5, <1>7, <2>2 DEF HubGrows, OneNew
    <3> QED
      BY <1>3, <1>7, <2>2, <3>1 DEF OneNew
  <2> QED
    BY <1>5, <2>1, <2>2
<1>8. CertsAreOurs'
  BY <1>5, <1>6, <1>7, StillOurs
<1> QED
  BY <1>1, <1>4, <1>5, <1>8, MacKept

-----------------------------------------------------------------------------
(* The Mac's own steps, which tell the hub nothing.                        *)
LEMMA DiskFields ==
    ASSUME NEW d \in Disk
    PROVE  /\ d.key \in Nat /\ d.cert \in Nat /\ d.ca \in Nat /\ d.pair \in PairFile /\ d.conf \in Nat
           /\ d.remote \in RemoteFile /\ d.next \in Nat /\ d.journal \in JournalFile
           /\ d.renewal \in RenewalFile
  BY DEF Disk

(* The types of the fields of a setup.                                     *)
LEMMA SetupFields ==
    ASSUME NEW u \in Setup
    PROVE  /\ u.pc \in Before \cup Writes \cup After /\ u.file \in Nat /\ u.again \in BOOLEAN
           /\ u.result \in Nat
  BY DEF Setup

(* What is known of a file by its kind.                                    *)
LEMMA FilesByKind ==
    ASSUME MacTypes
    PROVE  /\ disk.pair.kind = "pairing" <=> disk.pair \notin {Absent, Torn}
           /\ disk.pair \notin {Absent, Torn} => disk.pair \in Pairing
           /\ IsConfig(disk) => disk.remote # Absent /\ disk.remote \in Config
           /\ disk.remote.kind = "pending" =>
                disk.remote # Absent /\ disk.remote \in Attempted /\ ~IsConfig(disk)
           /\ disk.remote = Absent => ~IsConfig(disk) /\ disk.remote.kind # "pending"
           /\ disk.journal.kind = "journal" <=> disk.journal # Absent
           /\ disk.journal # Absent => disk.journal \in Journal
           /\ disk.renewal # Absent => disk.renewal \in Asked
<1>1. /\ disk.pair \in PairFile /\ disk.remote \in RemoteFile /\ disk.journal \in JournalFile
      /\ disk.renewal \in RenewalFile
  BY DiskFields DEF MacTypes
<1>2. \A p \in Pairing : p.kind = "pairing"
  BY DEF Pairing
<1>3. \A p \in Attempted : p.kind = "pending"
  BY DEF Attempted
<1>4. \A p \in Config : p.kind = "config"
  BY DEF Config
<1>5. \A p \in Journal : p.kind = "journal"
  BY DEF Journal
<1>6. Absent.kind = "absent" /\ Torn.kind = "torn"
  BY DEF Absent, Torn
<1>7. disk.pair \in Pairing \/ disk.pair \in {Absent, Torn}
  BY <1>1 DEF PairFile
<1>8. disk.remote \in Attempted \/ disk.remote \in Config \/ disk.remote = Absent
  BY <1>1 DEF RemoteFile
<1>9. disk.journal \in Journal \/ disk.journal = Absent
  BY <1>1 DEF JournalFile
<1>10. disk.renewal # Absent => disk.renewal \in Asked
  BY <1>1 DEF RenewalFile
<1>11. /\ disk.pair.kind = "pairing" <=> disk.pair \notin {Absent, Torn}
       /\ disk.pair \notin {Absent, Torn} => disk.pair \in Pairing
  BY <1>2, <1>6, <1>7
<1>12. /\ disk.journal.kind = "journal" <=> disk.journal # Absent
       /\ disk.journal # Absent => disk.journal \in Journal
  BY <1>5, <1>6, <1>9
<1>13. /\ IsConfig(disk) => disk.remote # Absent /\ disk.remote \in Config
       /\ disk.remote.kind = "pending" =>
            disk.remote # Absent /\ disk.remote \in Attempted /\ ~IsConfig(disk)
       /\ disk.remote = Absent => ~IsConfig(disk) /\ disk.remote.kind # "pending"
  BY <1>3, <1>4, <1>6, <1>8 DEF IsConfig
<1> QED
  BY <1>10, <1>11, <1>12, <1>13

(* The names the files give to the identity stay.                          *)
LEMMA StillOursAlone ==
    ASSUME MacInv, UNCHANGED trust, disk'.remote # Absent \/ disk.remote = Absent,
           disk.remote # Absent => /\ disk'.remote.host = disk.remote.host
                                   /\ disk'.remote.inst = disk.remote.inst
    PROVE  CertsAreOurs'
  BY DEF MacInv, CertsAreOurs, trust

(* A setup begins or ends, and the files stay.                             *)
LEMMA SetupTurns ==
    ASSUME MacInv, UNCHANGED <<trust, disk, run, fresh>>, setup' \in Setup, SetupKnows',
           run.pc # "off" => /\ setup'.pc \in {"idle", "journal", "exchange"}
                             /\ (setup'.pc # "idle" => setup'.again)
    PROVE  MacInv'
<1>1. UNCHANGED <<gen, hosts, tokens, creds>> /\ UNCHANGED disk
  BY DEF trust
<1>2. MacTypes'
  BY DEF MacInv, MacTypes
<1>3. FilesAgree'
  BY <1>1 DEF MacInv, FilesAgree, OfRemote, CertOfRemote
<1>4. RunIsSafe'
  BY <1>1 DEF MacInv, RunIsSafe, IsConfig, Usable
<1>5. CertsAreOurs'
  BY <1>1, StillOursAlone
<1> QED
  BY <1>2, <1>3, <1>4, <1>5 DEF MacInv

(* A setup ends and leaves the files as they are.                          *)
LEMMA SetupEnds ==
    ASSUME MacInv, UNCHANGED <<trust, disk, run, fresh>>, setup' = Idle
    PROVE  MacInv'
<1>1. setup'.pc = "idle" /\ setup'.again = FALSE /\ setup' \in Setup
  BY DEF Idle, Setup, Before
<1>2. SetupKnows'
  BY <1>1 DEF SetupKnows, Writes
<1> QED
  BY <1>1, <1>2, SetupTurns

(* A setup begins.                                                         *)
LEMMA BeginSetupKeeps == ASSUME MacInv, NEW t, BeginSetup(t) PROVE MacInv'
<1>1. /\ setup.pc = "idle" /\ t \in 1..Len(tokens) /\ UNCHANGED <<run, trust>>
      /\ \/ Resumes(t) /\ Begin(t, "exchange") /\ UNCHANGED <<disk, fresh>>
         \/ /\ disk.remote = Absent /\ disk.key = 0 /\ fresh' = fresh + 1
            /\ disk' = [disk EXCEPT !.key = fresh + 1] /\ Begin(t, "attempt")
  BY DEF BeginSetup, HubsAlone
<1>2. MacTypes /\ FilesAgree /\ RunIsSafe /\ CertsAreOurs /\ t \in Nat /\ UNCHANGED <<hosts, tokens, creds>>
  BY <1>1 DEF MacInv, trust
<1>3. ASSUME NEW first \in Before, Begin(t, first)
      PROVE  setup' \in Setup /\ setup'.pc = first /\ setup'.file = t /\ setup'.again = FALSE
  BY <1>2, <1>3 DEF Begin, Idle, Setup
<1>4. CASE Resumes(t) /\ Begin(t, "exchange") /\ UNCHANGED <<disk, fresh>>
  <2>1. /\ setup' \in Setup /\ setup'.pc = "exchange" /\ setup'.file = t /\ setup'.again = FALSE
    BY <1>3, <1>4 DEF Before
  <2>2. disk.remote # Absent /\ ~IsConfig(disk) /\ disk.remote.kind = "pending"
        /\ tokens[t].host = disk.remote.host
    BY <1>2, <1>4, FilesByKind DEF Resumes, Names
  <2>3. run.pc = "off"
    BY <1>2, <2>2 DEF RunIsSafe
  <2>4. SetupKnows'
    BY <1>1, <1>2, <1>4, <2>1, <2>2 DEF SetupKnows, Writes
  <2> QED
    BY <1>1, <1>4, <2>1, <2>3, <2>4, SetupTurns
<1>5. CASE /\ disk.remote = Absent /\ disk.key = 0 /\ fresh' = fresh + 1
           /\ disk' = [disk EXCEPT !.key = fresh + 1] /\ Begin(t, "attempt")
  <2>1. /\ setup' \in Setup /\ setup'.pc = "attempt" /\ setup'.file = t /\ setup'.again = FALSE
    BY <1>3, <1>5 DEF Before
  <2>2. /\ disk' \in Disk /\ disk'.remote = disk.remote /\ disk'.pair = disk.pair
        /\ disk'.journal = disk.journal /\ disk'.cert = disk.cert
    BY <1>2, <1>5 DEF MacTypes, Disk
  <2>3. run.pc = "off"
    BY <1>2, <1>5, FilesByKind DEF RunIsSafe
  <2>4. MacTypes'
    BY <1>1, <1>2, <1>5, <2>1, <2>2 DEF MacTypes
  <2>5. FilesAgree'
    BY <1>2, <1>5, <2>2 DEF FilesAgree, OfRemote
  <2>6. SetupKnows'
    BY <1>1, <1>2, <1>5, <2>1, <2>2 DEF SetupKnows, Writes
  <2>7. RunIsSafe'
    BY <1>1, <2>3 DEF RunIsSafe
  <2>8. CertsAreOurs'
    BY <1>1, <1>5, <2>2, StillOursAlone
  <2> QED
    BY <2>4, <2>5, <2>6, <2>7, <2>8 DEF MacInv
<1> QED
  BY <1>1, <1>4, <1>5

(* The attempt is saved before the hub is asked.                           *)
LEMMA SaveAttemptKeeps == ASSUME HubInv, MacInv, SaveAttempt PROVE MacInv'
<1>1. /\ MacTypes /\ FilesAgree /\ SetupKnows /\ RunIsSafe /\ CertsAreOurs
      /\ setup.pc = "attempt" /\ UNCHANGED <<run, fresh, hosts, tokens, creds, trust>>
      /\ setup' = [setup EXCEPT !.pc = "exchange"]
  BY DEF SaveAttempt, HubsAlone, trust, MacInv
<1>2. setup.file \in 1..Len(tokens) /\ disk.remote = Absent /\ setup.again = FALSE
  BY <1>1, SetupFields DEF SetupKnows, MacTypes
<1>3. PICK r : r = [kind |-> "pending", host |-> tokens[setup.file].host,
                    inst |-> disk.key, ca |-> tokens[setup.file].gen]
  OBVIOUS
<1>4. tokens[setup.file] \in Token /\ disk.key \in Nat
  BY <1>1, <1>2, HubElements, DiskFields DEF HubInv, MacTypes
<1>5. r \in Attempted /\ r.kind = "pending" /\ r.host = tokens[setup.file].host
  BY <1>3, <1>4 DEF Attempted, Token
<1>6. disk' = [disk EXCEPT !.remote = r]
  BY <1>3 DEF SaveAttempt
<1>7. r \in RemoteFile
  BY <1>5 DEF RemoteFile
<1>8. /\ disk' \in Disk /\ disk'.remote = r /\ disk'.pair = disk.pair
      /\ disk'.journal = disk.journal /\ disk'.cert = disk.cert
  BY <1>1, <1>6, <1>7 DEF MacTypes, Disk
<1>9. r # Absent
  BY <1>5 DEF Absent
<1>10. /\ setup' \in Setup /\ setup'.pc = "exchange" /\ setup'.file = setup.file
       /\ setup'.again = FALSE
  BY <1>1, <1>2 DEF MacTypes, Setup, Before
<1>11. run.pc = "off"
  BY <1>1, <1>2, FilesByKind DEF RunIsSafe
<1>12. MacTypes'
  BY <1>1, <1>8, <1>10 DEF MacTypes
<1>13. FilesAgree'
  BY <1>1, <1>2, <1>8 DEF FilesAgree, OfRemote
<1>14. SetupKnows'
  BY <1>1, <1>2, <1>5, <1>8, <1>9, <1>10 DEF SetupKnows, Writes
<1>15. RunIsSafe'
  BY <1>1, <1>11 DEF RunIsSafe
<1>16. CertsAreOurs'
  BY <1>1, <1>2, <1>8, <1>9, StillOursAlone
<1> QED
  BY <1>12, <1>13, <1>14, <1>15, <1>16 DEF MacInv

(* A re-enrolment begins, with the journal that is there or a new one.     *)
LEMMA BeginReEnrollKeeps == ASSUME MacInv, NEW t, BeginReEnroll(t) PROVE MacInv'
<1>1. /\ MacTypes /\ FilesAgree /\ SetupKnows /\ RunIsSafe /\ CertsAreOurs
      /\ setup.pc = "idle" /\ t \in 1..Len(tokens) /\ t \in Nat
      /\ UNCHANGED <<hosts, tokens, creds, trust>>
      /\ \/ disk' = [disk EXCEPT !.journal = Absent, !.next = 0] /\ UNCHANGED <<setup, run, fresh>>
         \/ Replaces(t) /\ (ResumeJournal(t) \/ StageKey(t))
  BY DEF BeginReEnroll, HubsAlone, trust, MacInv
<1>2. CASE disk' = [disk EXCEPT !.journal = Absent, !.next = 0] /\ UNCHANGED <<setup, run, fresh>>
  <2>1. Absent \in JournalFile
    BY DEF JournalFile
  <2>2. /\ disk' \in Disk /\ disk'.remote = disk.remote /\ disk'.pair = disk.pair
        /\ disk'.journal = Absent /\ disk'.cert = disk.cert /\ disk'.key = disk.key /\ disk'.ca = disk.ca
    BY <1>1, <1>2, <2>1 DEF MacTypes, Disk
  <2>3. MacTypes'
    BY <1>1, <1>2, <2>2 DEF MacTypes
  <2>4. FilesAgree'
    BY <1>1, <2>2 DEF FilesAgree, OfRemote
  <2>5. SetupKnows'
    BY <1>1, <1>2, <2>2 DEF SetupKnows, Writes, IsConfig
  <2>6. RunIsSafe'
    BY <1>1, <1>2, <2>2 DEF RunIsSafe, Usable, IsConfig
  <2>7. CertsAreOurs'
    BY <1>1, <2>2, StillOursAlone
  <2> QED
    BY <2>3, <2>4, <2>5, <2>6, <2>7 DEF MacInv
<1>3. ASSUME Replaces(t)
      PROVE  /\ IsConfig(disk) /\ disk.remote # Absent /\ disk.pair \notin {Absent, Torn}
             /\ tokens[t].host = disk.remote.host
  BY <1>1, <1>3, FilesByKind DEF Replaces
<1>4. CASE Replaces(t) /\ ResumeJournal(t)
  <2>1. PICK p : p = IF disk.journal.result = 0 THEN "exchange" ELSE "key"
    OBVIOUS
  <2>2. /\ setup' = [pc |-> p, file |-> t, again |-> TRUE, result |-> disk.journal.result]
        /\ disk.journal # Absent /\ disk.journal \in Journal /\ UNCHANGED <<disk, fresh>>
        /\ run' = IF disk.journal.result = 0 THEN run ELSE Off
    BY <1>1, <1>4, <2>1, FilesByKind DEF ResumeJournal
  <2>3. p \in {"exchange", "key"} /\ disk.journal.result \in Nat
    BY <2>1, <2>2 DEF Journal
  <2>4. /\ setup' \in Setup /\ setup'.pc = p /\ setup'.file = t
        /\ setup'.again = TRUE /\ setup'.result = disk.journal.result
    BY <1>1, <2>2, <2>3 DEF Setup, Before, Writes
  <2>5. SetupKnows'
    BY <1>1, <1>3, <1>4, <2>1, <2>2, <2>3, <2>4 DEF SetupKnows, Writes, FilesAgree, CertOfRemote, IsConfig
  <2>6. run' \in Runs
    BY <1>1, <2>2 DEF MacTypes, Runs, Off
  <2>7. MacTypes'
    BY <1>1, <2>2, <2>4, <2>6 DEF MacTypes
  <2>8. FilesAgree'
    BY <1>1, <2>2 DEF FilesAgree, OfRemote, CertOfRemote
  <2>9. RunIsSafe'
    <3>1. CASE disk.journal.result = 0
      <4>1. setup'.pc = "exchange" /\ setup'.again = TRUE /\ UNCHANGED <<run, disk>>
        BY <2>1, <2>2, <2>4, <3>1
      <4> QED
        BY <1>1, <4>1 DEF RunIsSafe, Usable, IsConfig
    <3>2. CASE disk.journal.result # 0
      <4>1. run'.pc = "off"
        BY <2>2, <3>2 DEF Off
      <4> QED
        BY <4>1 DEF RunIsSafe
    <3> QED
      BY <3>1, <3>2
  <2>10. CertsAreOurs'
    BY <1>1, <2>2, StillOursAlone
  <2> QED
    BY <2>5, <2>7, <2>8, <2>9, <2>10 DEF MacInv
<1>5. CASE Replaces(t) /\ StageKey(t)
  <2>1. /\ fresh' = fresh + 1 /\ disk' = [disk EXCEPT !.next = fresh + 1] /\ UNCHANGED run
        /\ setup' = [pc |-> "journal", file |-> t, again |-> TRUE, result |-> 0]
    BY <1>5 DEF StageKey
  <2>2. /\ setup' \in Setup /\ setup'.pc = "journal" /\ setup'.file = t /\ setup'.again = TRUE
    BY <1>1, <2>1 DEF Setup, Before
  <2>3. /\ disk' \in Disk /\ disk'.remote = disk.remote /\ disk'.pair = disk.pair
        /\ disk'.journal = disk.journal /\ disk'.cert = disk.cert /\ disk'.key = disk.key /\ disk'.ca = disk.ca
    BY <1>1, <2>1 DEF MacTypes, Disk
  <2>4. MacTypes'
    BY <1>1, <2>1, <2>2, <2>3 DEF MacTypes
  <2>5. FilesAgree'
    BY <1>1, <2>3 DEF FilesAgree, OfRemote, CertOfRemote
  <2>6. SetupKnows'
    BY <1>1, <1>3, <1>5, <2>2, <2>3 DEF SetupKnows, Writes, IsConfig
  <2>7. RunIsSafe'
    BY <1>1, <2>1, <2>2, <2>3 DEF RunIsSafe, Usable, IsConfig
  <2>8. CertsAreOurs'
    BY <1>1, <2>3, StillOursAlone
  <2> QED
    BY <2>4, <2>5, <2>6, <2>7, <2>8 DEF MacInv
<1> QED
  BY <1>1, <1>2, <1>4, <1>5

(* A setup saves its journal.                                              *)
LEMMA SaveJournalKeeps == ASSUME HubInv, MacInv, SaveJournal PROVE MacInv'
<1>1. /\ MacTypes /\ FilesAgree /\ SetupKnows /\ RunIsSafe /\ CertsAreOurs
      /\ setup.pc = "journal" /\ UNCHANGED <<run, fresh, hosts, tokens, creds, trust>>
      /\ setup' = [setup EXCEPT !.pc = "exchange"]
  BY DEF SaveJournal, HubsAlone, trust, MacInv
<1>2. /\ setup.file \in 1..Len(tokens) /\ disk.remote # Absent /\ setup.again = TRUE
      /\ tokens[setup.file].host = disk.remote.host /\ IsConfig(disk) /\ disk.pair \notin {Absent, Torn}
  BY <1>1, SetupFields DEF SetupKnows, MacTypes
<1>3. PICK j : j =
        [kind |-> "journal", host |-> tokens[setup.file].host, inst |-> disk.pair.inst,
         prev |-> disk.pair.gen, prevca |-> disk.remote.ca, nextca |-> tokens[setup.file].gen, result |-> 0]
  OBVIOUS
<1>4. tokens[setup.file] \in Token /\ disk.pair \in Pairing /\ disk.remote \in Config
  BY <1>1, <1>2, HubElements, FilesByKind DEF HubInv
<1>5. j \in Journal /\ j.host = disk.remote.host /\ j.inst = disk.remote.inst /\ j.result = 0
  BY <1>1, <1>2, <1>3, <1>4 DEF Journal, Token, Pairing, Config, FilesAgree, OfRemote
<1>6. j \in JournalFile /\ j # Absent /\ disk' = [disk EXCEPT !.journal = j]
  BY <1>3, <1>5 DEF JournalFile, Journal, Absent, SaveJournal
<1>7. /\ disk' \in Disk /\ disk'.remote = disk.remote /\ disk'.pair = disk.pair
      /\ disk'.journal = j /\ disk'.cert = disk.cert /\ disk'.key = disk.key /\ disk'.ca = disk.ca
  BY <1>1, <1>6 DEF MacTypes, Disk
<1>8. /\ setup' \in Setup /\ setup'.pc = "exchange" /\ setup'.file = setup.file
      /\ setup'.again = TRUE
  BY <1>1, <1>2 DEF MacTypes, Setup, Before
<1>9. MacTypes'
  BY <1>1, <1>7, <1>8 DEF MacTypes
<1>10. FilesAgree'
  BY <1>1, <1>2, <1>5, <1>7 DEF FilesAgree, OfRemote
<1>11. SetupKnows'
  BY <1>1, <1>2, <1>6, <1>7, <1>8 DEF SetupKnows, Writes, IsConfig
<1>12. RunIsSafe'
  BY <1>1, <1>7, <1>8 DEF RunIsSafe, Usable, IsConfig
<1>13. CertsAreOurs'
  BY <1>1, <1>7, StillOursAlone
<1> QED
  BY <1>9, <1>10, <1>11, <1>12, <1>13 DEF MacInv

(* The hub refuses a setup, or the setup dies.                             *)
LEMMA RefusedOrCrashedKeeps == ASSUME MacInv, ExchangeRefused \/ PairingRefused \/ CrashSetup PROVE MacInv'
  BY SetupEnds DEF ExchangeRefused, PairingRefused, CrashSetup, HubsAlone, trust

(* The journal and the staged key are removed.                             *)
LEMMA CleanedKeeps == ASSUME MacInv, RemoveJournal \/ RemoveStagedKey PROVE MacInv'
<1>1. /\ MacTypes /\ FilesAgree /\ SetupKnows /\ RunIsSafe /\ CertsAreOurs
      /\ setup.pc \in After /\ UNCHANGED <<run, fresh, hosts, tokens, creds, trust>>
      /\ setup' = [setup EXCEPT !.pc = "unstage"] \/ setup' = Idle
      /\ disk' = [disk EXCEPT !.journal = Absent] \/ disk' = [disk EXCEPT !.next = 0]
  BY DEF RemoveJournal, RemoveStagedKey, HubsAlone, trust, MacInv, After
<1>2. Absent \in JournalFile
  BY DEF JournalFile
<1>3. /\ disk' \in Disk /\ disk'.remote = disk.remote /\ disk'.pair = disk.pair
      /\ disk'.cert = disk.cert /\ disk'.journal \in {disk.journal, Absent}
  BY <1>1, <1>2 DEF MacTypes, Disk
<1>4. setup \in Setup /\ disk.remote # Absent /\ setup.file \in 1..Len(tokens)
      /\ tokens[setup.file].host = disk.remote.host /\ run.pc = "off"
  BY <1>1 DEF MacTypes, SetupKnows, RunIsSafe, After
<1>5. /\ setup' \in Setup /\ setup'.pc \in {"unstage", "idle"}
      /\ setup'.pc = "unstage" => setup'.file = setup.file
      /\ setup'.again => setup.again
  <2>1. CASE setup' = [setup EXCEPT !.pc = "unstage"]
    <3>1. /\ setup' \in Setup /\ setup'.pc = "unstage" /\ setup'.file = setup.file
          /\ setup'.again = setup.again
      BY <1>4, <2>1 DEF Setup, After
    <3> QED
      BY <3>1
  <2>2. CASE setup' = Idle
    <3>1. setup' \in Setup /\ setup'.pc = "idle" /\ setup'.again = FALSE
      BY <2>2 DEF Setup, Idle, Before
    <3> QED
      BY <3>1
  <2> QED
    BY <1>1, <2>1, <2>2
<1>6. MacTypes'
  BY <1>1, <1>3, <1>5 DEF MacTypes
<1>7. FilesAgree'
  BY <1>1, <1>3 DEF FilesAgree, OfRemote, CertOfRemote
<1>8. SetupKnows'
  BY <1>1, <1>3, <1>4, <1>5 DEF SetupKnows, Writes, IsConfig
<1>9. RunIsSafe'
  BY <1>1, <1>4 DEF RunIsSafe
<1>10. CertsAreOurs'
  BY <1>1, <1>3, StillOursAlone
<1> QED
  BY <1>6, <1>7, <1>8, <1>9, <1>10 DEF MacInv

(* A file of the issued identity is written.  No collector runs, so that   *)
(* what the files say of the host and the installation is all that counts. *)
LEMMA PutKeeps ==
    ASSUME MacInv, NEW from \in Writes, NEW then \in Writes \cup After, NEW d \in Disk, Put(from, then, d),
           d.cert \in 0..Len(creds), d.journal = disk.journal,
           d.remote # Absent, d.remote.host = disk.remote.host, d.remote.inst = disk.remote.inst,
           d.remote.kind = disk.remote.kind \/ (IsConfig(d) /\ then \notin Writes),
           d.pair \notin {Absent, Torn} => d.pair.host = d.remote.host /\ d.pair.inst = d.remote.inst,
           setup.again => d.pair \notin {Absent, Torn}, then # "key"
    PROVE  MacInv'
<1>1. /\ MacTypes /\ FilesAgree /\ SetupKnows /\ RunIsSafe /\ CertsAreOurs
      /\ setup.pc = from /\ disk' = d /\ UNCHANGED <<run, fresh, hosts, tokens, creds, trust>>
      /\ setup' = [setup EXCEPT !.pc = then] /\ setup \in Setup
  BY DEF Put, HubsAlone, trust, MacInv, MacTypes
<1>2. /\ setup.file \in 1..Len(tokens) /\ disk.remote # Absent
      /\ tokens[setup.file].host = disk.remote.host /\ run.pc = "off" /\ CertOfRemote(setup.result)
      /\ setup.again => disk.journal # Absent /\ IsConfig(disk)
      /\ ~setup.again => disk.remote.kind = "pending"
  BY <1>1 DEF SetupKnows, RunIsSafe, Writes
<1>3. /\ setup' \in Setup /\ setup'.pc = then /\ setup'.file = setup.file
      /\ setup'.again = setup.again /\ setup'.result = setup.result
  BY <1>1 DEF Setup
<1>4. MacTypes'
  BY <1>1, <1>3 DEF MacTypes
<1>5. FilesAgree'
  BY <1>1, <1>2 DEF FilesAgree, OfRemote, CertOfRemote
<1>6. SetupKnows'
  BY <1>1, <1>2, <1>3 DEF SetupKnows, CertOfRemote, Writes, After, IsConfig
<1>7. RunIsSafe'
  BY <1>1, <1>2 DEF RunIsSafe
<1>8. CertsAreOurs'
  BY <1>1, <1>2, StillOursAlone
<1> QED
  BY <1>4, <1>5, <1>6, <1>7, <1>8 DEF MacInv

(* What the setup knows when it writes.                                    *)
LEMMA Writing ==
    ASSUME HubInv, MacInv, setup.pc \in Writes
    PROVE  /\ setup.file \in 1..Len(tokens) /\ tokens[setup.file] \in Token
           /\ setup.result \in 1..Len(creds) /\ creds[setup.result] \in Cert
           /\ creds[setup.result].host = disk.remote.host /\ disk.remote # Absent
           /\ Request.host = disk.remote.host /\ Request.inst = disk.remote.inst
           /\ Request.inst \in Nat
           /\ disk \in Disk /\ disk.cert \in 0..Len(creds) /\ setup.result \in Nat
           /\ disk.pair \notin {Absent, Torn} =>
                disk.pair.host = disk.remote.host /\ disk.pair.inst = disk.remote.inst
           /\ setup.again => disk.pair \notin {Absent, Torn}
           /\ setup.pc = "key" => setup.again
<1>1. MacTypes /\ FilesAgree /\ SetupKnows /\ setup.pc \notin {"idle", "attempt"}
  BY DEF MacInv, Writes
<1>2. /\ setup.file \in 1..Len(tokens) /\ disk.remote # Absent
      /\ tokens[setup.file].host = disk.remote.host /\ CertOfRemote(setup.result)
      /\ setup.again => disk.journal # Absent /\ disk.pair \notin {Absent, Torn}
      /\ ~setup.again => disk.remote.kind = "pending"
      /\ setup.pc = "key" => setup.again
  BY <1>1 DEF SetupKnows
<1>3. /\ disk \in Disk /\ disk.cert \in 0..Len(creds) /\ setup.result \in Nat
      /\ disk.pair \notin {Absent, Torn} => disk.pair.host = disk.remote.host /\ disk.pair.inst = disk.remote.inst
      /\ disk.journal # Absent => disk.journal.inst = disk.remote.inst
  BY <1>1, SetupFields DEF MacTypes, FilesAgree, OfRemote
<1>4. setup.result \in 1..Len(creds) /\ creds[setup.result].host = disk.remote.host
  BY <1>2 DEF CertOfRemote
<1>5. tokens[setup.file] \in Token /\ creds[setup.result] \in Cert
  BY <1>2, <1>4, HubElements DEF HubInv
<1>6. Request.host = tokens[setup.file].host
      /\ Request.inst = IF setup.again THEN disk.journal.inst ELSE disk.remote.inst
  BY DEF Request
<1>7. setup.again \in BOOLEAN
  BY <1>1, SetupFields DEF MacTypes
<1>8. Request.inst = disk.remote.inst
  BY <1>2, <1>3, <1>6, <1>7
<1>9. Request.inst \in Nat
  <2>1. CASE setup.again
    <3>1. disk.journal \in Journal
      BY <1>1, <1>2, <2>1, FilesByKind
    <3> QED
      BY <1>6, <2>1, <3>1 DEF Journal
  <2>2. CASE ~setup.again
    <3>1. disk.remote \in Attempted
      BY <1>1, <1>2, <2>2, FilesByKind
    <3> QED
      BY <1>8, <3>1 DEF Attempted
  <2> QED
    BY <2>1, <2>2
<1> QED
  BY <1>2, <1>3, <1>4, <1>5, <1>6, <1>8, <1>9

(* A setup writes the next of the identity files.                          *)
LEMMA InstallKeeps == ASSUME HubInv, MacInv, InstallFile PROVE MacInv'
<1>1. PICK c, t : c = creds[setup.result] /\ t = tokens[setup.file]
  OBVIOUS
<1>2. \/ Put("key", "cert", [disk EXCEPT !.key = disk.next])
      \/ Put("cert", "ca", [disk EXCEPT !.cert = setup.result])
      \/ Put("ca", "pair", [disk EXCEPT !.ca = t.gen])
      \/ CreatesPairing /\ Put("pair", "fill", [disk EXCEPT !.pair = Torn])
      \/ Put("fill", "conf", [disk EXCEPT !.pair = NewPairing])
      \/ PairingFits /\ Put("pair", "conf", [disk EXCEPT !.pair.gen = NewPairing.gen])
      \/ Put("conf", "remote", [disk EXCEPT !.conf = c.gen])
      \/ Put("remote", "clean", [disk EXCEPT !.remote =
             [kind |-> "config", gen |-> c.gen, host |-> c.host, inst |-> Request.inst,
              ca |-> t.gen, exp |-> c.exp]])
  BY <1>1 DEF InstallFile
<1>3. setup.pc \in Writes
  BY <1>2 DEF Put, Writes
<1>4. /\ setup.file \in 1..Len(tokens) /\ t \in Token /\ c \in Cert /\ setup.result \in 1..Len(creds)
      /\ c.host = disk.remote.host /\ disk.remote # Absent
      /\ Request.host = disk.remote.host /\ Request.inst = disk.remote.inst /\ Request.inst \in Nat
      /\ disk \in Disk /\ disk.cert \in 0..Len(creds) /\ setup.result \in Nat
      /\ disk.pair \notin {Absent, Torn} => disk.pair.host = disk.remote.host /\ disk.pair.inst = disk.remote.inst
      /\ setup.again => disk.pair \notin {Absent, Torn}
      /\ t.gen \in Nat /\ c.gen \in Nat /\ c.exp \in Nat /\ c.host \in Nat /\ disk.next \in Nat
      /\ setup.result \in 0..Len(creds)
  BY <1>1, <1>3, Writing, FieldsOfCert, DiskFields DEF Token
<1>5. {"key", "cert", "ca", "pair", "fill", "conf", "remote"} \subseteq Writes /\ "clean" \in After /\ "clean" \notin Writes
  BY DEF Writes, After
<1>6. ASSUME NEW from \in Writes, NEW then \in Writes, then # "key", NEW d \in Disk, Put(from, then, d),
             d.cert \in 0..Len(creds), d.journal = disk.journal, d.pair = disk.pair, d.remote = disk.remote
      PROVE  MacInv'
  BY <1>4, <1>6, PutKeeps
<1>7. CASE Put("key", "cert", [disk EXCEPT !.key = disk.next])
  <2>1. PICK d : d = [disk EXCEPT !.key = disk.next]
    OBVIOUS
  <2>2. /\ d \in Disk /\ d.cert = disk.cert /\ d.journal = disk.journal /\ d.pair = disk.pair
        /\ d.remote = disk.remote
    BY <1>4, <2>1 DEF Disk
  <2>3. Put("key", "cert", d)
    BY <1>7, <2>1
  <2> QED
    BY <1>4, <1>5, <1>6, <2>2, <2>3
<1>8. CASE Put("cert", "ca", [disk EXCEPT !.cert = setup.result])
  <2>1. PICK d : d = [disk EXCEPT !.cert = setup.result]
    OBVIOUS
  <2>2. /\ d \in Disk /\ d.cert = setup.result /\ d.journal = disk.journal /\ d.pair = disk.pair
        /\ d.remote = disk.remote
    BY <1>4, <2>1 DEF Disk
  <2>3. Put("cert", "ca", d)
    BY <1>8, <2>1
  <2> QED
    BY <1>4, <1>5, <1>6, <2>2, <2>3
<1>9. CASE Put("ca", "pair", [disk EXCEPT !.ca = t.gen])
  <2>1. PICK d : d = [disk EXCEPT !.ca = t.gen]
    OBVIOUS
  <2>2. /\ d \in Disk /\ d.cert = disk.cert /\ d.journal = disk.journal /\ d.pair = disk.pair
        /\ d.remote = disk.remote
    BY <1>4, <2>1 DEF Disk
  <2>3. Put("ca", "pair", d)
    BY <1>9, <2>1
  <2> QED
    BY <1>4, <1>5, <1>6, <2>2, <2>3
<1>10. CASE Put("conf", "remote", [disk EXCEPT !.conf = c.gen])
  <2>1. PICK d : d = [disk EXCEPT !.conf = c.gen]
    OBVIOUS
  <2>2. /\ d \in Disk /\ d.cert = disk.cert /\ d.journal = disk.journal /\ d.pair = disk.pair
        /\ d.remote = disk.remote
    BY <1>4, <2>1 DEF Disk
  <2>3. Put("conf", "remote", d)
    BY <1>10, <2>1
  <2> QED
    BY <1>4, <1>5, <1>6, <2>2, <2>3
<1>11. PICK q : q = NewPairing /\ q \in Pairing /\ q.gen = c.gen /\ q.host = disk.remote.host
                 /\ q.inst = disk.remote.inst
  <2>1. PICK q : q = NewPairing
    OBVIOUS
  <2>2. q = [kind |-> "pairing", gen |-> c.gen, host |-> t.host, inst |-> Request.inst]
    BY <1>1, <2>1 DEF NewPairing
  <2>3. t.host = disk.remote.host /\ t.host \in Nat
    BY <1>1, <1>4 DEF Request, Token
  <2> QED
    BY <1>4, <2>1, <2>2, <2>3 DEF Pairing
<1>12. ASSUME NEW from \in Writes, NEW then \in Writes, then # "key", NEW p \in PairFile,
              Put(from, then, [disk EXCEPT !.pair = p]), setup.again => p \notin {Absent, Torn},
              p \notin {Absent, Torn} => p.host = disk.remote.host /\ p.inst = disk.remote.inst
       PROVE  MacInv'
  <2>1. PICK d : d = [disk EXCEPT !.pair = p]
    OBVIOUS
  <2>2. /\ d \in Disk /\ d.cert = disk.cert /\ d.journal = disk.journal /\ d.pair = p
        /\ d.remote = disk.remote
    BY <1>4, <1>12, <2>1 DEF Disk
  <2>3. Put(from, then, d)
    BY <1>12, <2>1
  <2> QED
    BY <1>4, <1>12, <2>2, <2>3, PutKeeps
<1>13. CASE CreatesPairing /\ Put("pair", "fill", [disk EXCEPT !.pair = Torn])
  <2>1. Torn \in PairFile /\ ~setup.again
    BY <1>13 DEF PairFile, CreatesPairing
  <2> QED
    BY <1>5, <1>12, <1>13, <2>1
<1>14. CASE Put("fill", "conf", [disk EXCEPT !.pair = NewPairing])
  <2>1. q \in PairFile /\ q \notin {Absent, Torn}
    BY <1>11 DEF PairFile, Pairing, Absent, Torn
  <2> QED
    BY <1>5, <1>11, <1>12, <1>14, <2>1
<1>15. CASE PairingFits /\ Put("pair", "conf", [disk EXCEPT !.pair.gen = NewPairing.gen])
  <2>1. disk.pair \in Pairing
    BY <1>4, <1>15, FilesByKind DEF PairingFits, PairingOpens, MacInv
  <2>2. PICK p : p = [disk.pair EXCEPT !.gen = q.gen]
    OBVIOUS
  <2>3. p \in Pairing /\ p.host = disk.pair.host /\ p.inst = disk.pair.inst
    BY <1>4, <1>11, <2>1, <2>2 DEF Pairing
  <2>4. p \in PairFile /\ p \notin {Absent, Torn} /\ disk.pair \notin {Absent, Torn}
    BY <2>1, <2>3 DEF PairFile, Pairing, Absent, Torn
  <2>5. Put("pair", "conf", [disk EXCEPT !.pair = p])
    BY <1>11, <1>15, <2>2
  <2>6. p.host = disk.remote.host /\ p.inst = disk.remote.inst
    BY <1>4, <2>3, <2>4
  <2> QED
    BY <1>5, <1>12, <2>4, <2>5, <2>6
<1>16. CASE Put("remote", "clean", [disk EXCEPT !.remote =
             [kind |-> "config", gen |-> c.gen, host |-> c.host, inst |-> Request.inst,
              ca |-> t.gen, exp |-> c.exp]])
  <2>1. PICK r : r = [kind |-> "config", gen |-> c.gen, host |-> c.host, inst |-> Request.inst,
                      ca |-> t.gen, exp |-> c.exp]
    OBVIOUS
  <2>2. r \in Config /\ r.kind = "config" /\ r.host = disk.remote.host /\ r.inst = disk.remote.inst
    BY <1>4, <2>1 DEF Config
  <2>3. r \in RemoteFile /\ r # Absent
    BY <2>2 DEF RemoteFile, Absent
  <2>4. PICK d : d = [disk EXCEPT !.remote = r]
    OBVIOUS
  <2>5. /\ d \in Disk /\ d.cert = disk.cert /\ d.journal = disk.journal /\ d.pair = disk.pair
        /\ d.remote = r
    BY <1>4, <2>3, <2>4 DEF Disk
  <2>6. Put("remote", "clean", d)
    BY <1>16, <2>1, <2>4
  <2>7. IsConfig(d)
    BY <2>2, <2>5 DEF IsConfig
  <2> QED
    BY <1>4, <1>5, <2>2, <2>3, <2>5, <2>6, <2>7, PutKeeps
<1> QED
  BY <1>2, <1>7, <1>8, <1>9, <1>10, <1>13, <1>14, <1>15, <1>16

-----------------------------------------------------------------------------
(* The setup presents its token.                                           *)
LEMMA RequestIsOurs ==
    ASSUME HubInv, MacInv, setup.pc = "exchange"
    PROVE  /\ setup.file \in 1..Len(tokens) /\ tokens[setup.file].host = disk.remote.host
           /\ disk.remote # Absent /\ Request.host = disk.remote.host
           /\ Request.inst = disk.remote.inst /\ Request.inst \in Nat /\ Request.key \in Nat
           /\ setup.again => disk.journal # Absent /\ disk.pair \notin {Absent, Torn} /\ IsConfig(disk)
           /\ ~setup.again => disk.remote.kind = "pending" /\ run.pc = "off"
<1>1. MacTypes /\ FilesAgree /\ SetupKnows /\ RunIsSafe
  BY DEF MacInv
<1>2. /\ setup.file \in 1..Len(tokens) /\ disk.remote # Absent
      /\ tokens[setup.file].host = disk.remote.host
      /\ setup.again => disk.journal # Absent /\ disk.pair \notin {Absent, Torn} /\ IsConfig(disk)
      /\ ~setup.again => disk.remote.kind = "pending"
  BY <1>1 DEF SetupKnows
<1>3. ~setup.again => run.pc = "off"
  BY <1>1 DEF RunIsSafe
<1>4. /\ Request.host = tokens[setup.file].host
      /\ Request.inst = IF setup.again THEN disk.journal.inst ELSE disk.remote.inst
      /\ Request.key = IF setup.again THEN disk.next ELSE disk.key
  BY DEF Request
<1>5. disk.key \in Nat /\ disk.next \in Nat
  BY <1>1, DiskFields DEF MacTypes
<1>6. setup.again => disk.journal.inst = disk.remote.inst /\ disk.journal.inst \in Nat
  BY <1>1, <1>2, FilesByKind DEF FilesAgree, OfRemote, Journal
<1>7. ~setup.again => disk.remote.inst \in Nat
  BY <1>1, <1>2, FilesByKind DEF Attempted
<1>8. setup.again \in BOOLEAN
  BY <1>1, SetupFields DEF MacTypes
<1> QED
  BY <1>2, <1>3, <1>4, <1>5, <1>6, <1>7, <1>8

(* What the hub has after the setup's redemption.                          *)
LEMMA AfterRedeem ==
    ASSUME HubInv, MacInv, setup.pc = "exchange", Redeem(setup.file, Request), clock' = clock,
           disk'.remote = disk.remote
    PROVE  /\ HubInv' /\ HubGrows /\ CertsAreOurs'
           /\ RedeemedCert(setup.file) \in 1..Len(creds') /\ RedeemedCert(setup.file) \in Nat
<1>1. PICK t, req : t = setup.file /\ req = Request
  OBVIOUS
<1>2. /\ t \in 1..Len(tokens) /\ tokens[t].host = disk.remote.host /\ disk.remote # Absent
      /\ req.inst = disk.remote.inst /\ req.inst \in Nat /\ req.key \in Nat
  BY <1>1, RequestIsOurs
<1>3. Redeem(t, req)
  BY <1>1
<1>4. HubInv'
  BY <1>2, <1>3, RedeemKeepsHub
<1>5. /\ HubGrows
      /\ \/ UNCHANGED trust /\ Replayed(t, req)
         \/ /\ OneNew(tokens[t].host, req.key) /\ HostKnown(tokens[t].host, req.inst)'
            /\ receipts[t].kind = "absent"
  BY <1>2, <1>3, RedeemGrows
<1>6. Len(creds) \in Nat /\ Len(tokens) \in Nat /\ Len(tokens) <= MaxToken /\ MaxToken \in Nat
  BY HubElements, EnrollNumbers DEF HubInv, HubTypes
<1>7. CASE UNCHANGED trust /\ Replayed(t, req)
  <2>1. receipts[t].kind = "receipt" /\ UNCHANGED <<hosts, creds>>
    BY <1>7 DEF Replayed, trust
  <2>2. receipts[t].cert \in 1..Len(creds)
    BY <1>2, <1>6, <2>1 DEF HubInv, HubTypes
  <2>3. RedeemedCert(setup.file) = receipts[t].cert
    BY <1>1, <2>1 DEF RedeemedCert
  <2>4. CertsAreOurs'
    BY <1>7, StillOursAlone
  <2>5. receipts[t].cert \in Nat
    BY <1>6, <2>2
  <2> QED
    BY <1>4, <1>5, <2>1, <2>2, <2>3, <2>4, <2>5
<1>8. CASE /\ OneNew(tokens[t].host, req.key) /\ HostKnown(tokens[t].host, req.inst)'
           /\ receipts[t].kind = "absent"
  <2>1. RedeemedCert(setup.file) = Len(creds) + 1
    BY <1>1, <1>8 DEF RedeemedCert
  <2>2. Len(creds') = Len(creds) + 1 /\ creds'[Len(creds) + 1].host = tokens[t].host
    BY <1>8 DEF OneNew
  <2>3. tokens'[t].host = tokens[t].host
    BY <1>2, <1>5 DEF HubGrows
  <2>4. PICK h \in hosts' : h.id = tokens[t].host /\ h.inst = req.inst
    BY <1>8, <2>3 DEF HostKnown
  <2>5. ASSUME NEW s \in 1..Len(creds'), s \notin 1..Len(creds) PROVE Ours(s)'
    <3>1. s = Len(creds) + 1
      BY <1>6, <2>2, <2>5
    <3> QED
      BY <1>2, <2>2, <2>4, <3>1 DEF Ours
  <2>6. CertsAreOurs'
    BY <1>5, <2>5, StillOurs
  <2>7. Len(creds) + 1 \in 1..Len(creds') /\ Len(creds) + 1 \in Nat
    BY <1>6, <2>2
  <2> QED
    BY <1>4, <1>5, <2>1, <2>6, <2>7
<1> QED
  BY <1>5, <1>7, <1>8

(* The token is spent and the answer lost.                                 *)
LEMMA ExchangeLostKeeps == ASSUME HubInv, MacInv, ExchangeLost PROVE HubInv' /\ MacInv'
<1>1. /\ setup.pc = "exchange" /\ Redeem(setup.file, Request) /\ setup' = Idle
      /\ UNCHANGED <<clock, disk, run, fresh>>
  BY DEF ExchangeLost
<1>2. HubInv' /\ HubGrows /\ CertsAreOurs'
  BY <1>1, AfterRedeem
<1>3. /\ MacTypes /\ FilesAgree /\ SetupKnows /\ RunIsSafe
      /\ 1..Len(creds) \subseteq 1..Len(creds') /\ 0..Len(creds) \subseteq 0..Len(creds')
  BY <1>2 DEF MacInv, HubGrows
<1>4. \A s : (CertOfRemote(s) => CertOfRemote(s)') /\ (Usable(s) => Usable(s)')
  BY <1>1, <1>2, <1>3 DEF HubGrows, CertOfRemote, Usable, SameIdentity
<1>5. setup'.pc = "idle" /\ setup'.again = FALSE /\ setup' \in Setup
  BY <1>1 DEF Idle, Setup, Before
<1>6. MacTypes'
  BY <1>1, <1>3, <1>5 DEF MacTypes
<1>7. FilesAgree'
  BY <1>1, <1>3, <1>4 DEF FilesAgree, OfRemote
<1>8. SetupKnows'
  BY <1>5 DEF SetupKnows, Writes
<1>9. RunIsSafe'
  BY <1>1, <1>3, <1>4, <1>5 DEF RunIsSafe, IsConfig
<1> QED
  BY <1>2, <1>6, <1>7, <1>8, <1>9 DEF MacInv

(* The token is spent and the answer arrives.                              *)
LEMMA ExchangeKeeps == ASSUME HubInv, MacInv, Exchange PROVE HubInv' /\ MacInv'
<1>1. PICK s : s = RedeemedCert(setup.file)
  OBVIOUS
<1>2. PICK p : p = IF setup.again THEN "key" ELSE "cert"
  OBVIOUS
<1>3. /\ setup.pc = "exchange" /\ Redeem(setup.file, Request) /\ Verified(s, creds')
      /\ setup' = [setup EXCEPT !.pc = p, !.result = s]
      /\ disk' = IF setup.again THEN [disk EXCEPT !.journal.result = s] ELSE disk
      /\ run' = IF setup.again THEN Off ELSE run
      /\ UNCHANGED <<clock, fresh>>
  BY <1>1, <1>2 DEF Exchange
<1>4. /\ setup.file \in 1..Len(tokens) /\ tokens[setup.file].host = disk.remote.host
      /\ disk.remote # Absent /\ Request.host = disk.remote.host
      /\ setup.again => disk.journal # Absent /\ disk.pair \notin {Absent, Torn} /\ IsConfig(disk)
      /\ ~setup.again => disk.remote.kind = "pending" /\ run.pc = "off"
  BY <1>3, RequestIsOurs
<1>5. MacTypes /\ FilesAgree /\ disk \in Disk /\ setup \in Setup /\ run \in Runs
  BY DEF MacInv, MacTypes
<1>6. setup.again \in BOOLEAN
  BY <1>5, SetupFields
<1>7. PICK j : j = [disk.journal EXCEPT !.result = s]
  OBVIOUS
<1>8. setup.again => disk' = [disk EXCEPT !.journal = j]
  BY <1>3, <1>7
<1>9. /\ disk'.remote = disk.remote /\ disk'.pair = disk.pair /\ disk'.cert = disk.cert
      /\ setup.again => disk'.journal = j
      /\ ~setup.again => disk'.journal = disk.journal
  BY <1>3, <1>5, <1>6, <1>8 DEF Disk
<1>10. /\ HubInv' /\ HubGrows /\ CertsAreOurs' /\ s \in 1..Len(creds') /\ s \in Nat
  BY <1>1, <1>3, <1>9, AfterRedeem
<1>11. CertOfRemote(s)'
  BY <1>3, <1>4, <1>9, <1>10 DEF Verified, CertOfRemote
<1>12. setup.again => /\ j \in Journal /\ j.host = disk.remote.host /\ j.inst = disk.remote.inst
                      /\ j.result = s
  BY <1>4, <1>5, <1>7, <1>10, FilesByKind DEF Journal, FilesAgree, OfRemote
<1>13. setup.again => j \in JournalFile /\ j # Absent
  BY <1>12 DEF JournalFile, Journal, Absent
<1>14. disk' \in Disk
  <2>1. CASE setup.again
    BY <1>5, <1>8, <1>13, <2>1 DEF Disk
  <2>2. CASE ~setup.again
    BY <1>3, <1>5, <2>2
  <2> QED
    BY <2>1, <2>2
<1>15. p \in {"key", "cert"} /\ (p = "key" => setup.again)
  BY <1>2
<1>16. /\ setup' \in Setup /\ setup'.pc = p /\ setup'.file = setup.file
       /\ setup'.again = setup.again /\ setup'.result = s
  BY <1>3, <1>5, <1>10, <1>15 DEF Setup, Writes
<1>17. run' \in Runs /\ run'.pc = "off"
  BY <1>3, <1>4, <1>5, <1>6 DEF Runs, Off
<1>18. 1..Len(creds) \subseteq 1..Len(creds') /\ 0..Len(creds) \subseteq 0..Len(creds')
  BY <1>10 DEF HubGrows
<1>19. MacTypes'
  BY <1>3, <1>5, <1>14, <1>16, <1>17 DEF MacTypes
<1>20. FilesAgree'
  <2>1. disk'.cert \in 0..Len(creds') /\ (disk'.pair \notin {Absent, Torn} => OfRemote(disk.pair)')
    BY <1>5, <1>9, <1>18 DEF FilesAgree, OfRemote
  <2>2. CASE setup.again
    BY <1>4, <1>9, <1>11, <1>12, <2>1, <2>2 DEF FilesAgree, OfRemote
  <2>3. CASE ~setup.again
    <3>1. \A i : CertOfRemote(i) => CertOfRemote(i)'
      BY <1>9, <1>10, <1>18 DEF HubGrows, CertOfRemote, SameIdentity
    <3> QED
      BY <1>5, <1>9, <2>1, <2>3, <3>1 DEF FilesAgree, OfRemote
  <2> QED
    BY <2>2, <2>3
<1>21. SetupKnows'
  <2>1. setup.file \in 1..Len(tokens') /\ tokens'[setup.file].host = tokens[setup.file].host
    BY <1>4, <1>10 DEF HubGrows
  <2> QED
    BY <1>4, <1>9, <1>11, <1>13, <1>15, <1>16, <2>1 DEF SetupKnows, Writes, IsConfig
<1>22. RunIsSafe'
  BY <1>17 DEF RunIsSafe
<1> QED
  BY <1>10, <1>19, <1>20, <1>21, <1>22 DEF MacInv

-----------------------------------------------------------------------------
(* The collector's own steps.                                              *)

(* The collector goes on with the identity of the files.                   *)
LEMMA RunTurns ==
    ASSUME MacInv, UNCHANGED <<trust, setup>>, fresh' \in Nat, disk' \in Disk, run' \in Runs,
           disk'.key = disk.key, disk'.ca = disk.ca, disk'.pair = disk.pair,
           disk'.journal = disk.journal, disk'.remote.kind = disk.remote.kind,
           disk.remote # Absent => /\ disk'.remote # Absent /\ disk'.remote.host = disk.remote.host
                                   /\ disk'.remote.inst = disk.remote.inst,
           disk.remote = Absent => disk'.remote = Absent,
           disk'.cert = disk.cert \/ Usable(disk'.cert),
           run'.pc # "off" =>
             /\ setup.pc \in {"idle", "journal", "exchange"} /\ (setup.pc # "idle" => setup.again)
             /\ IsConfig(disk) /\ disk.pair \notin {Absent, Torn}
             /\ Usable(run'.serial) /\ Usable(disk'.cert) /\ (run'.pc # "run" => Usable(run'.result))
    PROVE  MacInv'
<1>1. MacTypes /\ FilesAgree /\ SetupKnows /\ UNCHANGED <<gen, hosts, tokens, creds>>
  BY DEF MacInv, trust
<1>2. IsConfig(disk) => disk.remote # Absent
  BY <1>1, FilesByKind
<1>3. MacTypes'
  BY <1>1 DEF MacTypes
<1>4. FilesAgree'
  BY <1>1 DEF FilesAgree, OfRemote, CertOfRemote, Usable
<1>5. SetupKnows'
  BY <1>1 DEF SetupKnows, CertOfRemote, IsConfig, Writes
<1>6. RunIsSafe'
  BY <1>1, <1>2 DEF RunIsSafe, Usable, IsConfig
<1>7. CertsAreOurs'
  BY <1>1, StillOursAlone
<1> QED
  BY <1>3, <1>4, <1>5, <1>6, <1>7 DEF MacInv

(* The only file that changes is the one of a renewal that is asked for.   *)
LEMMA RenewalFileTurns ==
    ASSUME MacInv, UNCHANGED <<trust, setup>>, fresh' \in Nat, run' \in Runs,
           NEW r \in RenewalFile, disk' = [disk EXCEPT !.renewal = r] \/ disk' = disk,
           run.pc # "off",
           run'.pc # "off" => Usable(run'.serial) /\ (run'.pc # "run" => Usable(run'.result))
    PROVE  MacInv'
<1>1. disk \in Disk /\ RunIsSafe
  BY DEF MacInv, MacTypes
<1>2. /\ disk' \in Disk /\ disk'.key = disk.key /\ disk'.ca = disk.ca /\ disk'.pair = disk.pair
      /\ disk'.journal = disk.journal /\ disk'.remote = disk.remote /\ disk'.cert = disk.cert
  <2>1. CASE disk' = [disk EXCEPT !.renewal = r]
    BY <1>1, <2>1 DEF Disk
  <2>2. CASE disk' = disk
    BY <1>1, <2>2
  <2> QED
    BY <2>1, <2>2
<1> QED
  BY <1>1, <1>2, RunTurns DEF RunIsSafe

(* The collector starts with the files it finds.                           *)
LEMMA StartKeeps == ASSUME HubInv, MacInv, StartCollector PROVE MacInv'
<1>1. /\ setup.pc = "idle" /\ TransportOpens(disk, disk.conf) /\ PairingOpens(disk, disk.conf)
      /\ disk' = Repaired(disk) /\ run' = [pc |-> "run", serial |-> disk.cert, result |-> 0]
      /\ UNCHANGED <<trust, setup, fresh>>
  BY DEF StartCollector, HubsAlone
<1>2. MacTypes /\ FilesAgree /\ disk \in Disk /\ fresh \in Nat /\ disk.cert \in Nat
  BY DiskFields DEF MacInv, MacTypes
<1>3. IsConfig(disk) /\ disk.remote \in Config /\ disk.remote # Absent /\ disk.pair \notin {Absent, Torn}
  BY <1>1, <1>2, FilesByKind DEF TransportOpens, PairingOpens
<1>4. disk.cert \in 1..Len(creds) /\ creds[disk.cert] \in Cert
  <2>1. disk.cert \in 0..Len(creds) /\ disk.cert # 0 /\ Len(creds) \in Nat
    BY <1>1, <1>2, HubElements DEF FilesAgree, TransportOpens, HubInv
  <2>2. disk.cert \in 1..Len(creds)
    BY <2>1
  <2> QED
    BY <2>2, HubElements DEF HubInv
<1>5. Usable(disk.cert)
  BY <1>1, <1>4 DEF TransportOpens, PairingOpens, IdentityConflicts, Usable
<1>6. PICK x, r : x \in Nat /\ x = creds[disk.cert].exp /\ r = [disk.remote EXCEPT !.exp = x]
  BY <1>4, FieldsOfCert
<1>7. /\ r \in Config /\ r.kind = disk.remote.kind /\ r.host = disk.remote.host
      /\ r.inst = disk.remote.inst
  BY <1>3, <1>6 DEF Config
<1>8. r \in RemoteFile /\ r # Absent
  BY <1>7 DEF RemoteFile, Config, Absent
<1>9. disk' = [disk EXCEPT !.remote = r]
  BY <1>1, <1>6 DEF Repaired
<1>10. /\ disk' \in Disk /\ disk'.remote = r /\ disk'.key = disk.key /\ disk'.ca = disk.ca
       /\ disk'.pair = disk.pair /\ disk'.journal = disk.journal /\ disk'.cert = disk.cert
  BY <1>2, <1>8, <1>9 DEF Disk
<1>11. run' \in Runs /\ run'.pc = "run" /\ run'.serial = disk.cert
  BY <1>1, <1>2 DEF Runs
<1> QED
  BY <1>1, <1>2, <1>3, <1>5, <1>7, <1>8, <1>10, <1>11, RunTurns

(* The collector stops.                                                    *)
LEMMA StopKeeps == ASSUME MacInv, StopCollector PROVE MacInv'
<1>1. UNCHANGED <<trust, disk, setup, fresh>> /\ run' = Off /\ disk \in Disk /\ fresh \in Nat
  BY DEF StopCollector, MacInv, MacTypes
<1>2. run' \in Runs /\ run'.pc = "off"
  BY <1>1 DEF Runs, Off
<1> QED
  BY <1>1, <1>2, RunTurns

(* The request of a renewal is forgotten, prepared, or done with.          *)
LEMMA RenewalFileKeeps ==
    ASSUME MacInv, ForgetRenewal \/ PrepareRenewal \/ ReloadTransport PROVE MacInv'
<1>1. /\ MacTypes /\ RunIsSafe /\ disk \in Disk /\ run \in Runs /\ fresh \in Nat
      /\ disk.cert \in Nat
  BY DiskFields DEF MacInv, MacTypes
<1>2. Absent \in RenewalFile /\ run.serial \in Nat /\ run.result \in Nat
  BY <1>1 DEF RenewalFile, Runs
<1>3. CASE ForgetRenewal
  <2>1. /\ disk' = [disk EXCEPT !.renewal = Absent] /\ UNCHANGED <<trust, setup, run, fresh>>
        /\ run.pc = "run"
    BY <1>3 DEF ForgetRenewal, HubsAlone
  <2> QED
    BY <1>1, <1>2, <2>1, RenewalFileTurns DEF RunIsSafe
<1>4. CASE PrepareRenewal
  <2>1. PICK r : r = [kind |-> "renewal", serial |-> run.serial, csr |-> fresh + 1]
    OBVIOUS
  <2>2. r \in RenewalFile
    BY <1>1, <1>2, <2>1 DEF RenewalFile, Asked
  <2>3. /\ disk' = [disk EXCEPT !.renewal = r] /\ UNCHANGED <<trust, setup, run>>
        /\ fresh' = fresh + 1 /\ run.pc = "run"
    BY <1>4, <2>1 DEF PrepareRenewal, HubsAlone
  <2> QED
    BY <1>1, <2>2, <2>3, RenewalFileTurns DEF RunIsSafe
<1>5. CASE ReloadTransport
  <2>1. /\ disk' = [disk EXCEPT !.renewal = Absent] /\ UNCHANGED <<trust, setup, fresh>>
        /\ run.pc = "reload"
        /\ \/ run' = [pc |-> "run", serial |-> disk.cert, result |-> 0]
           \/ run' = [run EXCEPT !.pc = "run"]
    BY <1>5 DEF ReloadTransport, HubsAlone
  <2>2. run' \in Runs /\ run'.pc = "run" /\ run'.serial \in {disk.cert, run.serial}
    BY <1>1, <2>1 DEF Runs
  <2> QED
    BY <1>1, <1>2, <2>1, <2>2, RenewalFileTurns DEF RunIsSafe
<1> QED
  BY <1>3, <1>4, <1>5

(* The renewed certificate is installed, and its end is recorded.          *)
LEMMA InstallRenewedKeeps ==
    ASSUME HubInv, MacInv, InstallRenewed \/ RecordRenewed PROVE MacInv'
<1>1. /\ MacTypes /\ RunIsSafe /\ disk \in Disk /\ run \in Runs /\ fresh \in Nat
      /\ UNCHANGED <<trust, setup, fresh>> /\ run.pc \in {"cert", "config"}
  BY DEF MacInv, MacTypes, InstallRenewed, RecordRenewed, HubsAlone
<1>2. /\ setup.pc \in {"idle", "journal", "exchange"} /\ (setup.pc # "idle" => setup.again)
      /\ IsConfig(disk) /\ disk.pair \notin {Absent, Torn}
      /\ Usable(run.serial) /\ Usable(disk.cert) /\ Usable(run.result)
  BY <1>1 DEF RunIsSafe
<1>3. run.result \in Nat /\ disk.remote \in Config /\ disk.remote # Absent
  BY <1>1, <1>2, FilesByKind DEF Runs
<1>4. CASE InstallRenewed
  <2>1. disk' = [disk EXCEPT !.cert = run.result] /\ run' = [run EXCEPT !.pc = "config"]
    BY <1>4 DEF InstallRenewed
  <2>2. /\ disk' \in Disk /\ disk'.remote = disk.remote /\ disk'.key = disk.key /\ disk'.ca = disk.ca
        /\ disk'.pair = disk.pair /\ disk'.journal = disk.journal /\ disk'.cert = run.result
    BY <1>1, <1>3, <2>1 DEF Disk
  <2>3. run' \in Runs /\ run'.serial = run.serial /\ run'.result = run.result
    BY <1>1, <2>1 DEF Runs
  <2> QED
    BY <1>1, <1>2, <2>2, <2>3, RunTurns
<1>5. CASE RecordRenewed
  <2>1. PICK x, r : x = creds[run.result].exp /\ r = [disk.remote EXCEPT !.exp = x]
    OBVIOUS
  <2>2. x \in Nat
    BY <1>2, <2>1, HubElements, FieldsOfCert DEF Usable, HubInv
  <2>3. /\ r \in Config /\ r.kind = disk.remote.kind /\ r.host = disk.remote.host
        /\ r.inst = disk.remote.inst
    BY <1>3, <2>1, <2>2 DEF Config
  <2>4. r \in RemoteFile /\ r # Absent
    BY <2>3 DEF RemoteFile, Config, Absent
  <2>5. disk' = [disk EXCEPT !.remote = r] /\ run' = [run EXCEPT !.pc = "reload"]
    BY <1>5, <2>1 DEF RecordRenewed
  <2>6. /\ disk' \in Disk /\ disk'.remote = r /\ disk'.key = disk.key /\ disk'.ca = disk.ca
        /\ disk'.pair = disk.pair /\ disk'.journal = disk.journal /\ disk'.cert = disk.cert
    BY <1>1, <2>4, <2>5 DEF Disk
  <2>7. run' \in Runs /\ run'.serial = run.serial /\ run'.result = run.result
    BY <1>1, <2>5 DEF Runs
  <2> QED
    BY <1>1, <1>2, <1>3, <2>3, <2>4, <2>6, <2>7, RunTurns
<1> QED
  BY <1>1, <1>4, <1>5 DEF InstallRenewed, RecordRenewed

(* A renewal is answered, or its answer is lost.                           *)
LEMMA RenewalKeeps ==
    ASSUME HubInv, MacInv, RenewCredential \/ RenewalLost PROVE HubInv' /\ MacInv'
<1>1. PICK s, csr : s = run.serial /\ csr = disk.renewal.csr
  OBVIOUS
<1>2. /\ Asks /\ Renew(s, csr) /\ UNCHANGED <<clock, disk, setup, fresh>>
      /\ \/ run' = run
         \/ run' = [run EXCEPT !.pc = "cert", !.result = RenewedCert(s, csr)]
  BY <1>1 DEF RenewCredential, RenewalLost, mac
<1>3. /\ MacTypes /\ FilesAgree /\ SetupKnows /\ RunIsSafe /\ run \in Runs /\ run.pc = "run"
      /\ csr \in Nat
  BY <1>1, <1>2, FilesByKind DEF MacInv, MacTypes, Asks, Asked
<1>4. HubInv'
  BY <1>2, <1>3, RenewKeepsHub
<1>5. /\ s \in 1..Len(creds) /\ creds[s].gen = gen /\ HubGrows
      /\ \/ RenewalOf(s, csr) # {} /\ UNCHANGED trust
         \/ /\ RenewalOf(s, csr) = {} /\ UNCHANGED hosts
            /\ OneNew(creds[s].host, creds[s].key)
  BY <1>2, <1>3, RenewGrows
<1>6. /\ setup.pc \in {"idle", "journal", "exchange"} /\ (setup.pc # "idle" => setup.again)
      /\ IsConfig(disk) /\ disk.pair \notin {Absent, Torn} /\ Usable(s) /\ Usable(disk.cert)
  BY <1>1, <1>3 DEF RunIsSafe
<1>7. Len(creds) \in Nat /\ Len(creds') \in Nat /\ 1..Len(creds) \subseteq 1..Len(creds')
      /\ 0..Len(creds) \subseteq 0..Len(creds')
  BY <1>5 DEF HubGrows
<1>8. \A i : (CertOfRemote(i) => CertOfRemote(i)') /\ (Usable(i) => Usable(i)')
  BY <1>2, <1>5, <1>7 DEF HubGrows, CertOfRemote, Usable, SameIdentity
<1>9. CertsAreOurs'
  <2>1. CASE UNCHANGED trust
    BY <1>2, <2>1, StillOursAlone
  <2>2. CASE UNCHANGED hosts /\ OneNew(creds[s].host, creds[s].key)
    <3>1. creds[s].key # 0
      BY <1>6 DEF Usable
    <3>2. /\ disk.remote # Absent /\ creds[s].host = disk.remote.host
          /\ \E h \in hosts : h.id = creds[s].host /\ h.inst = disk.remote.inst
      BY <1>5, <3>1 DEF MacInv, CertsAreOurs
    <3>3. ASSUME NEW i \in 1..Len(creds'), i \notin 1..Len(creds) PROVE Ours(i)'
      <4>1. i = Len(creds) + 1
        BY <1>7, <2>2, <3>3 DEF OneNew
      <4> QED
        BY <1>2, <2>2, <3>2, <4>1 DEF Ours, OneNew
    <3> QED
      BY <1>2, <1>5, <3>3, StillOurs
  <2> QED
    BY <1>5, <2>1, <2>2
<1>10. PICK n : n = RenewedCert(s, csr)
  OBVIOUS
<1>11. Usable(n)' /\ n \in Nat
  <2>1. CASE RenewalOf(s, csr) # {} /\ UNCHANGED trust
    <3>1. PICK r : r \in RenewalOf(s, csr) /\ n = r.cert
      BY <1>10, <2>1 DEF RenewedCert
    <3>2. r \in renewed /\ r.serial = s
      BY <3>1 DEF RenewalOf
    <3>3. n \in 1..Len(creds) /\ SameIdentity(creds[s], creds[n])
      BY <3>1, <3>2 DEF HubInv, RenewalsAreOfOne
    <3>4. Usable(n)
      BY <1>6, <3>3 DEF Usable, SameIdentity
    <3> QED
      BY <1>7, <1>8, <3>3, <3>4
  <2>2. CASE RenewalOf(s, csr) = {} /\ OneNew(creds[s].host, creds[s].key)
    <3>1. n = Len(creds) + 1
      BY <1>10, <2>2 DEF RenewedCert
    <3>2. n \in 1..Len(creds') /\ n \in Nat
      BY <1>7, <2>2, <3>1 DEF OneNew
    <3>3. creds'[n].host = creds[s].host /\ creds'[n].key = creds[s].key /\ creds'[n].gen = creds[s].gen
      BY <1>5, <2>2, <3>1 DEF OneNew
    <3> QED
      BY <1>2, <1>6, <3>2, <3>3 DEF Usable
  <2> QED
    BY <1>5, <2>1, <2>2
<1>12. /\ run' \in Runs /\ run'.serial = s
       /\ run'.pc = "run" \/ (run'.pc = "cert" /\ run'.result = n)
  <2>1. CASE run' = run
    BY <1>1, <1>3, <2>1
  <2>2. CASE run' = [run EXCEPT !.pc = "cert", !.result = RenewedCert(s, csr)]
    <3>1. run' = [run EXCEPT !.pc = "cert", !.result = n]
      BY <1>10, <2>2
    <3> QED
      BY <1>1, <1>3, <1>11, <3>1 DEF Runs
  <2> QED
    BY <1>2, <2>1, <2>2
<1>13. MacTypes'
  BY <1>2, <1>3, <1>12 DEF MacTypes
<1>14. FilesAgree'
  BY <1>2, <1>3, <1>7, <1>8 DEF FilesAgree, OfRemote
<1>15. SetupKnows'
  BY <1>2, <1>3, <1>5, <1>8 DEF SetupKnows, HubGrows, IsConfig
<1>16. RunIsSafe'
  BY <1>2, <1>6, <1>8, <1>11, <1>12 DEF RunIsSafe, IsConfig
<1> QED
  BY <1>4, <1>9, <1>13, <1>14, <1>15, <1>16 DEF MacInv

-----------------------------------------------------------------------------
(* The invariant of the two sides.                                         *)
EnrollInv == HubInv /\ MacInv

(* The invariant of Enrollment holds at the start.                         *)
LEMMA EnrollStarts == ASSUME EnrollInit PROVE EnrollInv
<1>1. EnrollInit
  OBVIOUS
<1>2. HubTypes
  <2>1. clock \in Nat /\ clock <= MaxClock /\ gen \in {1, 2}
    BY <1>1, EnrollNumbers DEF EnrollInit
  <2>2. hosts \in SUBSET Host /\ renewed \in SUBSET Renewal /\ banned \in SUBSET Nat
    BY <1>1 DEF EnrollInit
  <2>3. tokens \in Seq(Token) /\ creds \in Seq(Cert) /\ Len(tokens) = 0
    BY <1>1 DEF EnrollInit
  <2>4. /\ DOMAIN receipts = 1..MaxToken
        /\ \A t \in 1..MaxToken : receipts[t].kind = "receipt" => receipts[t].cert \in 1..Len(creds)
    BY <1>1 DEF EnrollInit, Absent
  <2> QED
    BY <2>1, <2>2, <2>3, <2>4, EnrollNumbers DEF HubTypes
<1>3. HubInv
  BY <1>1, <1>2 DEF EnrollInit, HubInv, OneRow, CertsAreOfHosts, Overlaps, DiesInTime, DiesForAReason, RenewalsAreOfOne
<1>4. disk = NoFiles /\ setup = Idle /\ run = Off /\ fresh = 0 /\ creds = <<>>
  BY <1>1 DEF EnrollInit
<1>5. Absent \in PairFile /\ Absent \in RemoteFile /\ Absent \in JournalFile /\ Absent \in RenewalFile
  BY DEF PairFile, RemoteFile, JournalFile, RenewalFile
<1>6. /\ disk \in Disk /\ disk.cert = 0 /\ disk.pair = Absent /\ disk.journal = Absent
      /\ disk.remote = Absent
  BY <1>4, <1>5 DEF NoFiles, Disk
<1>7. setup \in Setup /\ setup.pc = "idle" /\ setup.again = FALSE
  BY <1>4 DEF Idle, Setup, Before
<1>8. run \in Runs /\ run.pc = "off"
  BY <1>4 DEF Off, Runs
<1>9. MacTypes
  BY <1>4, <1>6, <1>7, <1>8 DEF MacTypes
<1>10. FilesAgree /\ SetupKnows /\ RunIsSafe /\ CertsAreOurs
  BY <1>4, <1>6, <1>7, <1>8 DEF FilesAgree, SetupKnows, RunIsSafe, CertsAreOurs, Writes
<1> QED
  BY <1>3, <1>9, <1>10 DEF EnrollInv, MacInv

(* It depends on the variables only.                                       *)
LEMMA EnrollStutters == ASSUME EnrollInv, UNCHANGED enrollVars PROVE EnrollInv'
<1>1. UNCHANGED <<clock, trust>> /\ UNCHANGED mac
  BY DEF enrollVars
<1>2. HubInv'
  BY <1>1, HubUntouched DEF EnrollInv
<1>3. HubGrows /\ Len(creds') = Len(creds)
  <2>1. UNCHANGED <<tokens, hosts, creds>> /\ Len(creds) \in Nat
    BY <1>1, HubElements DEF trust, EnrollInv, HubInv
  <2> QED
    BY <2>1 DEF HubGrows, SameIdentity
<1> QED
  BY <1>1, <1>2, <1>3, MacIdle DEF EnrollInv

(* The Mac's steps that the hub does not see.                              *)
LEMMA MacAloneKeeps ==
    ASSUME EnrollInv, MacInv', UNCHANGED <<clock, trust>>
    PROVE  EnrollInv'
  BY HubUntouched DEF EnrollInv

(* Every step keeps it.                                                    *)
LEMMA EnrollStep == ASSUME EnrollInv, EnrollNext PROVE EnrollInv'
<1>1. HubInv /\ MacInv
  BY DEF EnrollInv
<1>2. CASE ClockTick \/ HubStep
  BY <1>1, <1>2, HubAloneKeepsMac, OtherMacKeeps DEF HubStep, EnrollInv
<1>3. CASE Begins
  <2>1. PICK t : BeginSetup(t) \/ BeginReEnroll(t)
    BY <1>3 DEF Begins
  <2>2. UNCHANGED <<clock, trust>>
    BY <2>1 DEF BeginSetup, BeginReEnroll, HubsAlone
  <2>3. MacInv'
    BY <1>1, <2>1, BeginSetupKeeps, BeginReEnrollKeeps
  <2> QED
    BY <2>2, <2>3, MacAloneKeeps
<1>4. CASE Exchange \/ ExchangeLost \/ RenewCredential \/ RenewalLost
  BY <1>1, <1>4, ExchangeKeeps, ExchangeLostKeeps, RenewalKeeps DEF EnrollInv
<1>5. CASE SaveAttempt \/ SaveJournal \/ ExchangeRefused \/ InstallFile \/ PairingRefused
           \/ RemoveJournal \/ RemoveStagedKey \/ CrashSetup
  <2>1. UNCHANGED <<clock, trust>>
    BY <1>5 DEF SaveAttempt, SaveJournal, ExchangeRefused, InstallFile, Put, PairingRefused,
       RemoveJournal, RemoveStagedKey, CrashSetup, HubsAlone
  <2>2. MacInv'
    BY <1>1, <1>5, SaveAttemptKeeps, SaveJournalKeeps, RefusedOrCrashedKeeps, InstallKeeps, CleanedKeeps
  <2> QED
    BY <2>1, <2>2, MacAloneKeeps
<1>6. CASE StartCollector \/ StopCollector \/ ForgetRenewal \/ PrepareRenewal \/ InstallRenewed
           \/ RecordRenewed \/ ReloadTransport
  <2>1. UNCHANGED <<clock, trust>>
    BY <1>6 DEF StartCollector, StopCollector, ForgetRenewal, PrepareRenewal, InstallRenewed,
       RecordRenewed, ReloadTransport, HubsAlone
  <2>2. MacInv'
    BY <1>1, <1>6, StartKeeps, StopKeeps, RenewalFileKeeps, InstallRenewedKeeps
  <2> QED
    BY <2>1, <2>2, MacAloneKeeps
<1> QED
  BY <1>2, <1>3, <1>4, <1>5, <1>6 DEF EnrollNext, SetupStep, RunStep, Fault

(* The invariant holds always.                                            *)
THEOREM EnrollAlways == EnrollSpec => []EnrollInv
<1>1. EnrollInit => EnrollInv
  BY EnrollStarts
<1>2. EnrollInv /\ [EnrollNext]_enrollVars => EnrollInv'
  BY EnrollStep, EnrollStutters
<1> QED
  BY <1>1, <1>2, PTL DEF EnrollSpec

(* A collector the hub listens to speaks for one identity: pairing, key,   *)
(* CA, configuration and the hub's host row are those of its certificate,  *)
(* wherever a setup was interrupted (remote_transport.go, pairing).        *)
THEOREM CollectorsAreOneIdentity == EnrollSpec => []OneIdentity
<1>1. EnrollInv => OneIdentity
  <2> SUFFICES ASSUME EnrollInv, run.pc # "off", Accepted(run.serial)
               PROVE  LET c == creds[run.serial] IN
                      /\ disk.key = c.key /\ disk.ca = c.gen
                      /\ disk.pair.gen = c.gen /\ disk.pair.host = c.host
                      /\ \E h \in Active : h.id = c.host /\ h.inst = disk.pair.inst
    BY DEF OneIdentity
  <2>1. /\ RunIsSafe /\ FilesAgree /\ CertsAreOurs /\ OneRow
    BY DEF EnrollInv, MacInv, HubInv
  <2>2. Usable(run.serial) /\ disk.pair \notin {Absent, Torn}
    BY <2>1 DEF RunIsSafe
  <2>3. PICK c : c = creds[run.serial]
    OBVIOUS
  <2>4. /\ run.serial \in 1..Len(creds) /\ disk.key = c.key /\ c.key # 0 /\ disk.ca = c.gen
        /\ disk.pair.gen = c.gen /\ c.host = disk.remote.host
        /\ disk.pair.host = disk.remote.host /\ disk.pair.inst = disk.remote.inst
    BY <2>1, <2>2, <2>3 DEF Usable, FilesAgree, OfRemote
  <2>5. PICK h \in hosts : h.id = c.host /\ h.inst = disk.remote.inst
    BY <2>1, <2>3, <2>4 DEF CertsAreOurs
  <2>6. PICK g \in hosts : g.live /\ g.id = c.host
    BY <2>3 DEF Accepted, Active
  <2>7. g = h
    BY <2>1, <2>5, <2>6 DEF OneRow
  <2> QED
    BY <2>3, <2>4, <2>5, <2>6, <2>7 DEF Active
<1> QED
  BY <1>1, EnrollAlways, PTL

(* A certificate is accepted until the overlap with its first successor is *)
(* over, and no longer, however often the renewal was asked for again      *)
(* (RenewCollectorCredential).                                             *)
THEOREM OverlapIsAlwaysExact == EnrollSpec => []OverlapIsExact
<1>1. EnrollInv => OverlapIsExact
  <2> SUFFICES ASSUME EnrollInv, NEW s \in 1..Len(creds), NEW over,
                      over = (\E c \in 1..Len(creds) : creds[c].prior = s /\ clock >= creds[c].issued + Overlap)
               PROVE  /\ over => ~Accepted(s)
                      /\ Accepted(s) \/ over \/ clock >= creds[s].exp \/ gen # creds[s].gen \/ s \in banned
    BY DEF OverlapIsExact
  <2>1. /\ HubTypes /\ CertsAreOfHosts /\ Overlaps /\ Overlap \in Nat /\ clock \in Nat /\ clock < Never
        /\ \A c \in 1..Len(creds) : creds[c] \in Cert
    BY HubElements, EnrollNumbers DEF EnrollInv, HubInv, HubTypes
  <2>2. creds[s].revoked \in Nat /\ creds[s].exp \in Nat /\ Never \in Nat
    BY <2>1, FieldsOfCert, EnrollNumbers
  <2>3. over => ~Accepted(s)
    <3> SUFFICES ASSUME NEW c \in 1..Len(creds), creds[c].prior = s, clock >= creds[c].issued + Overlap
                 PROVE  ~Accepted(s)
      OBVIOUS
    <3>1. creds[s].revoked <= creds[c].issued + Overlap /\ creds[c].issued \in Nat
      BY <2>1, FieldsOfCert DEF Overlaps, DiesInTime, DiesForAReason
    <3>2. ~(creds[s].revoked > clock)
      BY <2>1, <2>2, <3>1
    <3> QED
      BY <3>2 DEF Accepted
  <2>4. CASE creds[s].gen = gen /\ creds[s].exp > clock /\ creds[s].revoked > clock
    <3>1. \E h \in Active : h.id = creds[s].host
      BY <2>1, <2>4 DEF CertsAreOfHosts, Active
    <3> QED
      BY <2>3, <2>4, <3>1 DEF Accepted
  <2>5. CASE creds[s].revoked <= clock
    <3>1. creds[s].revoked # Never
      BY <2>1, <2>2, <2>5
    <3>2. ASSUME NEW c \in 1..Len(creds), creds[c].prior = s, creds[s].revoked = creds[c].issued + Overlap
          PROVE  over
      BY <2>5, <3>2, <2>1, <2>2, FieldsOfCert
    <3> QED
      BY <2>1, <2>3, <3>1, <3>2 DEF Overlaps, DiesInTime, DiesForAReason
  <2> QED
    BY <2>1, <2>2, <2>3, <2>4, <2>5
<1> QED
  BY <1>1, EnrollAlways, PTL
============================================================================
