---------------------------- MODULE StoreProofs ----------------------------
(***************************************************************************)
(* What keeps the hub's database right, for every value of the constants:  *)
(* the retention of its history (History.tla) and its replacement by a     *)
(* backup (Restore.tla).  The two are proved about separately and share    *)
(* this module only.                                                       *)
(***************************************************************************)
EXTENDS History, Restore, FiniteSetTheorems, TLAPS

-----------------------------------------------------------------------------
(* Numbers.                                                                *)

(* A set with 0 and every successor has all the numbers.                   *)
LEMMA NumbersByInduction ==
    ASSUME NEW S, 0 \in S, \A n \in Nat : n \in S => n + 1 \in S
    PROVE  Nat \subseteq S
<1> SUFFICES ASSUME NEW n \in Nat, n \notin S PROVE FALSE
  OBVIOUS
<1> DEFINE T == {k \in 0..n : k \notin S}
           f == [k \in T |-> k - 1]
<1>1. n \in T /\ T \subseteq 0..n
  OBVIOUS
<1>2. \A k \in T : k - 1 \in T \ {n}
  OBVIOUS
<1>3. f \in [T -> T \ {n}] /\ \A x, y \in T : x # y => f[x] # f[y]
  BY <1>2
<1> HIDE DEF T, f
<1>4. IsFiniteSet(T)
  <2>1. IsFiniteSet(0..n)
    BY FS_Interval
  <2> QED
    BY <1>1, <2>1, FS_Subset
<1>5. Cardinality(T) \in Nat /\ IsFiniteSet(T \ {n}) /\ Cardinality(T \ {n}) = Cardinality(T) - 1
  BY <1>1, <1>4, FS_CardinalityType, FS_RemoveElement
<1>6. Cardinality(T \ {n}) < Cardinality(T)
  BY <1>5
<1>7. \E x, y \in T : x # y /\ f[x] = f[y]
  BY <1>3, <1>4, <1>5, <1>6, FS_PigeonHole
<1> QED
  BY <1>3, <1>7

(* Numbers that are bounded have a greatest.                               *)
LEMMA GreatestIsThere ==
    ASSUME NEW n \in Nat, NEW S \in SUBSET (0..n), S # {}
    PROVE  Max(S) \in S /\ \A y \in S : Max(S) >= y
<1> DEFINE Greatest(T) == \E x \in T : \A y \in T : x >= y
           Good == {m \in Nat : \A T \in SUBSET (0..m) : T # {} => Greatest(T)}
<1>1. 0 \in Good
  <2> SUFFICES ASSUME NEW T \in SUBSET (0..0), T # {} PROVE Greatest(T)
    OBVIOUS
  <2>1. \A y \in T : y = 0
    OBVIOUS
  <2> HIDE DEF Greatest
  <2>2. PICK x \in T : TRUE
    OBVIOUS
  <2>3. \A y \in T : x = y /\ x \in Int
    BY <2>1, <2>2
  <2> QED
    BY <2>2, <2>3 DEF Greatest
<1>2. ASSUME NEW m \in Nat, m \in Good PROVE m + 1 \in Good
  <2> SUFFICES ASSUME NEW T \in SUBSET (0..(m + 1)), T # {} PROVE Greatest(T)
    OBVIOUS
  <2>1. CASE m + 1 \in T
    BY <2>1
  <2>2. CASE m + 1 \notin T
    <3>1. T \in SUBSET (0..m)
      BY <2>2
    <3> QED
      BY <1>2, <3>1
  <2> QED
    BY <2>1, <2>2
<1> HIDE DEF Good
<1>3. Nat \subseteq Good
  BY <1>1, <1>2, NumbersByInduction
<1> USE DEF Good
<1>4. Greatest(S)
  BY <1>3
<1> QED
  BY <1>4, Zenon DEF Max

-----------------------------------------------------------------------------
(* Retention: an hour row is the merge of its minutes.                     *)

(* A pass prunes by the time at which it began: what it takes from an hour *)
(* that stays has aged out by now.                                         *)
PassIsOfThePast ==
  pass # NoPass => "at" \in DOMAIN pass /\ pass.at \in Int /\ pass.at <= now

HistoryInv ==
  /\ now \in Int
  /\ DOMAIN minutes = Minutes /\ DOMAIN hours = Hours
  /\ PassIsOfThePast
  /\ HourIsCurrent

(* A minute is a time.                                                     *)
LEMMA MinutesAreIntegers == Minutes \subseteq Int
<1> SUFFICES ASSUME NEW t \in 0 .. MaxNow PROVE MinuteOf(t) \in Int
  BY DEF Minutes
<1>1. t \in Int /\ Minute \in Nat \ {0}
  BY HistoryAssumption
<1>2. t \div Minute \in Int
  BY <1>1
<1> QED
  BY <1>1, <1>2 DEF MinuteOf, Floor

(* What is taken first is some of what there is.                           *)
LEMMA LeastIsSubset == ASSUME NEW S, NEW n PROVE Least(S, n) \subseteq S
  BY DEF Least

(* Nothing is rolled at first.                                             *)
LEMMA HistoryInit == Init => HistoryInv
<1> SUFFICES ASSUME Init PROVE HistoryInv
  OBVIOUS
<1>1. now \in Int
  BY HistoryAssumption DEF Init
<1>2. PassIsOfThePast
  BY DEF Init, PassIsOfThePast
<1>3. HourIsCurrent
  BY DEF Init, HourIsCurrent
<1> QED
  BY <1>1, <1>2, <1>3 DEF Init, HistoryInv

(* Time only adds to what has aged out.                                    *)
LEMMA TickKeepsHours ==
    ASSUME HistoryInv, Tick PROVE HistoryInv'
<1>1. now' \in Int /\ now' = now + 1
  BY DEF Tick, HistoryInv
<1>2. PassIsOfThePast'
  BY <1>1 DEF Tick, HistoryInv, PassIsOfThePast
<1>3. \A m \in Minutes : AgedOut(m) => AgedOut(m)'
  BY <1>1, MinutesAreIntegers, HistoryAssumption DEF HistoryInv, AgedOut
<1>4. HourIsCurrent'
  BY <1>3 DEF Tick, HistoryInv, HourIsCurrent, MinutesIn
<1> QED
  BY <1>1, <1>2, <1>4 DEF Tick, HistoryInv

(* A step that leaves the rows alone, within a pass or at its beginning.   *)
LEMMA RowsUntouched ==
    ASSUME HistoryInv, UNCHANGED <<now, minutes, hours>>, PassIsOfThePast'
    PROVE  HistoryInv'
  BY DEF HistoryInv, HourIsCurrent, AgedOut

(* The row of a minute and the hour that holds it change together.         *)
LEMMA PutKeepsHours ==
    ASSUME HistoryInv, PutRollup(pass.row), now' = now, PassIsOfThePast'
    PROVE  HistoryInv'
<1>1. DOMAIN minutes' = Minutes /\ DOMAIN hours' = Hours
  BY DEF PutRollup, HistoryInv
<1>2. HourIsCurrent'
  <2> SUFFICES ASSUME NEW h \in Hours, hours'[h] # NoRow, NEW m \in MinutesIn(h)
               PROVE  minutes'[m] = hours'[h].of[m] \/ AgedOut(m)'
    BY DEF HourIsCurrent
  <2>1. h # Floor(pass.row.m, Hour) /\ hours'[h] = hours[h]
    BY DEF PutRollup, HistoryInv
  <2>2. minutes'[m] = minutes[m]
    BY <2>1 DEF PutRollup, HistoryInv, MinutesIn
  <2>3. minutes[m] = hours[h].of[m] \/ AgedOut(m)
    BY <2>1 DEF HistoryInv, HourIsCurrent
  <2> QED
    BY <2>1, <2>2, <2>3 DEF AgedOut
<1> QED
  BY <1>1, <1>2 DEF HistoryInv

(* An hour that is merged is that of its minutes.                          *)
LEMMA MergeKeepsHours ==
    ASSUME HistoryInv, RollHours, PassIsOfThePast' PROVE HistoryInv'
<1>1. DOMAIN hours' = Hours
  BY DEF RollHours
<1>2. HourIsCurrent'
  <2> SUFFICES ASSUME NEW h \in Hours, hours'[h] # NoRow, NEW m \in MinutesIn(h)
               PROVE  minutes'[m] = hours'[h].of[m] \/ AgedOut(m)'
    BY DEF HourIsCurrent
  <2>1. CASE h \in Least(PendingHours, HourRollups)
    <3>1. hours'[h].of = [n \in MinutesIn(h) |-> minutes[n]]
      BY <2>1 DEF RollHours
    <3> QED
      BY <3>1 DEF RollHours
  <2>2. CASE h \notin Least(PendingHours, HourRollups)
    <3>1. hours'[h] = hours[h]
      BY <2>2 DEF RollHours
    <3> QED
      BY <3>1 DEF RollHours, HistoryInv, HourIsCurrent, AgedOut
  <2> QED
    BY <2>1, <2>2
<1> QED
  BY <1>1, <1>2 DEF RollHours, HistoryInv

(* What a prune takes from the minutes is older than RollFor.              *)
LEMMA PruneKeepsHours ==
    ASSUME HistoryInv, PruneObservationRetention PROVE HistoryInv'
<1>1. \A m \in Minutes : minutes'[m] = minutes[m] \/ m < pass.at - RollFor
  BY DEF PruneObservationRetention, Least
<1>2. \A h \in Hours : hours'[h] = NoRow \/ hours'[h] = hours[h]
  BY DEF PruneObservationRetention
<1>3. DOMAIN minutes' = Minutes /\ DOMAIN hours' = Hours
  BY DEF PruneObservationRetention
<1>4. now' = now /\ pass' = NoPass /\ pass # NoPass
  BY DEF PruneObservationRetention, NoPass
<1>5. pass.at \in Int /\ pass.at <= now
  BY <1>4 DEF HistoryInv, PassIsOfThePast
<1>6. \A m \in Minutes : minutes'[m] = minutes[m] \/ AgedOut(m)'
  <2> SUFFICES ASSUME NEW m \in Minutes, m < pass.at - RollFor PROVE m < now - RollFor
    BY <1>1, <1>4 DEF AgedOut
  <2>1. m \in Int /\ RollFor \in Int /\ now \in Int
    BY MinutesAreIntegers, HistoryAssumption DEF HistoryInv
  <2> QED
    BY <1>5, <2>1
<1>7. HourIsCurrent'
  <2> SUFFICES ASSUME NEW h \in Hours, hours'[h] # NoRow, NEW m \in MinutesIn(h)
               PROVE  minutes'[m] = hours'[h].of[m] \/ AgedOut(m)'
    BY DEF HourIsCurrent
  <2>1. hours'[h] = hours[h]
    BY <1>2
  <2>2. minutes[m] = hours[h].of[m] \/ AgedOut(m)
    BY <2>1 DEF HistoryInv, HourIsCurrent
  <2>3. m \in Minutes
    BY DEF MinutesIn
  <2> QED
    BY <1>4, <1>6, <2>1, <2>2, <2>3 DEF AgedOut
<1> QED
  BY <1>3, <1>4, <1>7 DEF HistoryInv, PassIsOfThePast

(* What a pass changes of itself on its way is not when it began.          *)
KeepsItsTime == "at" \in DOMAIN pass => "at" \in DOMAIN pass' /\ pass'.at = pass.at

(* Hence it remains one of the past.                                       *)
LEMMA PassKeepsItsTime ==
    ASSUME HistoryInv, now' = now, pass # NoPass, KeepsItsTime
    PROVE  PassIsOfThePast'
  BY DEF HistoryInv, PassIsOfThePast, KeepsItsTime

(* Everything else of a pass leaves the rows alone or puts one minute.      *)
LEMMA PassKeepsHours ==
    ASSUME HistoryInv, Pass PROVE HistoryInv'
<1>1. CASE BeginPass
  <2>1. "at" \in DOMAIN pass' /\ pass'.at = now
    BY <1>1 DEF BeginPass
  <2>2. PassIsOfThePast'
    BY <1>1, <2>1 DEF BeginPass, HistoryInv, PassIsOfThePast
  <2> QED
    BY <1>1, <2>2, RowsUntouched DEF BeginPass
<1>2. CASE ReadLate
  <2>1. KeepsItsTime
    BY <1>2, Zenon DEF ReadLate, KeepsItsTime
  <2>2. pass # NoPass /\ now' = now
    BY <1>2 DEF ReadLate, NoPass
  <2>3. PassIsOfThePast'
    BY <2>1, <2>2, PassKeepsItsTime
  <2> QED
    BY <1>2, <2>3, RowsUntouched DEF ReadLate
<1>3. CASE PutLate
  <2>1. KeepsItsTime
    BY <1>3, Zenon DEF PutLate, KeepsItsTime
  <2>2. pass # NoPass /\ now' = now
    BY <1>3 DEF PutLate, NoPass
  <2>3. PassIsOfThePast'
    BY <2>1, <2>2, PassKeepsItsTime
  <2> QED
    BY <1>3, <2>3, PutKeepsHours DEF PutLate
<1>4. CASE StartRoll
  <2>1. KeepsItsTime
    BY <1>4, Zenon DEF StartRoll, KeepsItsTime
  <2>2. pass # NoPass /\ now' = now
    BY <1>4 DEF StartRoll, NoPass
  <2>3. PassIsOfThePast'
    BY <2>1, <2>2, PassKeepsItsTime
  <2> QED
    BY <1>4, <2>3, RowsUntouched DEF StartRoll
<1>5. CASE ReadMinute
  <2>1. KeepsItsTime
    BY <1>5, Zenon DEF ReadMinute, KeepsItsTime
  <2>2. pass # NoPass /\ now' = now
    BY <1>5 DEF ReadMinute, NoPass
  <2>3. PassIsOfThePast'
    BY <2>1, <2>2, PassKeepsItsTime
  <2> QED
    BY <1>5, <2>3, RowsUntouched DEF ReadMinute
<1>6. CASE PutMinute
  <2>1. KeepsItsTime
    BY <1>6, Zenon DEF PutMinute, KeepsItsTime
  <2>2. pass # NoPass /\ now' = now
    BY <1>6 DEF PutMinute, NoPass
  <2>3. PassIsOfThePast'
    BY <2>1, <2>2, PassKeepsItsTime
  <2> QED
    BY <1>6, <2>3, PutKeepsHours DEF PutMinute
<1>7. CASE RollHours
  <2>1. KeepsItsTime
    BY <1>7, Zenon DEF RollHours, KeepsItsTime
  <2>2. pass # NoPass /\ now' = now
    BY <1>7 DEF RollHours, NoPass
  <2>3. PassIsOfThePast'
    BY <2>1, <2>2, PassKeepsItsTime
  <2> QED
    BY <1>7, <2>3, MergeKeepsHours
<1>8. CASE WriteMaintenanceState
  <2>1. KeepsItsTime
    BY <1>8, Zenon DEF WriteMaintenanceState, KeepsItsTime
  <2>2. pass # NoPass /\ now' = now
    BY <1>8 DEF WriteMaintenanceState, NoPass
  <2>3. PassIsOfThePast'
    BY <2>1, <2>2, PassKeepsItsTime
  <2> QED
    BY <1>8, <2>3, RowsUntouched DEF WriteMaintenanceState
<1>9. CASE PruneObservationRetention
  BY <1>9, PruneKeepsHours
<1> QED
  BY <1>1, <1>2, <1>3, <1>4, <1>5, <1>6, <1>7, <1>8, <1>9 DEF Pass

(* Every step keeps the invariant.                                         *)
LEMMA StepKeepsHours ==
    ASSUME HistoryInv, [Next]_vars PROVE HistoryInv'
<1>1. CASE Tick
  BY <1>1, TickKeepsHours
<1>2. CASE Pass
  BY <1>2, PassKeepsHours
<1>3. CASE StopPass
  <2>1. PassIsOfThePast'
    BY <1>3 DEF StopPass, PassIsOfThePast
  <2> QED
    BY <1>3, <2>1, RowsUntouched DEF StopPass
<1>4. CASE \E t \in FrameTimes : Ingest(t)
  <2>1. UNCHANGED <<now, minutes, hours, pass>>
    BY <1>4 DEF Ingest
  <2>2. PassIsOfThePast'
    BY <2>1 DEF HistoryInv, PassIsOfThePast
  <2> QED
    BY <2>1, <2>2, RowsUntouched
<1>5. CASE UNCHANGED vars
  <2>1. PassIsOfThePast'
    BY <1>5 DEF vars, HistoryInv, PassIsOfThePast
  <2> QED
    BY <1>5, <2>1, RowsUntouched DEF vars
<1> QED
  BY <1>1, <1>2, <1>3, <1>4, <1>5 DEF Next

(* Whatever ingest, the passes and their ends do to each other, an hour    *)
(* row agrees with every minute row it covers that has not aged out        *)
(* (PutRollup, MergeHourRollups, PruneObservationRetention).               *)
THEOREM HoursAreCurrent == Spec => []HourIsCurrent
<1>1. HistoryInv => HourIsCurrent
  BY DEF HistoryInv
<1> QED
  BY <1>1, HistoryInit, StepKeepsHours, PTL DEF Spec

-----------------------------------------------------------------------------
(* Retention: evidence is kept, the invariant.                             *)

(* Rows, and what a pass has read for one.                                 *)
Rows  == [kind : {"row"}, used : SUBSET Nat]
Built == [m : Minutes, used : SUBSET Nat]
Passes == [pc : {"late", "roll", "write", "prune"}, todo : SUBSET Minutes, next : Nat,
           mark : Nat, end : Nat, at : Nat, count : Nat, row : {NoRow} \cup Built]

EvidenceTypes ==
  /\ now \in 0 .. MaxNow /\ watermark \in Nat /\ cursor \in Nat
  /\ raw \in SUBSET [id : Nat \ {0}, at : Nat] /\ arrived \in SUBSET (0 .. now)
  /\ processes \subseteq arrived
  /\ minutes \in [Minutes -> {NoRow} \cup Rows]
  /\ pass \in {NoPass} \cup Passes

(* Every frame has a rowid and a time of its own, and a new rowid is above *)
(* every mark: the highest frame stays.                                    *)
Reached(n) == n = 0 \/ \E f \in raw : n <= f.id
FramesAreApart ==
  /\ IsFiniteSet(raw) /\ \A f \in raw : f.at \in arrived
  /\ raw # {} => \E h \in raw : \A f \in raw : f.id <= h.id
  /\ \A f, g \in raw : f.id = g.id \/ f.at = g.at => f = g
  /\ Reached(cursor) /\ (pass # NoPass => Reached(pass.next))

(* A frame that stays known by the row of its minute, or need not be.      *)
Settled(t) == Rolled(t) \/ t \in late \/ AgedOut(MinuteOf(t))

(* What lies behind the watermark and the cursor is in its row.            *)
CursorIsBehind == \A f \in raw : f.at < watermark /\ f.id <= cursor => Settled(f.at)

(* A frame in its row is still there, or too old for a pass to take it out *)
(* of the row.                                                             *)
Gone(t) == /\ t < watermark /\ t < now - RawFor
           /\ pass # NoPass => t < pass.at - RawFor
Own(used, m) == {t \in used : MinuteOf(t) = m}
RowsAreBacked ==
  \A m \in Minutes : minutes[m] # NoRow => \A t \in Own(minutes[m].used, m) :
    (\E f \in raw : f.at = t) \/ t \in late \/ Gone(t)

(* A reading in a row is of its window, and its process is known as long   *)
(* as the row is kept.                                                     *)
IdentitiesStay ==
  /\ \A t \in arrived : t \in processes \/ t < now - RollFor - Hour
  /\ \A m \in Minutes : minutes[m] # NoRow =>
       minutes[m].used \subseteq arrived /\ \A t \in minutes[m].used : m < t + Freshness

(* What a pass has settled on its way, and the row it is about to write.   *)
Pending(t) == MinuteOf(t) \in pass.todo \/ (pass.row # NoRow /\ MinuteOf(t) = pass.row.m)
RowIsOfFrames ==
  pass.row # NoRow =>
    /\ pass.pc \in {"late", "roll"} /\ (pass.pc = "roll" => pass.row.m = pass.mark)
    /\ \A t \in pass.row.used : t \in arrived /\ pass.row.m < t + Freshness
                                 /\ \E f \in raw : f.at = t
    /\ \A f \in raw : f.id <= pass.next /\ MinuteOf(f.at) = pass.row.m => f.at \in pass.row.used
    /\ minutes[pass.row.m] # NoRow =>
         Own(minutes[pass.row.m].used, pass.row.m) \ late \subseteq pass.row.used
PassSettles ==
  pass # NoPass =>
    /\ pass.at <= now /\ pass.end <= now /\ watermark <= pass.mark
    /\ Floor(pass.mark, Minute) = pass.mark /\ Floor(pass.end, Minute) = pass.end
    /\ \A m \in pass.todo : m >= pass.at - RawFor
    /\ pass.pc = "late" => pass.mark = watermark
    /\ \A f \in raw : f.at < pass.mark /\ f.id <= pass.next =>
         Settled(f.at) \/ (pass.pc = "late" /\ Pending(f.at))
    /\ RowIsOfFrames

EvidenceInv ==
  /\ EvidenceTypes /\ FramesAreApart /\ Floor(watermark, Minute) = watermark
  /\ CursorIsBehind /\ RowsAreBacked /\ IdentitiesStay /\ PassSettles /\ EvidenceIsKept

-----------------------------------------------------------------------------
(* Retention: every step keeps the evidence.                               *)

(* The types of the constants of History.                                  *)
LEMMA HistoryNumbers ==
    /\ Minute \in Nat \ {0} /\ Hour \in Nat \ {0} /\ Freshness \in Nat \ {0} /\ Freshness <= Hour
    /\ Delay \in Nat /\ RawFor \in Nat /\ RollFor \in Nat /\ LateFrames \in Nat
    /\ MaxNow \in Nat /\ FrameTimes \subseteq 1 .. MaxNow
  BY HistoryAssumption

(* A time is in the minute that begins at or before it, ...                *)
LEMMA FloorBounds ==
    ASSUME NEW t \in Int, NEW n \in Nat \ {0}
    PROVE  Floor(t, n) \in Int /\ Floor(t, n) <= t /\ t < Floor(t, n) + n
<1>1. PICK q \in Int : q = t \div n
  OBVIOUS
<1>2. q * n <= t /\ t < q * n + n
  BY <1>1
<1> QED
  BY <1>1, <1>2 DEF Floor

(* ... and in no other.                                                    *)
LEMMA FloorIs ==
    ASSUME NEW n \in Nat \ {0}, NEW m \in Int, Floor(m, n) = m,
           NEW t \in Int, m <= t, t < m + n
    PROVE  Floor(t, n) = m
<1>1. PICK k \in Int : k = m \div n
  OBVIOUS
<1>2. PICK q \in Int : q = t \div n
  OBVIOUS
<1>3. m = k * n
  BY <1>1 DEF Floor
<1>4. q * n <= t /\ t < q * n + n
  BY <1>2
<1>5. k * n < (q + 1) * n /\ q * n < (k + 1) * n
  BY <1>3, <1>4
<1>6. q = k
  BY <1>5
<1> QED
  BY <1>2, <1>3, <1>6 DEF Floor

(* A minute begins with itself, and the next one is a minute.              *)
LEMMA FloorIsFloor ==
    ASSUME NEW t \in Int, NEW n \in Nat \ {0}
    PROVE  Floor(Floor(t, n), n) = Floor(t, n)
<1>1. PICK q \in Int : q = t \div n
  OBVIOUS
<1>2. (q * n) \div n = q
  OBVIOUS
<1> QED
  BY <1>1, <1>2 DEF Floor

LEMMA NextFloor ==
    ASSUME NEW n \in Nat \ {0}, NEW m \in Int, Floor(m, n) = m
    PROVE  Floor(m + n, n) = m + n
<1>1. PICK k \in Int : k = m \div n
  OBVIOUS
<1>2. m = k * n
  BY <1>1 DEF Floor
<1>3. m + n = (k + 1) * n
  BY <1>2
<1>4. ((k + 1) * n) \div n = k + 1
  OBVIOUS
<1> QED
  BY <1>3, <1>4 DEF Floor

(* Bounded numbers have a least.                                           *)
LEMMA LeastIsThere ==
    ASSUME NEW n \in Nat, NEW S \in SUBSET (0 .. n), S # {}
    PROVE  Min(S) \in S /\ \A y \in S : Min(S) <= y
<1> DEFINE T == {n - x : x \in S}
<1>0. \A x \in S : x \in 0 .. n /\ n - x \in 0 .. n
  OBVIOUS
<1>1. T \in SUBSET (0 .. n) /\ T # {}
  <2>1. \A y \in T : y \in 0 .. n
    BY <1>0
  <2>2. PICK x \in S : TRUE
    OBVIOUS
  <2>3. n - x \in T
    BY <2>2
  <2> QED
    BY <2>1, <2>3
<1> HIDE DEF T
<1>2. Max(T) \in T /\ \A y \in T : Max(T) >= y
  BY <1>1, GreatestIsThere
<1>3. PICK g \in T : \A y \in T : g >= y
  BY <1>2
<1> USE DEF T
<1>4. PICK x \in S : g = n - x
  BY <1>3
<1>5. \A y \in S : x <= y
  <2> SUFFICES ASSUME NEW y \in S PROVE x <= y
    OBVIOUS
  <2>1. n - y \in T
    OBVIOUS
  <2>2. n - x >= n - y
    BY <1>3, <1>4, <2>1
  <2>3. x \in Int /\ y \in Int
    OBVIOUS
  <2> HIDE DEF T
  <2> QED
    BY <2>2, <2>3
<1> QED
  BY <1>5, Zenon DEF Min

(* What the types say of the state.                                        *)
LEMMA EvidenceFields ==
    ASSUME EvidenceTypes
    PROVE  /\ now \in Nat /\ now <= MaxNow /\ watermark \in Nat /\ cursor \in Nat
           /\ \A f \in raw : f.id \in Nat \ {0} /\ f.at \in Nat
           /\ \A t \in arrived : t \in Nat /\ t <= now
           /\ \A m \in Minutes : minutes[m] # NoRow =>
                 minutes[m] = RowOf(minutes[m].used) /\ minutes[m].used \in SUBSET Nat
           /\ pass # NoPass => pass \in Passes
<1>1. MaxNow \in Nat
  BY HistoryNumbers
<1>2. \A m \in Minutes : minutes[m] # NoRow => minutes[m] \in Rows
  BY DEF EvidenceTypes
<1>3. \A r \in Rows : r = RowOf(r.used) /\ r.used \in SUBSET Nat
  BY DEF Rows, RowOf
<1> QED
  BY <1>1, <1>2, <1>3 DEF EvidenceTypes

(* The fields of a pass.                                                   *)
LEMMA PassFields ==
    ASSUME NEW p \in Passes
    PROVE  /\ p # NoPass /\ p.todo \in SUBSET Minutes /\ p.next \in Nat /\ p.mark \in Nat
           /\ p.end \in Nat /\ p.at \in Nat /\ p.count \in Nat
           /\ p.row # NoRow => p.row.m \in Minutes /\ p.row.used \in SUBSET Nat
           /\ p.pc \in {"late", "roll", "write", "prune"}
  BY DEF Passes, NoPass, Built

(* A row is there.                                                         *)
LEMMA RowIsThere == ASSUME NEW u PROVE RowOf(u) # NoRow /\ RowOf(u).used = u
  BY DEF RowOf, NoRow

LEMMA ReadIsThere == ASSUME NEW m, NEW u PROVE [m |-> m, used |-> u] # NoRow
  BY DEF NoRow

(* The minutes are the beginnings of minutes.                              *)
LEMMA MinutesAre ==
    /\ Minutes \subseteq Int
    /\ \A m \in Minutes : Floor(m, Minute) = m
    /\ \A t \in 0 .. MaxNow : MinuteOf(t) \in Minutes
    /\ \A m \in Int : Floor(m, Minute) = m /\ 0 <= m /\ m <= MaxNow => m \in Minutes
<1>1. ASSUME NEW t \in 0 .. MaxNow PROVE MinuteOf(t) \in Int /\ Floor(MinuteOf(t), Minute) = MinuteOf(t)
  BY HistoryNumbers, FloorBounds, FloorIsFloor DEF MinuteOf
<1>2. ASSUME NEW m \in Int, Floor(m, Minute) = m /\ 0 <= m /\ m <= MaxNow PROVE m \in Minutes
  BY <1>2, HistoryNumbers DEF Minutes, MinuteOf
<1> QED
  BY <1>1, <1>2 DEF Minutes

(* The time and the minute of a frame.                                     *)
LEMMA FrameTimesAre ==
    ASSUME EvidenceTypes, NEW t \in arrived
    PROVE  /\ t \in 0 .. MaxNow /\ MinuteOf(t) \in Minutes /\ MinuteOf(t) \in Int
           /\ MinuteOf(t) <= t /\ t < MinuteOf(t) + Minute
<1>1. t \in 0 .. MaxNow
  BY EvidenceFields, HistoryNumbers
<1> QED
  BY <1>1, FloorBounds, MinutesAre, HistoryNumbers DEF MinuteOf

(* The highest rowid.                                                      *)
LEMMA HighestRowid ==
    ASSUME EvidenceTypes, FramesAreApart
    PROVE  /\ LastRowid \in Nat /\ \A f \in raw : f.id <= LastRowid
           /\ LastRowid = 0 \/ \E f \in raw : LastRowid = f.id
<1> DEFINE S == {0} \cup {f.id : f \in raw}
<1>1. \A f \in raw : f.id \in Nat \ {0}
  BY EvidenceFields
<1>2. \E h \in S : \A y \in S : h >= y
  <2>1. CASE raw = {}
    BY <2>1
  <2>2. CASE raw # {}
    <3>1. PICK h \in raw : \A f \in raw : f.id <= h.id
      BY <2>2 DEF FramesAreApart
    <3>2. h.id \in S /\ h.id \in Nat
      BY <1>1, <3>1
    <3>3. \A y \in S : h.id >= y
      BY <1>1, <3>1
    <3> QED
      BY <3>2, <3>3
  <2> QED
    BY <2>1, <2>2
<1>3. LastRowid \in S /\ \A y \in S : LastRowid >= y
  <2>1. LastRowid = Max(S)
    BY DEF LastRowid
  <2> HIDE DEF S
  <2> QED
    BY <1>2, <2>1, Zenon DEF Max
<1>4. LastRowid \in Nat
  BY <1>1, <1>3
<1>5. \A f \in raw : LastRowid >= f.id
  BY <1>3
<1> QED
  BY <1>1, <1>3, <1>4, <1>5

(* What is known of a frame stays known while rows, time and what was late *)
(* stay or grow.                                                           *)
LEMMA SettledStays ==
    ASSUME EvidenceTypes, now' \in Nat, now <= now', late \subseteq late', NEW t \in arrived,
           minutes' = minutes, Settled(t)
    PROVE  Settled(t)'
<1>1. MinuteOf(t) \in Int /\ now \in Int /\ now' \in Int /\ RollFor \in Int
  BY FrameTimesAre, EvidenceFields, HistoryNumbers
<1>2. AgedOut(MinuteOf(t)) => AgedOut(MinuteOf(t))'
  <2> SUFFICES ASSUME NEW m \in Int, m = MinuteOf(t) PROVE AgedOut(m) => AgedOut(m)'
    BY <1>1
  <2> QED
    BY <1>1 DEF AgedOut
<1> QED
  BY <1>2 DEF Settled, Rolled

(* A pass goes on, begins or ends, and nothing else changes.               *)
LEMMA PassMoves ==
    ASSUME EvidenceInv, UNCHANGED <<now, raw, processes, minutes, watermark, cursor, arrived>>,
           late \subseteq late', pass' \in {NoPass} \cup Passes, PassSettles',
           pass' # NoPass => /\ Reached(pass'.next)
                             /\ pass'.at = now \/ (pass # NoPass /\ pass'.at = pass.at)
    PROVE  EvidenceInv'
<1>1. EvidenceTypes' /\ FramesAreApart'
  BY DEF EvidenceInv, EvidenceTypes, FramesAreApart, Reached
<1>2. \A t \in arrived : Settled(t) => Settled(t)'
  <2> SUFFICES ASSUME NEW t \in arrived, Settled(t) PROVE Settled(t)'
    OBVIOUS
  <2>1. now' \in Nat /\ now <= now' /\ EvidenceTypes
    BY EvidenceFields DEF EvidenceInv
  <2> QED
    BY <2>1, SettledStays
<1>3. CursorIsBehind'
  BY <1>2 DEF EvidenceInv, CursorIsBehind, FramesAreApart
<1>4. RowsAreBacked'
  <2>1. \A t : Gone(t) => Gone(t)'
    BY DEF Gone
  <2> QED
    BY <2>1 DEF EvidenceInv, RowsAreBacked, Own, MinuteOf
<1>5. IdentitiesStay' /\ (Floor(watermark, Minute) = watermark)'
  BY DEF EvidenceInv, IdentitiesStay
<1>6. EvidenceIsKept'
  <2> SUFFICES ASSUME NEW t \in arrived
               PROVE  (\E f \in raw : f.at = t) \/ Settled(t)'
    BY DEF EvidenceIsKept, Settled
  <2>1. (\E f \in raw : f.at = t) \/ Settled(t)
    BY DEF EvidenceInv, EvidenceIsKept, Settled
  <2> QED
    BY <1>2, <2>1
<1> QED
  BY <1>1, <1>3, <1>4, <1>5, <1>6 DEF EvidenceInv

(* What was taken is what lies behind the cursor up to some frame.         *)
LEMMA TakenIsFirst ==
    ASSUME EvidenceTypes, FramesAreApart, watermark # 0
    PROVE  /\ NextCursor \in Nat /\ Reached(NextCursor)
           /\ \A f \in raw : f.at < watermark /\ f.id <= NextCursor => f.id <= cursor \/ f \in Taken
<1> DEFINE behind == {f \in raw : f.id > cursor /\ f.at < watermark}
           before(f) == {g \in behind : g.id < f.id}
           S == {cursor} \cup {f.id : f \in Taken}
<1>1. Taken = {f \in behind : Cardinality(before(f)) < LateFrames} /\ Taken \subseteq raw
  BY DEF Taken
<1>2. \A f \in raw : f.id \in Nat \ {0} /\ f.at \in Nat
  BY EvidenceFields
<1>3. cursor \in Nat /\ LastRowid \in Nat /\ LateFrames \in Nat
  BY EvidenceFields, HighestRowid, HistoryNumbers
<1>4. \A f \in raw : f.id <= LastRowid
  BY HighestRowid
<1>5. IsFiniteSet(behind) /\ behind \subseteq raw
  BY FS_Subset DEF FramesAreApart
<1>6. PICK n \in Nat : cursor <= n /\ LastRowid <= n
  BY <1>3
<1> HIDE DEF behind, before
<1>7. S \in SUBSET (0 .. n) /\ S # {}
  <2>1. \A y \in S : y \in 0 .. n
    <3> SUFFICES ASSUME NEW f \in Taken PROVE f.id \in 0 .. n
      BY <1>3, <1>6
    <3> QED
      BY <1>1, <1>2, <1>3, <1>4, <1>6
  <2> QED
    BY <2>1
<1>8. NextCursor = Max(S)
  BY DEF NextCursor
<1> HIDE DEF S
<1>9. NextCursor \in S /\ \A y \in S : NextCursor >= y
  BY <1>7, <1>8, GreatestIsThere
<1> USE DEF S
<1>10. NextCursor \in Nat
  BY <1>7, <1>9
<1>11. Reached(NextCursor)
  <2>1. CASE NextCursor = cursor
    BY <2>1 DEF FramesAreApart
  <2>2. CASE NextCursor # cursor
    <3>1. PICK f \in Taken : NextCursor = f.id
      BY <1>9, <2>2
    <3> QED
      BY <1>1, <1>2, <3>1 DEF Reached
  <2> QED
    BY <2>1, <2>2
<1>12. ASSUME NEW f \in raw, f.at < watermark, f.id <= NextCursor, ~(f.id <= cursor)
       PROVE  f \in Taken
  <2>1. PICK g \in Taken : NextCursor = g.id
    <3>1. NextCursor # cursor
      BY <1>12
    <3> QED
      BY <1>9, <3>1
  <2>2. f \in behind /\ f.id \in Nat /\ g.id \in Nat /\ g \in behind
    <3>1. f.id > cursor
      BY <1>2, <1>3, <1>12
    <3> QED
      BY <1>1, <1>2, <1>12, <2>1, <3>1 DEF behind
  <2>3. before(f) \subseteq before(g)
    <3> SUFFICES ASSUME NEW h \in behind, h.id < f.id PROVE h.id < g.id
      BY DEF before
    <3>1. h.id \in Nat
      BY <1>2, <1>5
    <3> QED
      BY <1>12, <2>1, <2>2, <3>1
  <2>4. IsFiniteSet(before(g)) /\ before(g) \subseteq behind
    BY <1>5, FS_Subset DEF before
  <2>5. /\ Cardinality(before(f)) <= Cardinality(before(g))
        /\ Cardinality(before(f)) \in Nat /\ Cardinality(before(g)) \in Nat
    <3>1. IsFiniteSet(before(f))
      BY <2>3, <2>4, FS_Subset
    <3> QED
      BY <2>3, <2>4, <3>1, FS_Subset, FS_CardinalityType
  <2>6. Cardinality(before(g)) < LateFrames
    BY <1>1, <2>1
  <2>7. Cardinality(before(f)) < LateFrames
    BY <1>3, <2>5, <2>6
  <2> QED
    BY <1>1, <2>2, <2>7
<1> QED
  BY <1>10, <1>11, <1>12

(* Times of the minutes the clock has reached.                             *)
LEMMA EndOfPass ==
    ASSUME EvidenceTypes
    PROVE  FinalizedEnd \in Nat /\ FinalizedEnd <= now /\ Floor(FinalizedEnd, Minute) = FinalizedEnd
<1>0. now \in Nat /\ Delay \in Nat /\ Minute \in Nat \ {0} /\ now - Delay \in Int
  BY EvidenceFields, HistoryNumbers
<1>1. PICK e \in Int : e = Floor(now - Delay, Minute) /\ e <= now - Delay /\ Floor(e, Minute) = e
  BY <1>0, FloorBounds, FloorIsFloor
<1>2. Floor(0, Minute) = 0
  BY HistoryNumbers DEF Floor
<1>3. FinalizedEnd = IF 0 < e THEN e ELSE 0
  BY <1>1 DEF FinalizedEnd, Larger
<1> QED
  BY <1>1, <1>2, <1>3, EvidenceFields, HistoryNumbers

(* A pass that begins takes what lies behind the cursor.                   *)
LEMMA BeginKeepsEvidence == ASSUME EvidenceInv, BeginPass PROVE EvidenceInv'
<1> DEFINE merge == {f \in Taken : Mergeable(f)}
           todo == {MinuteOf(f.at) : f \in merge}
<1>1. EvidenceTypes /\ FramesAreApart
  BY DEF EvidenceInv
<1>2. /\ pass' = [pc |-> "late", todo |-> todo, next |-> NextCursor, mark |-> watermark,
                  end |-> FinalizedEnd, at |-> now, count |-> 0, row |-> NoRow]
      /\ late' = late \cup {f.at : f \in Taken \ merge}
      /\ UNCHANGED <<now, raw, processes, minutes, watermark, cursor, arrived>>
  BY DEF BeginPass
<1>3. /\ NextCursor \in Nat /\ Reached(NextCursor)
      /\ \A f \in raw : f.at < watermark /\ f.id <= NextCursor => f.id <= cursor \/ f \in Taken
  <2>1. CASE watermark = 0
    <3>1. NextCursor = LastRowid
      BY <2>1 DEF NextCursor
    <3>2. LastRowid = 0 \/ \E f \in raw : LastRowid <= f.id
      BY <1>1, HighestRowid
    <3> QED
      BY <1>1, <2>1, <3>1, <3>2, HighestRowid, EvidenceFields DEF Reached
  <2>2. CASE watermark # 0
    BY <1>1, <2>2, TakenIsFirst
  <2> QED
    BY <2>1, <2>2
<1>4. Taken \subseteq raw /\ merge \subseteq Taken
  BY DEF Taken
<1>5. \A f \in raw : f.at \in arrived /\ MinuteOf(f.at) \in Minutes
  BY <1>1, FrameTimesAre DEF FramesAreApart
<1>6. todo \in SUBSET Minutes
  BY <1>4, <1>5
<1>7. \A m \in todo : m >= now - RawFor
  BY DEF Mergeable
<1> HIDE DEF merge, todo
<1>8. now \in Nat /\ watermark \in Nat
  BY <1>1, EvidenceFields
<1>9. pass' \in Passes /\ pass' # NoPass
  <2>1. pass' \in Passes
    BY <1>1, <1>2, <1>3, <1>6, <1>8, EndOfPass DEF Passes
  <2> QED
    BY <2>1, PassFields
<1>10. /\ pass'.pc = "late" /\ pass'.todo = todo /\ pass'.next = NextCursor /\ pass'.row = NoRow
       /\ pass'.mark = watermark /\ pass'.end = FinalizedEnd /\ pass'.at = now
  BY <1>2
<1>11. \A f \in raw : f.at < watermark /\ f.id <= NextCursor =>
          Settled(f.at)' \/ Pending(f.at)'
  <2> SUFFICES ASSUME NEW f \in raw, f.at < watermark, f.id <= NextCursor
               PROVE  Settled(f.at)' \/ Pending(f.at)'
    OBVIOUS
  <2>1. CASE f.id <= cursor
    <3>1. Settled(f.at)
      BY <2>1 DEF EvidenceInv, CursorIsBehind
    <3> QED
      BY <3>1, <1>1, <1>2, <1>5, <1>8, SettledStays
  <2>2. CASE f \in merge
    <3>1. MinuteOf(f.at) \in todo
      BY <2>2 DEF todo
    <3> QED
      BY <3>1, <1>10 DEF Pending
  <2>3. CASE f \in Taken \ merge
    BY <2>3, <1>2 DEF Settled
  <2> QED
    BY <1>3, <2>1, <2>2, <2>3
<1>12. PassSettles'
  <2>1. Floor(watermark, Minute) = watermark /\ FinalizedEnd <= now /\ Floor(FinalizedEnd, Minute) = FinalizedEnd
    BY <1>1, EndOfPass DEF EvidenceInv
  <2>2. RowIsOfFrames'
    BY <1>10 DEF RowIsOfFrames
  <2>3. \A f \in raw' : f.at < pass'.mark /\ f.id <= pass'.next =>
           Settled(f.at)' \/ (pass'.pc = "late" /\ Pending(f.at)')
    BY <1>2, <1>10, <1>11
  <2>4. \A m \in pass'.todo : m >= pass'.at - RawFor
    BY <1>7, <1>10
  <2>5. pass'.at <= now' /\ pass'.end <= now' /\ watermark' <= pass'.mark /\ pass'.mark = watermark'
    BY <1>2, <1>8, <1>10, <2>1
  <2> QED
    BY <1>2, <1>10, <2>1, <2>2, <2>3, <2>4, <2>5 DEF PassSettles
<1> QED
  BY <1>2, <1>3, <1>9, <1>10, <1>12, PassMoves

(* What is read for a row: the frames that are still there, and all of     *)
(* those that the row it replaces rests on.                                *)
LEMMA ReadRowIsOfFrames ==
    ASSUME EvidenceInv, NEW m \in Minutes, NEW at \in Nat, pass \in Passes, pass.at = at,
           m >= at - RawFor \/ m >= watermark
    PROVE  /\ Build(m) \in Built /\ Build(m) # NoRow
           /\ \A t \in Build(m).used : t \in arrived /\ m < t + Freshness /\ \E f \in raw : f.at = t
           /\ \A f \in raw : MinuteOf(f.at) = m => f.at \in Build(m).used
           /\ minutes[m] # NoRow => Own(minutes[m].used, m) \ late \subseteq Build(m).used
<1> DEFINE used == ReadQueryFrames(m)
<1>1. EvidenceTypes /\ FramesAreApart /\ m \in Int /\ pass # NoPass
  BY MinutesAre, PassFields DEF EvidenceInv
<1>2. Build(m) = [m |-> m, used |-> used]
  BY DEF Build
<1>3. \A t : t \in used <=> \E f \in raw : f.at = t /\ t < m + Minute /\ t + Freshness > m
  BY DEF ReadQueryFrames
<1> HIDE DEF used
<1>4. \A f \in raw : f.at \in arrived /\ f.at \in Nat
  BY <1>1, EvidenceFields DEF FramesAreApart
<1>5. \A t \in used : t \in arrived /\ t \in Nat /\ m < t + Freshness /\ \E f \in raw : f.at = t
  <2> SUFFICES ASSUME NEW t \in used
               PROVE  t \in arrived /\ t \in Nat /\ m < t + Freshness /\ \E f \in raw : f.at = t
    OBVIOUS
  <2>1. PICK f \in raw : f.at = t /\ t + Freshness > m
    BY <1>3
  <2> QED
    BY <1>1, <1>4, <2>1, HistoryNumbers
<1>6. ASSUME NEW f \in raw, MinuteOf(f.at) = m PROVE f.at \in used
  <2>1. m <= f.at /\ f.at < m + Minute /\ f.at \in Nat
    BY <1>1, <1>4, <1>6, FrameTimesAre
  <2>2. f.at + Freshness > m
    BY <1>1, <2>1, HistoryNumbers
  <2> QED
    BY <1>3, <2>1, <2>2
<1>7. ASSUME minutes[m] # NoRow, NEW t \in Own(minutes[m].used, m), t \notin late PROVE t \in used
  <2>1. (\E f \in raw : f.at = t) \/ Gone(t)
    BY <1>7 DEF EvidenceInv, RowsAreBacked
  <2>2. ~Gone(t)
    <3>1. t \in arrived /\ MinuteOf(t) = m
      BY <1>7 DEF EvidenceInv, IdentitiesStay, Own
    <3>2. t \in Nat /\ m <= t /\ watermark \in Nat /\ RawFor \in Nat
      BY <1>1, <3>1, FrameTimesAre, EvidenceFields, HistoryNumbers
    <3> QED
      BY <1>1, <3>2 DEF Gone
  <2>3. PICK f \in raw : f.at = t
    BY <2>1, <2>2
  <2>4. MinuteOf(f.at) = m
    BY <1>7, <2>3 DEF Own
  <2> QED
    BY <1>6, <2>3, <2>4
<1>8. Build(m) \in Built
  BY <1>2, <1>5 DEF Built
<1>9. Build(m) # NoRow /\ Build(m).used = used
  BY <1>2, ReadIsThere
<1> QED
  BY <1>5, <1>6, <1>7, <1>8, <1>9

(* What is known of a frame does not depend on the pass.                   *)
LEMMA SettledIsSame ==
    ASSUME UNCHANGED <<now, minutes, late>>
    PROVE  \A t : Settled(t)' <=> Settled(t)
  BY DEF Settled, Rolled, AgedOut, MinuteOf

(* A pass reads a minute of a late frame.                                  *)
LEMMA ReadLateKeepsEvidence == ASSUME EvidenceInv, ReadLate PROVE EvidenceInv'
<1>1. PICK m \in pass.todo : pass' = [pass EXCEPT !.row = Build(m), !.todo = @ \ {m}]
  BY DEF ReadLate
<1>2. /\ pass.pc = "late" /\ pass.row = NoRow
      /\ UNCHANGED <<now, raw, processes, minutes, watermark, cursor, arrived, late>>
  BY DEF ReadLate
<1>3. pass \in Passes /\ pass # NoPass /\ EvidenceTypes
  <2>1. pass # NoPass
    BY <1>2 DEF NoPass
  <2> QED
    BY <2>1 DEF EvidenceInv, EvidenceTypes
<1>4. m \in Minutes /\ pass.at \in Nat /\ m >= pass.at - RawFor
  BY <1>1, <1>3, PassFields DEF EvidenceInv, PassSettles
<1>5. /\ Build(m) \in Built /\ Build(m) # NoRow
      /\ \A t \in Build(m).used : t \in arrived /\ m < t + Freshness /\ \E f \in raw : f.at = t
      /\ \A f \in raw : MinuteOf(f.at) = m => f.at \in Build(m).used
      /\ minutes[m] # NoRow => Own(minutes[m].used, m) \ late \subseteq Build(m).used
  BY <1>3, <1>4, ReadRowIsOfFrames
<1>6. Build(m).m = m
  BY DEF Build
<1>7. pass' \in Passes /\ pass' # NoPass
  <2>1. pass' \in Passes
    BY <1>1, <1>3, <1>5 DEF Passes
  <2> QED
    BY <2>1, PassFields
<1>8. /\ pass'.pc = "late" /\ pass'.todo = pass.todo \ {m} /\ pass'.row = Build(m)
      /\ pass'.next = pass.next /\ pass'.mark = pass.mark /\ pass'.end = pass.end /\ pass'.at = pass.at
  BY <1>1, <1>2, <1>3 DEF Passes
<1>9. RowIsOfFrames'
  <2>1. \A f \in raw : f.id <= pass.next /\ MinuteOf(f.at) = m => f.at \in Build(m).used
    BY <1>5
  <2> QED
    BY <1>2, <1>5, <1>6, <1>8, <2>1 DEF RowIsOfFrames, Own, MinuteOf
<1>10. \A f \in raw : f.at < pass.mark /\ f.id <= pass.next => Settled(f.at)' \/ Pending(f.at)'
  <2> SUFFICES ASSUME NEW f \in raw, f.at < pass.mark, f.id <= pass.next
               PROVE  Settled(f.at)' \/ Pending(f.at)'
    OBVIOUS
  <2>1. Settled(f.at) \/ MinuteOf(f.at) \in pass.todo
    BY <1>2, <1>3 DEF EvidenceInv, PassSettles, Pending
  <2>2. CASE Settled(f.at)
    BY <1>2, <2>2, SettledIsSame
  <2>3. CASE MinuteOf(f.at) \in pass.todo
    BY <1>5, <1>6, <1>8, <2>3 DEF Pending
  <2> QED
    BY <2>1, <2>2, <2>3
<1>11. PassSettles'
  <2>1. /\ pass.at <= now /\ pass.end <= now /\ watermark <= pass.mark /\ pass.mark = watermark
        /\ Floor(pass.mark, Minute) = pass.mark /\ Floor(pass.end, Minute) = pass.end
        /\ \A n \in pass.todo : n >= pass.at - RawFor
    BY <1>2, <1>3 DEF EvidenceInv, PassSettles
  <2>2. /\ pass'.at <= now' /\ pass'.end <= now' /\ watermark' <= pass'.mark /\ pass'.mark = watermark'
        /\ Floor(pass'.mark, Minute) = pass'.mark /\ Floor(pass'.end, Minute) = pass'.end
        /\ \A n \in pass'.todo : n >= pass'.at - RawFor
    BY <1>2, <1>8, <2>1
  <2>3. \A f \in raw' : f.at < pass'.mark /\ f.id <= pass'.next =>
           Settled(f.at)' \/ (pass'.pc = "late" /\ Pending(f.at)')
    BY <1>2, <1>8, <1>10
  <2> QED
    BY <1>9, <2>2, <2>3 DEF PassSettles
<1>12. Reached(pass'.next)
  BY <1>3, <1>8 DEF EvidenceInv, FramesAreApart
<1> QED
  BY <1>2, <1>3, <1>7, <1>8, <1>11, <1>12, PassMoves

(* The late minutes are done: what lies below the mark is settled, and the *)
(* first mark is below every frame.                                        *)
LEMMA StartRollKeepsEvidence == ASSUME EvidenceInv, StartRoll PROVE EvidenceInv'
<1> DEFINE mark == IF pass.mark = 0 THEN FirstMark ELSE pass.mark
<1>1. /\ pass.pc = "late" /\ pass.row = NoRow /\ pass.todo = {}
      /\ pass' = [pass EXCEPT !.pc = "roll", !.mark = mark]
      /\ UNCHANGED <<now, raw, processes, minutes, watermark, cursor, arrived, late>>
  BY DEF StartRoll
<1>2. pass \in Passes /\ pass # NoPass /\ EvidenceTypes /\ FramesAreApart
  <2>1. pass # NoPass
    BY <1>1 DEF NoPass
  <2> QED
    BY <2>1 DEF EvidenceInv, EvidenceTypes
<1>3. /\ pass.at <= now /\ pass.end <= now /\ pass.mark = watermark /\ pass.mark \in Nat /\ pass.end \in Nat
      /\ Floor(pass.mark, Minute) = pass.mark /\ Floor(pass.end, Minute) = pass.end
  BY <1>1, <1>2, PassFields DEF EvidenceInv, PassSettles
<1>4. /\ mark \in Nat /\ Floor(mark, Minute) = mark /\ watermark <= mark
      /\ pass.mark = 0 => \A f \in raw : ~(f.at < mark)
  <2>1. CASE pass.mark # 0
    BY <1>3, <2>1
  <2>2. CASE pass.mark = 0 /\ raw = {}
    BY <1>3, <2>2 DEF FirstMark
  <2>3. CASE pass.mark = 0 /\ raw # {}
    <3> DEFINE S == {MinuteOf(f.at) : f \in raw}
    <3>1. \A f \in raw : f.at \in arrived /\ MinuteOf(f.at) \in Minutes /\ MinuteOf(f.at) \in Int
                         /\ MinuteOf(f.at) <= f.at /\ f.at \in Nat /\ f.at <= MaxNow
                         /\ f.at < MinuteOf(f.at) + Minute
      BY <1>2, FrameTimesAre DEF FramesAreApart
    <3>2. \A f \in raw : MinuteOf(f.at) \in 0 .. MaxNow
      <4> SUFFICES ASSUME NEW f \in raw PROVE MinuteOf(f.at) \in 0 .. MaxNow
        OBVIOUS
      <4>1. PICK q \in Int : q = f.at \div Minute
        BY <3>1, HistoryNumbers
      <4>2. q >= 0 /\ MinuteOf(f.at) = q * Minute
        BY <3>1, <4>1, HistoryNumbers DEF MinuteOf, Floor
      <4>3. q * Minute >= 0
        BY <4>2, HistoryNumbers
      <4> QED
        BY <3>1, <4>2, <4>3, HistoryNumbers
    <3>3. S \in SUBSET (0 .. MaxNow) /\ S # {} /\ MaxNow \in Nat
      BY <2>3, <3>2, HistoryNumbers
    <3>4. mark = Min(S)
      BY <2>3 DEF FirstMark
    <3>5. \A y \in S : y \in Minutes
      BY <3>1
    <3> HIDE DEF S, mark
    <3>6. mark \in S /\ \A y \in S : mark <= y
      BY <3>3, <3>4, LeastIsThere
    <3>7. mark \in Nat /\ Floor(mark, Minute) = mark
      BY <3>3, <3>5, <3>6, MinutesAre
    <3>8. ASSUME NEW f \in raw PROVE ~(f.at < mark)
      <4>1. MinuteOf(f.at) \in S
        BY DEF S
      <4> QED
        BY <3>1, <3>6, <3>7, <4>1
    <3> QED
      BY <1>3, <2>3, <3>7, <3>8
  <2> QED
    BY <2>1, <2>2, <2>3
<1> HIDE DEF mark
<1>5. pass' \in Passes /\ pass' # NoPass
  <2>1. pass' \in Passes
    BY <1>1, <1>2, <1>4 DEF Passes
  <2> QED
    BY <2>1, PassFields
<1>6. /\ pass'.pc = "roll" /\ pass'.mark = mark /\ pass'.todo = {} /\ pass'.row = NoRow
      /\ pass'.next = pass.next /\ pass'.end = pass.end /\ pass'.at = pass.at
  BY <1>1, <1>2 DEF Passes
<1>7. ASSUME NEW f \in raw, f.at < mark, f.id <= pass.next PROVE Settled(f.at)'
  <2>1. pass.mark # 0 /\ mark = pass.mark
    BY <1>4, <1>7 DEF mark
  <2>2. Settled(f.at) \/ Pending(f.at)
    BY <1>2, <1>7, <2>1 DEF EvidenceInv, PassSettles
  <2>3. ~Pending(f.at)
    BY <1>1 DEF Pending
  <2> QED
    BY <1>1, <2>2, <2>3, SettledIsSame
<1>8. PassSettles'
  <2>1. RowIsOfFrames'
    BY <1>6 DEF RowIsOfFrames
  <2>2. /\ pass'.at <= now' /\ pass'.end <= now' /\ watermark' <= pass'.mark /\ pass'.pc # "late"
        /\ Floor(pass'.mark, Minute) = pass'.mark /\ Floor(pass'.end, Minute) = pass'.end
        /\ \A n \in pass'.todo : n >= pass'.at - RawFor
    BY <1>1, <1>3, <1>4, <1>6
  <2>3. \A f \in raw' : f.at < pass'.mark /\ f.id <= pass'.next => Settled(f.at)'
    BY <1>1, <1>6, <1>7
  <2> QED
    BY <2>1, <2>2, <2>3 DEF PassSettles
<1>9. Reached(pass'.next)
  BY <1>2, <1>6 DEF EvidenceInv, FramesAreApart
<1> QED
  BY <1>1, <1>2, <1>5, <1>6, <1>8, <1>9, PassMoves

(* A pass reads the minute at its mark.                                    *)
LEMMA ReadMinuteKeepsEvidence == ASSUME EvidenceInv, ReadMinute PROVE EvidenceInv'
<1>1. /\ pass.pc = "roll" /\ pass.row = NoRow /\ pass.mark < pass.end
      /\ pass' = [pass EXCEPT !.row = Build(pass.mark)]
      /\ UNCHANGED <<now, raw, processes, minutes, watermark, cursor, arrived, late>>
  BY DEF ReadMinute, Rolls
<1>2. pass \in Passes /\ pass # NoPass /\ EvidenceTypes
  <2>1. pass # NoPass
    BY <1>1 DEF NoPass
  <2> QED
    BY <2>1 DEF EvidenceInv, EvidenceTypes
<1>3. PICK m \in Nat : m = pass.mark
  BY <1>2, PassFields
<1>4. /\ pass.at <= now /\ pass.end <= now /\ watermark <= pass.mark
      /\ Floor(pass.mark, Minute) = pass.mark /\ Floor(pass.end, Minute) = pass.end
      /\ pass.at \in Nat /\ pass.end \in Nat
      /\ \A n \in pass.todo : n >= pass.at - RawFor
  BY <1>2, PassFields DEF EvidenceInv, PassSettles
<1>5. m \in Minutes /\ m >= watermark
  <2>1. m <= MaxNow /\ 0 <= m /\ m \in Int /\ m >= watermark
    BY <1>1, <1>2, <1>3, <1>4, EvidenceFields, HistoryNumbers
  <2> QED
    BY <1>3, <1>4, <2>1, MinutesAre
<1>6. /\ Build(m) \in Built /\ Build(m) # NoRow
      /\ \A t \in Build(m).used : t \in arrived /\ m < t + Freshness /\ \E f \in raw : f.at = t
      /\ \A f \in raw : MinuteOf(f.at) = m => f.at \in Build(m).used
      /\ minutes[m] # NoRow => Own(minutes[m].used, m) \ late \subseteq Build(m).used
  BY <1>2, <1>4, <1>5, ReadRowIsOfFrames
<1>7. Build(m).m = m
  BY DEF Build
<1>8. pass' \in Passes /\ pass' # NoPass
  <2>1. pass' \in Passes
    BY <1>1, <1>2, <1>3, <1>6 DEF Passes
  <2> QED
    BY <2>1, PassFields
<1>9. /\ pass'.pc = "roll" /\ pass'.todo = pass.todo /\ pass'.row = Build(m)
      /\ pass'.next = pass.next /\ pass'.mark = m /\ pass'.end = pass.end /\ pass'.at = pass.at
  BY <1>1, <1>2, <1>3 DEF Passes
<1>10. RowIsOfFrames'
  <2>1. \A f \in raw : f.id <= pass.next /\ MinuteOf(f.at) = m => f.at \in Build(m).used
    BY <1>6
  <2> QED
    BY <1>1, <1>6, <1>7, <1>9, <2>1 DEF RowIsOfFrames, Own, MinuteOf
<1>11. PassSettles'
  <2>1. /\ pass'.at <= now' /\ pass'.end <= now' /\ watermark' <= pass'.mark /\ pass'.pc # "late"
        /\ Floor(pass'.mark, Minute) = pass'.mark /\ Floor(pass'.end, Minute) = pass'.end
        /\ \A n \in pass'.todo : n >= pass'.at - RawFor
    BY <1>1, <1>3, <1>4, <1>9
  <2>2. \A f \in raw : f.at < m /\ f.id <= pass.next => Settled(f.at)
    BY <1>1, <1>2, <1>3 DEF EvidenceInv, PassSettles
  <2>3. \A f \in raw' : f.at < pass'.mark /\ f.id <= pass'.next => Settled(f.at)'
    BY <1>1, <1>9, <2>2, SettledIsSame
  <2> QED
    BY <1>10, <2>1, <2>3 DEF PassSettles
<1>12. Reached(pass'.next)
  BY <1>2, <1>9 DEF EvidenceInv, FramesAreApart
<1> QED
  BY <1>1, <1>2, <1>8, <1>9, <1>11, <1>12, PassMoves

(* Hours are merged: the minutes stay.                                     *)
LEMMA RollHoursKeepsEvidence == ASSUME EvidenceInv, RollHours PROVE EvidenceInv'
<1>1. /\ pass.pc = "roll" /\ pass.row = NoRow
      /\ pass' = [pass EXCEPT !.pc = "write"]
      /\ UNCHANGED <<now, raw, processes, minutes, watermark, cursor, arrived, late>>
  BY DEF RollHours
<1>2. pass \in Passes /\ pass # NoPass
  <2>1. pass # NoPass
    BY <1>1 DEF NoPass
  <2> QED
    BY <2>1 DEF EvidenceInv, EvidenceTypes
<1>3. pass' \in Passes /\ pass' # NoPass
  <2>1. pass' \in Passes
    BY <1>1, <1>2 DEF Passes
  <2> QED
    BY <2>1, PassFields
<1>4. /\ pass'.pc = "write" /\ pass'.todo = pass.todo /\ pass'.row = NoRow
      /\ pass'.next = pass.next /\ pass'.mark = pass.mark /\ pass'.end = pass.end /\ pass'.at = pass.at
  BY <1>1, <1>2 DEF Passes
<1>5. PassSettles'
  <2>1. RowIsOfFrames'
    BY <1>4 DEF RowIsOfFrames
  <2>2. /\ pass'.at <= now' /\ pass'.end <= now' /\ watermark' <= pass'.mark /\ pass'.pc # "late"
        /\ Floor(pass'.mark, Minute) = pass'.mark /\ Floor(pass'.end, Minute) = pass'.end
        /\ \A n \in pass'.todo : n >= pass'.at - RawFor
    BY <1>1, <1>2, <1>4 DEF EvidenceInv, PassSettles
  <2>3. \A f \in raw : f.at < pass.mark /\ f.id <= pass.next => Settled(f.at)
    BY <1>1, <1>2 DEF EvidenceInv, PassSettles
  <2>4. \A f \in raw' : f.at < pass'.mark /\ f.id <= pass'.next => Settled(f.at)'
    BY <1>1, <1>4, <2>3, SettledIsSame
  <2> QED
    BY <2>1, <2>2, <2>4 DEF PassSettles
<1>6. Reached(pass'.next)
  BY <1>2, <1>4 DEF EvidenceInv, FramesAreApart
<1> QED
  BY <1>1, <1>2, <1>3, <1>4, <1>5, <1>6, PassMoves

(* A pass is cut short.                                                    *)
LEMMA StopKeepsEvidence == ASSUME EvidenceInv, StopPass PROVE EvidenceInv'
<1>1. pass' = NoPass /\ UNCHANGED <<now, raw, processes, minutes, watermark, cursor, arrived, late>>
  BY DEF StopPass
<1>2. PassSettles'
  BY <1>1 DEF PassSettles
<1> QED
  BY <1>1, <1>2, PassMoves

(* The first state.                                                        *)
LEMMA InitHasEvidence == ASSUME Init PROVE EvidenceInv
<1>1. /\ raw = {} /\ processes = {} /\ arrived = {} /\ watermark = 0 /\ cursor = 0 /\ pass = NoPass
      /\ minutes = [m \in Minutes |-> NoRow] /\ now \in FrameTimes
  BY DEF Init
<1>2. EvidenceTypes
  BY <1>1, HistoryNumbers DEF EvidenceTypes
<1>3. FramesAreApart
  <2>1. IsFiniteSet(raw)
    BY <1>1, FS_EmptySet
  <2> QED
    BY <1>1, <2>1 DEF FramesAreApart, Reached
<1>4. Floor(watermark, Minute) = watermark
  BY <1>1, HistoryNumbers DEF Floor
<1>5. CursorIsBehind /\ RowsAreBacked /\ IdentitiesStay /\ PassSettles /\ EvidenceIsKept
  BY <1>1 DEF CursorIsBehind, RowsAreBacked, IdentitiesStay, PassSettles, EvidenceIsKept
<1> QED
  BY <1>2, <1>3, <1>4, <1>5 DEF EvidenceInv

(* A step that changes nothing of this.                                    *)
LEMMA StutterKeepsEvidence == ASSUME EvidenceInv, UNCHANGED vars PROVE EvidenceInv'
<1>1. UNCHANGED <<now, raw, processes, minutes, watermark, cursor, pass, arrived, late>>
  BY DEF vars
<1>2. PassSettles'
  BY <1>1 DEF EvidenceInv, PassSettles, RowIsOfFrames, Pending, Settled, Rolled, AgedOut,
              Own, MinuteOf
<1>3. pass' \in {NoPass} \cup Passes
  BY <1>1 DEF EvidenceInv, EvidenceTypes
<1>4. pass' # NoPass => Reached(pass'.next)
  BY <1>1 DEF EvidenceInv, FramesAreApart
<1> QED
  BY <1>1, <1>2, <1>3, <1>4, PassMoves

(* What was long ago is longer ago later.                                  *)
LEMMA LongerAgo ==
    ASSUME NEW a \in Int, NEW b \in Int, a <= b, NEW c \in Int, NEW d \in Int, NEW t \in Int
    PROVE  (t < a - c => t < b - c) /\ (t < a - c - d => t < b - c - d)
  OBVIOUS

(* Time goes on: what is known of a frame stays known.                     *)
LEMMA TickKeepsEvidence == ASSUME EvidenceInv, Tick PROVE EvidenceInv'
<1>1. /\ now < MaxNow /\ now' = now + 1
      /\ UNCHANGED <<raw, processes, minutes, watermark, cursor, pass, arrived, late>>
  BY DEF Tick
<1>2. EvidenceTypes /\ now \in Nat /\ now' \in Nat /\ now <= now'
  BY <1>1, EvidenceFields DEF EvidenceInv
<1>3. now \in Int /\ now' \in Int /\ now <= now' /\ RawFor \in Int /\ RollFor \in Int /\ Hour \in Int
  BY <1>2, HistoryNumbers
<1>4. \A t \in arrived : Settled(t) => Settled(t)'
  <2> SUFFICES ASSUME NEW t \in arrived, Settled(t) PROVE Settled(t)'
    OBVIOUS
  <2> QED
    BY <1>1, <1>2, SettledStays
<1>5. EvidenceTypes'
  <2>1. now' \in 0 .. MaxNow
    BY <1>1, <1>2, HistoryNumbers
  <2>2. 0 .. now \subseteq 0 .. now'
    BY <1>2
  <2> QED
    BY <1>1, <1>2, <2>1, <2>2 DEF EvidenceTypes
<1>6. FramesAreApart' /\ (Floor(watermark, Minute) = watermark)'
  BY <1>1 DEF EvidenceInv, FramesAreApart, Reached
<1>7. CursorIsBehind'
  BY <1>1, <1>4 DEF EvidenceInv, CursorIsBehind, FramesAreApart
<1>8. RowsAreBacked'
  <2>1. ASSUME NEW t \in arrived, Gone(t) PROVE Gone(t)'
    <3>1. t \in Int
      BY <1>2, EvidenceFields
    <3>2. t < now - RawFor
      BY <2>1 DEF Gone
    <3>3. t < now' - RawFor
      BY <1>3, <3>1, <3>2, LongerAgo
    <3> QED
      BY <1>1, <2>1, <3>3 DEF Gone
  <2>2. \A m \in Minutes : minutes[m] # NoRow => Own(minutes[m].used, m) \subseteq arrived
    BY DEF EvidenceInv, IdentitiesStay, Own
  <2> SUFFICES ASSUME NEW m \in Minutes, minutes[m] # NoRow, NEW t \in Own(minutes[m].used, m)
               PROVE  (\E f \in raw : f.at = t) \/ t \in late \/ Gone(t)'
    BY <1>1 DEF RowsAreBacked, Own, MinuteOf
  <2> QED
    BY <2>1, <2>2 DEF EvidenceInv, RowsAreBacked
<1>9. IdentitiesStay'
  <2>1. \A t \in arrived : t \in processes \/ t < now' - RollFor - Hour
    <3> SUFFICES ASSUME NEW t \in arrived PROVE t \in processes \/ t < now' - RollFor - Hour
      OBVIOUS
    <3>1. t \in processes \/ t < now - RollFor - Hour
      BY DEF EvidenceInv, IdentitiesStay
    <3>2. t \in Int
      BY <1>2, EvidenceFields
    <3>3. t < now - RollFor - Hour => t < now' - RollFor - Hour
      BY <1>3, <3>2, LongerAgo
    <3> QED
      BY <3>1, <3>3
  <2> QED
    BY <1>1, <2>1 DEF EvidenceInv, IdentitiesStay
<1>10. PassSettles'
  <2> SUFFICES ASSUME pass # NoPass PROVE PassSettles'
    BY <1>1 DEF PassSettles
  <2>1. pass \in Passes /\ pass.at \in Nat /\ pass.end \in Nat
    BY <1>2, EvidenceFields, PassFields
  <2>2. pass.at <= now' /\ pass.end <= now'
    BY <1>2, <2>1 DEF EvidenceInv, PassSettles
  <2>3. RowIsOfFrames'
    BY <1>1 DEF EvidenceInv, PassSettles, RowIsOfFrames, Own, MinuteOf
  <2>4. \A f \in raw : f.at < pass.mark /\ f.id <= pass.next =>
           Settled(f.at)' \/ (pass.pc = "late" /\ Pending(f.at))
    BY <1>4 DEF EvidenceInv, PassSettles, FramesAreApart
  <2>5. \A t : Pending(t)' <=> Pending(t)
    BY <1>1 DEF Pending, MinuteOf
  <2> QED
    BY <1>1, <2>2, <2>3, <2>4, <2>5 DEF EvidenceInv, PassSettles
<1>11. EvidenceIsKept'
  <2> SUFFICES ASSUME NEW t \in arrived PROVE (\E f \in raw : f.at = t) \/ Settled(t)'
    BY <1>1 DEF EvidenceIsKept, Settled
  <2>1. (\E f \in raw : f.at = t) \/ Settled(t)
    BY DEF EvidenceInv, EvidenceIsKept, Settled
  <2> QED
    BY <1>4, <2>1
<1> QED
  BY <1>5, <1>6, <1>7, <1>8, <1>9, <1>10, <1>11 DEF EvidenceInv

(* A frame comes in: its rowid is above every mark.                        *)
LEMMA IngestKeepsEvidence == ASSUME EvidenceInv, NEW t \in FrameTimes, Ingest(t) PROVE EvidenceInv'
<1>1. PICK id \in Nat \ {0} : id = LastRowid + 1
  BY HighestRowid DEF EvidenceInv
<1>2. PICK new : new = [id |-> id, at |-> t]
  OBVIOUS
<1>3. /\ t \notin arrived /\ t <= now /\ raw' = raw \cup {new}
      /\ processes' = processes \cup {t} /\ arrived' = arrived \cup {t}
      /\ UNCHANGED <<now, minutes, watermark, cursor, pass, late>>
  BY <1>1, <1>2 DEF Ingest
<1>4. new.id = id /\ new.at = t /\ t \in Nat
  BY <1>2, HistoryNumbers
<1>5. EvidenceTypes /\ FramesAreApart
  BY DEF EvidenceInv
<1>6. \A f \in raw : f.id \in Nat /\ f.id < id /\ f.at \in arrived
  BY <1>1, <1>5, HighestRowid, EvidenceFields DEF FramesAreApart
<1>7. ASSUME NEW n \in Nat, Reached(n) PROVE n < id
  BY <1>1, <1>6, <1>7 DEF Reached
<1>8. EvidenceTypes'
  <2>1. new \in [id : Nat \ {0}, at : Nat]
    BY <1>1, <1>2, <1>4
  <2>2. t \in 0 .. now
    BY <1>3, <1>4, <1>5, EvidenceFields
  <2> QED
    BY <1>3, <1>5, <2>1, <2>2 DEF EvidenceTypes
<1>9. FramesAreApart'
  <2>1. IsFiniteSet(raw')
    BY <1>3, <1>5, FS_AddElement DEF FramesAreApart
  <2>2. \A f \in raw' : f.at \in arrived'
    BY <1>3, <1>4, <1>6
  <2>3. \E h \in raw' : \A f \in raw' : f.id <= h.id
    BY <1>1, <1>3, <1>4, <1>6
  <2>4. ASSUME NEW f \in raw', NEW g \in raw', f.id = g.id \/ f.at = g.at PROVE f = g
    <3>1. ASSUME NEW h \in raw PROVE h.id # new.id /\ h.at # new.at
      BY <1>1, <1>3, <1>4, <1>6
    <3> QED
      BY <1>3, <1>5, <2>4, <3>1 DEF FramesAreApart
  <2>5. cursor = 0 \/ \E f \in raw' : cursor <= f.id
    BY <1>3, <1>5 DEF FramesAreApart, Reached
  <2>6. pass # NoPass => pass.next = 0 \/ \E f \in raw' : pass.next <= f.id
    BY <1>3, <1>5 DEF FramesAreApart, Reached
  <2>7. \A f, g \in raw' : f.id = g.id \/ f.at = g.at => f = g
    BY <2>4
  <2> QED
    BY <1>3, <2>1, <2>2, <2>3, <2>5, <2>6, <2>7 DEF FramesAreApart, Reached
<1>10. CursorIsBehind'
  <2>1. cursor < id /\ cursor \in Nat
    BY <1>5, <1>7, EvidenceFields DEF FramesAreApart
  <2>2. ~(new.id <= cursor)
    BY <1>1, <1>4, <2>1
  <2> QED
    BY <1>3, <2>2, SettledIsSame DEF EvidenceInv, CursorIsBehind
<1>11. RowsAreBacked'
  BY <1>3 DEF EvidenceInv, RowsAreBacked, Gone, Own, MinuteOf
<1>12. IdentitiesStay'
  BY <1>3 DEF EvidenceInv, IdentitiesStay
<1>13. PassSettles'
  <2> SUFFICES ASSUME pass # NoPass PROVE PassSettles'
    BY <1>3 DEF PassSettles
  <2>1. pass.next \in Nat /\ pass.next < id
    BY <1>5, <1>7, EvidenceFields, PassFields DEF FramesAreApart
  <2>2. ~(new.id <= pass.next)
    BY <1>1, <1>4, <2>1
  <2>3. RowIsOfFrames'
    <3> SUFFICES ASSUME pass.row # NoRow PROVE RowIsOfFrames'
      BY <1>3 DEF RowIsOfFrames
    <3>1. RowIsOfFrames
      BY DEF EvidenceInv, PassSettles
    <3>2. \A u \in pass.row.used : u \in arrived' /\ pass.row.m < u + Freshness /\ \E f \in raw' : f.at = u
      BY <1>3, <3>1 DEF RowIsOfFrames
    <3>3. \A f \in raw' : f.id <= pass.next /\ MinuteOf(f.at) = pass.row.m => f.at \in pass.row.used
      BY <1>3, <2>2, <3>1 DEF RowIsOfFrames
    <3> QED
      BY <1>3, <3>1, <3>2, <3>3 DEF RowIsOfFrames, Own, MinuteOf
  <2>4. \A f \in raw' : f.at < pass.mark /\ f.id <= pass.next =>
           Settled(f.at)' \/ (pass.pc = "late" /\ Pending(f.at))
    BY <1>3, <2>2, SettledIsSame DEF EvidenceInv, PassSettles
  <2>5. \A u : Pending(u)' <=> Pending(u)
    BY <1>3 DEF Pending, MinuteOf
  <2> QED
    BY <1>3, <2>3, <2>4, <2>5 DEF EvidenceInv, PassSettles
<1>14. EvidenceIsKept'
  <2>1. \A u \in arrived : (\E f \in raw : f.at = u) \/ Settled(u)
    BY DEF EvidenceInv, EvidenceIsKept, Settled
  <2>2. \A u \in arrived' : (\E f \in raw' : f.at = u) \/ Settled(u)'
    BY <1>3, <1>4, <2>1, SettledIsSame
  <2> QED
    BY <2>2 DEF EvidenceIsKept, Settled
<1> QED
  BY <1>3, <1>8, <1>9, <1>10, <1>11, <1>12, <1>13, <1>14 DEF EvidenceInv

(* A pass keeps its marks.                                                 *)
LEMMA WriteKeepsEvidence == ASSUME EvidenceInv, WriteMaintenanceState PROVE EvidenceInv'
<1>1. /\ pass.pc = "write" /\ watermark' = pass.mark /\ cursor' = pass.next
      /\ pass' = [pass EXCEPT !.pc = "prune"]
      /\ UNCHANGED <<now, raw, processes, minutes, arrived, late>>
  BY DEF WriteMaintenanceState
<1>2. pass \in Passes /\ pass # NoPass /\ EvidenceTypes /\ FramesAreApart
  <2>1. pass # NoPass
    BY <1>1 DEF NoPass
  <2> QED
    BY <2>1 DEF EvidenceInv, EvidenceTypes
<1>3. pass' \in Passes /\ pass' # NoPass
  <2>1. pass' \in Passes
    BY <1>1, <1>2 DEF Passes
  <2> QED
    BY <2>1, PassFields
<1>4. /\ pass'.pc = "prune" /\ pass'.todo = pass.todo /\ pass'.row = pass.row
      /\ pass'.next = pass.next /\ pass'.mark = pass.mark /\ pass'.end = pass.end /\ pass'.at = pass.at
  BY <1>1, <1>2 DEF Passes
<1>5. /\ watermark \in Nat /\ pass.mark \in Nat /\ pass.next \in Nat /\ watermark <= pass.mark
      /\ pass.row = NoRow /\ PassSettles /\ Floor(pass.mark, Minute) = pass.mark
  BY <1>1, <1>2, EvidenceFields, PassFields DEF EvidenceInv, PassSettles, RowIsOfFrames
<1>6. EvidenceTypes' /\ FramesAreApart'
  BY <1>1, <1>2, <1>3, <1>4, <1>5 DEF EvidenceTypes, FramesAreApart, Reached
<1>7. \A f \in raw : f.at < pass.mark /\ f.id <= pass.next => Settled(f.at)
  BY <1>1, <1>2, <1>5 DEF PassSettles
<1>8. CursorIsBehind'
  BY <1>1, <1>7, SettledIsSame DEF CursorIsBehind
<1>9. RowsAreBacked'
  <2>1. ASSUME NEW t \in arrived, Gone(t) PROVE Gone(t)'
    <3>1. t \in Nat /\ t < watermark'
      BY <1>1, <1>2, <1>5, <2>1, EvidenceFields DEF Gone
    <3> QED
      BY <1>1, <1>2, <1>4, <2>1, <3>1 DEF Gone
  <2>2. \A m \in Minutes : minutes[m] # NoRow => Own(minutes[m].used, m) \subseteq arrived
    BY DEF EvidenceInv, IdentitiesStay, Own
  <2> SUFFICES ASSUME NEW m \in Minutes, minutes[m] # NoRow, NEW t \in Own(minutes[m].used, m)
               PROVE  (\E f \in raw : f.at = t) \/ t \in late \/ Gone(t)'
    BY <1>1 DEF RowsAreBacked, Own, MinuteOf
  <2> QED
    BY <2>1, <2>2 DEF EvidenceInv, RowsAreBacked
<1>10. IdentitiesStay'
  BY <1>1 DEF EvidenceInv, IdentitiesStay
<1>11. PassSettles'
  <2>1. RowIsOfFrames'
    BY <1>4, <1>5 DEF RowIsOfFrames
  <2>2. /\ pass'.at <= now' /\ pass'.end <= now' /\ watermark' <= pass'.mark /\ pass'.pc # "late"
        /\ Floor(pass'.mark, Minute) = pass'.mark /\ Floor(pass'.end, Minute) = pass'.end
        /\ \A n \in pass'.todo : n >= pass'.at - RawFor
    BY <1>1, <1>2, <1>4, <1>5 DEF PassSettles
  <2>3. \A f \in raw' : f.at < pass'.mark /\ f.id <= pass'.next => Settled(f.at)'
    BY <1>1, <1>4, <1>7, SettledIsSame
  <2> QED
    BY <2>1, <2>2, <2>3 DEF PassSettles
<1>12. EvidenceIsKept'
  <2>1. \A u \in arrived : (\E f \in raw : f.at = u) \/ Settled(u)
    BY DEF EvidenceInv, EvidenceIsKept, Settled
  <2>2. \A u \in arrived' : (\E f \in raw' : f.at = u) \/ Settled(u)'
    BY <1>1, <2>1, SettledIsSame
  <2> QED
    BY <2>2 DEF EvidenceIsKept, Settled
<1> QED
  BY <1>1, <1>5, <1>6, <1>8, <1>9, <1>10, <1>11, <1>12 DEF EvidenceInv

(* A pass writes the row it has read: the minute grows by frames, and      *)
(* loses only what came too late.                                          *)
RowIsPut ==
  /\ pass # NoPass /\ pass.row # NoRow
  /\ minutes' = [minutes EXCEPT ![pass.row.m] = RowOf(pass.row.used)]
  /\ UNCHANGED <<now, raw, processes, watermark, cursor, arrived, late>>

LEMMA PutSettles ==
    ASSUME EvidenceInv, RowIsPut
    PROVE  /\ pass \in Passes /\ pass.row.m \in Minutes /\ pass.row.used \subseteq arrived
           /\ \A m \in Minutes : m # pass.row.m => minutes'[m] = minutes[m]
           /\ minutes'[pass.row.m] # NoRow /\ minutes'[pass.row.m].used = pass.row.used
           /\ \A t \in arrived : Settled(t) => Settled(t)'
           /\ \A f \in raw : f.id <= pass.next /\ MinuteOf(f.at) = pass.row.m => Settled(f.at)'
<1>1. pass \in Passes /\ pass # NoPass /\ pass.row # NoRow /\ EvidenceTypes
  BY EvidenceFields DEF EvidenceInv, RowIsPut
<1>2. pass.row.m \in Minutes /\ RowIsOfFrames
  BY <1>1, PassFields DEF EvidenceInv, PassSettles
<1>3. \A t \in pass.row.used : t \in arrived
  BY <1>1, <1>2 DEF RowIsOfFrames
<1>4. /\ \A m \in Minutes : m # pass.row.m => minutes'[m] = minutes[m]
      /\ minutes'[pass.row.m] = RowOf(pass.row.used)
  BY <1>1, <1>2 DEF RowIsPut, EvidenceTypes
<1>5. minutes'[pass.row.m] # NoRow /\ minutes'[pass.row.m].used = pass.row.used
  BY <1>4, RowIsThere
<1>6. \A t : AgedOut(t)' <=> AgedOut(t)
  BY DEF RowIsPut, AgedOut
<1>7. ASSUME NEW t \in arrived, Settled(t) PROVE Settled(t)'
  <2>1. MinuteOf(t) \in Minutes
    BY <1>1, FrameTimesAre
  <2>2. CASE t \in late \/ AgedOut(MinuteOf(t))
    BY <2>2 DEF RowIsPut, Settled, AgedOut, MinuteOf
  <2>3. CASE Rolled(t) /\ t \notin late
    <3>1. CASE MinuteOf(t) # pass.row.m
      BY <1>4, <2>1, <2>3, <3>1 DEF Settled, Rolled, MinuteOf
    <3>2. CASE MinuteOf(t) = pass.row.m
      <4>1. t \in Own(minutes[pass.row.m].used, pass.row.m) /\ minutes[pass.row.m] # NoRow
        BY <2>3, <3>2 DEF Rolled, Own
      <4>2. t \in pass.row.used
        BY <1>1, <1>2, <2>3, <4>1 DEF RowIsOfFrames
      <4> QED
        BY <1>5, <3>2, <4>2 DEF Settled, Rolled, MinuteOf
    <3> QED
      BY <3>1, <3>2
  <2> QED
    BY <1>7, <2>2, <2>3 DEF Settled
<1>8. ASSUME NEW f \in raw, f.id <= pass.next, MinuteOf(f.at) = pass.row.m PROVE Settled(f.at)'
  <2>1. f.at \in pass.row.used
    BY <1>1, <1>2, <1>8 DEF RowIsOfFrames
  <2> QED
    BY <1>5, <1>8, <2>1 DEF Settled, Rolled, MinuteOf
<1>9. pass.row.used \subseteq arrived
  BY <1>3
<1> QED
  BY <1>1, <1>2, <1>4, <1>5, <1>7, <1>8, <1>9

LEMMA PutMoves ==
    ASSUME EvidenceInv, RowIsPut, PassSettles', pass' \in Passes, pass' # NoPass,
           pass'.next = pass.next, pass'.at = pass.at
    PROVE  EvidenceInv'
<1> DEFINE n == pass.row.m
           u == pass.row.used
<1>1. /\ pass \in Passes /\ n \in Minutes /\ u \subseteq arrived
      /\ \A m \in Minutes : m # n => minutes'[m] = minutes[m]
      /\ minutes'[n] # NoRow /\ minutes'[n].used = u
      /\ \A t \in arrived : Settled(t) => Settled(t)'
  BY PutSettles
<1>2. /\ pass # NoPass /\ pass.row # NoRow /\ minutes' = [minutes EXCEPT ![n] = RowOf(u)]
      /\ UNCHANGED <<now, raw, processes, watermark, cursor, arrived, late>>
  BY DEF RowIsPut
<1>3. EvidenceTypes /\ RowIsOfFrames /\ u \in SUBSET Nat
  BY <1>1, <1>2, PassFields DEF EvidenceInv, PassSettles
<1>4. \A t \in u : t \in arrived /\ n < t + Freshness /\ \E f \in raw : f.at = t
  BY <1>2, <1>3 DEF RowIsOfFrames
<1> HIDE DEF n, u
<1>5. EvidenceTypes'
  <2>1. RowOf(u) \in Rows
    BY <1>3 DEF RowOf, Rows
  <2>2. minutes' \in [Minutes -> {NoRow} \cup Rows]
    BY <1>2, <1>3, <2>1 DEF EvidenceTypes
  <2> QED
    BY <1>2, <1>3, <2>2 DEF EvidenceTypes
<1>6. FramesAreApart' /\ (Floor(watermark, Minute) = watermark)'
  BY <1>2 DEF EvidenceInv, FramesAreApart, Reached
<1>7. CursorIsBehind'
  BY <1>1, <1>2 DEF EvidenceInv, CursorIsBehind, FramesAreApart
<1>8. RowsAreBacked'
  <2>1. \A t : Gone(t) => Gone(t)'
    BY <1>2 DEF Gone
  <2> SUFFICES ASSUME NEW m \in Minutes, minutes'[m] # NoRow, NEW t \in Own(minutes'[m].used, m)
               PROVE  (\E f \in raw : f.at = t) \/ t \in late \/ Gone(t)'
    BY <1>2 DEF RowsAreBacked, Own, MinuteOf
  <2>2. CASE m = n
    BY <1>1, <1>4, <2>2 DEF Own
  <2>3. CASE m # n
    <3>1. minutes[m] # NoRow /\ t \in Own(minutes[m].used, m)
      BY <1>1, <2>3
    <3> QED
      BY <2>1, <3>1 DEF EvidenceInv, RowsAreBacked
  <2> QED
    BY <2>2, <2>3
<1>9. IdentitiesStay'
  <2>1. ASSUME NEW m \in Minutes, minutes'[m] # NoRow
        PROVE  minutes'[m].used \subseteq arrived /\ \A t \in minutes'[m].used : m < t + Freshness
    <3>1. CASE m = n
      BY <1>1, <1>4, <3>1
    <3>2. CASE m # n
      <4>1. minutes'[m] = minutes[m] /\ minutes[m] # NoRow
        BY <1>1, <2>1, <3>2
      <4> QED
        BY <4>1 DEF EvidenceInv, IdentitiesStay
    <3> QED
      BY <3>1, <3>2
  <2>2. \A t \in arrived : t \in processes \/ t < now - RollFor - Hour
    BY DEF EvidenceInv, IdentitiesStay
  <2> QED
    BY <1>2, <2>1, <2>2 DEF IdentitiesStay
<1>10. EvidenceIsKept'
  <2> SUFFICES ASSUME NEW t \in arrived PROVE (\E f \in raw : f.at = t) \/ Settled(t)'
    BY <1>2 DEF EvidenceIsKept, Settled
  <2>1. (\E f \in raw : f.at = t) \/ Settled(t)
    BY DEF EvidenceInv, EvidenceIsKept, Settled
  <2> QED
    BY <1>1, <2>1
<1> QED
  BY <1>5, <1>6, <1>7, <1>8, <1>9, <1>10 DEF EvidenceInv

(* The row of a late frame.                                                *)
LEMMA PutLateKeepsEvidence == ASSUME EvidenceInv, PutLate PROVE EvidenceInv'
<1>1. /\ pass.pc = "late" /\ pass.row # NoRow /\ PutRollup(pass.row)
      /\ pass' = [pass EXCEPT !.row = NoRow]
      /\ UNCHANGED <<now, raw, processes, watermark, cursor, arrived, late>>
  BY DEF PutLate
<1>2. RowIsPut
  <2>1. pass # NoPass
    BY <1>1 DEF NoPass
  <2> QED
    BY <1>1, <2>1 DEF RowIsPut, PutRollup
<1>3. pass \in Passes /\ pass # NoPass /\ EvidenceTypes /\ PassSettles
  BY <1>2, PutSettles DEF EvidenceInv, RowIsPut
<1>4. pass' \in Passes /\ pass' # NoPass
  <2>1. pass' \in Passes
    BY <1>1, <1>3 DEF Passes
  <2> QED
    BY <2>1, PassFields
<1>5. /\ pass'.pc = "late" /\ pass'.todo = pass.todo /\ pass'.row = NoRow
      /\ pass'.next = pass.next /\ pass'.mark = pass.mark /\ pass'.end = pass.end /\ pass'.at = pass.at
  BY <1>1, <1>3 DEF Passes
<1>6. ASSUME NEW f \in raw, f.at < pass.mark, f.id <= pass.next
      PROVE  Settled(f.at)' \/ Pending(f.at)'
  <2>1. Settled(f.at) \/ MinuteOf(f.at) \in pass.todo \/ MinuteOf(f.at) = pass.row.m
    BY <1>3, <1>6 DEF PassSettles, Pending
  <2>2. CASE Settled(f.at)
    <3>1. f.at \in arrived
      BY DEF EvidenceInv, FramesAreApart
    <3> QED
      BY <1>2, <2>2, <3>1, PutSettles
  <2>3. CASE MinuteOf(f.at) \in pass.todo
    BY <1>5, <2>3 DEF Pending, MinuteOf
  <2>4. CASE MinuteOf(f.at) = pass.row.m
    BY <1>2, <1>6, <2>4, PutSettles
  <2> QED
    BY <2>1, <2>2, <2>3, <2>4
<1>7. PassSettles'
  <2>1. RowIsOfFrames'
    BY <1>5 DEF RowIsOfFrames
  <2>2. /\ pass'.at <= now' /\ pass'.end <= now' /\ watermark' <= pass'.mark /\ pass'.mark = watermark'
        /\ Floor(pass'.mark, Minute) = pass'.mark /\ Floor(pass'.end, Minute) = pass'.end
        /\ \A m \in pass'.todo : m >= pass'.at - RawFor
    BY <1>1, <1>3, <1>5 DEF PassSettles
  <2>3. \A f \in raw' : f.at < pass'.mark /\ f.id <= pass'.next =>
           Settled(f.at)' \/ (pass'.pc = "late" /\ Pending(f.at)')
    BY <1>1, <1>5, <1>6
  <2> QED
    BY <2>1, <2>2, <2>3 DEF PassSettles
<1> QED
  BY <1>2, <1>4, <1>5, <1>7, PutMoves

(* The row at the mark: the mark goes on by a minute.                      *)
LEMMA PutMinuteKeepsEvidence == ASSUME EvidenceInv, PutMinute PROVE EvidenceInv'
<1>1. /\ pass.pc = "roll" /\ pass.row # NoRow /\ PutRollup(pass.row)
      /\ pass' = [pass EXCEPT !.row = NoRow, !.mark = @ + Minute, !.count = @ + 1]
      /\ UNCHANGED <<now, raw, processes, watermark, cursor, arrived, late>>
  BY DEF PutMinute
<1>2. RowIsPut
  <2>1. pass # NoPass
    BY <1>1 DEF NoPass
  <2> QED
    BY <1>1, <2>1 DEF RowIsPut, PutRollup
<1>3. pass \in Passes /\ pass # NoPass /\ EvidenceTypes /\ PassSettles
  BY <1>2, PutSettles DEF EvidenceInv, RowIsPut
<1>4. PICK k \in Nat : k = pass.mark
  BY <1>3, PassFields
<1>5. /\ Floor(k, Minute) = k /\ pass.row.m = k
  BY <1>1, <1>3, <1>4 DEF PassSettles, RowIsOfFrames
<1>6. Minute \in Nat \ {0} /\ k + Minute \in Nat /\ Floor(k + Minute, Minute) = k + Minute
  BY <1>5, HistoryNumbers, NextFloor
<1>7. pass' \in Passes /\ pass' # NoPass
  <2>1. PICK c \in Nat : c = pass.count
    BY <1>3, PassFields
  <2>2. PICK j, d \in Nat : j = k + Minute /\ d = c + 1
    BY <1>6, <2>1
  <2>3. pass' \in Passes
    <3>1. pass' = [pass EXCEPT !.row = NoRow, !.mark = j, !.count = d]
      BY <1>1, <1>3, <1>4, <2>1, <2>2 DEF Passes
    <3> QED
      BY <1>3, <2>2, <3>1 DEF Passes
  <2> QED
    BY <2>3, PassFields
<1>8. /\ pass'.pc = "roll" /\ pass'.todo = pass.todo /\ pass'.row = NoRow
      /\ pass'.next = pass.next /\ pass'.mark = k + Minute /\ pass'.end = pass.end /\ pass'.at = pass.at
  BY <1>1, <1>3, <1>4 DEF Passes
<1>9. ASSUME NEW f \in raw, f.at < k + Minute, f.id <= pass.next
      PROVE  Settled(f.at)'
  <2>1. f.at \in arrived /\ f.at \in Nat
    BY <1>3, EvidenceFields DEF EvidenceInv, FramesAreApart
  <2>2. CASE f.at < k
    <3>1. Settled(f.at)
      BY <1>1, <1>3, <1>4, <1>9, <2>2 DEF PassSettles
    <3> QED
      BY <1>2, <2>1, <3>1, PutSettles
  <2>3. CASE ~(f.at < k)
    <3>1. MinuteOf(f.at) = k
      <4>1. PICK a \in Nat : a = f.at
        BY <2>1
      <4>2. k <= a /\ a < k + Minute
        BY <1>9, <2>3, <4>1
      <4> QED
        BY <1>5, <1>6, <4>1, <4>2, FloorIs DEF MinuteOf
    <3> QED
      BY <1>2, <1>5, <1>9, <3>1, PutSettles
  <2> QED
    BY <2>2, <2>3
<1>10. PassSettles'
  <2>1. RowIsOfFrames'
    BY <1>8 DEF RowIsOfFrames
  <2>2. watermark <= k + Minute
    <3>1. watermark \in Nat /\ watermark <= k
      BY <1>3, <1>4, EvidenceFields DEF PassSettles
    <3>2. PICK w \in Nat : w = watermark
      BY <3>1
    <3> QED
      BY <1>6, <3>1, <3>2
  <2>3. /\ pass'.at <= now' /\ pass'.end <= now' /\ watermark' <= pass'.mark /\ pass'.pc # "late"
        /\ Floor(pass'.mark, Minute) = pass'.mark /\ Floor(pass'.end, Minute) = pass'.end
        /\ \A m \in pass'.todo : m >= pass'.at - RawFor
    BY <1>1, <1>3, <1>6, <1>8, <2>2 DEF PassSettles
  <2>4. \A f \in raw' : f.at < pass'.mark /\ f.id <= pass'.next => Settled(f.at)'
    BY <1>1, <1>8, <1>9
  <2> QED
    BY <2>1, <2>3, <2>4 DEF PassSettles
<1> QED
  BY <1>2, <1>7, <1>8, <1>10, PutMoves

(* What a prune takes.                                                     *)
PrunedTimes  == Least({f.at : f \in Prunable(pass.at - RawFor)}, RetentionRows)
PrunedFrames == {f \in raw : f.at \in PrunedTimes}
MinutesAged  == {m \in Minutes : m < pass.at - RollFor}

LEMMA PruneTakes ==
    ASSUME EvidenceInv, PruneObservationRetention
    PROVE  /\ pass \in Passes /\ pass # NoPass /\ pass' = NoPass
           /\ raw' = raw \ PrunedFrames
           /\ \A f \in PrunedFrames : /\ f \in raw /\ f.at < pass.at - RawFor /\ f.id # LastRowid
                                      /\ minutes[MinuteOf(f.at)] # NoRow
           /\ \A m \in Minutes : minutes'[m] = minutes[m] \/ (minutes'[m] = NoRow /\ m \in MinutesAged)
           /\ minutes' \in [Minutes -> {NoRow} \cup Rows]
           /\ processes' \subseteq processes
           /\ \A t \in processes : t \in processes' \/ t < pass.at - RollFor - Hour
           /\ late \subseteq late'
           /\ \A f \in PrunedFrames : f.at >= watermark => f.at \in late'
           /\ \A f \in PrunedFrames :
                f.id > cursor /\ f.at < watermark => Rolled(f.at) \/ f.at \in late'
           /\ UNCHANGED <<now, watermark, cursor, arrived>>
<1> DEFINE left == RetentionRows - Cardinality(PrunedTimes)
           oldM == Least({m \in Minutes : minutes[m] # NoRow /\ m < pass.at - RollFor}, left)
           oldH == Least({h \in Hours : hours[h] # NoRow /\ h < pass.at - RollFor}, left - Cardinality(oldM))
           oldP == Least({t \in processes : t < IdentityCutoff(pass.at)},
                      left - Cardinality(oldM) - Cardinality(oldH))
<1>1. /\ pass.pc = "prune" /\ pass' = NoPass
      /\ raw' = raw \ PrunedFrames /\ processes' = processes \ oldP
      /\ minutes' = [m \in Minutes |-> IF m \in oldM THEN NoRow ELSE minutes[m]]
      /\ late' = late \cup {f.at : f \in {g \in PrunedFrames : g.at >= watermark}}
                  \cup {f.at : f \in {g \in PrunedFrames : g.id > cursor /\ g.at < watermark}
                                     \ {g \in PrunedFrames : g.at \in minutes[MinuteOf(g.at)].used}}
      /\ UNCHANGED <<now, watermark, cursor, arrived>>
  BY DEF PruneObservationRetention, PrunedFrames, PrunedTimes
<1>2. \A S, n : Least(S, n) \subseteq S
  BY DEF Least
<1>3. oldM \subseteq MinutesAged
  BY <1>2 DEF MinutesAged
<1>4. \A t \in oldP : t < pass.at - RollFor - Hour
  <2>1. oldP \subseteq {t \in processes : t < IdentityCutoff(pass.at)}
    BY <1>2
  <2> HIDE DEF oldP
  <2> QED
    BY <2>1 DEF IdentityCutoff
<1> HIDE DEF oldM, oldP, oldH, left
<1>5. pass \in Passes /\ pass # NoPass /\ EvidenceTypes /\ FramesAreApart
  <2>1. pass # NoPass
    BY <1>1 DEF NoPass
  <2> QED
    BY <2>1 DEF EvidenceInv, EvidenceTypes
<1>6. ASSUME NEW f \in PrunedFrames
      PROVE  /\ f \in raw /\ f.at < pass.at - RawFor /\ f.id # LastRowid
             /\ minutes[MinuteOf(f.at)] # NoRow
  <2>1. f \in raw /\ f.at \in {g.at : g \in Prunable(pass.at - RawFor)}
    BY <1>2 DEF PrunedFrames, PrunedTimes
  <2>2. PICK g \in Prunable(pass.at - RawFor) : f.at = g.at
    BY <2>1
  <2>3. g \in raw /\ g.at < pass.at - RawFor /\ g.id # LastRowid /\ minutes[MinuteOf(g.at)] # NoRow
    BY DEF Prunable, Complete
  <2>4. f = g
    BY <1>5, <2>1, <2>2, <2>3 DEF FramesAreApart
  <2> QED
    BY <2>1, <2>3, <2>4
<1>7. \A m \in Minutes : minutes'[m] = minutes[m] \/ (minutes'[m] = NoRow /\ m \in MinutesAged)
  BY <1>1, <1>3
<1>8. minutes' \in [Minutes -> {NoRow} \cup Rows]
  BY <1>1, <1>5 DEF EvidenceTypes
<1>9. /\ processes' \subseteq processes
      /\ \A t \in processes : t \in processes' \/ t < pass.at - RollFor - Hour
  BY <1>1, <1>4
<1>10. /\ late \subseteq late'
       /\ \A f \in PrunedFrames : f.at >= watermark => f.at \in late'
       /\ \A f \in PrunedFrames :
             f.id > cursor /\ f.at < watermark => f.at \in minutes[MinuteOf(f.at)].used \/ f.at \in late'
  BY <1>1
<1>11. \A f \in PrunedFrames :
          f.id > cursor /\ f.at < watermark => Rolled(f.at) \/ f.at \in late'
  BY <1>6, <1>10 DEF Rolled
<1> QED
  BY <1>1, <1>5, <1>6, <1>7, <1>8, <1>9, <1>10, <1>11

(* Pruning takes frames that are in their rows, rows that are too old, and *)
(* no identity a row needs.                                                *)
LEMMA PruneKeepsEvidence == ASSUME EvidenceInv, PruneObservationRetention PROVE EvidenceInv'
<1>1. /\ pass \in Passes /\ pass # NoPass /\ pass' = NoPass
      /\ raw' = raw \ PrunedFrames
      /\ \A f \in PrunedFrames : /\ f \in raw /\ f.at < pass.at - RawFor /\ f.id # LastRowid
                                 /\ minutes[MinuteOf(f.at)] # NoRow
      /\ \A m \in Minutes : minutes'[m] = minutes[m] \/ (minutes'[m] = NoRow /\ m \in MinutesAged)
      /\ minutes' \in [Minutes -> {NoRow} \cup Rows]
      /\ processes' \subseteq processes
      /\ \A t \in processes : t \in processes' \/ t < pass.at - RollFor - Hour
      /\ late \subseteq late'
      /\ \A f \in PrunedFrames : f.at >= watermark => f.at \in late'
      /\ \A f \in PrunedFrames :
           f.id > cursor /\ f.at < watermark => Rolled(f.at) \/ f.at \in late'
      /\ UNCHANGED <<now, watermark, cursor, arrived>>
  BY PruneTakes
<1>2. EvidenceTypes /\ FramesAreApart /\ PassSettles
  BY DEF EvidenceInv
<1>3. PICK at \in Int, n \in Int : at = pass.at /\ n = now /\ at <= n
  BY <1>1, <1>2, EvidenceFields, PassFields DEF PassSettles
<1>4. RawFor \in Int /\ RollFor \in Int /\ Hour \in Int
  BY HistoryNumbers
<1>5. ASSUME NEW m \in Int, m \in MinutesAged PROVE AgedOut(m)'
  <2>1. m < at - RollFor
    BY <1>3, <1>5 DEF MinutesAged
  <2>2. m < n - RollFor
    BY <1>3, <1>4, <2>1
  <2> QED
    BY <1>1, <1>3, <2>2 DEF AgedOut
<1>6. ASSUME NEW t \in arrived, Settled(t) PROVE Settled(t)'
  <2>1. MinuteOf(t) \in Minutes /\ MinuteOf(t) \in Int
    BY <1>2, FrameTimesAre
  <2>2. CASE t \in late \/ AgedOut(MinuteOf(t))
    BY <1>1, <2>2 DEF Settled, AgedOut, MinuteOf
  <2>3. CASE Rolled(t)
    <3>1. CASE minutes'[MinuteOf(t)] = minutes[MinuteOf(t)]
      BY <2>3, <3>1 DEF Settled, Rolled, MinuteOf
    <3>2. CASE MinuteOf(t) \in MinutesAged
      <4>1. AgedOut(MinuteOf(t))'
        <5>1. PICK m \in Int : m = MinuteOf(t)
          BY <2>1
        <5>2. AgedOut(m)'
          BY <1>5, <3>2, <5>1
        <5> QED
          BY <5>1, <5>2 DEF AgedOut, MinuteOf
      <4> QED
        BY <4>1 DEF Settled
    <3> QED
      BY <1>1, <2>1, <3>1, <3>2
  <2> QED
    BY <1>6, <2>2, <2>3 DEF Settled
<1>7. raw' \subseteq raw
  BY <1>1
<1>8. \A f \in raw : f.at \in arrived /\ f.at \in Int /\ f.id \in Int
  BY <1>2, EvidenceFields DEF FramesAreApart
<1>9. watermark \in Int /\ cursor \in Int
  BY <1>2, EvidenceFields
<1>10. ASSUME NEW f \in PrunedFrames PROVE f.at \in late' \/ (f.at < watermark /\ f.at < n - RawFor)
  <2>1. f.at < n - RawFor
    <3>1. PICK a \in Int : a = f.at
      BY <1>1, <1>8
    <3>2. a < at - RawFor
      BY <1>1, <1>3, <3>1
    <3> QED
      BY <1>3, <1>4, <3>1, <3>2
  <2>2. f.at < watermark \/ f.at >= watermark
    BY <1>1, <1>8, <1>9
  <2> QED
    BY <1>1, <2>1, <2>2
<1>11. EvidenceTypes'
  BY <1>1, <1>2, <1>7 DEF EvidenceTypes
<1>12. FramesAreApart'
  <2>1. IsFiniteSet(raw')
    BY <1>2, <1>7, FS_Subset DEF FramesAreApart
  <2>2. ASSUME NEW f \in raw PROVE \E h \in raw' : h.id = LastRowid /\ \A g \in raw : g.id <= h.id
    <3>1. LastRowid \in Nat /\ \A g \in raw : g.id <= LastRowid
      BY <1>2, HighestRowid
    <3>2. LastRowid # 0
      BY <1>2, <2>2, <3>1, EvidenceFields
    <3>3. PICK h \in raw : LastRowid = h.id
      BY <1>2, <3>2, HighestRowid
    <3>4. h \in raw'
      BY <1>1, <3>3
    <3> QED
      BY <3>1, <3>3, <3>4
  <2>3. raw' # {} => \E h \in raw' : \A f \in raw' : f.id <= h.id
    BY <1>7, <2>2
  <2>4. cursor = 0 \/ \E f \in raw' : cursor <= f.id
    <3> SUFFICES ASSUME cursor # 0 PROVE \E f \in raw' : cursor <= f.id
      OBVIOUS
    <3>1. PICK f \in raw : cursor <= f.id
      BY <1>2 DEF FramesAreApart, Reached
    <3>2. PICK h \in raw' : f.id <= h.id
      BY <2>2
    <3> QED
      BY <1>7, <1>8, <1>9, <3>1, <3>2
  <2> QED
    BY <1>1, <1>2, <1>7, <2>1, <2>3, <2>4 DEF FramesAreApart, Reached
<1>13. CursorIsBehind'
  BY <1>1, <1>6, <1>7, <1>8 DEF EvidenceInv, CursorIsBehind
<1>14. RowsAreBacked'
  <2> SUFFICES ASSUME NEW m \in Minutes, minutes'[m] # NoRow, NEW t \in Own(minutes'[m].used, m)
               PROVE  (\E f \in raw' : f.at = t) \/ t \in late' \/ Gone(t)'
    BY DEF RowsAreBacked, Own, MinuteOf
  <2>1. minutes[m] # NoRow /\ t \in Own(minutes[m].used, m)
    BY <1>1
  <2>2. (\E f \in raw : f.at = t) \/ t \in late \/ Gone(t)
    BY <2>1 DEF EvidenceInv, RowsAreBacked
  <2>3. CASE \E f \in raw : f.at = t
    <3>1. PICK f \in raw : f.at = t
      BY <2>3
    <3>2. CASE f \in PrunedFrames
      BY <1>1, <1>3, <1>10, <3>1, <3>2 DEF Gone
    <3> QED
      BY <1>1, <3>1, <3>2
  <2>4. CASE t \in late \/ Gone(t)
    BY <1>1, <2>4 DEF Gone
  <2> QED
    BY <2>2, <2>3, <2>4
<1>15. IdentitiesStay'
  <2>1. ASSUME NEW t \in arrived PROVE t \in processes' \/ t < n - RollFor - Hour
    <3>1. PICK a \in Int : a = t
      BY <1>2, EvidenceFields
    <3>2. t \in processes' \/ a < at - RollFor - Hour \/ a < n - RollFor - Hour
      BY <1>1, <1>3, <3>1 DEF EvidenceInv, IdentitiesStay
    <3>3. a < at - RollFor - Hour => a < n - RollFor - Hour
      BY <1>3, <1>4, LongerAgo
    <3> QED
      BY <3>1, <3>2, <3>3
  <2>2. ASSUME NEW m \in Minutes, minutes'[m] # NoRow
        PROVE  minutes'[m].used \subseteq arrived /\ \A t \in minutes'[m].used : m < t + Freshness
    <3>1. minutes'[m] = minutes[m] /\ minutes[m] # NoRow
      BY <1>1, <2>2
    <3> QED
      BY <3>1 DEF EvidenceInv, IdentitiesStay
  <2> QED
    BY <1>1, <1>3, <2>1, <2>2 DEF IdentitiesStay
<1>16. PassSettles' /\ (Floor(watermark, Minute) = watermark)'
  BY <1>1 DEF EvidenceInv, PassSettles
<1>17. EvidenceIsKept'
  <2> SUFFICES ASSUME NEW t \in arrived PROVE (\E f \in raw' : f.at = t) \/ Settled(t)'
    BY <1>1 DEF EvidenceIsKept, Settled
  <2>1. (\E f \in raw : f.at = t) \/ Settled(t)
    BY DEF EvidenceInv, EvidenceIsKept, Settled
  <2>2. CASE \E f \in raw : f.at = t
    <3>1. PICK f \in raw : f.at = t
      BY <2>2
    <3>2. CASE f \in PrunedFrames /\ f.at < watermark
      <4>1. CASE f.id <= cursor
        <5>1. Settled(f.at)
          BY <3>1, <3>2, <4>1 DEF EvidenceInv, CursorIsBehind
        <5> QED
          BY <1>6, <3>1, <5>1
      <4>2. CASE f.id > cursor
        <5>1. Rolled(f.at) \/ f.at \in late'
          BY <1>1, <3>2, <4>2
        <5>2. Rolled(f.at) => Settled(f.at)'
          BY <1>6, <3>1 DEF Settled
        <5> QED
          BY <3>1, <5>1, <5>2 DEF Settled
      <4> QED
        BY <1>8, <1>9, <4>1, <4>2
    <3>3. CASE f \in PrunedFrames /\ ~(f.at < watermark)
      BY <1>10, <3>1, <3>3 DEF Settled
    <3>4. CASE f \notin PrunedFrames
      BY <1>1, <3>1, <3>4
    <3> QED
      BY <3>2, <3>3, <3>4
  <2> QED
    BY <1>6, <2>1, <2>2
<1> QED
  BY <1>11, <1>12, <1>13, <1>14, <1>15, <1>16, <1>17 DEF EvidenceInv

LEMMA EvidenceStep == ASSUME EvidenceInv, [Next]_vars PROVE EvidenceInv'
<1>1. CASE \E t \in FrameTimes : Ingest(t)
  BY <1>1, IngestKeepsEvidence
<1>2. CASE Pass
  BY <1>2, BeginKeepsEvidence, ReadLateKeepsEvidence, PutLateKeepsEvidence, StartRollKeepsEvidence,
     ReadMinuteKeepsEvidence, PutMinuteKeepsEvidence, RollHoursKeepsEvidence, WriteKeepsEvidence,
     PruneKeepsEvidence DEF Pass
<1> QED
  BY <1>1, <1>2, TickKeepsEvidence, StopKeepsEvidence, StutterKeepsEvidence DEF Next

(* A process a row is of is known until the row is too old: it stays an    *)
(* hour longer, and a reading is valid no longer than that.                *)
LEMMA RowsAreSelectable == ASSUME EvidenceInv PROVE RollupsStaySelectable
<1> SUFFICES ASSUME NEW m \in Minutes, minutes[m] # NoRow, NEW t \in minutes[m].used, ~AgedOut(m)
             PROVE  t \in processes
  BY DEF RollupsStaySelectable
<1>1. t \in arrived /\ m < t + Freshness
  BY DEF EvidenceInv, IdentitiesStay
<1>2. t \in processes \/ t < now - RollFor - Hour
  BY <1>1 DEF EvidenceInv, IdentitiesStay
<1>3. PICK a \in Int, n \in Int, k \in Int : a = t /\ n = now /\ k = m
  BY <1>1, EvidenceFields, MinutesAre DEF EvidenceInv
<1>4. RollFor \in Int /\ Hour \in Int /\ Freshness \in Int /\ Freshness <= Hour
  BY HistoryNumbers
<1>5. ~(k < n - RollFor) /\ k < a + Freshness
  BY <1>1, <1>3 DEF AgedOut
<1>6. ~(a < n - RollFor - Hour)
  BY <1>3, <1>4, <1>5
<1> QED
  BY <1>2, <1>3, <1>6

(* A step that writes a row of a minute again leaves in it what it had of  *)
(* the minute.                                                             *)
Grows == \A m \in Minutes : minutes[m] # NoRow /\ minutes'[m] # NoRow =>
           {t \in minutes[m].used : MinuteOf(t) = m} \ late \subseteq minutes'[m].used

LEMMA RowsGrow == ASSUME EvidenceInv, Next PROVE Grows
<1>1. CASE UNCHANGED minutes
  BY <1>1 DEF Grows
<1>2. CASE PutLate \/ PutMinute
  <2>1. RowIsPut
    BY <1>2 DEF PutLate, PutMinute, RowIsPut, PutRollup, NoPass
  <2>2. RowIsOfFrames
    BY <2>1 DEF EvidenceInv, PassSettles, RowIsPut
  <2>3. pass.row # NoRow
    BY <2>1 DEF RowIsPut
  <2> SUFFICES ASSUME NEW m \in Minutes, minutes[m] # NoRow, minutes'[m] # NoRow
               PROVE  Own(minutes[m].used, m) \ late \subseteq minutes'[m].used
    BY DEF Grows, Own
  <2>4. CASE m = pass.row.m
    BY <2>1, <2>2, <2>3, <2>4, PutSettles DEF RowIsOfFrames
  <2>5. CASE m # pass.row.m
    <3>1. minutes'[m] = minutes[m]
      BY <2>1, <2>5, PutSettles
    <3> QED
      BY <3>1 DEF Own
  <2> QED
    BY <2>4, <2>5
<1>3. CASE PruneObservationRetention
  <2>1. \A m \in Minutes : minutes'[m] = minutes[m] \/ minutes'[m] = NoRow
    BY <1>3, PruneTakes
  <2> QED
    BY <2>1 DEF Grows
<1>4. UNCHANGED minutes \/ PutLate \/ PutMinute \/ PruneObservationRetention
  <2>1. CASE Tick
    BY <2>1 DEF Tick
  <2>2. CASE StopPass
    BY <2>2 DEF StopPass
  <2>3. CASE \E t \in FrameTimes : Ingest(t)
    BY <2>3 DEF Ingest
  <2>4. CASE BeginPass
    BY <2>4 DEF BeginPass
  <2>5. CASE ReadLate \/ StartRoll \/ ReadMinute
    BY <2>5 DEF ReadLate, StartRoll, ReadMinute
  <2>6. CASE RollHours \/ WriteMaintenanceState
    BY <2>6 DEF RollHours, WriteMaintenanceState
  <2> QED
    BY <2>1, <2>2, <2>3, <2>4, <2>5, <2>6 DEF Next, Pass
<1> QED
  BY <1>1, <1>2, <1>3, <1>4

(* What was admitted is a frame or part of its row until the row is too    *)
(* old, of a process that can be selected, and no row loses what it had.   *)
THEOREM EvidenceIsUsable == Spec => EvidenceStaysUsable
<1>1. Init => EvidenceInv
  BY InitHasEvidence
<1>2. EvidenceInv /\ [Next]_vars => EvidenceInv'
  BY EvidenceStep
<1>3. EvidenceInv => EvidenceIsKept /\ RollupsStaySelectable
  BY RowsAreSelectable DEF EvidenceInv
<1>4. EvidenceInv /\ [Next]_vars => [Grows]_vars
  BY RowsGrow
<1> QED
  BY <1>1, <1>2, <1>3, <1>4, PTL DEF Spec, EvidenceStaysUsable, RollupsOnlyGrow, Grows

-----------------------------------------------------------------------------
(* Backup and restore: the invariant.                                      *)

(* What a file can hold, and a database of one generation: it trusts only  *)
(* credentials of that generation and owes nothing it does not hold.       *)
Content == [gen : Nat, state : {"none", "conf", "normal", "bootstrap"}, rows : SUBSET Row,
            due : SUBSET Row, creds : SUBSET Gens, secret : Nat]

IsDatabase(c, g) == c.gen = g /\ c.creds \subseteq {g} /\ c.due \subseteq c.rows /\ c.state # "none"

(* The files and the vault of one generation.                              *)
OneGeneration(files, v, g) ==
  /\ files["conf"].gen = g /\ v.gen = g
  /\ files["db"] = Absent \/ IsDatabase(files["db"], g)
  /\ files["wal"] = Absent \/ IsDatabase(files["wal"], g)
  /\ Readable(files) => Database(files).secret \in v.names

(* The images of the backups, published and under way.                     *)
Images(bs, s) == {bs[b].image : b \in DOMAIN bs} \cup (IF s.pc = "idle" THEN {} ELSE {s.image})

(* Rows that were there before others: rowids grow within a generation.    *)
Before(old, rows) == old \subseteq rows /\ \A r \in old, s \in rows \ old : r[2] < s[2]

(* The database that can be opened has all the rows its generation ever    *)
(* admitted, has told nobody of those that are due, and began as every     *)
(* image of its generation.                                                *)
RowsAreAll(db, ever, t, images) ==
  /\ db.rows \subseteq ever /\ {r \in ever : r[1] = db.gen} \subseteq db.rows
  /\ \A r \in db.due : t[r] = 0
  /\ \A i \in images : i.gen = db.gen => Before(i.rows, db.rows)

(* A generation nobody has used.                                           *)
Unused(g, ever, images) == (\A r \in ever : r[1] # g) /\ (\A i \in images : i.gen # g)

(* The prepared files of a restore.                                        *)
IsPrepared(files, g) ==
  /\ files["conf"].gen = g /\ files["wal"] = Absent
  /\ IsDatabase(files["db"], g) /\ files["db"].due = {}

(* The types of the variables.                                             *)
BackupsType(bs) == bs \in Seq([image : Content, names : SUBSET Nat, keys : Nat])
SaverType(s)    == s \in [pc : {"idle", "collect", "publish"}, image : Content, names : SUBSET Nat]
VaultType(v)    == DOMAIN v = {"gen", "names"} /\ v.names \in SUBSET Nat
JournalType(j, n) ==
  j \in [txn : 0..n, state : {"none", "prepared", "committed"}, same : BOOLEAN, later : SUBSET Row]
AreaType(a) ==
  /\ DOMAIN a = Gens
  /\ \A g \in Gens : /\ DOMAIN a[g] = {"files", "vault", "saved", "savedVault"}
                     /\ a[g].files \in [Files -> Content] /\ VaultType(a[g].vault)
RestorerType(r, n) ==
  r \in [pc : {"idle", "prepare", "install", "vault"}, gen : 0..n, backup : Nat, done : SUBSET Files]

Types ==
  /\ live \in [Files -> Content] /\ hub \in BOOLEAN /\ lastGen \in Gens /\ secrets \in Nat
  /\ BackupsType(backups) /\ SaverType(saver) /\ VaultType(vault) /\ AreaType(area)
  /\ JournalType(journal, lastGen) /\ RestorerType(restorer, lastGen)
  /\ admitted \in SUBSET Row /\ told \in [Row -> Nat]

(* Nobody was told twice, or of a row that was never admitted.             *)
Past ==
  /\ \A r \in admitted : r[1] <= lastGen
  /\ \A r \in Row : told[r] <= 1 /\ (told[r] # 0 => r \in admitted)
  /\ \A i \in Images(backups, saver) : i.gen \in 1..lastGen /\ i.rows \subseteq admitted

(* Between two restores: the live files are of one generation.             *)
LiveOK ==
  journal.state # "prepared" =>
    /\ live["conf"].gen \in 1..lastGen /\ OneGeneration(live, vault, live["conf"].gen)
    /\ Readable(live) => RowsAreAll(Database(live), admitted, told, Images(backups, saver))

(* From the journal on: the prepared files are, and nobody opens the rest. *)
PreparedOK ==
  journal.state = "prepared" =>
    /\ journal.txn \in 1..lastGen /\ Unused(journal.txn, admitted, Images(backups, saver))
    /\ IsPrepared(area[journal.txn].files, journal.txn)
    /\ area[journal.txn].files["db"].rows \subseteq admitted

(* Whoever holds the lease has a database in front of it, and no restore.  *)
Leases ==
  /\ hub => Readable(live) /\ journal.state # "prepared" /\ restorer.pc = "idle"
  /\ saver.pc # "idle" => Readable(live) /\ journal.state # "prepared" /\ restorer.pc = "idle"

(* A restore that prepares has a generation of its own, and the copies it  *)
(* took are of the live files unless these have been lost since.           *)
PreparesOK ==
  restorer.pc = "prepare" =>
    /\ journal.state # "prepared" /\ restorer.gen \in 1..lastGen /\ restorer.gen # journal.txn
    /\ restorer.done = {}
    /\ restorer.gen # live["conf"].gen /\ restorer.backup \in DOMAIN backups
    /\ Unused(restorer.gen, admitted, Images(backups, saver))
    /\ Readable(live) => area[restorer.gen].saved = live

(* A restore that installs has put what it says it has put.                *)
InstallsOK ==
  restorer.pc \in {"install", "vault"} =>
    /\ journal.state = "prepared" /\ restorer.gen = journal.txn
    /\ \A f \in restorer.done : \/ live[f] = area[journal.txn].files[f]
                                \/ f = "db" /\ live[f] = Absent
    /\ restorer.pc = "vault" => restorer.done = Files

(* The invariant.                                                          *)
RestoreInv ==
  /\ Types /\ Past /\ LiveOK /\ PreparedOK /\ Leases /\ PreparesOK /\ InstallsOK
  /\ journal.same => journal.txn # 0 /\ EvidenceIsComplete
-----------------------------------------------------------------------------
(* The bounds are numbers, and a row is a generation and a rowid.          *)
LEMMA ConstantsAreNatural ==
    /\ MaxGen \in Nat \ {0} /\ MaxRowid \in Nat \ {0} /\ MaxFault \in Nat
    /\ Gens = 1..MaxGen /\ 1 \in Gens
    /\ \A r \in Row : r[1] \in Gens /\ r[2] \in 1..MaxRowid /\ r = <<r[1], r[2]>>
    /\ \A g \in Gens, n \in 1..MaxRowid : <<g, n>> \in Row
  BY RestoreAssumption DEF Gens, Row

(* No row of a database is above its mark.                                 *)
LEMMA HighWaterIsHigh ==
    ASSUME NEW rows \in SUBSET Row
    PROVE  /\ HighWater(rows) \in Nat /\ \A r \in rows : r[2] <= HighWater(rows)
           /\ HighWater(rows) = 0 \/ \E r \in rows : HighWater(rows) = r[2]
<1> DEFINE S == {0} \cup {r[2] : r \in rows}
<1>1. S \in SUBSET (0..MaxRowid) /\ S # {} /\ MaxRowid \in Nat
  BY ConstantsAreNatural
<1>2. Max(S) \in S /\ \A y \in S : Max(S) >= y
  <2> HIDE DEF S
  <2> QED
    BY <1>1, GreatestIsThere
<1>3. HighWater(rows) = Max(S)
  BY DEF HighWater
<1> HIDE DEF HighWater
<1>4. HighWater(rows) \in S /\ \A y \in S : HighWater(rows) >= y
  BY <1>2, <1>3
<1>5. \A r \in rows : r[2] \in S /\ r[2] \in Nat
  BY ConstantsAreNatural
<1> QED
  BY <1>1, <1>4, <1>5

(* What is above the mark of the rows that were there first came later.    *)
LEMMA LaterIsAbove ==
    ASSUME NEW rows \in SUBSET Row, NEW old, Before(old, rows)
    PROVE  {r \in rows : r[2] > HighWater(old)} = rows \ old
<1>1. old \in SUBSET Row
  BY DEF Before
<1>2. /\ HighWater(old) \in Nat /\ \A r \in old : r[2] <= HighWater(old)
      /\ HighWater(old) = 0 \/ \E r \in old : HighWater(old) = r[2]
  BY <1>1, HighWaterIsHigh
<1>3. \A r \in rows : r[2] \in Nat /\ r[2] > 0
  BY ConstantsAreNatural
<1>4. ASSUME NEW r \in rows \ old PROVE r[2] > HighWater(old)
  BY <1>2, <1>3 DEF Before
<1>5. ASSUME NEW r \in old PROVE ~(r[2] > HighWater(old))
  BY <1>1, <1>2, <1>3 DEF Before
<1> QED
  BY <1>4, <1>5

(* The one content there is to choose.                                     *)
LEMMA OneChoice == ASSUME NEW x PROVE (CHOOSE c \in {x} : TRUE) = x
  OBVIOUS

(* A missing file and a configuration are contents.                        *)
LEMMA Constructors ==
    /\ Absent \in Content /\ Absent.state = "none" /\ Absent.gen = 0 /\ Absent.rows = {}
    /\ \A g \in Nat : Conf(g) \in Content /\ Conf(g).gen = g
<1>1. Absent = [gen |-> 0, state |-> "none", rows |-> {}, due |-> {}, creds |-> {}, secret |-> 0]
  BY DEF Absent
<1>2. Absent \in Content /\ Absent.state = "none" /\ Absent.gen = 0 /\ Absent.rows = {}
  BY <1>1 DEF Content
<1>3. ASSUME NEW g \in Nat PROVE Conf(g) \in Content /\ Conf(g).gen = g
  <2> HIDE DEF Absent
  <2> QED
    BY <1>2 DEF Conf, Content
<1> QED
  BY <1>2, <1>3

(* The database that would be opened.                                      *)
LEMMA LiveDatabase ==
    ASSUME RestoreInv, Readable(live), journal.state # "prepared"
    PROVE  /\ Database(live) \in Content /\ IsDatabase(Database(live), live["conf"].gen)
           /\ live["conf"].gen \in 1..lastGen /\ 1..lastGen \subseteq Gens
           /\ Database(live) # Absent /\ Database(live).gen = live["conf"].gen
           /\ vault.gen = live["conf"].gen /\ Database(live).secret \in vault.names
           /\ live["db"].gen = live["conf"].gen
           /\ RowsAreAll(Database(live), admitted, told, Images(backups, saver))
<1>1. /\ live \in [Files -> Content] /\ lastGen \in Gens
      /\ OneGeneration(live, vault, live["conf"].gen) /\ live["conf"].gen \in 1..lastGen
      /\ RowsAreAll(Database(live), admitted, told, Images(backups, saver))
  BY DEF RestoreInv, Types, LiveOK
<1>2. Database(live) \in Content
  BY <1>1 DEF Database, Files
<1>3. IsDatabase(Database(live), live["conf"].gen) /\ live["db"].gen = live["conf"].gen
  BY <1>1 DEF OneGeneration, Database, Readable, IsDatabase
<1>4. 1..lastGen \subseteq Gens
  BY <1>1, ConstantsAreNatural
<1> QED
  BY <1>1, <1>2, <1>3, <1>4, Constructors DEF OneGeneration, IsDatabase

(* What a running hub commits.                                             *)
LEMMA CommitKeepsAll ==
    ASSUME RestoreInv, hub, NEW db \in Content,
           live' = [live EXCEPT !["db"] = Database(live), !["wal"] = db],
           IsDatabase(db, Database(live).gen), db.secret \in vault'.names,
           UNCHANGED <<hub, lastGen, backups, saver, journal, area, restorer>>,
           VaultType(vault'), vault'.gen = vault.gen, secrets' \in Nat,
           admitted \subseteq admitted', admitted' \in SUBSET Row, told' \in [Row -> Nat],
           \A r \in admitted' : r[1] <= lastGen,
           \A r \in Row : told'[r] <= 1 /\ (told'[r] # 0 => r \in admitted'),
           RowsAreAll(db, admitted', told', Images(backups, saver))
    PROVE  RestoreInv'
<1>1. Readable(live) /\ journal.state # "prepared" /\ restorer.pc = "idle"
  BY DEF RestoreInv, Leases
<1>2. /\ Database(live) \in Content /\ IsDatabase(Database(live), live["conf"].gen)
      /\ live["conf"].gen \in 1..lastGen /\ Database(live) # Absent
      /\ Database(live).gen = live["conf"].gen /\ vault.gen = live["conf"].gen
  BY <1>1, LiveDatabase
<1>3. /\ live' \in [Files -> Content] /\ live'["db"] = Database(live) /\ live'["wal"] = db
      /\ live'["conf"] = live["conf"]
  BY <1>2 DEF RestoreInv, Types, Files
<1>4. db # Absent /\ Database(live') = db /\ Readable(live')
  BY <1>2, <1>3, Constructors DEF IsDatabase, Database, Readable
<1>5. Types'
  BY <1>3 DEF RestoreInv, Types
<1>6. Past'
  BY DEF RestoreInv, Past
<1>7. LiveOK'
  <2>1. OneGeneration(live', vault', live["conf"].gen)
    BY <1>2, <1>3, <1>4 DEF OneGeneration
  <2> QED
    BY <1>2, <1>3, <1>4, <2>1 DEF LiveOK
<1>8. PreparedOK' /\ PreparesOK' /\ InstallsOK'
  BY <1>1 DEF PreparedOK, PreparesOK, InstallsOK
<1>9. Leases'
  BY <1>1, <1>4 DEF Leases
<1>10. journal'.same => journal'.txn # 0 /\ EvidenceIsComplete'
  BY DEF RestoreInv, EvidenceIsComplete
<1> QED
  BY <1>5, <1>6, <1>7, <1>8, <1>9, <1>10 DEF RestoreInv

(* A database that changes in what nobody counts.                          *)
LEMMA BootstrapAndEnrollKeepAll ==
    ASSUME RestoreInv, Bootstrap \/ Enroll PROVE RestoreInv'
<1>1. hub /\ Readable(live) /\ journal.state # "prepared"
  BY DEF RestoreInv, Leases, Bootstrap, Enroll
<1>2. PICK old : old = Database(live)
  OBVIOUS
<1>3. /\ old \in Content /\ IsDatabase(old, old.gen) /\ old.gen \in Gens
      /\ old.secret \in vault.names /\ RowsAreAll(old, admitted, told, Images(backups, saver))
  BY <1>1, <1>2, LiveDatabase
<1>4. PICK db : /\ db = [old EXCEPT !.state = "normal"] \/ db = [old EXCEPT !.creds = @ \cup {old.gen}]
                /\ live' = [live EXCEPT !["db"] = Database(live), !["wal"] = db]
  BY <1>2 DEF Bootstrap, Enroll, Commit
<1>5. /\ db \in Content /\ db.gen = old.gen /\ db.rows = old.rows /\ db.due = old.due
      /\ db.secret = old.secret /\ db.creds \subseteq old.creds \cup {old.gen} /\ db.state # "none"
  BY <1>3, <1>4 DEF Content, IsDatabase
<1>6. IsDatabase(db, old.gen)
  BY <1>3, <1>5 DEF IsDatabase
<1>7. RowsAreAll(db, admitted, told, Images(backups, saver))
  BY <1>3, <1>5 DEF RowsAreAll
<1>8. UNCHANGED <<vault, hub, lastGen, secrets, backups, saver, journal, area, restorer, admitted, told>>
  BY DEF Bootstrap, Enroll
<1>9. VaultType(vault) /\ secrets \in Nat /\ admitted \in SUBSET Row /\ told \in [Row -> Nat] /\ Past
  BY DEF RestoreInv, Types
<1> QED
  BY <1>1, <1>2, <1>3, <1>4, <1>5, <1>6, <1>7, <1>8, <1>9, CommitKeepsAll DEF Past

(* A new row has a number no row of its generation has had.                *)
LEMMA NewRowIsNew ==
    ASSUME RestoreInv, hub, NEW row \in Row,
           row = <<Database(live).gen, HighWater(Database(live).rows) + 1>>
    PROVE  row \notin admitted /\ \A r \in Database(live).rows : r[2] < row[2]
<1>1. Readable(live) /\ journal.state # "prepared"
  BY DEF RestoreInv, Leases
<1>2. PICK old : old = Database(live)
  OBVIOUS
<1>3. old \in Content /\ RowsAreAll(old, admitted, told, Images(backups, saver))
  BY <1>1, <1>2, LiveDatabase
<1>4. old.rows \in SUBSET Row
  BY <1>3 DEF Content
<1>5. HighWater(old.rows) \in Nat /\ \A r \in old.rows : r[2] <= HighWater(old.rows)
  BY <1>4, HighWaterIsHigh
<1>6. row[1] = old.gen /\ row[2] = HighWater(old.rows) + 1
  BY <1>2
<1>7. \A r \in old.rows : r[2] < row[2] /\ r[2] \in Int
  BY <1>4, <1>5, <1>6, ConstantsAreNatural
<1>8. row \notin old.rows
  BY <1>5, <1>6
<1> QED
  BY <1>2, <1>3, <1>6, <1>7, <1>8 DEF RowsAreAll

(* Admitting adds a row nobody has been told of.                           *)
LEMMA AdmitKeepsAll == ASSUME RestoreInv, Admit PROVE RestoreInv'
<1>1. hub /\ Readable(live) /\ journal.state # "prepared"
  BY DEF RestoreInv, Leases, Admit
<1>2. PICK old : old = Database(live)
  OBVIOUS
<1>3. PICK row \in Row : row = <<old.gen, HighWater(old.rows) + 1>> /\ admitted' = admitted \cup {row}
  BY <1>2 DEF Admit
<1>4. /\ old \in Content /\ IsDatabase(old, old.gen) /\ old.gen \in 1..lastGen
      /\ old.secret \in vault.names /\ RowsAreAll(old, admitted, told, Images(backups, saver))
  BY <1>1, <1>2, LiveDatabase
<1>5. row \notin admitted /\ \A r \in old.rows : r[2] < row[2]
  BY <1>1, <1>2, <1>3, NewRowIsNew
<1>6. PICK db : /\ db = [old EXCEPT !.rows = @ \cup {row}, !.due = @ \cup {row}]
                /\ live' = [live EXCEPT !["db"] = Database(live), !["wal"] = db]
  BY <1>2, <1>3 DEF Admit, Commit
<1>7. /\ db \in Content /\ db.gen = old.gen /\ db.rows = old.rows \cup {row}
      /\ db.due = old.due \cup {row} /\ db.secret = old.secret /\ db.creds = old.creds
      /\ db.state = old.state
  BY <1>4, <1>6 DEF Content
<1>8. IsDatabase(db, old.gen)
  BY <1>4, <1>7 DEF IsDatabase
<1>9. UNCHANGED <<vault, hub, lastGen, secrets, backups, saver, journal, area, restorer, told>>
  BY DEF Admit
<1>10. VaultType(vault) /\ secrets \in Nat /\ admitted \in SUBSET Row /\ told \in [Row -> Nat] /\ Past
  BY DEF RestoreInv, Types
<1>11. RowsAreAll(db, admitted', told', Images(backups, saver))
  <2>1. told[row] = 0
    BY <1>5, <1>10 DEF Past
  <2>2. \A i \in Images(backups, saver) : i.gen = old.gen => Before(i.rows, db.rows)
    BY <1>4, <1>5, <1>7 DEF RowsAreAll, Before
  <2> QED
    BY <1>3, <1>4, <1>7, <1>9, <2>1, <2>2 DEF RowsAreAll
<1>12. \A r \in admitted' : r[1] <= lastGen
  <2>1. row[1] = old.gen /\ old.gen <= lastGen
    BY <1>3, <1>4
  <2> QED
    BY <1>3, <1>10, <2>1 DEF Past
<1> QED
  BY <1>1, <1>2, <1>3, <1>4, <1>6, <1>7, <1>8, <1>9, <1>10, <1>11, <1>12, CommitKeepsAll DEF Past

(* Notifying takes the row off those that are due.                         *)
LEMMA NotifyKeepsAll == ASSUME RestoreInv, Notify PROVE RestoreInv'
<1>1. hub /\ Readable(live) /\ journal.state # "prepared"
  BY DEF RestoreInv, Leases, Notify
<1>2. PICK old : old = Database(live)
  OBVIOUS
<1>3. PICK row \in old.due : /\ told' = [told EXCEPT ![row] = @ + 1]
                             /\ Commit([old EXCEPT !.due = @ \ {row}])
  BY <1>2 DEF Notify
<1>4. /\ old \in Content /\ IsDatabase(old, old.gen)
      /\ old.secret \in vault.names /\ RowsAreAll(old, admitted, told, Images(backups, saver))
  BY <1>1, <1>2, LiveDatabase
<1>5. PICK db : /\ db = [old EXCEPT !.due = @ \ {row}]
                /\ live' = [live EXCEPT !["db"] = Database(live), !["wal"] = db]
  BY <1>3 DEF Commit
<1>6. /\ db \in Content /\ db.gen = old.gen /\ db.rows = old.rows /\ db.due = old.due \ {row}
      /\ db.secret = old.secret /\ db.creds = old.creds /\ db.state = old.state
  BY <1>4, <1>5 DEF Content
<1>7. IsDatabase(db, old.gen)
  BY <1>4, <1>6 DEF IsDatabase
<1>8. UNCHANGED <<vault, hub, lastGen, secrets, backups, saver, journal, area, restorer, admitted>>
  BY DEF Notify
<1>9. VaultType(vault) /\ secrets \in Nat /\ admitted \in SUBSET Row /\ told \in [Row -> Nat] /\ Past
  BY DEF RestoreInv, Types
<1>10. row \in admitted /\ row \in Row /\ told[row] = 0
  BY <1>4, <1>9 DEF RowsAreAll, IsDatabase
<1>11. told' \in [Row -> Nat] /\ told'[row] = 1 /\ \A r \in Row \ {row} : told'[r] = told[r]
  BY <1>3, <1>9, <1>10
<1>12. RowsAreAll(db, admitted', told', Images(backups, saver))
  <2>1. \A r \in db.due : told'[r] = 0
    BY <1>4, <1>6, <1>9, <1>11 DEF RowsAreAll, IsDatabase
  <2> QED
    BY <1>4, <1>6, <1>8, <2>1 DEF RowsAreAll
<1>13. \A r \in Row : told'[r] <= 1 /\ (told'[r] # 0 => r \in admitted)
  BY <1>9, <1>10, <1>11 DEF Past
<1> QED
  BY <1>1, <1>2, <1>4, <1>5, <1>6, <1>7, <1>8, <1>9, <1>11, <1>12, <1>13, CommitKeepsAll DEF Past

(* The secret is in the vault before the database refers to it.            *)
LEMMA RotateKeepsAll == ASSUME RestoreInv, RotateSecret PROVE RestoreInv'
<1>1. hub /\ Readable(live) /\ journal.state # "prepared"
  BY DEF RestoreInv, Leases, RotateSecret
<1>2. PICK old : old = Database(live)
  OBVIOUS
<1>3. /\ old \in Content /\ IsDatabase(old, old.gen)
      /\ RowsAreAll(old, admitted, told, Images(backups, saver))
  BY <1>1, <1>2, LiveDatabase
<1>4. PICK db : /\ db = [old EXCEPT !.secret = secrets + 1]
                /\ live' = [live EXCEPT !["db"] = Database(live), !["wal"] = db]
  BY <1>2 DEF RotateSecret, Commit
<1>5. VaultType(vault) /\ secrets \in Nat /\ admitted \in SUBSET Row /\ told \in [Row -> Nat] /\ Past
  BY DEF RestoreInv, Types
<1>6. /\ db \in Content /\ db.gen = old.gen /\ db.rows = old.rows /\ db.due = old.due
      /\ db.secret = secrets + 1 /\ db.creds = old.creds /\ db.state = old.state
  BY <1>3, <1>4, <1>5 DEF Content
<1>7. IsDatabase(db, old.gen)
  BY <1>3, <1>6 DEF IsDatabase
<1>8. /\ UNCHANGED <<hub, lastGen, backups, saver, journal, area, restorer, admitted, told>>
      /\ secrets' = secrets + 1 /\ vault' = [vault EXCEPT !.names = @ \cup {secrets + 1}]
  BY DEF RotateSecret
<1>9. VaultType(vault') /\ vault'.gen = vault.gen /\ db.secret \in vault'.names /\ secrets' \in Nat
  BY <1>5, <1>6, <1>8 DEF VaultType
<1>10. RowsAreAll(db, admitted', told', Images(backups, saver))
  BY <1>3, <1>6, <1>8 DEF RowsAreAll
<1> QED
  BY <1>1, <1>2, <1>4, <1>5, <1>6, <1>7, <1>8, <1>9, <1>10, CommitKeepsAll DEF Past

(* The hub starts, stops and crashes, and the disk fails.                  *)
LEMMA StartKeepsAll == ASSUME RestoreInv, StartHub PROVE RestoreInv'
<1>1. /\ UNCHANGED <<live, vault, lastGen, secrets, backups, saver, journal, area, restorer, admitted, told>>
      /\ hub' = TRUE /\ restorer.pc = "idle" /\ journal.state # "prepared" /\ Readable(live)
  BY DEF StartHub, SharedLease, RequireRecoveryReady
<1>2. Types' /\ Past'
  BY <1>1 DEF RestoreInv, Types, Past
<1>3. LiveOK' /\ PreparedOK' /\ PreparesOK' /\ InstallsOK'
  BY <1>1 DEF RestoreInv, LiveOK, PreparedOK, PreparesOK, InstallsOK
<1>4. Leases'
  BY <1>1 DEF Leases
<1>5. journal'.same => journal'.txn # 0 /\ EvidenceIsComplete'
  BY <1>1 DEF RestoreInv, EvidenceIsComplete
<1> QED
  BY <1>2, <1>3, <1>4, <1>5 DEF RestoreInv

(* A stop may fold the -wal into the database, which reads the same.       *)
LEMMA StopKeepsAll == ASSUME RestoreInv, StopHub PROVE RestoreInv'
<1>1. /\ UNCHANGED <<vault, lastGen, secrets, backups, saver, journal, area, restorer, admitted, told>>
      /\ hub' = FALSE
      /\ live' = live \/ live' = [live EXCEPT !["db"] = Database(live), !["wal"] = Absent]
  BY DEF StopHub
<1>2. restorer.pc = "idle" /\ journal.state # "prepared" /\ Readable(live)
  BY DEF RestoreInv, Leases, StopHub
<1>3. /\ Database(live) \in Content /\ IsDatabase(Database(live), live["conf"].gen)
      /\ Database(live) # Absent /\ Database(live).secret \in vault.names
      /\ RowsAreAll(Database(live), admitted, told, Images(backups, saver))
  BY <1>2, LiveDatabase
<1>4. live \in [Files -> Content] /\ OneGeneration(live, vault, live["conf"].gen)
      /\ live["conf"].gen \in 1..lastGen
  BY <1>2 DEF RestoreInv, Types, LiveOK
<1>5. /\ live' \in [Files -> Content] /\ live'["conf"] = live["conf"]
      /\ Database(live') = Database(live) /\ Readable(live')
      /\ OneGeneration(live', vault', live'["conf"].gen)
  <2>1. CASE live' = live
    BY <1>1, <1>2, <1>4, <2>1
  <2>2. CASE live' = [live EXCEPT !["db"] = Database(live), !["wal"] = Absent]
    <3>1. /\ live' \in [Files -> Content] /\ live'["db"] = Database(live) /\ live'["wal"] = Absent
          /\ live'["conf"] = live["conf"]
      BY <1>3, <1>4, <2>2, Constructors DEF Files
    <3>2. Database(live') = Database(live) /\ Readable(live')
      BY <1>3, <3>1 DEF Database, Readable
    <3> QED
      BY <1>1, <1>3, <1>4, <3>1, <3>2 DEF OneGeneration
  <2> QED
    BY <1>1, <2>1, <2>2
<1>6. Types' /\ Past'
  BY <1>1, <1>5 DEF RestoreInv, Types, Past
<1>7. LiveOK' /\ PreparedOK' /\ PreparesOK' /\ InstallsOK'
  BY <1>1, <1>2, <1>3, <1>4, <1>5 DEF LiveOK, PreparedOK, PreparesOK, InstallsOK
<1>8. Leases'
  BY <1>1, <1>2, <1>5 DEF Leases
<1>9. journal'.same => journal'.txn # 0 /\ EvidenceIsComplete'
  BY <1>1 DEF RestoreInv, EvidenceIsComplete
<1> QED
  BY <1>6, <1>7, <1>8, <1>9 DEF RestoreInv

(* A database that is lost is read by nobody.                              *)
LEMMA WreckKeepsAll == ASSUME RestoreInv, Wreck PROVE RestoreInv'
<1>1. /\ UNCHANGED <<vault, hub, lastGen, secrets, backups, saver, journal, area, restorer, admitted, told>>
      /\ ~hub /\ saver.pc = "idle" /\ live' = [live EXCEPT !["db"] = Absent]
  BY DEF Wreck
<1>2. live \in [Files -> Content]
  BY DEF RestoreInv, Types
<1>3. /\ live' \in [Files -> Content] /\ live'["db"] = Absent /\ ~Readable(live')
      /\ \A f \in Files \ {"db"} : live'[f] = live[f]
      /\ live'["conf"] = live["conf"] /\ live'["wal"] = live["wal"]
  BY <1>1, <1>2, Constructors DEF Files, Readable
<1>4. Types' /\ Past'
  BY <1>1, <1>3 DEF RestoreInv, Types, Past
<1>5. LiveOK'
  BY <1>1, <1>3 DEF RestoreInv, LiveOK, OneGeneration
<1>6. PreparedOK' /\ PreparesOK'
  BY <1>1, <1>3 DEF RestoreInv, PreparedOK, PreparesOK
<1>7. InstallsOK'
  <2>1. restorer.done \in SUBSET Files
    BY DEF RestoreInv, Types, RestorerType
  <2> QED
    BY <1>1, <1>3, <2>1 DEF RestoreInv, InstallsOK
<1>8. Leases'
  BY <1>1 DEF Leases
<1>9. journal'.same => journal'.txn # 0 /\ EvidenceIsComplete'
  BY <1>1 DEF RestoreInv, EvidenceIsComplete
<1> QED
  BY <1>4, <1>5, <1>6, <1>7, <1>8, <1>9 DEF RestoreInv

-----------------------------------------------------------------------------
(* Backups.                                                                *)

(* What a backup takes with it is an image of the open database.           *)
LEMMA BackupsKeepAll ==
    ASSUME RestoreInv,
           UNCHANGED <<live, vault, hub, lastGen, secrets, journal, area, restorer, admitted, told>>,
           BackupsType(backups'), SaverType(saver'), restorer.pc = "idle", journal.state # "prepared",
           Readable(live),
           Images(backups', saver') \subseteq Images(backups, saver) \cup {Database(live)}
    PROVE  RestoreInv'
<1>1. /\ RowsAreAll(Database(live), admitted, told, Images(backups, saver))
      /\ Database(live).gen \in 1..lastGen
  BY LiveDatabase
<1>2. Types'
  BY DEF RestoreInv, Types
<1>3. Past'
  BY <1>1 DEF RestoreInv, Past, RowsAreAll
<1>4. LiveOK'
  <2>1. RowsAreAll(Database(live), admitted, told, Images(backups', saver'))
    BY <1>1 DEF RowsAreAll, Before
  <2> QED
    BY <2>1 DEF RestoreInv, LiveOK
<1>5. PreparedOK' /\ PreparesOK' /\ InstallsOK' /\ Leases'
  BY DEF RestoreInv, PreparedOK, PreparesOK, InstallsOK, Leases
<1>6. journal'.same => journal'.txn # 0 /\ EvidenceIsComplete'
  BY DEF RestoreInv, EvidenceIsComplete
<1> QED
  BY <1>2, <1>3, <1>4, <1>5, <1>6 DEF RestoreInv

(* The image is the database of one moment.                                *)
LEMMA SnapshotKeepsAll == ASSUME RestoreInv, SnapshotDatabase PROVE RestoreInv'
<1>1. /\ UNCHANGED <<live, vault, hub, lastGen, secrets, backups, journal, area, restorer, admitted, told>>
      /\ saver' = [pc |-> "collect", image |-> Database(live), names |-> {}]
      /\ restorer.pc = "idle" /\ journal.state # "prepared" /\ Readable(live)
  BY DEF SnapshotDatabase, BackupAllowed, SharedLease, RequireRecoveryReady
<1>2. Database(live) \in Content
  BY <1>1, LiveDatabase
<1>3. SaverType(saver') /\ BackupsType(backups')
  BY <1>1, <1>2 DEF RestoreInv, Types, SaverType
<1>4. saver'.image = Database(live)
  BY <1>1
<1>5. Images(backups', saver') \subseteq Images(backups, saver) \cup {Database(live)}
  BY <1>1, <1>4 DEF Images
<1> QED
  BY <1>1, <1>3, <1>5, BackupsKeepAll

(* What is published is the image.                                         *)
LEMMA CollectAndPublishKeepAll ==
    ASSUME RestoreInv, CollectFiles \/ PublishBackup PROVE RestoreInv'
<1>1. UNCHANGED <<live, vault, hub, lastGen, secrets, journal, area, restorer, admitted, told>>
      /\ saver.pc # "idle"
  BY DEF CollectFiles, PublishBackup
<1>2. restorer.pc = "idle" /\ journal.state # "prepared" /\ Readable(live)
  BY <1>1 DEF RestoreInv, Leases
<1>3. BackupsType(backups) /\ SaverType(saver)
  BY DEF RestoreInv, Types
<1>4. saver.image \in Content /\ saver.names \in SUBSET Nat /\ saver.image.secret \in Nat
      /\ saver.image.gen \in Nat
  BY <1>3 DEF SaverType, Content
<1>5. CASE CollectFiles
  <2>1. saver' = [saver EXCEPT !.pc = "publish", !.names = {saver.image.secret}] /\ backups' = backups
    BY <1>5 DEF CollectFiles, SecretsOf
  <2>2. SaverType(saver') /\ saver'.image = saver.image
    BY <1>3, <1>4, <2>1 DEF SaverType
  <2>3. Images(backups', saver') \subseteq Images(backups, saver)
    BY <1>1, <2>1, <2>2 DEF Images
  <2> QED
    BY <1>1, <1>2, <1>3, <2>1, <2>2, <2>3, BackupsKeepAll
<1>6. CASE PublishBackup
  <2>1. PICK b : b = [image |-> saver.image, names |-> saver.names, keys |-> saver.image.gen]
    OBVIOUS
  <2>2. backups' = Append(backups, b) /\ saver' = NoSaver
    BY <1>6, <2>1 DEF PublishBackup
  <2>3. b \in [image : Content, names : SUBSET Nat, keys : Nat] /\ b.image = saver.image
    BY <1>4, <2>1
  <2>4. /\ BackupsType(backups') /\ DOMAIN backups' = 1..(Len(backups) + 1) /\ Len(backups) \in Nat
        /\ DOMAIN backups = 1..Len(backups)
        /\ backups'[Len(backups) + 1] = b /\ \A k \in 1..Len(backups) : backups'[k] = backups[k]
    BY <1>3, <2>2, <2>3 DEF BackupsType
  <2>5. SaverType(saver') /\ saver'.pc = "idle"
    BY <2>2, Constructors DEF SaverType, NoSaver
  <2>6. ASSUME NEW k \in DOMAIN backups' PROVE backups'[k].image \in Images(backups, saver)
    <3>1. CASE k \in 1..Len(backups)
      BY <2>4, <3>1 DEF Images
    <3>2. CASE k = Len(backups) + 1
      BY <1>1, <2>3, <2>4, <3>2 DEF Images
    <3> QED
      BY <2>4, <3>1, <3>2
  <2>7. Images(backups', saver') \subseteq Images(backups, saver)
    BY <2>5, <2>6 DEF Images
  <2> QED
    BY <1>1, <1>2, <2>4, <2>5, <2>7, BackupsKeepAll
<1> QED
  BY <1>5, <1>6

-----------------------------------------------------------------------------
(* The restore.                                                            *)

(* It begins with a generation that nobody has used.                       *)
LEMMA BeginKeepsAll ==
    ASSUME RestoreInv, NEW b \in DOMAIN backups, BeginRestore(b) PROVE RestoreInv'
<1> DEFINE g == lastGen + 1
<1>1. /\ UNCHANGED <<live, vault, hub, secrets, backups, saver, journal, admitted, told>>
      /\ ~hub /\ saver.pc = "idle" /\ restorer.pc = "idle" /\ journal.state # "prepared"
      /\ lastGen' = g /\ lastGen < MaxGen
      /\ restorer' = [pc |-> "prepare", gen |-> g, backup |-> b, done |-> {}]
      /\ area' = [area EXCEPT ![g].saved = live]
  BY DEF BeginRestore, ExclusiveLease, RequireRecoveryReady
<1>2. lastGen \in Nat /\ lastGen \in Gens /\ g \in Gens /\ 1..lastGen \subseteq 1..g /\ 0..lastGen \subseteq 0..g
      /\ g \notin 0..lastGen /\ g \in 1..g
  BY <1>1, ConstantsAreNatural DEF RestoreInv, Types
<1>3. AreaType(area) /\ JournalType(journal, lastGen) /\ BackupsType(backups) /\ Past
  BY DEF RestoreInv, Types
<1>4. /\ AreaType(area') /\ area'[g].saved = live
      /\ \A h \in Gens \ {g} : area'[h] = area[h]
  BY <1>1, <1>2, <1>3 DEF AreaType
<1>5. JournalType(journal, g) /\ journal.txn \in 0..lastGen
  BY <1>2, <1>3 DEF JournalType
<1>6. b \in Nat
  BY <1>3 DEF BackupsType
<1>7. /\ restorer' \in [pc : {"idle", "prepare", "install", "vault"}, gen : 0..g, backup : Nat, done : SUBSET Files]
      /\ restorer'.pc = "prepare" /\ restorer'.gen = g /\ restorer'.backup = b
  BY <1>1, <1>2, <1>6
<1> HIDE DEF g
<1>8. Types'
  BY <1>1, <1>2, <1>4, <1>5, <1>7 DEF RestoreInv, Types, RestorerType
<1>9. Past'
  <2>1. ASSUME NEW x \in Nat, x <= lastGen PROVE x <= g
    BY <1>2, <2>1 DEF g
  <2>2. \A r \in admitted : r[1] \in Nat /\ r[1] <= lastGen
    BY <1>3, ConstantsAreNatural DEF Past, RestoreInv, Types
  <2>3. \A r \in admitted : r[1] <= lastGen'
    BY <1>1, <2>1, <2>2
  <2>4. \A x \in Images(backups, saver) : x.gen \in 1..g /\ x.rows \subseteq admitted
    BY <1>2, <1>3 DEF Past
  <2> QED
    BY <1>1, <1>3, <2>3, <2>4 DEF Past
<1>10. live["conf"].gen \in 1..lastGen
  BY <1>1 DEF RestoreInv, LiveOK
<1>11. LiveOK' /\ PreparedOK' /\ Leases' /\ InstallsOK'
  <2>1. LiveOK'
    BY <1>1, <1>2, <1>10 DEF RestoreInv, LiveOK
  <2>2. PreparedOK'
    BY <1>1 DEF PreparedOK
  <2> QED
    BY <1>1, <1>7, <2>1, <2>2 DEF Leases, InstallsOK
<1>12. Unused(g, admitted, Images(backups, saver))
  <2>1. \A r \in admitted : r[1] \in Nat
    BY ConstantsAreNatural DEF RestoreInv, Types
  <2> QED
    BY <1>2, <1>3, <2>1 DEF Past, Unused, g
<1>13. PreparesOK'
  BY <1>1, <1>2, <1>4, <1>5, <1>7, <1>10, <1>12 DEF PreparesOK
<1>14. journal'.same => journal'.txn # 0 /\ EvidenceIsComplete'
  <2> SUFFICES ASSUME journal.same PROVE journal.txn # 0 /\ EvidenceIsComplete'
    BY <1>1
  <2>1. journal.txn # 0 /\ EvidenceIsComplete
    BY DEF RestoreInv
  <2>2. area'[journal.txn] = area[journal.txn]
    BY <1>2, <1>4, <1>5, <2>1, ConstantsAreNatural DEF g
  <2> QED
    BY <1>1, <2>1, <2>2 DEF EvidenceIsComplete
<1> QED
  BY <1>8, <1>9, <1>11, <1>13, <1>14 DEF RestoreInv

(* The rows of an image of the live generation are the older ones.         *)
LEMMA EvidenceOfImage ==
    ASSUME RestoreInv, journal.state # "prepared", NEW i \in Images(backups, saver),
           SameGeneration(live, i)
    PROVE  LaterRows(live, i) = Database(live).rows \ i.rows
<1>1. Readable(live) /\ Database(live).gen = i.gen
  BY DEF SameGeneration
<1>2. PICK db : db = Database(live)
  OBVIOUS
<1>3. db \in Content /\ RowsAreAll(db, admitted, told, Images(backups, saver))
  BY <1>1, <1>2, LiveDatabase
<1>4. db.rows \in SUBSET Row /\ Before(i.rows, db.rows)
  BY <1>1, <1>2, <1>3 DEF Content, RowsAreAll
<1>5. {r \in db.rows : r[2] > HighWater(i.rows)} = db.rows \ i.rows
  BY <1>4, LaterIsAbove
<1> QED
  BY <1>2, <1>5 DEF LaterRows

(* The files of the new generation are written, and the journal with the   *)
(* evidence of what will be lost.                                          *)
LEMMA PrepareKeepsAll == ASSUME RestoreInv, PrepareRestore PROVE RestoreInv'
<1> DEFINE g == restorer.gen
           i == backups[restorer.backup].image
<1>1. /\ UNCHANGED <<live, vault, hub, lastGen, secrets, backups, saver, admitted, told>>
      /\ restorer.pc = "prepare" /\ restorer' = [restorer EXCEPT !.pc = "install"]
      /\ journal' = [txn |-> g, state |-> "prepared", same |-> SameGeneration(live, i), later |-> LaterRows(live, i)]
  BY DEF PrepareRestore, Unpacked
<1> DEFINE v == [gen |-> g, names |-> backups[restorer.backup].names]
<1>2. PICK db \in Restored(i, g) :
        area' = [area EXCEPT ![g].files = [Nothing EXCEPT !["db"] = db, !["conf"] = Conf(g)], ![g].vault = v]
  BY DEF PrepareRestore, Unpacked
<1>3. /\ journal.state # "prepared" /\ g \in 1..lastGen /\ g # journal.txn /\ g # live["conf"].gen
      /\ restorer.backup \in DOMAIN backups /\ Unused(g, admitted, Images(backups, saver))
      /\ Readable(live) => area[g].saved = live
      /\ restorer.done = {}
  BY <1>1 DEF RestoreInv, PreparesOK
<1>4. /\ lastGen \in Gens /\ 1..lastGen \subseteq Gens /\ g \in Nat /\ g \in Gens /\ g # 0 /\ g \in 0..lastGen
      /\ AreaType(area) /\ BackupsType(backups) /\ RestorerType(restorer, lastGen)
      /\ live \in [Files -> Content]
  BY <1>3, ConstantsAreNatural DEF RestoreInv, Types
<1>5. /\ i \in Images(backups, saver) /\ i \in Content /\ i.rows \subseteq admitted
      /\ VaultType(v)
  <2>1. i \in Images(backups, saver)
    BY <1>3 DEF Images
  <2>2. backups[restorer.backup] \in [image : Content, names : SUBSET Nat, keys : Nat]
    <3> DEFINE S == [image : Content, names : SUBSET Nat, keys : Nat]
    <3>1. backups \in Seq(S)
      BY <1>4 DEF BackupsType
    <3> HIDE DEF S
    <3>2. \A k \in DOMAIN backups : backups[k] \in S
      BY <3>1
    <3>3. restorer.backup \in DOMAIN backups
      BY <1>3
    <3> QED
      BY <3>2, <3>3, Zenon DEF S
  <2>3. VaultType(v)
    BY <2>2 DEF VaultType
  <2> QED
    BY <2>1, <2>2, <2>3 DEF RestoreInv, Past
<1>6. /\ db \in Content /\ IsDatabase(db, g) /\ db.due = {} /\ db.rows = i.rows
  <2>1. db = [i EXCEPT !.gen = g, !.state = "bootstrap", !.creds = {}, !.due = {}]
    BY <1>2 DEF Restored, ResetTrust
  <2> HIDE DEF i, g
  <2>2. /\ db \in Content /\ db.gen = g /\ db.state = "bootstrap" /\ db.creds = {}
        /\ db.due = {} /\ db.rows = i.rows
    BY <1>4, <1>5, <2>1 DEF Content
  <2> QED
    BY <2>2 DEF IsDatabase
<1> HIDE DEF v
<1> DEFINE files == [Nothing EXCEPT !["db"] = db, !["conf"] = Conf(g)]
<1>7. /\ files \in [Files -> Content] /\ files["db"] = db /\ files["wal"] = Absent /\ files["conf"].gen = g
  BY <1>4, <1>6, Constructors DEF Nothing, Files
<1> HIDE DEF files
<1>8. /\ AreaType(area') /\ area'[g].files = files /\ area'[g].saved = area[g].saved
      /\ \A h \in Gens \ {g} : area'[h] = area[h]
  <2>1. area' = [area EXCEPT ![g].files = files, ![g].vault = v]
    BY <1>2 DEF files
  <2> HIDE DEF g
  <2>2. area' = [area EXCEPT ![g] = [[area[g] EXCEPT !.files = files] EXCEPT !.vault = v]]
    BY <1>4, <2>1 DEF AreaType
  <2> DEFINE e == [[area[g] EXCEPT !.files = files] EXCEPT !.vault = v]
  <2>3. /\ DOMAIN e = {"files", "vault", "saved", "savedVault"} /\ e.files = files
        /\ e.saved = area[g].saved /\ e.vault = v
    BY <1>4 DEF AreaType
  <2> HIDE DEF e
  <2>4. DOMAIN area' = Gens /\ area'[g] = e /\ \A h \in Gens \ {g} : area'[h] = area[h]
    BY <1>4, <2>2 DEF AreaType, e
  <2> QED
    BY <1>4, <1>5, <1>7, <2>3, <2>4 DEF AreaType
<1>9. LaterRows(live, i) \in SUBSET Row /\ SameGeneration(live, i) \in BOOLEAN
  <2>1. Database(live).rows \in SUBSET Row
    <3>1. Database(live) \in Content
      BY <1>4 DEF Database, Files
    <3> QED
      BY <3>1 DEF Content
  <2> QED
    BY <2>1 DEF LaterRows, SameGeneration
<1> HIDE DEF g, i
<1>10. /\ JournalType(journal', lastGen) /\ journal'.state = "prepared" /\ journal'.txn = g
       /\ journal'.same = SameGeneration(live, i) /\ journal'.later = LaterRows(live, i)
  BY <1>1, <1>4, <1>9 DEF JournalType
<1>11. /\ RestorerType(restorer', lastGen) /\ restorer'.pc = "install" /\ restorer'.gen = g
       /\ restorer'.done = restorer.done
  BY <1>1, <1>4 DEF RestorerType, g
<1>12. Types' /\ Past'
  BY <1>1, <1>8, <1>10, <1>11 DEF RestoreInv, Types, Past
<1>13. LiveOK' /\ PreparesOK'
  BY <1>10, <1>11 DEF LiveOK, PreparesOK
<1>14. PreparedOK'
  <2>1. IsPrepared(files, g) /\ files["db"].rows \subseteq admitted
    BY <1>5, <1>6, <1>7 DEF IsPrepared
  <2> QED
    BY <1>1, <1>3, <1>8, <1>10, <2>1 DEF PreparedOK
<1>15. Leases'
  BY <1>1 DEF RestoreInv, Leases
<1>16. InstallsOK'
  BY <1>3, <1>10, <1>11 DEF InstallsOK
<1>17. journal'.same => journal'.txn # 0 /\ EvidenceIsComplete'
  <2> SUFFICES ASSUME SameGeneration(live, i) PROVE EvidenceIsComplete'
    BY <1>4, <1>10
  <2>1. area[g].saved = live
    BY <1>3 DEF SameGeneration, g
  <2>2. LaterRows(live, i) = Database(live).rows \ i.rows
    BY <1>3, <1>5, EvidenceOfImage
  <2> QED
    BY <1>6, <1>7, <1>8, <1>10, <2>1, <2>2 DEF EvidenceIsComplete
<1> QED
  BY <1>12, <1>13, <1>14, <1>15, <1>16, <1>17 DEF RestoreInv

(* While the journal is prepared nobody looks at the live files.           *)
LEMMA PreparedKeepsAll ==
    ASSUME RestoreInv, journal.state = "prepared",
           UNCHANGED <<hub, lastGen, secrets, backups, saver, journal, admitted, told>>,
           live' \in [Files -> Content], VaultType(vault'), AreaType(area'),
           \A h \in Gens : area'[h].files = area[h].files /\ area'[h].saved = area[h].saved,
           RestorerType(restorer', lastGen), restorer'.pc # "prepare", InstallsOK'
    PROVE  RestoreInv'
<1>1. lastGen \in Gens /\ 1..lastGen \subseteq Gens /\ journal.txn \in 1..lastGen
  BY ConstantsAreNatural DEF RestoreInv, Types, PreparedOK
<1>2. /\ area'[journal.txn].files = area[journal.txn].files
      /\ area'[journal.txn].saved = area[journal.txn].saved
  BY <1>1
<1>3. Types' /\ Past'
  BY DEF RestoreInv, Types, Past
<1>4. LiveOK' /\ PreparesOK'
  BY DEF LiveOK, PreparesOK
<1>5. PreparedOK'
  BY <1>2 DEF RestoreInv, PreparedOK
<1>6. Leases'
  BY DEF RestoreInv, Leases
<1>7. journal'.same => journal'.txn # 0 /\ EvidenceIsComplete'
  BY <1>2 DEF RestoreInv, EvidenceIsComplete
<1> QED
  BY <1>3, <1>4, <1>5, <1>6, <1>7 DEF RestoreInv

(* A file is replaced by the prepared one, or the restore stops.           *)
LEMMA InstallKeepsAll ==
    ASSUME RestoreInv, NEW file \in Files, InstallFile(file) PROVE RestoreInv'
<1> DEFINE g == restorer.gen
           to == Replacement(file, live[file], area[g].saved[file], area[g].files[file])
<1>1. /\ restorer.pc = "install" /\ file \in Files \ restorer.done
      /\ UNCHANGED <<vault, hub, lastGen, secrets, backups, saver, journal, area, admitted, told>>
      /\ IF to = {} THEN restorer' = Idle /\ UNCHANGED live
         ELSE /\ live' = [live EXCEPT ![file] = CHOOSE c \in to : TRUE]
              /\ restorer' = [restorer EXCEPT !.done = @ \cup {file},
                                 !.pc = IF restorer.done \cup {file} = Files THEN "vault" ELSE "install"]
  BY DEF InstallFile
<1>2. /\ journal.state = "prepared" /\ g = journal.txn /\ g \in 1..lastGen
      /\ \A f \in restorer.done : \/ live[f] = area[g].files[f]
                                  \/ f = "db" /\ live[f] = Absent
  BY <1>1 DEF RestoreInv, InstallsOK, PreparedOK
<1>3. /\ lastGen \in Gens /\ g \in Gens /\ live \in [Files -> Content] /\ VaultType(vault) /\ AreaType(area)
      /\ RestorerType(restorer, lastGen) /\ area[g].files \in [Files -> Content]
  BY <1>2, ConstantsAreNatural DEF RestoreInv, Types, AreaType
<1>4. to = {} \/ to = {area[g].files[file]}
  BY DEF Replacement
<1> HIDE DEF to
<1>5. CASE to = {}
  <2>1. restorer' = Idle /\ live' = live
    BY <1>1, <1>5
  <2>2. RestorerType(restorer', lastGen) /\ restorer'.pc = "idle"
    BY <1>3, <2>1, ConstantsAreNatural DEF Idle, RestorerType
  <2>3. InstallsOK'
    BY <2>2 DEF InstallsOK
  <2> QED
    BY <1>1, <1>2, <1>3, <2>1, <2>2, <2>3, PreparedKeepsAll
<1>6. CASE to = {area[g].files[file]}
  <2>1. (CHOOSE c \in to : TRUE) = area[g].files[file] /\ to # {}
    BY <1>6, OneChoice
  <2>2. PICK pc \in {"install", "vault"} :
          /\ restorer' = [restorer EXCEPT !.done = @ \cup {file}, !.pc = pc]
          /\ pc = "vault" => restorer.done \cup {file} = Files
    BY <1>1, <2>1
  <2>3. live' = [live EXCEPT ![file] = area[g].files[file]]
    BY <1>1, <2>1
  <2>4. /\ live' \in [Files -> Content] /\ live'[file] = area[g].files[file]
        /\ \A f \in Files \ {file} : live'[f] = live[f]
    BY <1>3, <2>3
  <2>5. /\ RestorerType(restorer', lastGen) /\ restorer'.pc = pc /\ restorer'.gen = g
        /\ restorer'.done = restorer.done \cup {file} /\ restorer.done \in SUBSET Files
    BY <1>3, <2>2 DEF RestorerType
  <2>6. InstallsOK'
    <3>1. ASSUME NEW f \in restorer'.done
          PROVE  live'[f] = area[g].files[f] \/ (f = "db" /\ live'[f] = Absent)
      BY <1>2, <2>4, <2>5
    <3> HIDE DEF g
    <3> QED
      BY <1>1, <1>2, <2>2, <2>5, <3>1 DEF InstallsOK
  <2> QED
    BY <1>1, <1>2, <1>3, <2>2, <2>4, <2>5, <2>6, PreparedKeepsAll
<1> QED
  BY <1>4, <1>5, <1>6

(* The two directories change places.                                      *)
LEMMA VaultKeepsAll ==
    ASSUME RestoreInv, MoveVaultAway \/ MoveVaultIn PROVE RestoreInv'
<1> DEFINE g == restorer.gen
<1>1. /\ restorer.pc = "vault"
      /\ UNCHANGED <<live, hub, lastGen, secrets, backups, saver, journal, restorer, admitted, told>>
      /\ \/ vault' = NoVault /\ area' = [area EXCEPT ![g].savedVault = vault]
         \/ vault' = area[g].vault /\ area' = [area EXCEPT ![g].vault = NoVault]
  BY DEF MoveVaultAway, MoveVaultIn
<1>2. journal.state = "prepared" /\ g = journal.txn /\ g \in 1..lastGen
  BY <1>1 DEF RestoreInv, InstallsOK, PreparedOK
<1>3. /\ lastGen \in Gens /\ g \in Gens /\ live \in [Files -> Content] /\ AreaType(area)
      /\ RestorerType(restorer, lastGen) /\ VaultType(area[g].vault)
  <2>1. /\ lastGen \in Gens /\ g \in Gens /\ live \in [Files -> Content] /\ AreaType(area)
        /\ RestorerType(restorer, lastGen)
    BY <1>2, ConstantsAreNatural DEF RestoreInv, Types
  <2> QED
    BY <2>1 DEF AreaType
<1>4. VaultType(NoVault)
  BY DEF VaultType, NoVault
<1> HIDE DEF g
<1>5. /\ VaultType(vault') /\ AreaType(area')
      /\ \A h \in Gens : area'[h].files = area[h].files /\ area'[h].saved = area[h].saved
  <2>1. CASE vault' = NoVault /\ area' = [area EXCEPT ![g].savedVault = vault]
    BY <1>3, <1>4, <2>1 DEF AreaType
  <2>2. CASE vault' = area[g].vault /\ area' = [area EXCEPT ![g].vault = NoVault]
    <3>1. /\ DOMAIN area' = Gens /\ \A h \in Gens \ {g} : area'[h] = area[h]
          /\ area'[g] = [area[g] EXCEPT !.vault = NoVault]
      BY <1>3, <2>2 DEF AreaType
    <3>2. /\ DOMAIN area'[g] = {"files", "vault", "saved", "savedVault"}
          /\ area'[g].files = area[g].files /\ area'[g].saved = area[g].saved
          /\ area'[g].vault = NoVault
      BY <1>3, <3>1 DEF AreaType
    <3>3. AreaType(area')
      BY <1>3, <1>4, <3>1, <3>2 DEF AreaType
    <3> QED
      BY <1>3, <2>2, <3>1, <3>2, <3>3
  <2> QED
    BY <1>1, <2>1, <2>2
<1>6. InstallsOK'
  <2>1. area'[journal.txn].files = area[journal.txn].files
    BY <1>2, <1>3, <1>5
  <2> QED
    BY <1>1, <2>1 DEF RestoreInv, InstallsOK
<1> QED
  BY <1>1, <1>2, <1>3, <1>5, <1>6, PreparedKeepsAll

(* Everything prepared is in place: the journal says so.                   *)
LEMMA CommitRestoreKeepsAll == ASSUME RestoreInv, CommitRestore PROVE RestoreInv'
<1>1. /\ UNCHANGED <<live, vault, hub, lastGen, secrets, backups, saver, area, admitted, told>>
      /\ restorer.pc = "vault" /\ journal' = [journal EXCEPT !.state = "committed"] /\ restorer' = Idle
      /\ VaultInstalled(restorer.gen)
  BY DEF CommitRestore
<1>2. PICK g : g = journal.txn
  OBVIOUS
<1>3. PICK files : files = area[g].files
  OBVIOUS
<1>4. /\ journal.state = "prepared" /\ restorer.gen = g /\ restorer.done = Files /\ g \in 1..lastGen
      /\ \A f \in Files : live[f] = files[f] \/ (f = "db" /\ live[f] = Absent)
      /\ Unused(g, admitted, Images(backups, saver)) /\ IsPrepared(files, g)
      /\ files["db"].rows \subseteq admitted
  BY <1>1, <1>2, <1>3 DEF RestoreInv, InstallsOK, PreparedOK
<1>5. lastGen \in Gens /\ JournalType(journal, lastGen)
  BY DEF RestoreInv, Types
<1>6. /\ JournalType(journal', lastGen) /\ journal'.txn = journal.txn /\ journal'.state = "committed"
      /\ journal'.same = journal.same /\ journal'.later = journal.later
  BY <1>1, <1>5 DEF JournalType
<1>7. RestorerType(restorer', lastGen) /\ restorer'.pc = "idle"
  BY <1>1, <1>5, ConstantsAreNatural DEF RestorerType, Idle
<1>8. Types' /\ Past'
  BY <1>1, <1>6, <1>7 DEF RestoreInv, Types, Past
<1>9. /\ live["conf"].gen = g /\ live["wal"] = Absent
      /\ live["db"] = files["db"] \/ live["db"] = Absent
  BY <1>4 DEF IsPrepared, Files
<1>10. vault.gen = g /\ files["db"].secret \in vault.names
  BY <1>1, <1>3, <1>4 DEF VaultInstalled, IsPrepared, Database
<1>11. OneGeneration(live, vault, g)
  BY <1>4, <1>9, <1>10 DEF OneGeneration, IsPrepared, Database, Readable
<1>12. Readable(live) => RowsAreAll(Database(live), admitted, told, Images(backups, saver))
  <2> SUFFICES ASSUME Readable(live)
               PROVE  RowsAreAll(files["db"], admitted, told, Images(backups, saver))
    BY <1>9 DEF Database, Readable
  <2>1. files["db"].gen = g /\ files["db"].due = {}
    BY <1>4 DEF IsPrepared, IsDatabase
  <2> QED
    BY <1>4, <2>1 DEF RowsAreAll, Unused
<1>13. LiveOK'
  BY <1>1, <1>4, <1>9, <1>11, <1>12 DEF LiveOK
<1>14. PreparedOK' /\ PreparesOK' /\ InstallsOK'
  BY <1>6, <1>7 DEF PreparedOK, PreparesOK, InstallsOK
<1>15. Leases'
  BY <1>1, <1>4 DEF RestoreInv, Leases
<1>16. journal'.same => journal'.txn # 0 /\ EvidenceIsComplete'
  BY <1>1, <1>6 DEF RestoreInv, EvidenceIsComplete
<1> QED
  BY <1>8, <1>13, <1>14, <1>15, <1>16 DEF RestoreInv

(* An interrupted restore is resumed, or forgotten.                        *)
LEMMA ResumeKeepsAll == ASSUME RestoreInv, ResumeRestore PROVE RestoreInv'
<1>1. /\ UNCHANGED <<live, vault, hub, lastGen, secrets, backups, saver, journal, area, admitted, told>>
      /\ journal.state = "prepared"
      /\ restorer' = [Idle EXCEPT !.pc = "install", !.gen = journal.txn]
  BY DEF ResumeRestore
<1>2. /\ lastGen \in Gens /\ journal.txn \in 0..lastGen /\ live \in [Files -> Content]
      /\ VaultType(vault) /\ AreaType(area)
  BY DEF RestoreInv, Types, JournalType
<1>3. /\ RestorerType(restorer', lastGen) /\ restorer'.pc = "install" /\ restorer'.gen = journal.txn
      /\ restorer'.done = {}
  BY <1>1, <1>2 DEF Idle, RestorerType
<1>4. InstallsOK'
  BY <1>1, <1>3 DEF InstallsOK
<1> QED
  BY <1>1, <1>2, <1>3, <1>4, PreparedKeepsAll

(* An interruption leaves everything where it is.                          *)
LEMMA InterruptKeepsAll == ASSUME RestoreInv, InterruptRestore PROVE RestoreInv'
<1>1. /\ UNCHANGED <<live, vault, hub, lastGen, secrets, backups, saver, journal, area, admitted, told>>
      /\ restorer' = Idle
  BY DEF InterruptRestore
<1>2. RestorerType(restorer', lastGen) /\ restorer'.pc = "idle"
  BY <1>1, ConstantsAreNatural DEF RestoreInv, Types, RestorerType, Idle
<1>3. Types' /\ Past'
  BY <1>1, <1>2 DEF RestoreInv, Types, Past
<1>4. LiveOK' /\ PreparedOK' /\ PreparesOK' /\ InstallsOK' /\ Leases'
  BY <1>1, <1>2 DEF RestoreInv, LiveOK, PreparedOK, PreparesOK, InstallsOK, Leases
<1>5. journal'.same => journal'.txn # 0 /\ EvidenceIsComplete'
  BY <1>1 DEF RestoreInv, EvidenceIsComplete
<1> QED
  BY <1>3, <1>4, <1>5 DEF RestoreInv

(* At first there is one generation, nothing admitted and no backup.       *)
LEMMA RestoreInitially == RestoreInit => RestoreInv
<1> SUFFICES ASSUME RestoreInit PROVE RestoreInv
  OBVIOUS
<1> DEFINE first == [Absent EXCEPT !.gen = 1, !.state = "normal", !.creds = {1}, !.secret = 1]
<1>1. /\ live = [Nothing EXCEPT !["db"] = first, !["conf"] = Conf(1)]
      /\ vault = [gen |-> 1, names |-> {1}] /\ hub = FALSE /\ lastGen = 1 /\ secrets = 1
      /\ backups = <<>> /\ saver = NoSaver /\ journal = NoJournal
      /\ area = [g \in Gens |-> EmptyArea] /\ restorer = Idle
      /\ admitted = {} /\ told = [r \in Row |-> 0]
  BY DEF RestoreInit
<1>2. /\ first \in Content /\ first.gen = 1 /\ first.state = "normal" /\ first.creds = {1}
      /\ first.secret = 1 /\ first.rows = {} /\ first.due = {}
  BY ConstantsAreNatural DEF Absent, Content
<1> HIDE DEF first
<1>3. Nothing \in [Files -> Content] /\ \A f \in Files : Nothing[f] = Absent
  BY Constructors DEF Nothing
<1>4. /\ live \in [Files -> Content] /\ live["db"] = first /\ live["wal"] = Absent
      /\ live["conf"].gen = 1
  BY <1>1, <1>2, <1>3, Constructors DEF Files
<1>5. first # Absent /\ Readable(live) /\ Database(live) = first
  BY <1>2, <1>4, Constructors DEF Readable, Database
<1>6. /\ SaverType(saver) /\ saver.pc = "idle" /\ VaultType(vault) /\ vault.gen = 1 /\ vault.names = {1}
      /\ BackupsType(backups) /\ DOMAIN backups = {}
  BY <1>1, Constructors DEF SaverType, NoSaver, VaultType, BackupsType
<1>7. JournalType(journal, lastGen) /\ journal.state = "none" /\ journal.same = FALSE
  BY <1>1 DEF JournalType, NoJournal
<1>8. RestorerType(restorer, lastGen) /\ restorer.pc = "idle"
  BY <1>1 DEF RestorerType, Idle
<1>9. AreaType(area)
  BY <1>1, <1>3 DEF AreaType, EmptyArea, NoVault, VaultType
<1>10. Images(backups, saver) = {}
  BY <1>6 DEF Images
<1>11. Types
  BY <1>1, <1>4, <1>6, <1>7, <1>8, <1>9, ConstantsAreNatural DEF Types
<1>12. Past
  BY <1>1, <1>10 DEF Past
<1>13. OneGeneration(live, vault, 1)
  BY <1>2, <1>4, <1>5, <1>6 DEF OneGeneration, IsDatabase
<1>14. RowsAreAll(first, admitted, told, Images(backups, saver))
  BY <1>1, <1>2, <1>10 DEF RowsAreAll
<1>15. LiveOK
  BY <1>1, <1>4, <1>5, <1>13, <1>14 DEF LiveOK
<1>16. PreparedOK /\ Leases /\ PreparesOK /\ InstallsOK
  BY <1>1, <1>6, <1>7, <1>8 DEF PreparedOK, Leases, PreparesOK, InstallsOK
<1> QED
  BY <1>7, <1>11, <1>12, <1>15, <1>16 DEF RestoreInv

(* Every step keeps it.                                                    *)
LEMMA RestoreStepKeepsAll == RestoreInv /\ [RestoreNext]_restoreVars => RestoreInv'
<1> SUFFICES ASSUME RestoreInv, [RestoreNext]_restoreVars PROVE RestoreInv'
  OBVIOUS
<1>1. CASE StartHub \/ StopHub \/ Wreck
  BY <1>1, StartKeepsAll, StopKeepsAll, WreckKeepsAll
<1>2. CASE Bootstrap \/ Enroll \/ Admit \/ Notify \/ RotateSecret
  BY <1>2, BootstrapAndEnrollKeepAll, AdmitKeepsAll, NotifyKeepsAll, RotateKeepsAll
<1>3. CASE SnapshotDatabase \/ CollectFiles \/ PublishBackup
  BY <1>3, SnapshotKeepsAll, CollectAndPublishKeepAll
<1>4. CASE \E b \in DOMAIN backups : BeginRestore(b)
  BY <1>4, BeginKeepsAll
<1>5. CASE RestoreStep
  BY <1>5, PrepareKeepsAll, InstallKeepsAll, VaultKeepsAll, CommitRestoreKeepsAll, ResumeKeepsAll
     DEF RestoreStep
<1>6. CASE InterruptRestore
  BY <1>6, InterruptKeepsAll
<1>7. CASE UNCHANGED restoreVars
  <2>1. Types' /\ Past'
    BY <1>7 DEF RestoreInv, Types, Past, restoreVars
  <2>2. LiveOK' /\ PreparedOK' /\ PreparesOK' /\ InstallsOK' /\ Leases'
    BY <1>7 DEF RestoreInv, LiveOK, PreparedOK, PreparesOK, InstallsOK, Leases, restoreVars
  <2>3. journal'.same => journal'.txn # 0 /\ EvidenceIsComplete'
    BY <1>7 DEF RestoreInv, EvidenceIsComplete, restoreVars
  <2> QED
    BY <2>1, <2>2, <2>3 DEF RestoreInv
<1> QED
  BY <1>1, <1>2, <1>3, <1>4, <1>5, <1>6, <1>7 DEF RestoreNext

(* It always holds.                                                        *)
LEMMA RestoreInvariant == RestoreSpec => []RestoreInv
<1> QED
  BY RestoreInitially, RestoreStepKeepsAll, PTL DEF RestoreSpec

(* A hub that runs reads the files, the -wal and the secrets of one        *)
(* generation and trusts only credentials of that one, and nobody is told  *)
(* of a row twice: installation lease, recovery journal, trust reset.      *)
THEOREM HubIsAlwaysOfOneGeneration == RestoreSpec => []HubIsOfOneGeneration
<1>1. RestoreInv => HubIsOfOneGeneration
  <2> SUFFICES ASSUME RestoreInv PROVE HubIsOfOneGeneration
    OBVIOUS
  <2>1. \A r \in Row : told[r] <= 1
    BY DEF RestoreInv, Past
  <2>2. CASE hub
    <3>1. Readable(live) /\ journal.state # "prepared"
      BY <2>2 DEF RestoreInv, Leases
    <3>2. /\ IsDatabase(Database(live), live["conf"].gen) /\ Database(live).gen = live["conf"].gen
          /\ vault.gen = live["conf"].gen /\ Database(live).secret \in vault.names
          /\ live["db"].gen = live["conf"].gen
      BY <3>1, LiveDatabase
    <3>3. Database(live).creds \subseteq {Database(live).gen}
      BY <3>2 DEF IsDatabase
    <3> QED
      BY <2>1, <3>2, <3>3 DEF HubIsOfOneGeneration, NoMixedInstallation, OldTrustStaysDead
  <2>3. CASE ~hub
    BY <2>1, <2>3 DEF HubIsOfOneGeneration, NoMixedInstallation, OldTrustStaysDead
  <2> QED
    BY <2>2, <2>3
<1> QED
  BY <1>1, RestoreInvariant, PTL

(* What a restore reports as lost is exactly what the copied database had  *)
(* and the restored one has not, whenever it compares the two.             *)
THEOREM EvidenceIsAlwaysComplete == RestoreSpec => []EvidenceIsComplete
<1>1. RestoreInv => EvidenceIsComplete
  BY DEF RestoreInv, EvidenceIsComplete
<1> QED
  BY <1>1, RestoreInvariant, PTL

-----------------------------------------------------------------------------
(* The refinement of Installation.                                         *)

(* What is seen of the files by whoever opens them.                        *)
GenOf(files)  == IF Readable(files) THEN Database(files).gen ELSE 0
RowsOf(files) == IF Readable(files) THEN Database(files).rows ELSE {}

(* What looks the same to whoever opens the installation is a stutter.     *)
LEMMA LooksTheSame ==
    ASSUME GenOf(Installed)' = GenOf(Installed), RowsOf(Installed)' = RowsOf(Installed),
           UNCHANGED <<hub, admitted>>
    PROVE  UNCHANGED Promise!avars
BY DEF Promise!avars, GenOf, RowsOf

(* A running hub works on the live files and leaves a readable database.   *)
LEMMA CommitShows ==
    ASSUME RestoreInv, hub, NEW db, db.state # "none", journal' = journal, Commit(db)
    PROVE  /\ GenOf(Installed) = Database(live).gen /\ RowsOf(Installed) = Database(live).rows
           /\ GenOf(Installed)' = db.gen /\ RowsOf(Installed)' = db.rows
<1>1. Readable(live) /\ journal.state # "prepared" /\ live \in [Files -> Content]
  BY DEF RestoreInv, Leases, Types
<1>2. Database(live) # Absent /\ db # Absent
  BY <1>1, LiveDatabase, Constructors
<1>3. live'["db"] = Database(live) /\ live'["wal"] = db
  BY <1>1 DEF Commit, Files
<1>4. Readable(live') /\ Database(live') = db
  BY <1>2, <1>3 DEF Readable, Database
<1>5. Installed = live /\ Installed' = live'
  BY <1>1 DEF Installed
<1>6. GenOf(Installed) = Database(live).gen /\ RowsOf(Installed) = Database(live).rows
  BY <1>1, <1>5 DEF GenOf, RowsOf
<1>7. GenOf(live') = db.gen /\ RowsOf(live') = db.rows
  BY <1>4 DEF GenOf, RowsOf
<1> QED
  BY <1>5, <1>6, <1>7

(* Prepared files are those of a database of their generation.             *)
LEMMA PreparedShows ==
    ASSUME NEW files, NEW g, IsPrepared(files, g)
    PROVE  GenOf(files) = g /\ RowsOf(files) = files["db"].rows
<1>1. files["wal"] = Absent /\ files["db"].state # "none" /\ files["db"].gen = g
  BY DEF IsPrepared, IsDatabase
<1>2. files["db"] # Absent
  BY <1>1, Constructors
<1> QED
  BY <1>1, <1>2 DEF GenOf, RowsOf, Readable, Database

(* The hub starts on a database, and ends leaving what it read.            *)
LEMMA StartImplements == ASSUME RestoreInv, StartHub PROVE Promise!Start
<1>1. /\ ~hub /\ hub' = TRUE /\ UNCHANGED <<live, area, journal, admitted>>
      /\ Readable(live) /\ journal.state # "prepared"
  BY DEF StartHub, RequireRecoveryReady
<1>2. Database(live).gen = live["conf"].gen /\ live["conf"].gen \in 1..lastGen /\ lastGen \in Gens
  BY <1>1, LiveDatabase DEF RestoreInv, Types
<1>3. Installed = live /\ Installed' = live /\ Database(live).gen # 0
  BY <1>1, <1>2, ConstantsAreNatural DEF Installed
<1> QED
  BY <1>1, <1>3 DEF Promise!Start

(* It ends, and what it leaves reads the same.                             *)
LEMMA StopImplements == ASSUME RestoreInv, StopHub PROVE Promise!Stop
<1>1. /\ hub /\ hub' = FALSE /\ UNCHANGED <<area, journal, admitted>>
      /\ live' = live \/ live' = [live EXCEPT !["db"] = Database(live), !["wal"] = Absent]
  BY DEF StopHub
<1>2. Readable(live) /\ journal.state # "prepared" /\ live \in [Files -> Content]
  BY <1>1 DEF RestoreInv, Leases, Types
<1>3. Database(live) # Absent
  BY <1>2, LiveDatabase
<1>4. Readable(live') /\ Database(live') = Database(live)
  <2>1. CASE live' = live
    BY <1>2, <2>1
  <2>2. CASE live' = [live EXCEPT !["db"] = Database(live), !["wal"] = Absent]
    <3>1. live'["db"] = Database(live) /\ live'["wal"] = Absent
      BY <1>2, <2>2 DEF Files
    <3> QED
      BY <1>3, <3>1 DEF Readable, Database
  <2> QED
    BY <1>1, <2>1, <2>2
<1>5. Installed = live /\ Installed' = live'
  BY <1>1, <1>2 DEF Installed
<1>6. Readable(Installed) /\ Readable(Installed') /\ Database(Installed') = Database(Installed)
  BY <1>2, <1>4, <1>5
<1>7. /\ (IF Readable(Installed) THEN Database(Installed).gen ELSE 0)'
         = (IF Readable(Installed) THEN Database(Installed).gen ELSE 0)
      /\ (IF Readable(Installed) THEN Database(Installed).rows ELSE {})'
         = (IF Readable(Installed) THEN Database(Installed).rows ELSE {})
  BY <1>6 DEF Readable, Database
<1> QED
  BY <1>1, <1>7 DEF Promise!Stop

(* What a running hub writes without admitting is nobody's business.       *)
LEMMA WritesImplement ==
    ASSUME RestoreInv, Bootstrap \/ Enroll \/ Notify \/ RotateSecret
    PROVE  UNCHANGED Promise!avars
<1>1. hub /\ UNCHANGED <<hub, journal, area, admitted>>
  BY DEF Bootstrap, Enroll, Notify, RotateSecret
<1>2. PICK old : old = Database(live)
  OBVIOUS
<1>3. Readable(live) /\ journal.state # "prepared"
  BY <1>1 DEF RestoreInv, Leases
<1>4. old \in Content /\ old.state # "none"
  BY <1>2, <1>3, LiveDatabase DEF IsDatabase
<1>5. PICK db : /\ Commit(db)
                /\ \/ db = [old EXCEPT !.state = "normal"]
                   \/ db = [old EXCEPT !.creds = @ \cup {old.gen}]
                   \/ \E row \in old.due : db = [old EXCEPT !.due = @ \ {row}]
                   \/ db = [old EXCEPT !.secret = secrets + 1]
  BY <1>2 DEF Bootstrap, Enroll, Notify, RotateSecret
<1>6. db.gen = old.gen /\ db.rows = old.rows /\ db.state # "none"
  BY <1>4, <1>5 DEF Content
<1>7. /\ GenOf(Installed)' = GenOf(Installed) /\ RowsOf(Installed)' = RowsOf(Installed)
  BY <1>1, <1>2, <1>5, <1>6, CommitShows
<1> QED
  BY <1>1, <1>7, LooksTheSame

(* An admitted row is new, and the database gains it and nothing else.     *)
LEMMA AdmitImplements == ASSUME RestoreInv, Admit PROVE Promise!Admit
<1>1. hub /\ UNCHANGED <<hub, journal, area>>
  BY DEF Admit
<1>2. PICK old : old = Database(live)
  OBVIOUS
<1>3. PICK row \in Row :
        /\ row = <<old.gen, HighWater(old.rows) + 1>> /\ admitted' = admitted \cup {row}
        /\ Commit([old EXCEPT !.rows = @ \cup {row}, !.due = @ \cup {row}])
  BY <1>2 DEF Admit
<1>4. PICK db : db = [old EXCEPT !.rows = @ \cup {row}, !.due = @ \cup {row}]
  OBVIOUS
<1>5. Readable(live) /\ journal.state # "prepared"
  BY <1>1 DEF RestoreInv, Leases
<1>6. old \in Content /\ old.state # "none"
  BY <1>2, <1>5, LiveDatabase DEF IsDatabase
<1>7. db.gen = old.gen /\ db.rows = old.rows \cup {row} /\ db.state # "none"
  BY <1>4, <1>6 DEF Content
<1>8. row \notin admitted /\ row[1] = old.gen
  BY <1>1, <1>2, <1>3, NewRowIsNew
<1>9. /\ GenOf(Installed) = old.gen /\ RowsOf(Installed) = old.rows
      /\ GenOf(Installed)' = old.gen /\ RowsOf(Installed)' = old.rows \cup {row}
  BY <1>1, <1>2, <1>3, <1>4, <1>7, CommitShows
<1> QED
  BY <1>1, <1>3, <1>8, <1>9 DEF Promise!Admit, GenOf, RowsOf

(* The disk fails: the installation is lost unless it has been prepared.   *)
LEMMA WreckImplements == ASSUME RestoreInv, Wreck PROVE [Promise!Lose]_(Promise!avars)
<1>1. ~hub /\ UNCHANGED <<hub, journal, area, admitted>> /\ live' = [live EXCEPT !["db"] = Absent]
  BY DEF Wreck
<1>2. CASE journal.state = "prepared"
  <2>1. Installed' = Installed
    BY <1>1, <1>2 DEF Installed
  <2> QED
    BY <1>1, <2>1, LooksTheSame DEF GenOf, RowsOf, Readable, Database
<1>3. CASE journal.state # "prepared"
  <2>1. Installed' = live'
    BY <1>1, <1>3 DEF Installed
  <2>2. live'["db"] = Absent
    BY <1>1 DEF RestoreInv, Types, Files
  <2>3. ~Readable(Installed')
    BY <2>1, <2>2 DEF Readable
  <2> QED
    BY <1>1, <2>3 DEF Promise!Lose, Readable
<1> QED
  BY <1>2, <1>3

(* With the journal the restore has happened.                              *)
LEMMA PrepareImplements == ASSUME RestoreInv, PrepareRestore PROVE Promise!Replace
<1>1. /\ restorer.pc = "prepare" /\ UNCHANGED <<hub, live, admitted>>
      /\ journal'.state = "prepared" /\ journal'.txn = restorer.gen
  BY DEF PrepareRestore
<1>2. /\ journal.state # "prepared" /\ restorer.gen \in 1..lastGen /\ restorer.gen # live["conf"].gen
      /\ ~hub
  BY <1>1 DEF RestoreInv, PreparesOK, Leases
<1>3. 1..lastGen \subseteq Gens /\ 0 \notin 1..lastGen
  BY ConstantsAreNatural DEF RestoreInv, Types
<1>4. PICK g : g = restorer.gen
  OBVIOUS
<1>5. /\ Installed = live /\ Installed' = area'[g].files
  BY <1>1, <1>2, <1>4 DEF Installed
<1>6. GenOf(Installed) # g
  <2>1. CASE Readable(live)
    BY <1>2, <1>4, <1>5, <2>1, LiveDatabase DEF GenOf
  <2>2. CASE ~Readable(live)
    BY <1>2, <1>3, <1>4, <1>5, <2>2 DEF GenOf
  <2> QED
    BY <2>1, <2>2
<1>7. IsPrepared(area'[g].files, g) /\ area'[g].files["db"].rows \subseteq admitted
  BY <1>1, <1>4, PrepareKeepsAll DEF RestoreInv, PreparedOK
<1>8. GenOf(Installed)' = g /\ RowsOf(Installed)' \in SUBSET admitted
  BY <1>5, <1>7, PreparedShows
<1> QED
  BY <1>1, <1>2, <1>3, <1>4, <1>6, <1>8 DEF Promise!Replace, GenOf, RowsOf

(* Installing and resuming change nothing of what is prepared.             *)
LEMMA InstallImplements ==
    ASSUME RestoreInv,
           (\E file \in Files : InstallFile(file)) \/ MoveVaultAway \/ MoveVaultIn \/ ResumeRestore
    PROVE  UNCHANGED Promise!avars
<1>1. UNCHANGED <<hub, journal, admitted>>
  BY DEF InstallFile, MoveVaultAway, MoveVaultIn, ResumeRestore
<1>2. journal.state = "prepared" /\ journal.txn \in Gens
  <2>1. restorer.pc \in {"install", "vault"} \/ journal.state = "prepared"
    BY DEF InstallFile, MoveVaultAway, MoveVaultIn, ResumeRestore
  <2>2. journal.state = "prepared"
    BY <2>1 DEF RestoreInv, InstallsOK
  <2>3. journal.txn \in 1..lastGen /\ lastGen \in Gens
    BY <2>2 DEF RestoreInv, PreparedOK, Types
  <2> QED
    BY <2>2, <2>3, ConstantsAreNatural
<1>3. area'[journal.txn].files = area[journal.txn].files
  <2>1. CASE (\E file \in Files : InstallFile(file)) \/ ResumeRestore
    BY <2>1 DEF InstallFile, ResumeRestore
  <2>2. CASE MoveVaultAway \/ MoveVaultIn
    <3>1. \/ area' = [area EXCEPT ![restorer.gen].savedVault = vault]
          \/ area' = [area EXCEPT ![restorer.gen].vault = NoVault]
      BY <2>2 DEF MoveVaultAway, MoveVaultIn
    <3> QED
      BY <1>2, <3>1 DEF RestoreInv, Types, AreaType
  <2> QED
    BY <2>1, <2>2
<1>4. Installed' = Installed
  BY <1>1, <1>2, <1>3 DEF Installed
<1> QED
  BY <1>1, <1>4, LooksTheSame DEF GenOf, RowsOf, Readable, Database

(* Committing shows what was prepared, or that it has been lost since.     *)
LEMMA CommitRestoreImplements ==
    ASSUME RestoreInv, CommitRestore PROVE [Promise!Lose]_(Promise!avars)
<1>1. /\ UNCHANGED <<live, hub, area, admitted>> /\ restorer.pc = "vault"
      /\ journal' = [journal EXCEPT !.state = "committed"]
  BY DEF CommitRestore
<1>2. PICK g, files : g = journal.txn /\ files = area[g].files
  OBVIOUS
<1>3. /\ journal.state = "prepared" /\ IsPrepared(files, g) /\ ~hub
      /\ \A f \in Files : live[f] = files[f] \/ (f = "db" /\ live[f] = Absent)
  BY <1>1, <1>2 DEF RestoreInv, InstallsOK, PreparedOK, Leases
<1>4. journal'.state # "prepared"
  BY <1>1 DEF RestoreInv, Types, JournalType
<1>5. Installed = files /\ Installed' = live
  BY <1>1, <1>2, <1>3, <1>4 DEF Installed
<1>6. live["wal"] = files["wal"] /\ (live["db"] = files["db"] \/ live["db"] = Absent)
  BY <1>3 DEF Files
<1>7. CASE live["db"] = files["db"]
  <2>1. GenOf(live) = GenOf(files) /\ RowsOf(live) = RowsOf(files)
    BY <1>6, <1>7 DEF GenOf, RowsOf, Readable, Database
  <2>2. GenOf(Installed)' = GenOf(Installed) /\ RowsOf(Installed)' = RowsOf(Installed)
    BY <1>5, <2>1
  <2> QED
    BY <1>1, <2>2, LooksTheSame
<1>8. CASE live["db"] = Absent
  <2>1. ~Readable(Installed')
    BY <1>5, <1>8 DEF Readable
  <2> QED
    BY <1>1, <1>3, <2>1 DEF Promise!Lose, Readable
<1> QED
  BY <1>6, <1>7, <1>8

(* Everything else happens beside the installation.                        *)
LEMMA OthersImplement ==
    ASSUME RestoreInv,
           \/ SnapshotDatabase \/ CollectFiles \/ PublishBackup \/ InterruptRestore
           \/ \E b \in DOMAIN backups : BeginRestore(b)
           \/ UNCHANGED restoreVars
    PROVE  UNCHANGED Promise!avars
<1>1. UNCHANGED <<hub, live, journal, admitted>>
  BY DEF SnapshotDatabase, CollectFiles, PublishBackup, InterruptRestore, BeginRestore, restoreVars
<1>2. area' = area \/ journal.state # "prepared"
  BY DEF SnapshotDatabase, CollectFiles, PublishBackup, InterruptRestore, BeginRestore, restoreVars,
         RequireRecoveryReady
<1>3. Installed' = Installed
  BY <1>1, <1>2 DEF Installed
<1> QED
  BY <1>1, <1>3, LooksTheSame DEF GenOf, RowsOf, Readable, Database

(* A restore replaces the installation in one step, the one that writes    *)
(* the journal, and while no hub runs: whatever the interleaving, hubs see *)
(* one generation, whose rows only grow.                                   *)
THEOREM RestoreIsAtomic == RestoreSpec => AtomicReplacement
<1>1. RestoreInit => Promise!Init
  <2> SUFFICES ASSUME RestoreInit PROVE Promise!Init
    OBVIOUS
  <2> DEFINE first == [Absent EXCEPT !.gen = 1, !.state = "normal", !.creds = {1}, !.secret = 1]
  <2>1. /\ live = [Nothing EXCEPT !["db"] = first, !["conf"] = Conf(1)]
        /\ hub = FALSE /\ journal.state = "none" /\ admitted = {}
    BY DEF RestoreInit, NoJournal
  <2>2. first.gen = 1 /\ first.rows = {} /\ first.state = "normal"
    BY DEF Absent
  <2> HIDE DEF first
  <2>3. live["db"] = first /\ live["wal"] = Absent
    BY <2>1 DEF Nothing, Files
  <2>4. Installed = live /\ Readable(live) /\ Database(live) = first
    BY <2>1, <2>2, <2>3, Constructors DEF Installed, Readable, Database
  <2> QED
    BY <2>1, <2>2, <2>4 DEF Promise!Init
<1>2. RestoreInv /\ [RestoreNext]_restoreVars => [Promise!Next]_(Promise!avars)
  BY StartImplements, StopImplements, WritesImplement, AdmitImplements, WreckImplements,
     PrepareImplements, InstallImplements, CommitRestoreImplements, OthersImplement
     DEF RestoreNext, RestoreStep, Promise!Next
<1> QED
  BY <1>1, <1>2, RestoreInvariant, PTL DEF RestoreSpec, AtomicReplacement, Promise!Spec
=============================================================================
