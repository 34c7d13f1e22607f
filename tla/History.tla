------------------------------- MODULE History -------------------------------
(***************************************************************************)
(* Rollups and retention of the observations of one source.                *)
(*                                                                         *)
(*   internal/store/maintenance.go    RunMaintenance, one bounded pass     *)
(*   internal/store/retention.go      PruneObservationRetention            *)
(*   internal/store/rollup_build.go, rollup.go    minutes and hours        *)
(*   cmd/llm-monitor/main.go          runMaintenance, the pass every 10 s  *)
(*                                                                         *)
(* A pass recomputes the minutes that late frames touched, rolls up the    *)
(* minutes behind the watermark, merges complete minutes into hours, keeps *)
(* its cursor and prunes what is rolled up.  Ingest goes on between its    *)
(* transactions, and a pass can end anywhere.                              *)
(*                                                                         *)
(* A frame is known by its time, in units of the host's sampling interval. *)
(* It reads one cumulative counter of one epoch; Wrap is a time at which   *)
(* the counter falls, Nulls those at which it is missing.                  *)
(***************************************************************************)
EXTENDS Integers, FiniteSets, FiniteSetsExt

CONSTANTS FrameTimes,      \* times of the frames
          Wrap, Nulls,
          Minute,          \* length of a minute
          Hour,            \* length of an hour
          Freshness,       \* how long a reading is valid, and the predecessor window
          Delay,           \* RollupWatermarkDelay
          RawFor, RollFor, \* retention of frames and of rollups
          LateFrames, MinuteIntervals, HourRollups, RetentionRows,  \* limits of a pass
          MaxNow,          \* clock
          MaxStop          \* passes cut short

ASSUME HistoryAssumption ==
  /\ FrameTimes \subseteq 1 .. MaxNow /\ Nulls \subseteq FrameTimes /\ Wrap \in Nat
  /\ {Minute, Hour, Freshness, Delay, RawFor, RollFor} \subseteq Nat \ {0}
  /\ {LateFrames, MinuteIntervals, HourRollups, RetentionRows} \subseteq Nat \ {0}
  /\ Hour % Minute = 0 /\ Freshness <= Hour /\ {MaxNow, MaxStop} \subseteq Nat

VARIABLES now,
          raw,        \* source_frames: {[id, at]}, id is SQLite's rowid
          minutes,    \* rollup_minutes: start -> row
          processes,  \* process_observations, by the time of their frame
          hours,      \* rollup_hours: start -> [start of a minute -> its row]
          watermark,  \* maintenance.rollup_watermark_ms, 0 when there is none
          cursor,     \* rollup_frame_rowid, behind the last late frame taken
          pass,       \* the pass that runs
          arrived,    \* frames ever admitted
          late,       \* frames below the retention cutoff before a pass took them, or
                      \* before the watermark was behind them
          stops

vars == <<now, raw, processes, minutes, hours, watermark, cursor, pass, arrived, late, stops>>

Floor(t, n) == (t \div n) * n
MinuteOf(t) == Floor(t, Minute)
Minutes == {MinuteOf(t) : t \in 0..MaxNow}
Hours   == {Floor(t, Hour) : t \in 0..MaxNow}
MinutesIn(h) == {m \in Minutes : Floor(m, Hour) = h}

NoRow == [kind |-> "absent"]
RowOf(used) == [kind |-> "row", used |-> used]
NoPass == [pc |-> "idle"]

Init ==
  /\ now \in FrameTimes /\ (\A t \in FrameTimes : now <= t)
  /\ raw = {} /\ processes = {}
  /\ minutes = [m \in Minutes |-> NoRow] /\ hours = [h \in Hours |-> NoRow]
  /\ watermark = 0 /\ cursor = 0 /\ pass = NoPass
  /\ arrived = {} /\ late = {} /\ stops = 0

------------------------------------------------------------------------------
(* What a row says of the frames it was built from *)

Value(t) == IF t < Wrap THEN t + 1 ELSE t - Wrap
After(used, t) == {u \in used : u > t}

\* aggregateRollupSeries: up to the next reading, the end, or the freshness.
ValidUntil(used, t, end) == Min({end, t + Freshness} \cup After(used, t))

Larger(a, b) == IF a < b THEN b ELSE a
Dwell(used, t, m) == Larger(0, ValidUntil(used, t, m + Minute) - Larger(m, t))
ValidDuration(used, m) ==
  FoldSet(LAMBDA t, n : n + Dwell(used, t, m), 0, used \ Nulls)

\* Consecutive readings of the samples, both of them there.
Pairs(used) == {p \in (used \ Nulls) \X (used \ Nulls) :
                  p[1] < p[2] /\ \A u \in used : u <= p[1] \/ u >= p[2]}

\* counterDifference: a fall gives no difference, the row is not complete.
Falls(p) == Value(p[2]) < Value(p[1])
CounterDelta(used) ==
  FoldSet(LAMBDA p, n : n + Value(p[2]) - Value(p[1]), 0, {p \in Pairs(used) : ~Falls(p)})
Complete(row) == row # NoRow /\ \A p \in Pairs(row.used) : ~Falls(p)

------------------------------------------------------------------------------
(* Ingest *)

LastRowid == Max({0} \cup {f.id : f \in raw})

\* SQLite gives a new row the highest rowid plus one.
Ingest(t) ==
  /\ t \in FrameTimes \ arrived /\ t <= now
  /\ raw' = raw \cup {[id |-> LastRowid + 1, at |-> t]}
  /\ processes' = processes \cup {t} /\ arrived' = arrived \cup {t}
  /\ UNCHANGED <<now, minutes, hours, watermark, cursor, pass, late, stops>>

------------------------------------------------------------------------------
(* The pass *)

FinalizedEnd == Larger(0, Floor(now - Delay, Minute))

\* The next frames behind the cursor that lie below the watermark.
Taken ==
  LET behind == {f \in raw : f.id > cursor /\ f.at < watermark}
  IN  {f \in behind : Cardinality({g \in behind : g.id < f.id}) < LateFrames}

Mergeable(f) == MinuteOf(f.at) >= now - RawFor

\* Mutant of NextCursor: every pass goes to the end of the table.
CursorToTheEnd == LastRowid

\* Behind the last frame taken; the first pass begins at the end.
NextCursor == IF watermark = 0 THEN LastRowid ELSE Max({cursor} \cup {f.id : f \in Taken})

\* readMaintenanceState and readDirtyRollups: without a watermark no frame is late.
BeginPass ==
  LET merge == {f \in Taken : Mergeable(f)} IN
  /\ pass = NoPass
  /\ pass' = [pc |-> "late", todo |-> {MinuteOf(f.at) : f \in merge},
              next |-> NextCursor, mark |-> watermark, end |-> FinalizedEnd, at |-> now, count |-> 0, row |-> NoRow]
  /\ late' = late \cup {f.at : f \in Taken \ merge}
  /\ UNCHANGED <<now, raw, processes, minutes, hours, watermark, cursor, arrived, stops>>

\* BuildAndPutMinuteRollup reads the frames of the minute and those whose reading
\* is still valid at its start ...
ReadQueryFrames(m) == {f.at : f \in {g \in raw : g.at < m + Minute /\ g.at + Freshness > m}}
Build(m) == [m |-> m, used |-> ReadQueryFrames(m)]

ReadLate ==
  /\ pass.pc = "late" /\ pass.row = NoRow
  /\ \E m \in pass.todo : pass' = [pass EXCEPT !.row = Build(m), !.todo = @ \ {m}]
  /\ UNCHANGED <<now, raw, processes, minutes, hours, watermark, cursor, arrived, late, stops>>

\* ... and writes the row later: the hour that holds the minute goes with it.
\* Mutant of PutRollup: the hour stays.
PutMinuteOnly(row) == minutes' = [minutes EXCEPT ![row.m] = RowOf(row.used)] /\ UNCHANGED hours

PutRollup(row) ==
  /\ minutes' = [minutes EXCEPT ![row.m] = RowOf(row.used)]
  /\ hours' = [hours EXCEPT ![Floor(row.m, Hour)] = NoRow]

PutLate ==
  /\ pass.pc = "late" /\ pass.row # NoRow
  /\ PutRollup(pass.row)
  /\ pass' = [pass EXCEPT !.row = NoRow]
  /\ UNCHANGED <<now, raw, processes, watermark, cursor, arrived, late, stops>>

\* The first watermark is the minute of the oldest frame.
FirstMark == IF raw = {} THEN pass.end ELSE Min({MinuteOf(f.at) : f \in raw})
StartRoll ==
  /\ pass.pc = "late" /\ pass.row = NoRow /\ pass.todo = {}
  /\ pass' = [pass EXCEPT !.pc = "roll", !.mark = IF @ = 0 THEN FirstMark ELSE @]
  /\ UNCHANGED <<now, raw, processes, minutes, hours, watermark, cursor, arrived, late, stops>>

Rolls == pass.count < MinuteIntervals /\ pass.mark < pass.end
ReadMinute ==
  /\ pass.pc = "roll" /\ pass.row = NoRow /\ Rolls
  /\ pass' = [pass EXCEPT !.row = Build(pass.mark)]
  /\ UNCHANGED <<now, raw, processes, minutes, hours, watermark, cursor, arrived, late, stops>>

PutMinute ==
  /\ pass.pc = "roll" /\ pass.row # NoRow
  /\ PutRollup(pass.row)
  /\ pass' = [pass EXCEPT !.row = NoRow, !.mark = @ + Minute, !.count = @ + 1]
  /\ UNCHANGED <<now, raw, processes, watermark, cursor, arrived, late, stops>>

\* pendingHourRollups: complete in all its minutes, over, and not there.
PendingHours ==
  {h \in Hours : /\ hours[h] = NoRow /\ h + Hour <= pass.end
                 /\ \A m \in MinutesIn(h) : Complete(minutes[m])}
Least(S, n) == {x \in S : Cardinality({y \in S : y < x}) < n}

\* MergeHourRollups, from the minutes and never from frames.
RollHours ==
  /\ pass.pc = "roll" /\ pass.row = NoRow /\ ~Rolls
  /\ hours' = [h \in Hours |->
       IF h \in Least(PendingHours, HourRollups)
         THEN [kind |-> "row", of |-> [m \in MinutesIn(h) |-> minutes[m]]] ELSE hours[h]]
  /\ pass' = [pass EXCEPT !.pc = "write"]
  /\ UNCHANGED <<now, raw, processes, minutes, watermark, cursor, arrived, late, stops>>

WriteMaintenanceState ==
  /\ pass.pc = "write"
  /\ watermark' = pass.mark /\ cursor' = pass.next
  /\ pass' = [pass EXCEPT !.pc = "prune"]
  /\ UNCHANGED <<now, raw, processes, minutes, hours, arrived, late, stops>>

\* Mutant of Prunable: the highest rowid goes like any other.
PrunableToTheLast(cutoff) ==
  {f \in raw : /\ f.at < cutoff /\ Complete(minutes[MinuteOf(f.at)])
               /\ \E g \in raw : g.at < cutoff /\ g.at > f.at}

\* Rolled up, not the highest rowid, and not the newest below the cutoff.
Prunable(cutoff) ==
  {f \in raw : /\ f.at < cutoff /\ Complete(minutes[MinuteOf(f.at)])
               /\ f.id # LastRowid
               /\ \E g \in raw : g.at < cutoff /\ g.at > f.at}

\* A process stays known an hour longer than the rollups.
IdentityCutoff(at) == at - RollFor - Hour

\* PruneObservationRetention, one transaction: frames, minutes, hours, processes, as
\* many rows in all as the limit.
PruneObservationRetention ==
  LET old    == Least({f.at : f \in Prunable(pass.at - RawFor)}, RetentionRows)
      frames == {f \in raw : f.at \in old}
      left   == RetentionRows - Cardinality(old)
      oldM   == Least({m \in Minutes : minutes[m] # NoRow /\ m < pass.at - RollFor}, left)
      oldH   == Least({h \in Hours : hours[h] # NoRow /\ h < pass.at - RollFor}, left - Cardinality(oldM))
      oldP   == Least({t \in processes : t < IdentityCutoff(pass.at)},
                      left - Cardinality(oldM) - Cardinality(oldH))
  IN
  /\ pass.pc = "prune"
  /\ raw' = raw \ frames /\ processes' = processes \ oldP
  /\ minutes' = [m \in Minutes |-> IF m \in oldM THEN NoRow ELSE minutes[m]]
  /\ hours' = [h \in Hours |-> IF h \in oldH THEN NoRow ELSE hours[h]]
  /\ late' = late \cup {f.at : f \in {g \in frames : g.at >= watermark}}
                  \cup {f.at : f \in {g \in frames : g.id > cursor /\ g.at < watermark}
                                     \ {g \in frames : g.at \in minutes[MinuteOf(g.at)].used}}
  /\ pass' = NoPass
  /\ UNCHANGED <<now, watermark, cursor, arrived, stops>>

\* The two seconds of a pass are over, a write is refused, or the hub stops.
StopPass ==
  /\ pass # NoPass /\ stops < MaxStop /\ stops' = stops + 1
  /\ pass' = NoPass
  /\ UNCHANGED <<now, raw, processes, minutes, hours, watermark, cursor, arrived, late>>

Tick ==
  /\ now < MaxNow /\ now' = now + 1
  /\ UNCHANGED <<raw, processes, minutes, hours, watermark, cursor, pass, arrived, late, stops>>

Pass ==
  \/ BeginPass \/ ReadLate \/ PutLate \/ StartRoll \/ ReadMinute \/ PutMinute
  \/ RollHours \/ WriteMaintenanceState \/ PruneObservationRetention

Next == Tick \/ Pass \/ StopPass \/ \E t \in FrameTimes : Ingest(t)

\* The ticker starts a pass every ten seconds, and time goes on.
Spec == Init /\ [][Next]_vars /\ WF_vars(Pass) /\ WF_vars(Tick)

------------------------------------------------------------------------------
(* Properties *)

Rolled(t) == minutes[MinuteOf(t)] # NoRow /\ t \in minutes[MinuteOf(t)].used
AgedOut(m) == m < now - RollFor

\* An admitted frame is a raw frame or part of the row of its minute, until the row
\* ages out: pruning (PruneObservationRetention) takes no evidence a rollup has not,
\* except of frames too old before a pass could take them, or save that it did.
EvidenceIsKept ==
  \A t \in arrived : \/ \E f \in raw : f.at = t
                     \/ Rolled(t) \/ t \in late \/ AgedOut(MinuteOf(t))

\* An hour row is the merge of the minute rows there are now (PutRollup): a late
\* minute never leaves the old hour behind.
HourIsCurrent ==
  \A h \in Hours : hours[h] # NoRow =>
    \A m \in MinutesIn(h) : minutes[m] = hours[h].of[m] \/ AgedOut(m)

\* Recomputing a minute from the frames left never takes a frame of the minute out
\* of its row (readDirtyRollups leaves minutes older than the frames alone).
RollupsOnlyGrow ==
  [][\A m \in Minutes : minutes[m] # NoRow /\ minutes'[m] # NoRow =>
       {t \in minutes[m].used : MinuteOf(t) = m} \ late \subseteq minutes'[m].used]_vars

\* The valid time of a row (aggregateRollupSeries) is the time in its minute at which
\* the latest reading is there and fresh: no moment counts twice.
CoverageIsExact ==
  \A m \in Minutes : minutes[m] # NoRow =>
    LET used == minutes[m].used
        fresh(u) == \E t \in used \ Nulls :
                      t <= u /\ u < t + Freshness /\ \A v \in used : v <= t \/ v > u
    IN  ValidDuration(used, m) = Cardinality({u \in m..(m + Minute - 1) : fresh(u)})

\* A minute that was built from readings can still be selected by the process it is
\* of (ResolveHistorySource): until its row ages out it has the identity.
RollupsStaySelectable ==
  \A m \in Minutes : minutes[m] # NoRow /\ minutes[m].used # {} /\ ~AgedOut(m) =>
    processes \cap minutes[m].used # {}

\* Evidence is kept and stays usable: in full, under an identity that can be selected.
EvidenceStaysUsable ==
  [](EvidenceIsKept /\ RollupsStaySelectable) /\ RollupsOnlyGrow

\* Every admitted frame below the last finalized minute gets into its row, also when
\* it comes late and passes are cut short (RunMaintenance).
EveryFrameIsRolled ==
  <>[](\A t \in arrived : \/ Rolled(t) \/ t \in late \/ AgedOut(MinuteOf(t))
                          \/ MinuteOf(t) >= Floor(MaxNow - Delay, Minute))

\* Every frame is rolled up, and what a row then says of it counted once.
FramesAreCounted == []CoverageIsExact /\ EveryFrameIsRolled

\* The predecessor window "supplies the first interval value/counter delta": the
\* increase of a minute is that of its own readings, each over the one before.
DeltaIsOfItsMinute ==
  \A m \in Minutes : Complete(minutes[m]) =>
    LET used == minutes[m].used
        own  == {p \in Pairs(used) : p[2] >= m}
    IN  CounterDelta(used) = FoldSet(LAMBDA p, n : n + Value(p[2]) - Value(p[1]), 0, own)
===============================================================================
