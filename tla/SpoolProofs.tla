---------------------------- MODULE SpoolProofs -----------------------------
(***************************************************************************)
(* Proofs about Spool for every value of its constants.  First its type;   *)
(* then IInv, inductive when unlinking a segment file cannot fail, and     *)
(* what follows from it.  Each part of IInv has a lemma of its own.        *)
(***************************************************************************)
EXTENDS SpoolInv, TLAPS

-----------------------------------------------------------------------------
(* A step that leaves a group of variables alone keeps its type.           *)
LEMMA TypeFrames ==
    /\ DiskType /\ UNCHANGED disk => DiskType'
    /\ JournalType /\ UNCHANGED <<offsetsFile, lossesFile>> => JournalType'
    /\ MemoryType /\ UNCHANGED memory => MemoryType'
    /\ PcType /\ UNCHANGED pc => PcType'
    /\ CallerType /\ UNCHANGED caller => CallerType'
    /\ OriginType /\ UNCHANGED origin => OriginType'
    /\ HistoryType /\ UNCHANGED history => HistoryType'
    /\ OperationOK /\ UNCHANGED <<memory, pc, disk>> => OperationOK'
<1>1. DiskType /\ UNCHANGED disk => DiskType'
  BY DEF DiskType, disk
<1>2. JournalType /\ UNCHANGED <<offsetsFile, lossesFile>> => JournalType'
  BY DEF JournalType, offsetsFile, lossesFile
<1>3. MemoryType /\ UNCHANGED memory => MemoryType'
  BY DEF MemoryType, memory
<1>4. PcType /\ UNCHANGED pc => PcType'
  BY DEF PcType
<1>5. CallerType /\ UNCHANGED caller => CallerType'
  BY DEF CallerType, caller
<1>6. OriginType /\ UNCHANGED origin => OriginType'
  BY DEF OriginType, origin
<1>7. HistoryType /\ UNCHANGED history => HistoryType'
  BY DEF HistoryType, history
<1>8. OperationOK /\ UNCHANGED <<memory, pc, disk>> => OperationOK'
  BY DEF OperationOK, memory, disk
<1> QED
  BY <1>1, <1>2, <1>3, <1>4, <1>5, <1>6, <1>7, <1>8

LEMMA TypeInit == Init => TypeInv
<1> SUFFICES ASSUME Init PROVE TypeInv
  OBVIOUS
<1> USE SpoolAssumption DEF SpoolAssumption, Init
<1>1. DiskType
  BY DEF DiskType
<1>2. JournalType
  BY DEF JournalType
<1>3. MemoryType
  <2>1. fault \in BOOLEAN
    OBVIOUS
  <2>2. /\ active \in 0 .. MaxRecords /\ boot \in 0 .. MaxBoots
        /\ incoming \in 0 .. MaxRecords /\ victim \in 0 .. MaxRecords
    OBVIOUS
  <2> QED
    BY <2>1, <2>2 DEF MemoryType
<1>4. PcType
  BY DEF PcType
<1>5. CallerType
  BY DEF CallerType, NoCursor, NoSnapshot
<1>6. OriginType
  BY DEF OriginType
<1>7. HistoryType
  BY DEF HistoryType
<1>8. OperationOK
  BY DEF OperationOK
<1> QED
  BY <1>1, <1>2, <1>3, <1>4, <1>5, <1>6, <1>7, <1>8 DEF TypeInv, TypeOK

LEMMA TypeStep == TypeInv /\ [Next]_vars => TypeInv'
<1> SUFFICES ASSUME TypeInv, [Next]_vars PROVE TypeInv'
  OBVIOUS
<1> USE SpoolAssumption DEF SpoolAssumption, TypeInv, TypeOK
<1>1. CASE PruneDrained
  <2>1. MemoryType'
    BY <1>1 DEF PruneDrained, Evict, Record, DiskType, MemoryType, memory
  <2>2. PcType'
    BY <1>1 DEF PruneDrained, Evict, PcType
  <2>3. HistoryType'
    BY <1>1 DEF PruneDrained, Evict, HistoryType, history
  <2>4. OperationOK'
    BY <1>1 DEF PruneDrained, Evict, OperationOK, memory
  <2> QED
    BY <1>1, <2>1, <2>2, <2>3, <2>4, TypeFrames DEF PruneDrained, Evict
<1>2. CASE PruneExpired
  <2>1. JournalType'
    BY <1>2 DEF PruneExpired, RecordSegmentLoss, Unacked, DiskType, Evict, JournalType, offsetsFile, lossesFile
  <2>2. MemoryType'
    BY <1>2 DEF PruneExpired, Evict, Record, DiskType, MemoryType, memory
  <2>3. PcType'
    BY <1>2 DEF PruneExpired, Evict, PcType
  <2>4. HistoryType'
    BY <1>2 DEF PruneExpired, Evict, RecordSegmentLoss, Unacked, DiskType, HistoryType, history
  <2>5. OperationOK'
    BY <1>2 DEF PruneExpired, Evict, OperationOK, memory
  <2> QED
    BY <1>2, <2>1, <2>2, <2>3, <2>4, <2>5, TypeFrames DEF PruneExpired, Evict
<1>3. CASE PruneOldest
  <2>1. JournalType'
    BY <1>3 DEF PruneOldest, RecordSegmentLoss, Unacked, DiskType, Evict, JournalType, offsetsFile, lossesFile
  <2>2. MemoryType'
    BY <1>3 DEF PruneOldest, Evict, Record, DiskType, MemoryType, memory
  <2>3. PcType'
    BY <1>3 DEF PruneOldest, Evict, PcType
  <2>4. HistoryType'
    BY <1>3 DEF PruneOldest, Evict, RecordSegmentLoss, Unacked, DiskType, HistoryType, history
  <2>5. OperationOK'
    BY <1>3 DEF PruneOldest, Evict, OperationOK, memory
  <2> QED
    BY <1>3, <2>1, <2>2, <2>3, <2>4, <2>5, TypeFrames DEF PruneOldest, Evict
<1>4. CASE PruneDone
  <2>1. PcType'
    BY <1>4 DEF PruneDone, MemoryType, PcType
  <2>2. OperationOK'
    BY <1>4 DEF PruneDone, MemoryType, OperationOK, memory
  <2> QED
    BY <1>4, <2>1, <2>2, TypeFrames DEF PruneDone
<1>5. CASE RemoveSegment
  <2>1. DiskType'
    BY <1>5 DEF RemoveSegment, DiskType, disk
  <2>2. PcType'
    BY <1>5 DEF RemoveSegment, PcType
  <2>3. OperationOK'
    BY <1>5 DEF RemoveSegment, OperationOK, memory
  <2> QED
    BY <1>5, <2>1, <2>2, <2>3, TypeFrames DEF RemoveSegment
<1>6. CASE RemoveFails
  <2>1. PcType'
    BY <1>6 DEF RemoveFails, PcType
  <2>2. OperationOK'
    BY <1>6 DEF RemoveFails, OperationOK, memory
  <2> QED
    BY <1>6, <2>1, <2>2, TypeFrames DEF RemoveFails
<1>7. CASE PruneOffsets
  <2>1. JournalType'
    <3>1. offsets' \in [Record -> 0 .. MaxRecords]
      <4>1. 0 \in 0 .. MaxRecords /\ offsets' = [offsets EXCEPT ![victim] = 0]
        BY <1>7 DEF PruneOffsets
      <4> QED
        BY <4>1 DEF JournalType
    <3> QED
      BY <1>7, <3>1 DEF PruneOffsets, JournalType, lossesFile
  <2>2. MemoryType'
    BY <1>7 DEF PruneOffsets, MemoryType, memory
  <2>3. PcType'
    BY <1>7 DEF PruneOffsets, PcType
  <2>4. OperationOK'
    BY <1>7 DEF PruneOffsets, OperationOK, memory
  <2> QED
    BY <1>7, <2>1, <2>2, <2>3, <2>4, TypeFrames DEF PruneOffsets
<1>8. CASE PruneLosses
  <2>1. JournalType'
    BY <1>8 DEF PruneLosses, JournalType, offsetsFile, lossesFile
  <2>2. PcType'
    BY <1>8 DEF PruneLosses, PcType
  <2>3. OperationOK'
    BY <1>8 DEF PruneLosses, OperationOK, memory
  <2> QED
    BY <1>8, <2>1, <2>2, <2>3, TypeFrames DEF PruneLosses
<1>9. CASE LossJournalFails
  <2>1. PcType'
    BY <1>9 DEF LossJournalFails, PcType
  <2>2. OperationOK'
    BY <1>9 DEF LossJournalFails, OperationOK, memory
  <2> QED
    BY <1>9, <2>1, <2>2, TypeFrames DEF LossJournalFails
<1>10. CASE JournalFails
  <2>1. MemoryType'
    BY <1>10 DEF JournalFails, MemoryType, memory
  <2>2. PcType'
    BY <1>10 DEF JournalFails, PcType
  <2>3. OperationOK'
    BY <1>10 DEF JournalFails, OperationOK, memory
  <2> QED
    BY <1>10, <2>1, <2>2, <2>3, TypeFrames DEF JournalFails
<1>11. CASE Open
  <2>1. DiskType'
    BY <1>11 DEF Open, DiskType, disk
  <2>2. MemoryType'
    BY <1>11 DEF Open, MemoryType, memory
  <2>3. PcType'
    BY <1>11 DEF Open, PcType
  <2>4. OperationOK'
    BY <1>11 DEF Open, OperationOK, memory
  <2> QED
    BY <1>11, <2>1, <2>2, <2>3, <2>4, TypeFrames DEF Open
<1>12. CASE FinishDiscard
  <2>1. DiskType'
    BY <1>12 DEF FinishDiscard, DiskType, disk
  <2>2. OperationOK'
    BY <1>12 DEF FinishDiscard, OperationOK, memory
  <2> QED
    BY <1>12, <2>1, <2>2, TypeFrames DEF FinishDiscard
<1>13. CASE FinishedDiscard
  <2>1. PcType'
    BY <1>13 DEF FinishedDiscard, PcType
  <2>2. OperationOK'
    BY <1>13 DEF FinishedDiscard, OperationOK, memory
  <2> QED
    BY <1>13, <2>1, <2>2, TypeFrames DEF FinishedDiscard
<1>14. CASE RecoverOffsets
  <2>1. JournalType'
    BY <1>14 DEF RecoverOffsets, JournalType, offsetsFile, lossesFile
  <2>2. PcType'
    BY <1>14 DEF RecoverOffsets, PcType
  <2>3. OperationOK'
    BY <1>14 DEF RecoverOffsets, OperationOK, memory
  <2> QED
    BY <1>14, <2>1, <2>2, <2>3, TypeFrames DEF RecoverOffsets
<1>15. CASE RecoverLosses
  <2>1. JournalType'
    BY <1>15 DEF RecoverLosses, StartPrune, JournalType, offsetsFile, lossesFile
  <2>2. MemoryType'
    BY <1>15 DEF RecoverLosses, StartPrune, MemoryType, memory
  <2>3. PcType'
    BY <1>15 DEF RecoverLosses, StartPrune, PcType
  <2>4. OperationOK'
    BY <1>15 DEF RecoverLosses, StartPrune, OperationOK, memory
  <2> QED
    BY <1>15, <2>1, <2>2, <2>3, <2>4, TypeFrames DEF RecoverLosses
<1>16. CASE Crash
  <2>1. DiskType'
    <3>1. CASE pc = "write"
      <4>1. active \in Record /\ incoming \in Record
        BY <1>16, <3>1 DEF Crash, DiskType, OperationOK, Record
      <4>2. CASE PutRecord
        BY <1>16, <3>1, <4>1, <4>2 DEF Crash, PutRecord, DiskType
      <4>3. CASE TearRecord
        BY <1>16, <3>1, <4>1, <4>3 DEF Crash, TearRecord, DiskType
      <4>4. CASE UNCHANGED <<recs, torn>>
        BY <1>16, <3>1, <4>4 DEF Crash, DiskType
      <4> QED
        BY <1>16, <3>1, <4>2, <4>3, <4>4 DEF Crash
    <3>2. CASE pc # "write"
      BY <1>16, <3>2 DEF Crash, DiskType
    <3> QED
      BY <3>1, <3>2
  <2>2. MemoryType'
    <3>1. fault' \in BOOLEAN
      BY <1>16 DEF Crash
    <3> QED
      BY <1>16, <3>1 DEF Crash, MemoryType
  <2>3. PcType'
    BY <1>16 DEF Crash, PcType
  <2>4. CallerType'
    BY <1>16 DEF Crash, NoCursor, NoSnapshot, CallerType, caller
  <2>5. OperationOK'
    BY <1>16 DEF Crash, OperationOK, memory
  <2> QED
    BY <1>16, <2>1, <2>2, <2>3, <2>4, <2>5, TypeFrames DEF Crash
<1>17. CASE Tick
  <2>1. OriginType'
    BY <1>17 DEF Tick, OriginType, origin
  <2> QED
    BY <1>17, <2>1, TypeFrames DEF Tick
<1>18. CASE Append
  <2>1. MemoryType'
    BY <1>18 DEF Append, StartPrune, OriginType, MemoryType, memory
  <2>2. PcType'
    BY <1>18 DEF Append, StartPrune, PcType
  <2>3. OriginType'
    <3>1. born' \in 0 .. MaxRecords
      BY <1>18 DEF Append, OriginType
    <3>2. bootOf' \in [Record -> 0 .. MaxBoots]
      BY <1>18 DEF Append, MemoryType, OriginType
    <3>3. observed' \in [Record -> 0 .. MaxNow]
      BY <1>18 DEF Append, OriginType
    <3> QED
      BY <1>18, <3>1, <3>2, <3>3 DEF Append, OriginType
  <2>4. OperationOK'
    BY <1>18 DEF Append, StartPrune, OriginType, Record, OperationOK, memory
  <2> QED
    BY <1>18, <2>1, <2>2, <2>3, <2>4, TypeFrames DEF Append
<1>19. CASE ReuseSegment
  <2>1. PcType'
    BY <1>19 DEF ReuseSegment, PcType
  <2>2. OperationOK'
    <3>1. active \in segs
      BY <1>19 DEF ReuseSegment, CanReuse, IsLast
    <3> QED
      BY <1>19, <3>1 DEF ReuseSegment, OperationOK, memory, disk
  <2> QED
    BY <1>19, <2>1, <2>2, TypeFrames DEF ReuseSegment
<1>20. CASE CreateSegment
  <2>1. DiskType'
    BY <1>20 DEF CreateSegment, DiskType, disk, OperationOK
  <2>2. MemoryType'
    BY <1>20 DEF CreateSegment, MemoryType, memory
  <2>3. PcType'
    BY <1>20 DEF CreateSegment, PcType
  <2>4. OperationOK'
    BY <1>20 DEF CreateSegment, OperationOK, memory
  <2> QED
    BY <1>20, <2>1, <2>2, <2>3, <2>4, TypeFrames DEF CreateSegment
<1>21. CASE WriteRecord
  <2>1. DiskType'
    BY <1>21 DEF WriteRecord, PutRecord, DiskType, disk, OperationOK
  <2>2. PcType'
    BY <1>21 DEF WriteRecord, PcType
  <2>3. HistoryType'
    BY <1>21 DEF WriteRecord, HistoryType, history, OperationOK
  <2>4. OperationOK'
    BY <1>21 DEF WriteRecord, OperationOK, memory
  <2> QED
    BY <1>21, <2>1, <2>2, <2>3, <2>4, TypeFrames DEF WriteRecord
<1>22. CASE WriteFails
  <2>1. DiskType'
    <3>1. active \in Record /\ incoming \in Record
      BY <1>22 DEF WriteFails, DiskType, OperationOK, Record
    <3>2. CASE PutRecord
      BY <1>22, <3>1, <3>2 DEF WriteFails, PutRecord, DiskType
    <3>3. CASE TearRecord
      BY <1>22, <3>1, <3>3 DEF WriteFails, TearRecord, DiskType
    <3>4. CASE UNCHANGED <<recs, torn>>
      BY <1>22, <3>4 DEF WriteFails, DiskType
    <3> QED
      BY <1>22, <3>2, <3>3, <3>4 DEF WriteFails
  <2>2. MemoryType'
    BY <1>22 DEF WriteFails, MemoryType, memory
  <2>3. PcType'
    BY <1>22 DEF WriteFails, PcType
  <2>4. OperationOK'
    BY <1>22 DEF WriteFails, OperationOK, memory
  <2> QED
    BY <1>22, <2>1, <2>2, <2>3, <2>4, TypeFrames DEF WriteFails
<1>23. ASSUME NEW lane \in {"readCurrent", "readReplay"}, ReadPending(lane)
     PROVE  TypeInv'
  <2>1. MemoryType'
    BY <1>23 DEF ReadPending, StartPrune, MemoryType, memory
  <2>2. PcType'
    BY <1>23 DEF ReadPending, StartPrune, PcType
  <2>3. OperationOK'
    BY <1>23 DEF ReadPending, StartPrune, OperationOK, memory
  <2> QED
    BY <1>23, <2>1, <2>2, <2>3, TypeFrames DEF ReadPending
<1>24. CASE ReadBatch
  <2>1. PcType'
    BY <1>24 DEF ReadBatch, PcType
  <2>2. CallerType'
    <3>1. ASSUME NEW n \in segs, NEW r \in Unacked(n), cursor' = BatchUpTo(n, r)
          PROVE  CallerType'
      <4>1. /\ n \in 0 .. MaxRecords /\ r \in 0 .. MaxRecords
            /\ Unacked(n) \subseteq Record
        BY DEF Unacked, DiskType, Record
      <4> QED
        BY <1>24, <3>1, <4>1 DEF ReadBatch, BatchUpTo, CallerType, JournalType, DiskType
    <3>2. CASE UNCHANGED cursor
      BY <1>24, <3>2 DEF ReadBatch, CallerType
    <3> QED
      BY <1>24, <3>1, <3>2 DEF ReadBatch, Sendable
  <2>3. OperationOK'
    BY <1>24 DEF ReadBatch, OperationOK, memory
  <2> QED
    BY <1>24, <2>1, <2>2, <2>3, TypeFrames DEF ReadBatch
<1>25. CASE HubStores
  <2>1. HistoryType'
    BY <1>25 DEF HubStores, CallerType, HistoryType, history
  <2> QED
    BY <1>25, <2>1, TypeFrames DEF HubStores
<1>26. CASE AnswerLost
  <2>1. CallerType'
    BY <1>26 DEF AnswerLost, NoCursor, CallerType, caller
  <2> QED
    BY <1>26, <2>1, TypeFrames DEF AnswerLost
<1>27. CASE Ack
  <2>1. JournalType'
    BY <1>27 DEF Ack, CallerType, JournalType, offsetsFile, lossesFile
  <2>2. MemoryType'
    BY <1>27 DEF Ack, StartPrune, MemoryType, memory
  <2>3. PcType'
    BY <1>27 DEF Ack, StartPrune, PcType
  <2>4. CallerType'
    BY <1>27 DEF Ack, NoCursor, CallerType, caller
  <2>5. HistoryType'
    BY <1>27 DEF Ack, CallerType, HistoryType, history
  <2>6. OperationOK'
    BY <1>27 DEF Ack, StartPrune, Ready, OperationOK, memory
  <2> QED
    BY <1>27, <2>1, <2>2, <2>3, <2>4, <2>5, <2>6, TypeFrames DEF Ack
<1>28. CASE Quarantine
  <2>1. JournalType'
    BY <1>28 DEF Quarantine, CursorMatches, DiskType, JournalType, offsetsFile, lossesFile
  <2>2. MemoryType'
    BY <1>28 DEF Quarantine, MemoryType, memory
  <2>3. CallerType'
    BY <1>28 DEF Quarantine, NoCursor, CallerType, caller
  <2>4. OperationOK'
    BY <1>28 DEF Quarantine, Ready, OperationOK, memory
  <2> QED
    BY <1>28, <2>1, <2>2, <2>3, <2>4, TypeFrames DEF Quarantine
<1>29. CASE SettleFails
  <2>1. MemoryType'
    BY <1>29 DEF SettleFails, MemoryType, memory
  <2>2. CallerType'
    BY <1>29 DEF SettleFails, NoCursor, CallerType, caller
  <2>3. OperationOK'
    BY <1>29 DEF SettleFails, Ready, OperationOK, memory
  <2> QED
    BY <1>29, <2>1, <2>2, <2>3, TypeFrames DEF SettleFails
<1>30. CASE ReadLosses
  <2>1. CallerType'
    BY <1>30 DEF ReadLosses, Intervals, JournalType, CallerType, caller
  <2> QED
    BY <1>30, <2>1, TypeFrames DEF ReadLosses
<1>31. CASE HubLearnsLosses
  <2>1. HistoryType'
    BY <1>31 DEF HubLearnsLosses, CallerType, HistoryType, history
  <2> QED
    BY <1>31, <2>1, TypeFrames DEF HubLearnsLosses
<1>32. CASE StatusLost
  <2>1. CallerType'
    BY <1>32 DEF StatusLost, NoSnapshot, CallerType, caller
  <2> QED
    BY <1>32, <2>1, TypeFrames DEF StatusLost
<1>33. CASE AckLossesPrefix
  <2>1. JournalType'
    BY <1>33 DEF AckLossesPrefix, JournalType, offsetsFile, lossesFile
  <2>2. CallerType'
    BY <1>33 DEF AckLossesPrefix, NoSnapshot, CallerType, caller
  <2>3. HistoryType'
    BY <1>33 DEF AckLossesPrefix, Intervals, JournalType, HistoryType, history
  <2> QED
    BY <1>33, <2>1, <2>2, <2>3, TypeFrames DEF AckLossesPrefix
<1>34. CASE UNCHANGED vars
  BY <1>34, TypeFrames DEF vars
<1> QED
  BY <1>1, <1>2, <1>3, <1>4, <1>5, <1>6, <1>7, <1>8, <1>9, <1>10, <1>11, <1>12, <1>13, <1>14, <1>15, <1>16, <1>17, <1>18, <1>19, <1>20, <1>21, <1>22, <1>23, <1>24, <1>25, <1>26, <1>27, <1>28, <1>29, <1>30, <1>31, <1>32, <1>33, <1>34 DEF Next, Prune, Recover

(* Type correctness: every variable of the spool keeps its range, for any  *)
(* number of records, processes and clock values.                          *)
THEOREM TypeCorrect == Spec => []TypeOK
<1>1. TypeInv => TypeOK
  BY DEF TypeInv
<1> QED
  BY <1>1, TypeInit, TypeStep, PTL DEF Spec

-----------------------------------------------------------------------------
(* Which actions write each variable.                                      *)
LEMMA Writers ==
    Next =>
      /\ UNCHANGED segs \/ RemoveSegment \/ CreateSegment
         \/ FinishDiscard
      /\ UNCHANGED recs \/ RemoveSegment \/ FinishDiscard \/ WriteRecord
         \/ WriteFails \/ Crash
      /\ UNCHANGED torn \/ WriteFails \/ Crash \/ Open
      /\ UNCHANGED offsets \/ PruneOffsets \/ RecoverOffsets \/ Ack
      /\ UNCHANGED <<revision, pending>> \/ PruneExpired \/ PruneOldest
         \/ AckLossesPrefix
      /\ UNCHANGED discarded \/ PruneExpired \/ PruneOldest
         \/ PruneLosses \/ RecoverLosses
      /\ UNCHANGED active \/ PruneOffsets \/ CreateSegment \/ Quarantine
         \/ Crash
      /\ UNCHANGED fault \/ JournalFails \/ WriteFails \/ SettleFails
         \/ Crash
      /\ UNCHANGED victim \/ PruneDrained \/ PruneExpired \/ PruneOldest
         \/ Crash
      /\ UNCHANGED cursor \/ ReadBatch \/ AnswerLost \/ Ack \/ Quarantine
         \/ SettleFails \/ Crash
      /\ UNCHANGED snapshot \/ ReadLosses \/ StatusLost
         \/ AckLossesPrefix \/ Crash
      /\ UNCHANGED <<born, bootOf>> \/ Append
      /\ UNCHANGED incoming \/ Append \/ Crash
      /\ UNCHANGED durable \/ WriteRecord
      /\ UNCHANGED acked \/ Ack
      /\ UNCHANGED hub \/ HubStores
      /\ UNCHANGED reported \/ AckLossesPrefix
      /\ UNCHANGED told \/ HubLearnsLosses
      /\ UNCHANGED recounted \/ PruneExpired \/ PruneOldest
<1> USE DEF disk, offsetsFile, lossesFile, memory, caller, origin, history
<1>1. CASE PruneDrained
  BY <1>1 DEF PruneDrained, Evict
<1>2. CASE PruneExpired
  BY <1>2 DEF PruneExpired, Evict
<1>3. CASE PruneOldest
  BY <1>3 DEF PruneOldest, Evict
<1>4. CASE PruneDone
  BY <1>4 DEF PruneDone
<1>5. CASE RemoveSegment
  BY <1>5 DEF RemoveSegment
<1>6. CASE RemoveFails
  BY <1>6 DEF RemoveFails
<1>7. CASE PruneOffsets
  BY <1>7 DEF PruneOffsets
<1>8. CASE PruneLosses
  BY <1>8 DEF PruneLosses
<1>9. CASE LossJournalFails
  BY <1>9 DEF LossJournalFails
<1>10. CASE JournalFails
  BY <1>10 DEF JournalFails
<1>11. CASE Open
  BY <1>11 DEF Open
<1>12. CASE FinishDiscard
  BY <1>12 DEF FinishDiscard
<1>13. CASE FinishedDiscard
  BY <1>13 DEF FinishedDiscard
<1>14. CASE RecoverOffsets
  BY <1>14 DEF RecoverOffsets
<1>15. CASE RecoverLosses
  BY <1>15 DEF RecoverLosses, StartPrune
<1>16. CASE Crash
  BY <1>16 DEF Crash
<1>17. CASE Tick
  BY <1>17 DEF Tick
<1>18. CASE Append
  BY <1>18 DEF Append, StartPrune
<1>19. CASE ReuseSegment
  BY <1>19 DEF ReuseSegment
<1>20. CASE CreateSegment
  BY <1>20 DEF CreateSegment
<1>21. CASE WriteRecord
  BY <1>21 DEF WriteRecord, PutRecord
<1>22. CASE WriteFails
  BY <1>22 DEF WriteFails
<1>23. CASE ReadPending("readCurrent") \/ ReadPending("readReplay")
  BY <1>23 DEF ReadPending, StartPrune
<1>24. CASE ReadBatch
  BY <1>24 DEF ReadBatch
<1>25. CASE HubStores
  BY <1>25 DEF HubStores
<1>26. CASE AnswerLost
  BY <1>26 DEF AnswerLost
<1>27. CASE Ack
  BY <1>27 DEF Ack, StartPrune
<1>28. CASE Quarantine
  BY <1>28 DEF Quarantine
<1>29. CASE SettleFails
  BY <1>29 DEF SettleFails
<1>30. CASE ReadLosses
  BY <1>30 DEF ReadLosses
<1>31. CASE HubLearnsLosses
  BY <1>31 DEF HubLearnsLosses
<1>32. CASE StatusLost
  BY <1>32 DEF StatusLost
<1>33. CASE AckLossesPrefix
  BY <1>33 DEF AckLossesPrefix
<1> QED
  BY <1>1, <1>2, <1>3, <1>4, <1>5, <1>6, <1>7, <1>8, <1>9, <1>10, <1>11, <1>12
     , <1>13, <1>14, <1>15, <1>16, <1>17, <1>18, <1>19, <1>20, <1>21, <1>22, <1>23
     , <1>24, <1>25, <1>26, <1>27, <1>28, <1>29, <1>30, <1>31, <1>32, <1>33
     DEF Next, Prune, Recover

-----------------------------------------------------------------------------
(* No step forgets a record number, and one stays fresh during an Append.  *)
LEMMA SeenGrows ==
    TypeInv /\ (Appending => incoming = born) /\ Next =>
        /\ Appending' => incoming' = born'
        /\ Seen \subseteq Seen'
<1> SUFFICES ASSUME TypeInv, Appending => incoming = born, Next
             PROVE  /\ Appending' => incoming' = born'
                    /\ Seen \subseteq Seen'
  OBVIOUS
<1>1. born \in Nat /\ incoming \in Nat /\ Record \subseteq Nat
  BY SpoolAssumption DEF TypeInv, TypeOK, OriginType, MemoryType, Record
<1>2. CASE Append
  <2>1. born' = born + 1 /\ incoming' = born + 1 /\ ~Appending
    BY <1>2 DEF Append, Appending, Ready
  <2>2. ASSUME NEW r \in Seen PROVE r \in Seen'
    BY <1>1, <2>1 DEF Seen
  <2> QED
    BY <2>1, <2>2
<1>3. CASE Crash
  <2>1. ~Appending' /\ born' = born
    BY <1>3 DEF Crash, Appending, origin
  <2> QED
    BY <1>1, <2>1 DEF Seen
<1>4. ASSUME ~Append, ~Crash PROVE Appending' => Appending
  <2> USE DEF Appending, memory
  <2>1. CASE Prune
    BY <2>1 DEF Prune, PruneDrained, PruneExpired, PruneOldest, PruneDone,
                RemoveSegment, RemoveFails, PruneOffsets, PruneLosses,
                LossJournalFails, JournalFails, Evict
  <2>2. CASE Recover
    BY <2>2 DEF Recover, Open, FinishDiscard, FinishedDiscard,
                RecoverOffsets, RecoverLosses, StartPrune
  <2>3. CASE Tick \/ ReuseSegment \/ CreateSegment \/ WriteRecord \/ WriteFails
    BY <2>3 DEF Tick, ReuseSegment, CreateSegment, WriteRecord, WriteFails
  <2>4. CASE \/ ReadPending("readCurrent") \/ ReadPending("readReplay")
             \/ ReadBatch \/ HubStores \/ AnswerLost
    BY <2>4 DEF ReadPending, StartPrune, ReadBatch, HubStores, AnswerLost
  <2>5. CASE Ack \/ Quarantine \/ SettleFails
    BY <2>5 DEF Ack, StartPrune, Quarantine, SettleFails
  <2>6. CASE ReadLosses \/ HubLearnsLosses \/ StatusLost \/ AckLossesPrefix
    BY <2>6 DEF ReadLosses, HubLearnsLosses, StatusLost, AckLossesPrefix
  <2> QED
    BY <1>4, <2>1, <2>2, <2>3, <2>4, <2>5, <2>6 DEF Next
<1>5. CASE ~Append /\ ~Crash
  <2>1. born' = born /\ incoming' = incoming
    BY <1>5, Writers
  <2> QED
    BY <1>1, <1>4, <1>5, <2>1 DEF Seen
<1> QED
  BY <1>2, <1>3, <1>5

(* The record being written is new, and it is seen once it is written.     *)
LEMMA Fresh ==
    ASSUME TypeInv, Numbering, pc \in {"append", "write"}
    PROVE  /\ incoming \in Record /\ incoming \notin Seen
           /\ \A r \in Seen : r < incoming
           /\ incoming = born
<1>1. Appending /\ incoming \in Record /\ incoming = born
  BY DEF TypeInv, OperationOK, Appending, Numbering
<1> QED
  BY <1>1, SpoolAssumption DEF Seen, Record

LEMMA Written ==
    ASSUME TypeInv, Numbering, pc = "write", born' = born,
           pc' \in {"idle", "down"}
    PROVE  incoming \in Seen'
<1>1. incoming = born /\ incoming \in Record /\ ~Appending'
  BY Fresh DEF Appending
<1> QED
  BY <1>1, SpoolAssumption DEF Seen, Record

-----------------------------------------------------------------------------
(* The directory.                                                          *)
LEMMA PutKeepsDirectory ==
    ASSUME TypeInv, Directory, Numbering, pc = "write", PutRecord,
           bootOf[active] = bootOf[incoming], UNCHANGED <<segs, bootOf>>
    PROVE  Directory'
<1>1. active \in segs /\ segs \subseteq Record /\ recs \in [Record -> SUBSET Record]
  BY DEF TypeInv, TypeOK, OperationOK, DiskType
<1>2. \A n \in Record : incoming \notin recs[n]
  BY Fresh DEF Numbering
<1>3. \A n \in Record : recs'[n] = IF n = active THEN recs[n] \cup {incoming}
                                                 ELSE recs[n]
  BY <1>1 DEF PutRecord
<1>4. \A n \in Record \ segs : recs'[n] = {}
  BY <1>1, <1>3 DEF Directory
<1>5. ASSUME NEW n \in Record, NEW m \in Record, n # m, NEW r \in recs'[n]
      PROVE  r \notin recs'[m]
  <2>1. r \in recs[n] => r \notin recs[m]
    BY <1>5 DEF Directory
  <2>2. CASE n = active
    BY <1>2, <1>3, <1>5, <2>1, <2>2
  <2>3. CASE n # active
    BY <1>2, <1>3, <1>5, <2>1, <2>3
  <2> QED
    BY <2>2, <2>3
<1>6. ASSUME NEW n \in segs, NEW r \in recs'[n]
      PROVE  bootOf[r] = bootOf[n]
  <2>1. CASE r \in recs[n]
    BY <2>1 DEF Directory
  <2>2. CASE n = active /\ r = incoming
    BY <2>2
  <2> QED
    BY <1>1, <1>3, <2>1, <2>2
<1> QED
  BY <1>4, <1>5, <1>6 DEF Directory

LEMMA CutKeepsDirectory ==
    ASSUME TypeInv, Directory, NEW n \in segs, segs' = segs \ {n},
           recs' = [recs EXCEPT ![n] = {}], UNCHANGED bootOf
    PROVE  Directory'
<1>1. segs \subseteq Record /\ recs \in [Record -> SUBSET Record]
  BY DEF TypeInv, TypeOK, DiskType
<1>2. \A m \in Record : recs'[m] = IF m = n THEN {} ELSE recs[m]
  BY <1>1
<1> QED
  BY <1>1, <1>2 DEF Directory

LEMMA DirectoryStep ==
    ASSUME TypeInv, Directory, Numbering, Evictions, TornTail, Next
    PROVE  Directory'
<1>1. CASE RemoveSegment
  BY <1>1, CutKeepsDirectory DEF RemoveSegment, Evictions, origin
<1>2. CASE FinishDiscard
  BY <1>2, CutKeepsDirectory DEF FinishDiscard, IsFirst, origin
<1>3. CASE CreateSegment
  <2>1. segs' = segs \cup {incoming} /\ UNCHANGED <<recs, bootOf>>
    BY <1>3 DEF CreateSegment, origin
  <2>2. incoming \in Record /\ incoming \notin segs
    BY <1>3, Fresh DEF CreateSegment, Numbering
  <2> QED
    BY <2>1, <2>2 DEF Directory
<1>4. CASE Append
  <2>1. segs \subseteq Seen /\ \A n \in Record : recs[n] \subseteq Seen
    BY <1>4 DEF Append, Ready, Numbering
  <2>2. \A r \in Seen : r \in Record /\ r # born + 1
    BY SpoolAssumption DEF Seen, Record, TypeInv, TypeOK, OriginType
  <2>3. \A r \in Seen : bootOf'[r] = bootOf[r]
    BY <1>4, <2>2 DEF Append, TypeInv, TypeOK, OriginType
  <2> QED
    BY <1>4, <2>1, <2>2, <2>3 DEF Append, disk, Directory
<1>5. CASE UNCHANGED <<segs, recs, bootOf>>
  BY <1>5 DEF Directory
<1>6. CASE WriteRecord \/ WriteFails \/ Crash
  <2>1. UNCHANGED <<segs, bootOf>> /\ (UNCHANGED recs \/ (pc = "write" /\ PutRecord))
    <3>1. CASE WriteRecord
      BY <3>1 DEF WriteRecord, origin
    <3>2. CASE WriteFails
      BY <3>2 DEF WriteFails, TearRecord, origin
    <3>3. CASE Crash
      BY <3>3 DEF Crash, TearRecord, origin
    <3> QED
      BY <1>6, <3>1, <3>2, <3>3
  <2> QED
    BY <1>5, <2>1, PutKeepsDirectory DEF TornTail
<1> QED
  BY <1>1, <1>2, <1>3, <1>4, <1>5, <1>6, Writers

-----------------------------------------------------------------------------
(* What ReadPending hands out.                                             *)
LEMMA BatchRead ==
    ReadBatch => \/ UNCHANGED cursor
                 \/ \E n \in segs : \E r \in Unacked(n) : cursor' = BatchUpTo(n, r)
  BY DEF ReadBatch, Sendable

(* Record numbers.                                                         *)
LEMMA NumberingStep ==
    ASSUME TypeInv, Numbering, Evictions, Next
    PROVE  Numbering'
<1>1. Seen \subseteq Seen' /\ (Appending' => incoming' = born')
  BY SeenGrows DEF Numbering
<1>2. /\ segs \subseteq Record /\ recs \in [Record -> SUBSET Record]
      /\ offsets \in [Record -> 0 .. MaxRecords]
  BY DEF TypeInv, TypeOK, DiskType, JournalType
<1>3. segs' \subseteq Seen' \cup (IF pc' = "write" THEN {incoming'} ELSE {})
  <2>1. CASE pc = "write"
    <3>1. CASE UNCHANGED <<pc, segs, incoming>>
      BY <1>1, <3>1 DEF Numbering
    <3>2. CASE ~UNCHANGED <<pc, segs, incoming>>
      <4>1. WriteRecord \/ WriteFails \/ Crash
        BY <2>1, <3>2 DEF Next, Prune, Recover, PruneDrained, PruneExpired,
           PruneOldest, PruneDone, RemoveSegment, RemoveFails, PruneOffsets,
           PruneLosses, LossJournalFails, JournalFails, Open, FinishDiscard,
           FinishedDiscard, RecoverOffsets, RecoverLosses, Tick, Append,
           ReuseSegment, CreateSegment, ReadPending, ReadBatch, HubStores,
           AnswerLost, Ack, Quarantine, SettleFails, ReadLosses,
           HubLearnsLosses, StatusLost, AckLossesPrefix, Ready, disk, memory
      <4>2. segs' = segs /\ born' = born /\ pc' \in {"idle", "down"}
        BY <4>1 DEF WriteRecord, WriteFails, Crash, origin
      <4> QED
        BY <1>1, <2>1, <4>2, Written DEF Numbering
    <3> QED
      BY <3>1, <3>2
  <2>2. CASE pc # "write"
    <3>1. CASE CreateSegment
      BY <1>1, <2>2, <3>1 DEF CreateSegment, Numbering
    <3>2. CASE segs' \subseteq segs
      BY <1>1, <2>2, <3>2 DEF Numbering
    <3> QED
      BY <3>1, <3>2, Writers DEF RemoveSegment, FinishDiscard
  <2> QED
    BY <2>1, <2>2
<1>4. \A n \in Record : recs'[n] \subseteq Seen'
  <2>1. CASE UNCHANGED recs
    BY <1>1, <2>1 DEF Numbering
  <2>2. CASE RemoveSegment \/ FinishDiscard
    BY <1>1, <1>2, <2>2 DEF RemoveSegment, FinishDiscard, Numbering
  <2>3. CASE pc = "write" /\ PutRecord /\ (WriteRecord \/ WriteFails \/ Crash)
    <3>1. born' = born /\ pc' \in {"idle", "down"}
      BY <2>3 DEF WriteRecord, WriteFails, Crash, origin
    <3>2. \A n \in Record : recs'[n] \subseteq recs[n] \cup {incoming}
      BY <1>2, <2>3 DEF PutRecord
    <3> QED
      BY <1>1, <2>3, <3>1, <3>2, Written DEF Numbering
  <2> QED
    BY <2>1, <2>2, <2>3, Writers DEF WriteRecord, WriteFails, Crash, TearRecord
<1>5. \A n \in Record \ Seen' : offsets'[n] = 0
  <2>1. \A n \in Record \ Seen : offsets'[n] = 0
    <3>1. CASE UNCHANGED offsets
      BY <3>1 DEF Numbering
    <3>2. CASE PruneOffsets \/ RecoverOffsets
      BY <1>2, <3>2 DEF PruneOffsets, RecoverOffsets, Numbering
    <3>3. CASE Ack
      BY <1>2, <3>3 DEF Ack, CursorMatches, Numbering, Ready
    <3> QED
      BY <3>1, <3>2, <3>3, Writers
  <2> QED
    BY <1>1, <2>1
<1>6. discarded' \subseteq Seen'
  <2>1. CASE PruneExpired \/ PruneOldest
    BY <1>1, <2>1 DEF PruneExpired, PruneOldest, RecordSegmentLoss, IsFirst,
                      lossesFile, Numbering
  <2>2. CASE discarded' \subseteq discarded
    BY <1>1, <2>2 DEF Numbering
  <2> QED
    BY <2>1, <2>2, Writers DEF PruneLosses, RecoverLosses
<1>7. (acked \cup Counted \cup cursor.recs)' \subseteq Seen'
  <2>1. acked' \subseteq acked \cup cursor.recs
    BY Writers DEF Ack
  <2>2. Counted' \subseteq Counted \cup UNION {Unacked(n) : n \in segs}
    <3>1. CASE PruneExpired \/ PruneOldest
      BY <3>1 DEF PruneExpired, PruneOldest, Evict, RecordSegmentLoss, IsFirst,
                  lossesFile, Counted
    <3>2. CASE AckLossesPrefix
      BY <3>2 DEF AckLossesPrefix, Intervals, Counted
    <3>3. CASE UNCHANGED <<pending, reported>>
      BY <3>3 DEF Counted
    <3> QED
      BY <3>1, <3>2, <3>3, Writers
  <2>3. cursor'.recs \subseteq cursor.recs \cup UNION {Unacked(n) : n \in segs}
    <3>1. CASE ReadBatch
      BY <3>1, BatchRead DEF BatchUpTo
    <3>2. CASE cursor' = NoCursor
      BY <3>2 DEF NoCursor
    <3>3. CASE UNCHANGED cursor
      BY <3>3
    <3> QED
      BY <3>1, <3>2, <3>3, Writers DEF AnswerLost, Ack, Quarantine, SettleFails, Crash
  <2>4. UNION {Unacked(n) : n \in segs} \subseteq Seen
    BY <1>2 DEF Unacked, Numbering
  <2> QED
    BY <1>1, <2>1, <2>2, <2>3, <2>4 DEF Numbering
<1>8. cursor'.seg \in Seen' \cup {0}
  <2>1. CASE ReadBatch
    <3>1. segs \subseteq Seen
      BY <2>1 DEF ReadBatch, Numbering
    <3> QED
      BY <1>1, <2>1, <3>1, BatchRead DEF BatchUpTo, Numbering
  <2>2. CASE cursor' = NoCursor
    BY <2>2 DEF NoCursor
  <2>3. CASE UNCHANGED cursor
    BY <1>1, <2>3 DEF Numbering
  <2> QED
    BY <2>1, <2>2, <2>3, Writers DEF AnswerLost, Ack, Quarantine, SettleFails, Crash
<1> QED
  BY <1>1, <1>3, <1>4, <1>5, <1>6, <1>7, <1>8 DEF Numbering

-----------------------------------------------------------------------------
(* Acknowledged prefixes.                                                  *)
LEMMA PutKeepsPrefixes ==
    ASSUME TypeInv, Numbering, Directory, Prefixes, pc = "write", PutRecord,
           UNCHANGED <<segs, offsets, acked>>
    PROVE  Prefixes'
<1>1. /\ active \in segs /\ segs \subseteq Record
      /\ recs \in [Record -> SUBSET Record]
      /\ \A n \in Record : offsets[n] \in Nat
  BY SpoolAssumption DEF TypeInv, TypeOK, OperationOK, DiskType, JournalType
<1>2. /\ incoming \in Nat /\ incoming \notin acked
      /\ \A r \in Seen : r < incoming
  BY Fresh, SpoolAssumption DEF Numbering, Record
<1>3. \A n \in Record : recs'[n] = IF n = active THEN recs[n] \cup {incoming}
                                                 ELSE recs[n]
  BY <1>1 DEF PutRecord
<1>4. offsets[active] < incoming
  <2>1. CASE offsets[active] = 0
    BY <2>1, Fresh, SpoolAssumption DEF Record
  <2>2. CASE offsets[active] \in recs[active]
    BY <1>1, <1>2, <2>2 DEF Numbering
  <2> QED
    BY <1>1, <2>1, <2>2 DEF Prefixes
<1>5. ASSUME NEW n \in segs
      PROVE  offsets[n] = 0 \/ offsets[n] \in recs'[n]
  BY <1>1, <1>3 DEF Prefixes
<1>6. ASSUME NEW n \in segs, NEW r \in recs'[n]
      PROVE  r \in acked <=> r <= offsets[n]
  <2>1. CASE r \in recs[n]
    BY <2>1 DEF Prefixes
  <2>2. CASE n = active /\ r = incoming
    BY <1>1, <1>2, <1>4, <2>2
  <2> QED
    BY <1>1, <1>3, <2>1, <2>2
<1> QED
  BY <1>5, <1>6 DEF Prefixes

(* An acknowledgement moves the offset of one segment over one batch.      *)
LEMMA AckSettles ==
    ASSUME TypeInv, Directory, Prefixes, CursorOK, Ack
    PROVE  \/ UNCHANGED <<offsets, acked>>
           \/ /\ cursor.seg \in segs
              /\ cursor.recs \subseteq recs[cursor.seg]
              /\ offsets' = [offsets EXCEPT ![cursor.seg] = cursor.end]
              /\ acked' = acked \cup cursor.recs
              /\ cursor.end \in recs[cursor.seg]
              /\ \A r \in recs[cursor.seg] :
                    r \in acked \cup cursor.recs <=> r <= cursor.end
<1> SUFFICES ASSUME cursor.seg \in segs, offsets[cursor.seg] = cursor.start,
                    offsets' = [offsets EXCEPT ![cursor.seg] = cursor.end],
                    acked' = acked \cup cursor.recs
             PROVE  /\ cursor.recs \subseteq recs[cursor.seg]
                    /\ cursor.end \in recs[cursor.seg]
                    /\ \A r \in recs[cursor.seg] :
                          r \in acked \cup cursor.recs <=> r <= cursor.end
  BY DEF Ack, CursorMatches
<1>1. /\ cursor.end \in cursor.recs
      /\ cursor.recs = {r \in recs[cursor.seg] :
                           cursor.start < r /\ r <= cursor.end}
  BY DEF CursorOK
<1>2. \A r \in recs[cursor.seg] : r \in Nat
  <2>1. recs[cursor.seg] \subseteq Record
    BY DEF TypeInv, TypeOK, DiskType
  <2> QED
    BY <2>1, SpoolAssumption DEF Record
<1>3. cursor.start \in Nat
  BY SpoolAssumption DEF TypeInv, TypeOK, CallerType
<1>4. \A r \in recs[cursor.seg] : r \in acked <=> r <= cursor.start
  BY DEF Prefixes
<1> QED
  BY <1>1, <1>2, <1>3, <1>4

LEMMA PrefixesStep ==
    ASSUME TypeInv, Directory, Numbering, Prefixes, CursorOK, Evictions, Next
    PROVE  Prefixes'
<1>1. /\ segs \subseteq Record /\ recs \in [Record -> SUBSET Record]
      /\ offsets \in [Record -> 0 .. MaxRecords]
  BY DEF TypeInv, TypeOK, DiskType, JournalType
<1>2. CASE RemoveSegment
  BY <1>1, <1>2 DEF RemoveSegment, offsetsFile, history, Prefixes
<1>3. CASE FinishDiscard
  BY <1>1, <1>3 DEF FinishDiscard, offsetsFile, history, Prefixes
<1>4. CASE CreateSegment
  <2>1. /\ segs' = segs \cup {incoming}
        /\ UNCHANGED <<recs, offsets, acked>>
    BY <1>4 DEF CreateSegment, offsetsFile, history
  <2>2. incoming \in Record /\ offsets[incoming] = 0 /\ recs[incoming] = {}
    BY <1>4, Fresh DEF CreateSegment, Numbering, Directory
  <2> QED
    BY <2>1, <2>2 DEF Prefixes
<1>5. CASE PruneOffsets
  <2>1. /\ offsets' = [offsets EXCEPT ![victim] = 0] /\ victim \notin segs
        /\ UNCHANGED <<segs, recs, acked>>
    BY <1>5 DEF PruneOffsets, Evictions, disk, history
  <2> QED
    BY <1>1, <2>1 DEF Prefixes
<1>6. CASE RecoverOffsets
  BY <1>1, <1>6 DEF RecoverOffsets, disk, history, Prefixes
<1>7. CASE Ack
  <2>1. UNCHANGED <<segs, recs>>
    BY <1>7 DEF Ack, disk
  <2>2. CASE UNCHANGED <<offsets, acked>>
    BY <2>1, <2>2 DEF Prefixes
  <2>3. CASE ~UNCHANGED <<offsets, acked>>
    <3> DEFINE c == cursor.seg
    <3>1. /\ c \in segs /\ cursor.recs \subseteq recs[c]
          /\ offsets' = [offsets EXCEPT ![c] = cursor.end]
          /\ acked' = acked \cup cursor.recs
          /\ cursor.end \in recs[c]
          /\ \A r \in recs[c] : r \in acked \cup cursor.recs <=> r <= cursor.end
      BY <1>7, <2>3, AckSettles
    <3>2. \A n \in segs \ {c} : offsets'[n] = offsets[n]
      BY <1>1, <3>1
    <3>3. offsets'[c] = cursor.end
      BY <1>1, <3>1
    <3>4. \A n \in segs \ {c} : \A r \in recs[n] : r \in acked' <=> r \in acked
      BY <1>1, <3>1 DEF Directory
    <3> QED
      BY <2>1, <3>1, <3>2, <3>3, <3>4 DEF Prefixes
  <2> QED
    BY <2>2, <2>3
<1>8. CASE UNCHANGED <<segs, recs, offsets, acked>>
  BY <1>8 DEF Prefixes
<1>9. CASE WriteRecord \/ WriteFails \/ Crash
  <2>1. /\ UNCHANGED <<segs, offsets, acked>>
        /\ UNCHANGED recs \/ (pc = "write" /\ PutRecord)
    <3>1. CASE WriteRecord
      BY <3>1 DEF WriteRecord, offsetsFile
    <3>2. CASE WriteFails
      BY <3>2 DEF WriteFails, TearRecord, offsetsFile, history
    <3>3. CASE Crash
      BY <3>3 DEF Crash, TearRecord, offsetsFile, history
    <3> QED
      BY <1>9, <3>1, <3>2, <3>3
  <2> QED
    BY <1>8, <2>1, PutKeepsPrefixes
<1> QED
  BY <1>2, <1>3, <1>4, <1>5, <1>6, <1>7, <1>8, <1>9, Writers

-----------------------------------------------------------------------------
(* The caller's batch.                                                     *)
LEMMA CursorStep ==
    ASSUME TypeInv, Directory, Numbering, CursorOK, Next
    PROVE  CursorOK'
<1>1. /\ segs \subseteq Record /\ recs \in [Record -> SUBSET Record]
      /\ 0 \notin Record
  BY SpoolAssumption DEF TypeInv, TypeOK, DiskType, Record
<1>2. CASE ReadBatch
  <2>1. UNCHANGED <<segs, recs>>
    BY <1>2 DEF ReadBatch, disk
  <2>2. ASSUME NEW n \in segs, NEW r \in Unacked(n), cursor' = BatchUpTo(n, r)
        PROVE  CursorOK'
    <3>1. r \in recs[n] /\ r > offsets[n] /\ r \in Nat /\ offsets[n] \in Nat
      BY <1>1, SpoolAssumption
         DEF Unacked, Record, TypeInv, TypeOK, JournalType
    <3>2. /\ cursor'.seg = n /\ cursor'.end = r /\ cursor'.start = offsets[n]
          /\ cursor'.recs = {q \in recs[n] : q > offsets[n] /\ q <= r}
      BY <2>2 DEF BatchUpTo, Unacked
    <3>3. n # 0 /\ cursor' # NoCursor
      BY <1>1, <3>2 DEF NoCursor
    <3>4. \A q \in recs[n] : q > offsets[n] <=> offsets[n] < q
      BY <1>1, <3>1, SpoolAssumption DEF Record
    <3> QED
      BY <2>1, <3>1, <3>2, <3>3, <3>4 DEF CursorOK
  <2>3. CASE UNCHANGED cursor
    BY <2>1, <2>3 DEF CursorOK
  <2> QED
    BY <1>2, <2>2, <2>3, BatchRead
<1>3. CASE cursor' = NoCursor
  <2>1. cursor'.seg = 0 /\ 0 \notin segs'
    BY <1>1, <1>3, TypeStep DEF NoCursor, TypeInv, TypeOK, DiskType
  <2> QED
    BY <1>3, <2>1 DEF CursorOK
<1>4. CASE UNCHANGED <<cursor, segs, recs>>
  BY <1>4 DEF CursorOK
<1>5. CASE RemoveSegment \/ FinishDiscard
  <2>1. /\ UNCHANGED cursor /\ segs' \subseteq segs
        /\ \A n \in segs' : recs'[n] = recs[n]
    BY <1>1, <1>5 DEF RemoveSegment, FinishDiscard, caller
  <2> QED
    BY <2>1 DEF CursorOK
<1>6. CASE CreateSegment
  <2>1. /\ UNCHANGED <<cursor, recs>> /\ segs' = segs \cup {incoming}
    BY <1>6 DEF CreateSegment, caller
  <2>2. cursor.seg # incoming
    BY <1>6, Fresh, <1>1 DEF CreateSegment, Numbering
  <2> QED
    BY <2>1, <2>2 DEF CursorOK
<1>7. CASE WriteRecord \/ WriteFails
  <2>1. /\ UNCHANGED <<segs, cursor>>
        /\ pc = "write" /\ (UNCHANGED recs \/ PutRecord)
    BY <1>7 DEF WriteRecord, WriteFails, TearRecord, caller
  <2>2. CASE PutRecord /\ cursor.seg = active /\ active \in segs
    <3>1. recs'[active] = recs[active] \cup {incoming}
      BY <1>1, <2>2 DEF PutRecord
    <3>2. cursor.end \in Nat /\ incoming \in Nat /\ cursor.end < incoming
      BY <2>1, <2>2, Fresh, SpoolAssumption DEF CursorOK, Numbering, Record, Seen
    <3>3. ~(incoming <= cursor.end)
      BY <3>2
    <3> QED
      BY <2>1, <2>2, <3>1, <3>3 DEF CursorOK
  <2>3. CASE PutRecord /\ cursor.seg # active
    <3>1. cursor.seg \in segs => recs'[cursor.seg] = recs[cursor.seg]
      BY <1>1, <2>3 DEF PutRecord
    <3> QED
      BY <2>1, <3>1 DEF CursorOK
  <2> QED
    BY <1>4, <2>1, <2>2, <2>3 DEF TypeInv, OperationOK
<1> QED
  BY <1>2, <1>3, <1>4, <1>5, <1>6, <1>7, Writers
     DEF AnswerLost, Ack, Quarantine, SettleFails, Crash

-----------------------------------------------------------------------------
(* Evictions.  The journal entry of a victim names what it still owes.     *)
LEMMA LossRecorded ==
    ASSUME TypeInv, Numbering, Evictions, PruneExpired \/ PruneOldest
    PROVE  \E n \in segs :
              /\ pc = "prune" /\ n \notin discarded
              /\ pc' = "remove" /\ victim' = n
              /\ revision' = revision + 1
              /\ pending' = pending \cup Unacked(n)
              /\ discarded' = discarded \cup {n}
              /\ recounted' = recounted \cup (Unacked(n) \cap Counted)
              /\ UNCHANGED <<segs, recs, offsets, acked, reported, fault>>
<1>1. PICK n \in segs : /\ \E reason \in {"spool_age", "spool_capacity"} :
                              Evict(n, reason)
                        /\ RecordSegmentLoss(n) /\ pc = "prune"
  BY DEF PruneExpired, PruneOldest, IsFirst
<1>2. n \notin discarded
  BY <1>1 DEF Evictions
<1> QED
  BY <1>1, <1>2 DEF RecordSegmentLoss, Evict, disk, offsetsFile

(* The effect of Append's write, whole, partial or lost.                   *)
LEMMA WriteEffect ==
    ASSUME TypeInv, pc = "write", WriteRecord \/ WriteFails \/ Crash
    PROVE  /\ UNCHANGED <<segs, offsets, pending, discarded, reported, acked>>
           /\ pc' \in {"idle", "down"}
           /\ active \in segs /\ segs \subseteq Record
           /\ \A n \in Record : recs'[n] = recs[n]
                 \/ (n = active /\ recs'[n] = recs[n] \cup {incoming})
<1>1. /\ active \in segs /\ segs \subseteq Record
      /\ recs \in [Record -> SUBSET Record]
  BY DEF TypeInv, TypeOK, OperationOK, DiskType
<1> USE DEF TearRecord, PutRecord, offsetsFile, lossesFile, history
<1>2. CASE WriteRecord
  BY <1>1, <1>2 DEF WriteRecord
<1>3. CASE WriteFails
  BY <1>1, <1>3 DEF WriteFails
<1>4. CASE Crash
  BY <1>1, <1>4 DEF Crash
<1> QED
  BY <1>2, <1>3, <1>4

(* What a crash leaves is never refused.                                   *)
LEMMA Readable ==
    ASSUME TypeInv, Directory, Prefixes, TornTail
    PROVE  ~Unreadable
<1>1. \A n \in segs : \A r, q \in recs[n] : bootOf[r] = bootOf[q]
  BY DEF Directory
<1>2. \A n \in segs : offsets[n] = 0 \/ offsets[n] \in recs[n]
  BY DEF Prefixes
<1>3. \A n \in torn : IsLast(n, segs)
  BY DEF TornTail
<1> QED
  BY <1>1, <1>2, <1>3 DEF Unreadable

LEMMA EvictionsStep ==
    ASSUME "remove" \notin Failing, TypeInv, Directory, Numbering, Prefixes,
           Evictions, CursorOK, TornTail, Next
    PROVE  Evictions'
<1>1. /\ segs \subseteq Record /\ recs \in [Record -> SUBSET Record]
      /\ offsets \in [Record -> 0 .. MaxRecords]
  BY DEF TypeInv, TypeOK, DiskType, JournalType
<1>2. CASE PruneExpired \/ PruneOldest
  <2>1. PICK n \in segs :
              /\ pc = "prune" /\ n \notin discarded
              /\ pc' = "remove" /\ victim' = n
              /\ pending' = pending \cup Unacked(n)
              /\ discarded' = discarded \cup {n}
              /\ UNCHANGED <<segs, recs, offsets, reported>>
    BY <1>2, LossRecorded
  <2>2. segs \cap discarded = {}
    BY <2>1 DEF Evictions
  <2>3. \A m \in segs \ discarded' : recs[m] \cap Unacked(n) = {}
    BY <1>1, <2>1 DEF Unacked, Directory
  <2>4. \A m \in segs : Unacked(m)' = Unacked(m)
    BY <2>1 DEF Unacked
  <2> QED
    BY <2>1, <2>2, <2>3, <2>4 DEF Evictions, Counted
<1>3. CASE PruneDrained
  <2>1. PICK n \in segs : /\ Unacked(n) = {} /\ pc = "prune"
                          /\ pc' = "remove" /\ victim' = n
                          /\ UNCHANGED <<segs, recs, offsets, reported, pending, discarded>>
    BY <1>3 DEF PruneDrained, Drained, IsFirst, Evict, disk, offsetsFile, lossesFile
  <2> QED
    BY <2>1 DEF Evictions, Counted, Unacked
<1>4. CASE RemoveSegment
  <2>1. /\ segs' = segs \ {victim} /\ pc' = "offsets" /\ pc = "remove"
        /\ \A n \in segs' : recs'[n] = recs[n]
        /\ UNCHANGED <<offsets, pending, reported, discarded, victim>>
    BY <1>1, <1>4 DEF RemoveSegment, offsetsFile, lossesFile, memory, history
  <2> QED
    BY <1>1, <2>1 DEF Evictions, Counted, Unacked
<1>5. CASE FinishDiscard
  <2>1. /\ segs' \subseteq segs /\ pc = "discard" /\ pc' = pc
        /\ \A n \in segs' : recs'[n] = recs[n]
        /\ UNCHANGED <<offsets, pending, reported, discarded>>
    BY <1>1, <1>5 DEF FinishDiscard, offsetsFile, lossesFile, history
  <2> QED
    BY <1>1, <2>1 DEF Evictions, Counted, Unacked
<1>6. CASE PruneOffsets \/ RecoverOffsets
  <2>1. /\ UNCHANGED <<segs, recs, pending, reported, discarded, victim>>
        /\ \A n \in segs : offsets'[n] = offsets[n]
    BY <1>1, <1>6 DEF PruneOffsets, RecoverOffsets, Evictions, disk,
                      lossesFile, memory, history
  <2>2. /\ pc' \in {"prune", "losses", "rlosses"}
        /\ pc' = "losses" => pc = "offsets"
        /\ pc \in {"offsets", "roffsets"}
    BY <1>6 DEF PruneOffsets, RecoverOffsets
  <2> QED
    BY <2>1, <2>2 DEF Evictions, Counted, Unacked
<1>7. CASE PruneLosses \/ RecoverLosses
  <2>1. /\ UNCHANGED <<segs, recs, offsets, pending, reported>>
        /\ discarded' \cap segs = discarded \cap segs
        /\ pc' = "prune" /\ pc \in {"losses", "rlosses"}
    BY <1>7 DEF PruneLosses, RecoverLosses, StartPrune, Evictions, disk,
                offsetsFile, history
  <2> QED
    BY <2>1 DEF Evictions, Counted, Unacked
<1>8. CASE FinishedDiscard
  BY <1>8 DEF FinishedDiscard, disk, offsetsFile, lossesFile, history,
              Evictions, Counted, Unacked
<1>9. CASE CreateSegment
  <2>1. /\ segs' = segs \cup {incoming} /\ pc = "append" /\ pc' = "write"
        /\ UNCHANGED <<recs, offsets, pending, reported, discarded>>
    BY <1>9 DEF CreateSegment, offsetsFile, lossesFile, history
  <2>2. incoming \notin discarded /\ recs[incoming] = {}
    BY <1>9, Fresh DEF CreateSegment, Numbering, Directory
  <2> QED
    BY <2>1, <2>2 DEF Evictions, Counted, Unacked
<1>10. CASE pc = "write" /\ (WriteRecord \/ WriteFails \/ Crash)
  <2>1. incoming \notin Counted /\ segs \cap discarded = {}
    BY <1>10, Fresh DEF Numbering, Evictions
  <2> QED
    BY <1>10, <2>1, WriteEffect DEF Evictions, Counted
<1>11. CASE pc # "write" /\ Crash
  BY <1>11 DEF Crash, offsetsFile, lossesFile, history, Evictions, Counted, Unacked
<1>12. CASE Ack
  <2>1. /\ UNCHANGED <<segs, recs, pending, reported, discarded>>
        /\ pc' \in {"idle", "prune"} /\ pc = "idle"
    BY <1>12 DEF Ack, Ready, StartPrune, disk, lossesFile
  <2> QED
    BY <2>1 DEF Evictions, Counted, Unacked
<1>13. CASE AckLossesPrefix
  <2>1. UNCHANGED <<segs, recs, offsets, discarded, victim, pc, Counted>>
    BY <1>13 DEF AckLossesPrefix, disk, offsetsFile, memory, Intervals, Counted
  <2> QED
    BY <2>1 DEF Evictions, Unacked
<1>14. ASSUME UNCHANGED <<segs, recs, offsets, pending, reported, discarded>>,
              pc' # "remove" \/ UNCHANGED <<pc, victim>>,
              pc' \in {"offsets", "losses"} => UNCHANGED <<pc, victim>>,
              pc \in {"down", "discard", "remove"} => pc' \in {"down", "discard", pc}
       PROVE  Evictions'
  BY <1>14 DEF Evictions, Counted, Unacked
<1> USE DEF disk, offsetsFile, lossesFile, memory, history
<1>15. CASE PruneDone
  BY <1>14, <1>15 DEF PruneDone, TypeInv, TypeOK, MemoryType
<1>16. CASE LossJournalFails \/ JournalFails \/ Tick
  BY <1>14, <1>16 DEF LossJournalFails, JournalFails, Tick
<1>17. CASE RemoveFails
  BY <1>17 DEF RemoveFails
<1>18. CASE Append \/ ReuseSegment
  BY <1>14, <1>18 DEF Append, ReuseSegment, StartPrune, Ready
<1>19. CASE ReadPending("readCurrent") \/ ReadPending("readReplay") \/ ReadBatch
  BY <1>14, <1>19 DEF ReadPending, StartPrune, Ready, ReadBatch
<1>20. CASE HubStores \/ AnswerLost \/ Quarantine \/ SettleFails
  BY <1>14, <1>20 DEF HubStores, AnswerLost, Quarantine, SettleFails, Ready
<1>21. CASE ReadLosses \/ HubLearnsLosses \/ StatusLost
  BY <1>14, <1>21 DEF ReadLosses, HubLearnsLosses, StatusLost
<1>22. CASE Open
  BY <1>14, <1>22, Readable DEF Open
<1> QED
  BY <1>2, <1>3, <1>4, <1>5, <1>6, <1>7, <1>8, <1>9, <1>10, <1>11, <1>12,
     <1>13, <1>15, <1>16, <1>17, <1>18, <1>19, <1>20, <1>21, <1>22
     DEF Next, Prune, Recover, WriteRecord, WriteFails

-----------------------------------------------------------------------------
(* Torn tails.                                                             *)
LEMMA TornTailStep ==
    ASSUME TypeInv, Directory, Numbering, Prefixes, TornTail, Next
    PROVE  TornTail'
<1>1. segs \subseteq Record /\ Record \subseteq Nat
  BY SpoolAssumption DEF TypeInv, TypeOK, DiskType, Record
<1>2. (fault => pc = "idle")'
  <2> USE DEF TornTail, memory
  <2>1. CASE Prune
    BY <2>1 DEF Prune, PruneDrained, PruneExpired, PruneOldest, PruneDone,
                RemoveSegment, RemoveFails, PruneOffsets, PruneLosses,
                LossJournalFails, JournalFails, Evict
  <2>2. CASE Recover
    BY <2>2 DEF Recover, Open, FinishDiscard, FinishedDiscard,
                RecoverOffsets, RecoverLosses, StartPrune
  <2>3. CASE \/ Crash \/ Tick \/ Append \/ ReuseSegment \/ CreateSegment
             \/ WriteRecord \/ WriteFails
    BY <2>3 DEF Crash, Tick, Append, StartPrune, Ready, ReuseSegment,
                CreateSegment, WriteRecord, WriteFails
  <2>4. CASE \/ ReadPending("readCurrent") \/ ReadPending("readReplay")
             \/ ReadBatch \/ HubStores \/ AnswerLost
    BY <2>4 DEF ReadPending, StartPrune, Ready, ReadBatch, HubStores, AnswerLost
  <2>5. CASE Ack \/ Quarantine \/ SettleFails
    BY <2>5 DEF Ack, StartPrune, Ready, Quarantine, SettleFails
  <2>6. CASE ReadLosses \/ HubLearnsLosses \/ StatusLost \/ AckLossesPrefix
    BY <2>6 DEF ReadLosses, HubLearnsLosses, StatusLost, AckLossesPrefix
  <2> QED
    BY <2>1, <2>2, <2>3, <2>4, <2>5, <2>6 DEF Next
<1>3. (torn # {} => fault \/ pc = "down")' /\ (\A n \in torn : IsLast(n, segs))'
  <2>1. CASE UNCHANGED <<segs, torn>>
    <3>1. torn # {} => fault' \/ pc' = "down"
      <4>1. CASE torn # {} /\ fault
        BY <4>1, Writers DEF TornTail, JournalFails, WriteFails, SettleFails, Crash
      <4>2. CASE torn # {} /\ ~fault
        <5>1. pc = "down"
          BY <4>2 DEF TornTail
        <5>2. pc' = "down" \/ Open
          BY <5>1 DEF Next, Prune, PruneDrained, PruneExpired, PruneOldest,
             PruneDone, RemoveSegment, RemoveFails, PruneOffsets, PruneLosses,
             LossJournalFails, JournalFails, Recover, FinishDiscard,
             FinishedDiscard, RecoverOffsets, RecoverLosses, Crash, Tick,
             Append, ReuseSegment, CreateSegment, WriteRecord, WriteFails,
             ReadPending, ReadBatch, HubStores, AnswerLost, Ack, Quarantine,
             SettleFails, ReadLosses, HubLearnsLosses, StatusLost,
             AckLossesPrefix, Ready
        <5> QED
          BY <2>1, <4>2, <5>2, Readable DEF Open
      <4> QED
        BY <4>1, <4>2
    <3> QED
      BY <2>1, <3>1 DEF TornTail, IsLast
  <2>2. CASE RemoveSegment \/ FinishDiscard \/ CreateSegment
    <3>1. torn = {} /\ torn' = torn
      BY <2>2 DEF RemoveSegment, FinishDiscard, CreateSegment, TornTail
    <3> QED
      BY <3>1
  <2>3. CASE Open
    BY <2>3, Readable DEF Open
  <2>4. CASE (WriteFails \/ Crash) /\ ~UNCHANGED torn
    <3>1. /\ torn' = torn \cup {active} /\ segs' = segs /\ pc = "write"
          /\ fault' = TRUE \/ pc' = "down"
      BY <2>4 DEF WriteFails, Crash, PutRecord, TearRecord
    <3> QED
      BY <3>1 DEF TornTail, IsLast
  <2> QED
    BY <2>1, <2>2, <2>3, <2>4, Writers
<1>4. (pc = "write" => IsLast(active, segs) /\ bootOf[active] = bootOf[incoming])'
  <2>1. CASE ReuseSegment
    BY <2>1 DEF ReuseSegment, CanReuse, IsLast, disk, memory, origin
  <2>2. CASE CreateSegment
    <3>1. incoming \in Nat /\ segs \subseteq Seen /\ \A m \in Seen : m < incoming
      BY <1>1, <2>2, Fresh DEF CreateSegment, Numbering
    <3>2. \A m \in segs \cup {incoming} : m <= incoming
      BY <1>1, <3>1
    <3> QED
      BY <2>2, <3>2 DEF CreateSegment, IsLast, origin
  <2>3. ASSUME UNCHANGED <<pc, active, incoming, segs, bootOf>>
        PROVE  (pc = "write" => IsLast(active, segs) /\ bootOf[active] = bootOf[incoming])'
    BY <2>3 DEF TornTail, IsLast
  <2> USE DEF disk, memory, origin
  <2>4. CASE Prune
    BY <2>4 DEF Prune, PruneDrained, PruneExpired, PruneOldest, PruneDone,
                RemoveSegment, RemoveFails, PruneOffsets, PruneLosses,
                LossJournalFails, JournalFails, Evict, TypeInv, TypeOK, MemoryType
  <2>5. CASE Recover
    BY <2>5 DEF Recover, Open, FinishDiscard, FinishedDiscard,
                RecoverOffsets, RecoverLosses, StartPrune
  <2>6. CASE Tick \/ Crash \/ Append \/ WriteRecord \/ WriteFails
    BY <2>3, <2>6 DEF Tick, Crash, Append, StartPrune, WriteRecord, WriteFails
  <2>7. CASE \/ ReadPending("readCurrent") \/ ReadPending("readReplay")
             \/ ReadBatch \/ HubStores \/ AnswerLost
    BY <2>3, <2>7 DEF ReadPending, StartPrune, ReadBatch, HubStores, AnswerLost
  <2>8. CASE Ack \/ Quarantine \/ SettleFails
    BY <2>8 DEF Ack, StartPrune, Ready, Quarantine, SettleFails
  <2>9. CASE ReadLosses \/ HubLearnsLosses \/ StatusLost \/ AckLossesPrefix
    BY <2>3, <2>9 DEF ReadLosses, HubLearnsLosses, StatusLost, AckLossesPrefix
  <2> QED
    BY <2>1, <2>2, <2>4, <2>5, <2>6, <2>7, <2>8, <2>9 DEF Next
<1> QED
  BY <1>2, <1>3, <1>4 DEF TornTail

-----------------------------------------------------------------------------
(* The status snapshot.                                                    *)
LEMMA SnapshotStep ==
    ASSUME TypeInv, Numbering, Evictions, SnapshotOK, Next
    PROVE  SnapshotOK'
<1>1. revision \in Nat /\ snapshot.revision \in Nat
  BY DEF TypeInv, TypeOK, JournalType, CallerType
<1>2. CASE ReadLosses
  <2>1. /\ snapshot'.revision = revision /\ UNCHANGED <<revision, pending>>
        /\ snapshot'.recs = Intervals(snapshot'.sources)
    BY <1>2 DEF ReadLosses, lossesFile
  <2> QED
    BY <1>1, <2>1 DEF SnapshotOK, Intervals
<1>3. CASE snapshot' = NoSnapshot
  BY <1>3 DEF SnapshotOK
<1>4. CASE UNCHANGED <<snapshot, revision, pending>>
  BY <1>4 DEF SnapshotOK, Intervals
<1>5. CASE UNCHANGED snapshot /\ (PruneExpired \/ PruneOldest)
  <2>1. revision' = revision + 1
    BY <1>5, LossRecorded
  <2> QED
    BY <1>1, <1>5, <2>1 DEF SnapshotOK
<1> QED
  BY <1>2, <1>3, <1>4, <1>5, Writers DEF StatusLost, AckLossesPrefix, Crash

-----------------------------------------------------------------------------
(* What becomes of a record.                                               *)
LEMMA FateStep ==
    ASSUME "remove" \notin Failing, TypeInv, Directory, Numbering, Prefixes,
           CursorOK, Evictions, TornTail, SnapshotOK, FateOK, Next
    PROVE  FateOK'
<1>1. /\ segs \subseteq Record /\ recs \in [Record -> SUBSET Record]
      /\ \A n \in segs : recs[n] \subseteq Nat /\ offsets[n] \in Nat
  <2>1. segs \subseteq Record /\ recs \in [Record -> SUBSET Record]
    BY DEF TypeInv, TypeOK, DiskType
  <2>2. \A n \in Record : offsets[n] \in Nat
    BY SpoolAssumption DEF TypeInv, TypeOK, JournalType
  <2> QED
    BY <2>1, <2>2, SpoolAssumption DEF Record
<1>2. \A n \in segs : recs[n] \subseteq acked \cup Unacked(n)
  BY <1>1 DEF Prefixes, Unacked
<1>3. \A n \in segs : Unacked(n) \cap acked = {}
  BY <1>1 DEF Prefixes, Unacked
<1>4. Counted \subseteq Counted'
  <2>1. CASE PruneExpired \/ PruneOldest
    BY <2>1, LossRecorded DEF Counted
  <2>2. CASE AckLossesPrefix
    BY <2>2 DEF AckLossesPrefix, Intervals, Counted
  <2>3. CASE UNCHANGED <<pending, reported>>
    BY <2>3 DEF Counted
  <2> QED
    BY <2>1, <2>2, <2>3, Writers
<1>5. acked \subseteq acked'
  BY Writers DEF Ack
<1>6. NoSilentLoss'
  <2>1. Retained \subseteq Retained' \cup acked \cup Counted
    <3>1. CASE UNCHANGED <<segs, recs>>
      BY <3>1 DEF Retained
    <3>2. ASSUME NEW n \in segs, segs' = segs \ {n},
                 recs' = [recs EXCEPT ![n] = {}],
                 recs[n] \subseteq acked \cup Counted
          PROVE  Retained \subseteq Retained' \cup acked \cup Counted
      <4>1. \A m \in segs' : recs'[m] = recs[m]
        BY <1>1, <3>2
      <4> QED
        BY <3>2, <4>1 DEF Retained
    <3>3. CASE RemoveSegment
      <4>1. victim \in segs /\ recs[victim] \subseteq acked \cup Counted
        BY <1>2, <3>3 DEF RemoveSegment, Evictions
      <4> QED
        BY <3>2, <3>3, <4>1 DEF RemoveSegment
    <3>4. CASE FinishDiscard
      <4>1. PICK n \in segs \cap discarded : /\ segs' = segs \ {n}
                                             /\ recs' = [recs EXCEPT ![n] = {}]
        BY <3>4 DEF FinishDiscard, IsFirst
      <4>2. recs[n] \subseteq acked \cup Counted
        BY <1>2 DEF Evictions
      <4> QED
        BY <3>2, <4>1, <4>2
    <3>5. CASE CreateSegment
      BY <3>5 DEF CreateSegment, Retained
    <3>6. CASE pc = "write" /\ (WriteRecord \/ WriteFails \/ Crash)
      BY <3>6, WriteEffect DEF Retained
    <3>7. CASE pc # "write" /\ Crash
      BY <3>7 DEF Crash, Retained
    <3> QED
      BY <3>1, <3>3, <3>4, <3>5, <3>6, <3>7, Writers DEF WriteRecord, WriteFails
  <2>2. durable' \subseteq durable \cup Retained'
    <3>1. CASE WriteRecord
      <4>1. /\ durable' = durable \cup {incoming} /\ segs' = segs
            /\ active \in segs /\ incoming \in recs'[active]
        BY <1>1, <3>1 DEF WriteRecord, PutRecord, TypeInv, OperationOK
      <4> QED
        BY <4>1 DEF Retained
    <3>2. CASE UNCHANGED durable
      BY <3>2
    <3> QED
      BY <3>1, <3>2, Writers
  <2> QED
    BY <1>4, <1>5, <2>1, <2>2 DEF FateOK, NoSilentLoss
<1>7. CountedOnce'
  <2>1. CASE PruneExpired \/ PruneOldest
    <3>1. PICK n \in segs : /\ n \notin discarded
                            /\ pending' = pending \cup Unacked(n)
                            /\ recounted' = recounted \cup (Unacked(n) \cap Counted)
                            /\ reported' = reported
      BY <2>1, LossRecorded
    <3>2. Unacked(n) \cap Counted = {}
      BY <3>1 DEF Evictions, Unacked
    <3> QED
      BY <3>1, <3>2 DEF FateOK, CountedOnce, Counted
  <2>2. CASE AckLossesPrefix
    BY <2>2 DEF AckLossesPrefix, Intervals, FateOK, CountedOnce
  <2>3. CASE UNCHANGED <<pending, reported, recounted>>
    BY <2>3 DEF FateOK, CountedOnce
  <2> QED
    BY <2>1, <2>2, <2>3, Writers
<1>8. LostNotAcked'
  <2>1. CASE PruneExpired \/ PruneOldest
    BY <1>3, <2>1, LossRecorded DEF FateOK, LostNotAcked, Counted
  <2>2. CASE AckLossesPrefix
    BY <2>2 DEF AckLossesPrefix, Intervals, Counted, FateOK, LostNotAcked
  <2>3. CASE Ack
    <3>1. UNCHANGED <<pending, reported>> /\ segs \cap discarded = {}
      BY <2>3 DEF Ack, Ready, lossesFile, Evictions
    <3>2. \/ acked' = acked
          \/ /\ cursor.seg \in segs
             /\ acked' \subseteq acked \cup recs[cursor.seg]
      BY <2>3, AckSettles
    <3> QED
      BY <3>1, <3>2 DEF Evictions, Counted, FateOK, LostNotAcked
  <2>4. CASE UNCHANGED <<pending, reported, acked>>
    BY <2>4 DEF Counted, FateOK, LostNotAcked
  <2> QED
    BY <2>1, <2>2, <2>3, <2>4, Writers
<1>9. (acked \subseteq hub)'
  <2>1. hub \subseteq hub'
    BY Writers DEF HubStores
  <2>2. acked' \subseteq hub
    BY Writers DEF Ack, FateOK
  <2> QED
    BY <2>1, <2>2
<1>10. DroppedIsTold'
  <2>1. told \subseteq told'
    BY Writers DEF HubLearnsLosses
  <2>2. reported' \subseteq told
    <3>1. CASE AckLossesPrefix
      BY <3>1 DEF AckLossesPrefix, SnapshotOK, FateOK, DroppedIsTold
    <3> QED
      BY <3>1, Writers DEF FateOK, DroppedIsTold
  <2> QED
    BY <2>1, <2>2 DEF DroppedIsTold
<1>11. AlwaysRecovers'
  <2>1. CASE Open
    BY <2>1, Readable DEF Open, AlwaysRecovers
  <2>2. CASE pc' = pc
    BY <2>2 DEF FateOK, AlwaysRecovers
  <2>3. CASE pc' # pc /\ ~Open
    BY <2>3 DEF AlwaysRecovers, Next, Prune, PruneDrained, PruneExpired,
       PruneOldest, PruneDone, RemoveSegment, RemoveFails, PruneOffsets,
       PruneLosses, LossJournalFails, JournalFails, Evict, Recover,
       FinishDiscard, FinishedDiscard, RecoverOffsets, RecoverLosses,
       StartPrune, Crash, Tick, Append, ReuseSegment, CreateSegment,
       WriteRecord, WriteFails, ReadPending, ReadBatch, HubStores, AnswerLost,
       Ack, Quarantine, SettleFails, ReadLosses, HubLearnsLosses, StatusLost,
       AckLossesPrefix, TypeInv, TypeOK, MemoryType
  <2> QED
    BY <2>1, <2>2, <2>3
<1> QED
  BY <1>6, <1>7, <1>8, <1>9, <1>10, <1>11 DEF FateOK

-----------------------------------------------------------------------------
(* The inductive invariant.                                                *)
LEMMA InvInit == Init => IInv
<1> SUFFICES ASSUME Init PROVE IInv
  OBVIOUS
<1>1. TypeInv
  BY TypeInit
<1> USE DEF Init
<1>2. Directory /\ Prefixes /\ Evictions /\ TornTail
  BY DEF Directory, Prefixes, Evictions, TornTail
<1>3. Numbering
  BY DEF Numbering, Appending, Counted, NoCursor
<1>4. CursorOK /\ SnapshotOK
  BY DEF CursorOK, NoCursor, SnapshotOK
<1>5. FateOK
  BY DEF FateOK, NoSilentLoss, CountedOnce, LostNotAcked, Counted, DroppedIsTold,
         AlwaysRecovers
<1> QED
  BY <1>1, <1>2, <1>3, <1>4, <1>5 DEF IInv

LEMMA InvStep ==
    "remove" \notin Failing => (IInv /\ [Next]_vars => IInv')
<1> SUFFICES ASSUME "remove" \notin Failing, IInv, [Next]_vars PROVE IInv'
  OBVIOUS
<1>1. TypeInv'
  BY TypeStep DEF IInv
<1>2. CASE Next
  <2>1. Directory' /\ Numbering' /\ Prefixes' /\ CursorOK'
    BY <1>2, DirectoryStep, NumberingStep, PrefixesStep, CursorStep DEF IInv
  <2>2. Evictions' /\ TornTail' /\ SnapshotOK'
    BY <1>2, EvictionsStep, TornTailStep, SnapshotStep DEF IInv
  <2>3. FateOK'
    BY <1>2, FateStep DEF IInv
  <2> QED
    BY <1>1, <2>1, <2>2, <2>3 DEF IInv
<1>3. CASE UNCHANGED vars
  <2> USE <1>3 DEF vars, disk, offsetsFile, lossesFile, memory, caller, origin,
                   history, IInv, FateOK
  <2>1. Directory' /\ Numbering'
    BY DEF Directory, Numbering, Seen, Appending, Counted
  <2>2. Prefixes' /\ CursorOK'
    BY DEF Prefixes, CursorOK
  <2>3. Evictions' /\ TornTail' /\ SnapshotOK'
    BY DEF Evictions, Unacked, Counted, TornTail, IsLast, SnapshotOK, Intervals
  <2>4. NoSilentLoss' /\ CountedOnce' /\ LostNotAcked'
    BY DEF NoSilentLoss, CountedOnce, LostNotAcked, Counted, Retained
  <2>5. (acked \subseteq hub)' /\ DroppedIsTold' /\ AlwaysRecovers'
    BY DEF DroppedIsTold, AlwaysRecovers
  <2> QED
    BY <1>1, <2>1, <2>2, <2>3, <2>4, <2>5
<1> QED
  BY <1>2, <1>3

THEOREM Inductive == "remove" \notin Failing => (Spec => []IInv)
<1> SUFFICES ASSUME "remove" \notin Failing PROVE Spec => []IInv
  OBVIOUS
<1>1. IInv /\ [Next]_vars => IInv'
  BY InvStep
<1> QED
  BY <1>1, InvInit, PTL DEF Spec

-----------------------------------------------------------------------------
(* When unlinking a file does not fail, no record whose Append returned    *)
(* disappears: it is acknowledged, on disk, or covered by a loss interval, *)
(* through every crash and every failed write.                             *)
THEOREM Retention == "remove" \notin Failing => (Spec => []NoSilentLoss)
<1> SUFFICES ASSUME "remove" \notin Failing PROVE Spec => []NoSilentLoss
  OBVIOUS
<1>1. IInv => NoSilentLoss
  BY DEF IInv, FateOK
<1> QED
  BY <1>1, Inductive, PTL

(* The loss journal counts a record at most once, and never one that was   *)
(* acknowledged.                                                           *)
THEOREM Accounting ==
    "remove" \notin Failing => (Spec => [](CountedOnce /\ LostNotAcked))
<1> SUFFICES ASSUME "remove" \notin Failing
             PROVE  Spec => [](CountedOnce /\ LostNotAcked)
  OBVIOUS
<1>1. IInv => CountedOnce /\ LostNotAcked
  BY DEF IInv, FateOK
<1> QED
  BY <1>1, Inductive, PTL

(* Every acknowledged record, by its offset or in the history, is stored   *)
(* by the hub.                                                             *)
THEOREM Acknowledgement == "remove" \notin Failing => (Spec => []AckedIsStored)
<1> SUFFICES ASSUME "remove" \notin Failing PROVE Spec => []AckedIsStored
  OBVIOUS
<1>1. IInv => AckedIsStored
  BY DEF IInv, FateOK, Prefixes, AckedIsStored
<1> QED
  BY <1>1, Inductive, PTL

(* A loss interval is dropped from the journal only when the hub has been  *)
(* told everything it covers.                                              *)
THEOREM LossReporting == "remove" \notin Failing => (Spec => []DroppedIsTold)
<1> SUFFICES ASSUME "remove" \notin Failing PROVE Spec => []DroppedIsTold
  OBVIOUS
<1>1. IInv => DroppedIsTold
  BY DEF IInv, FateOK
<1> QED
  BY <1>1, Inductive, PTL

(* No crash, failed write or torn tail makes recover refuse the directory. *)
THEOREM Recovery == "remove" \notin Failing => (Spec => []AlwaysRecovers)
<1> SUFFICES ASSUME "remove" \notin Failing PROVE Spec => []AlwaysRecovers
  OBVIOUS
<1>1. IInv => AlwaysRecovers
  BY DEF IInv, FateOK
<1> QED
  BY <1>1, Inductive, PTL

-----------------------------------------------------------------------------
(* The spool implements the evidence ledger.                               *)
LEMMA SameFate ==
    ASSUME UNCHANGED <<acked, Counted, Retained>>
    PROVE  UNCHANGED [r \in Record |-> FateOf(r)]
  BY DEF FateOf

LEMMA Moved ==
    ASSUME NEW S \in SUBSET Record,
           NEW from, NEW to,
           \A r \in S : FateOf(r) = from /\ FateOf(r)' = to,
           \A r \in Record \ S : FateOf(r)' = FateOf(r)
    PROVE  Ledger!Move(S, from, to)
  BY DEF Ledger!Move

LEMMA FateKept ==
    ASSUME NEW r \in Record,
           r \in acked' <=> r \in acked,
           r \in Counted' <=> r \in Counted,
           r \in acked \cup Counted \/ (r \in Retained' <=> r \in Retained)
    PROVE  FateOf(r)' = FateOf(r)
  BY DEF FateOf

LEMMA RefinementInit == Init => Ledger!Init
  BY DEF Init, Ledger!Init, FateOf, Counted, Retained

LEMMA RefinementStep ==
    ASSUME "remove" \notin Failing, IInv, IInv', [Next]_vars
    PROVE  [Ledger!Next]_([r \in Record |-> FateOf(r)])
<1>1. /\ segs \subseteq Record /\ recs \in [Record -> SUBSET Record]
      /\ \A n \in segs : recs[n] \subseteq Record
  BY DEF IInv, TypeInv, TypeOK, DiskType
<1>2. \A n \in segs : Unacked(n) \subseteq Record /\ Unacked(n) \cap acked = {}
  <2>1. \A n \in segs : \A r \in recs[n] : r \in Nat /\ offsets[n] \in Nat
    <3>1. \A n \in Record : offsets[n] \in Nat
      BY SpoolAssumption DEF IInv, TypeInv, TypeOK, JournalType
    <3> QED
      BY <1>1, <3>1, SpoolAssumption DEF Record
  <2> QED
    BY <1>1, <2>1 DEF Unacked, IInv, Prefixes
<1>3. CASE Ack
  <2>1. UNCHANGED <<segs, recs, Counted, Retained>>
    BY <1>3 DEF Ack, disk, lossesFile, Counted, Retained
  <2>2. CASE UNCHANGED acked
    BY <2>1, <2>2, SameFate
  <2>3. CASE ~UNCHANGED acked
    <3> DEFINE S == cursor.recs \ acked
    <3>1. /\ cursor.seg \in segs /\ cursor.recs \subseteq recs[cursor.seg]
          /\ acked' = acked \cup cursor.recs
      BY <1>3, <2>3, AckSettles DEF IInv
    <3>2. cursor.recs \cap Counted = {}
      BY <1>3, <3>1 DEF IInv, Evictions, Ack, Ready
    <3>3. \A r \in S : FateOf(r) = "retained" /\ FateOf(r)' = "delivered"
      BY <2>1, <3>1, <3>2 DEF FateOf, Retained
    <3>4. \A r \in Record \ S : FateOf(r)' = FateOf(r)
      BY <2>1, <3>1, FateKept
    <3>5. S \in SUBSET Record
      BY <1>1, <3>1
    <3> QED
      <4>1. Ledger!Move(S, "retained", "delivered")
        BY <3>3, <3>4, <3>5, Moved
      <4> QED
        BY <3>5, <4>1 DEF Ledger!Next, Ledger!Deliver
  <2> QED
    BY <2>2, <2>3
<1>4. CASE PruneExpired \/ PruneOldest
  <2>1. PICK n \in segs : /\ n \notin discarded
                          /\ pending' = pending \cup Unacked(n)
                          /\ UNCHANGED <<segs, recs, offsets, acked, reported>>
    BY <1>4, LossRecorded DEF IInv
  <2> DEFINE S == Unacked(n)
  <2>2. Counted' = Counted \cup S /\ Retained' = Retained /\ S \cap Counted = {}
    BY <2>1 DEF Counted, Retained, IInv, Evictions, Unacked
  <2>3. \A r \in S : FateOf(r) = "retained" /\ FateOf(r)' = "lost"
    BY <1>2, <2>1, <2>2 DEF FateOf, Retained, Unacked
  <2>4. \A r \in Record \ S : FateOf(r)' = FateOf(r)
    BY <2>1, <2>2, FateKept
  <2> QED
    <3>1. S \in SUBSET Record
      BY <1>2
    <3>2. Ledger!Move(S, "retained", "lost")
      BY <2>3, <2>4, <3>1, Moved
    <3> QED
      BY <3>1, <3>2 DEF Ledger!Next, Ledger!Lose
<1>5. CASE RemoveSegment \/ FinishDiscard
  <2>1. PICK n \in segs : /\ recs[n] \subseteq acked \cup Counted
                          /\ segs' = segs \ {n}
                          /\ recs' = [recs EXCEPT ![n] = {}]
    <3>1. \A n \in segs : recs[n] \subseteq acked \cup Unacked(n)
      <4>1. \A n \in segs : \A r \in recs[n] : r \in Nat /\ offsets[n] \in Nat
        <5>1. \A n \in Record : offsets[n] \in Nat
          BY SpoolAssumption DEF IInv, TypeInv, TypeOK, JournalType
        <5> QED
          BY <1>1, <5>1, SpoolAssumption DEF Record
      <4> QED
        BY <4>1 DEF IInv, Prefixes, Unacked
    <3>2. CASE RemoveSegment
      BY <3>1, <3>2 DEF RemoveSegment, IInv, Evictions
    <3>3. CASE FinishDiscard
      <4>1. PICK n \in segs \cap discarded : /\ segs' = segs \ {n}
                                             /\ recs' = [recs EXCEPT ![n] = {}]
        BY <3>3 DEF FinishDiscard, IsFirst
      <4> QED
        BY <3>1, <4>1 DEF IInv, Evictions
    <3> QED
      BY <1>5, <3>2, <3>3
  <2>2. UNCHANGED <<acked, Counted>>
    BY <1>5 DEF RemoveSegment, FinishDiscard, lossesFile, history, Counted
  <2>3. Retained' = Retained \ recs[n]
    <3>1. \A m \in segs' : recs'[m] = recs[m] /\ recs[m] \cap recs[n] = {}
      BY <1>1, <2>1 DEF IInv, Directory
    <3> QED
      BY <2>1, <3>1 DEF Retained
  <2>4. \A r \in Record : FateOf(r)' = FateOf(r)
    BY <2>1, <2>2, <2>3, FateKept
  <2> QED
    BY <2>4
<1>6. CASE pc = "write" /\ (WriteRecord \/ WriteFails \/ Crash)
  <2>1. /\ UNCHANGED <<segs, acked, Counted>> /\ active \in segs
        /\ \A n \in Record : recs'[n] = recs[n]
              \/ (n = active /\ recs'[n] = recs[n] \cup {incoming})
    BY <1>6, WriteEffect DEF IInv, Counted
  <2>2. CASE Retained' = Retained
    BY <2>1, <2>2, SameFate
  <2>3. CASE Retained' # Retained
    <3>1. Retained' = Retained \cup {incoming}
      BY <1>1, <2>1, <2>3 DEF Retained
    <3>2. PICK r \in Record : /\ r = incoming /\ r \notin Retained
                              /\ r \notin acked \cup Counted
      BY <1>1, <1>6, <2>3, <3>1, Fresh DEF IInv, Numbering
    <3>3. FateOf(r) = "unborn" /\ FateOf(r)' = "retained"
      BY <2>1, <3>1, <3>2 DEF FateOf
    <3>4. \A q \in Record \ {r} : FateOf(q)' = FateOf(q)
      BY <2>1, <3>1, <3>2, FateKept
    <3>5. Ledger!Move({r}, "unborn", "retained")
      BY <3>3, <3>4, Moved
    <3> QED
      BY <3>5 DEF Ledger!Next, Ledger!Store
  <2> QED
    BY <2>2, <2>3
<1>7. CASE CreateSegment
  <2>1. UNCHANGED <<acked, Counted>>
    BY <1>7 DEF CreateSegment, lossesFile, history, Counted
  <2>2. incoming \in Record /\ incoming \notin segs
    BY <1>7, Fresh DEF CreateSegment, IInv, Numbering
  <2>3. Retained' = Retained
    BY <1>7, <2>2 DEF CreateSegment, IInv, Directory, Retained
  <2> QED
    BY <2>1, <2>3, SameFate
<1>8. CASE AckLossesPrefix
  <2>1. UNCHANGED <<acked, Counted, Retained>>
    BY <1>8 DEF AckLossesPrefix, disk, Intervals, Counted, Retained
  <2> QED
    BY <2>1, SameFate
<1>9. CASE pc # "write" /\ Crash
  <2>1. UNCHANGED <<acked, Counted, Retained>>
    BY <1>9 DEF Crash, lossesFile, history, Counted, Retained
  <2> QED
    BY <2>1, SameFate
<1>10. CASE UNCHANGED <<segs, recs, acked, pending, reported>>
  <2>1. UNCHANGED <<acked, Counted, Retained>>
    BY <1>10 DEF Counted, Retained
  <2> QED
    BY <2>1, SameFate
<1>11. CASE UNCHANGED vars
  BY <1>10, <1>11 DEF vars, disk, lossesFile, history
<1> QED
  BY <1>3, <1>4, <1>5, <1>6, <1>7, <1>8, <1>9, <1>10, <1>11, Writers
     DEF WriteRecord, WriteFails

(* Seen through FateOf, the spool keeps the promise of EvidenceLedger:     *)
(* every record is retained, then delivered or declared lost, once.        *)
THEOREM Refinement == "remove" \notin Failing => (Spec => Promise)
<1> SUFFICES ASSUME "remove" \notin Failing PROVE Spec => Promise
  OBVIOUS
<1>1. IInv /\ IInv' /\ [Next]_vars =>
         [Ledger!Next]_([r \in Record |-> FateOf(r)])
  BY RefinementStep
<1> QED
  BY <1>1, RefinementInit, Inductive, PTL DEF Spec, Promise, Ledger!Spec

-----------------------------------------------------------------------------
(* A quarantined segment is never acknowledged and never offered again, and *)
(* it stays quarantined as long as its file exists.                         *)
THEOREM QuarantineIsFinal ==
    "remove" \notin Failing => (Spec => QuarantineHolds)
<1> SUFFICES ASSUME "remove" \notin Failing PROVE Spec => QuarantineHolds
  OBVIOUS
<1> DEFINE Held ==
       \A n \in quarantined \cap segs :
          /\ recs[n] \cap (acked' \ acked) = {}
          /\ n \in segs' => n \in quarantined'
          /\ cursor' # cursor => cursor'.seg # n
<1>1. ASSUME IInv, Next PROVE Held
  <2> SUFFICES ASSUME NEW n \in quarantined \cap segs
               PROVE  /\ recs[n] \cap (acked' \ acked) = {}
                      /\ n \in segs' => n \in quarantined'
                      /\ cursor' # cursor => cursor'.seg # n
    OBVIOUS
  <2>1. n \in Record /\ n # 0
    <3>1. segs \subseteq Record
      BY <1>1 DEF IInv, TypeInv, TypeOK, DiskType
    <3>2. n \in Record
      BY <3>1
    <3>3. 0 \notin Record
      BY SpoolAssumption DEF Record
    <3> QED
      BY <3>2, <3>3
  <2>2. recs[n] \cap (acked' \ acked) = {}
    <3>1. CASE Ack
      <4>1. cursor.seg \notin quarantined \/ acked' = acked
        BY <3>1 DEF Ack
      <4>2. \/ acked' = acked
            \/ /\ cursor.seg \in Record
               /\ acked' = acked \cup cursor.recs
               /\ cursor.recs \subseteq recs[cursor.seg]
        BY <1>1, <3>1, AckSettles DEF IInv, TypeInv, TypeOK, DiskType
      <4> QED
        BY <1>1, <2>1, <4>1, <4>2 DEF IInv, Directory
    <3> QED
      BY <1>1, <3>1, Writers
  <2>3. n \in segs' => n \in quarantined'
    <3> USE DEF offsetsFile
    <3>1. CASE Prune
      BY <1>1, <3>1 DEF Prune, PruneDrained, PruneExpired, PruneOldest,
         PruneDone, RemoveSegment, RemoveFails, PruneOffsets, PruneLosses,
         LossJournalFails, JournalFails, Evict, IInv, Evictions
    <3>2. CASE Recover
      BY <3>2 DEF Recover, Open, FinishDiscard, FinishedDiscard,
                  RecoverOffsets, RecoverLosses
    <3>3. CASE \/ Crash \/ Tick \/ Append \/ ReuseSegment \/ CreateSegment
               \/ WriteRecord \/ WriteFails
      BY <3>3 DEF Crash, Tick, Append, ReuseSegment, CreateSegment,
                  WriteRecord, WriteFails
    <3>4. CASE \/ ReadPending("readCurrent") \/ ReadPending("readReplay")
               \/ ReadBatch \/ HubStores \/ AnswerLost
      BY <3>4 DEF ReadPending, ReadBatch, HubStores, AnswerLost
    <3>5. CASE Ack \/ Quarantine \/ SettleFails
      BY <3>5 DEF Ack, Quarantine, SettleFails
    <3>6. CASE ReadLosses \/ HubLearnsLosses \/ StatusLost \/ AckLossesPrefix
      BY <3>6 DEF ReadLosses, HubLearnsLosses, StatusLost, AckLossesPrefix
    <3> QED
      BY <1>1, <3>1, <3>2, <3>3, <3>4, <3>5, <3>6 DEF Next
  <2>4. cursor' # cursor => cursor'.seg # n
    <3>1. CASE ReadBatch
      <4>1. \/ UNCHANGED cursor
            \/ \E m \in segs \ quarantined : \E r \in Unacked(m) :
                  cursor' = BatchUpTo(m, r)
        BY <3>1 DEF ReadBatch, Sendable
      <4> QED
        BY <4>1 DEF BatchUpTo
    <3>2. CASE cursor' = NoCursor
      BY <2>1, <3>2 DEF NoCursor
    <3> QED
      BY <1>1, <3>1, <3>2, Writers
         DEF AnswerLost, Ack, Quarantine, SettleFails, Crash
  <2> QED
    BY <2>2, <2>3, <2>4
<1>2. IInv /\ [Next]_vars => [Held]_vars
  BY <1>1
<1> QED
  BY <1>2, Inductive, PTL DEF Spec, QuarantineHolds
=============================================================================
