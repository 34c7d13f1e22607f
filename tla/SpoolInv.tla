------------------------------ MODULE SpoolInv ------------------------------
(***************************************************************************)
(* The inductive invariant behind the spool's safety properties.           *)
(***************************************************************************)
EXTENDS Spool

(* While an Append is under way it holds a record, and writes it to a      *)
(* segment in the directory.                                               *)
OperationOK ==
    /\ after = "append" => incoming \in Record
    /\ pc \in {"append", "write"} => after = "append"
    /\ pc = "write" => active \in segs

TypeInv == TypeOK /\ OperationOK

(* An Append is under way and has not written its record yet.              *)
Appending ==
    /\ after = "append"
    /\ pc \in {"prune", "remove", "offsets", "losses", "append", "write"}

(* Record numbers that can occur anywhere but in `incoming'.               *)
Seen == {r \in Record : r <= born /\ (Appending => r < incoming)}

(* The directory: only live segments have contents, a record lives in one  *)
(* segment, and a segment holds the records of one process.                *)
Directory ==
    /\ \A n \in Record \ segs : recs[n] = {}
    /\ \A n, m \in Record : n # m => recs[n] \cap recs[m] = {}
    /\ \A n \in segs : \A r \in recs[n] : bootOf[r] = bootOf[n]

(* Everything on disk and in the history is about numbers already used.    *)
Numbering ==
    /\ Appending => incoming = born
    /\ segs \subseteq Seen \cup (IF pc = "write" THEN {incoming} ELSE {})
    /\ \A n \in Record : recs[n] \subseteq Seen
    /\ \A n \in Record \ Seen : offsets[n] = 0
    /\ discarded \subseteq Seen
    /\ acked \cup Counted \cup cursor.recs \subseteq Seen
    /\ cursor.seg \in Seen \cup {0}

(* The offset of a live segment separates acknowledged from other records. *)
Prefixes ==
    \A n \in segs : /\ offsets[n] = 0 \/ offsets[n] \in recs[n]
                    /\ \A r \in recs[n] : r \in acked <=> r <= offsets[n]

(* A batch is still what lies between its two offsets of its segment.      *)
CursorOK ==
    /\ cursor.seg = 0 <=> cursor = NoCursor
    /\ cursor.seg \in segs =>
          /\ cursor.end \in cursor.recs
          /\ cursor.recs = {r \in recs[cursor.seg] :
                               cursor.start < r /\ r <= cursor.end}

(* Evictions in progress: what losses.json covers is exactly what the      *)
(* victim still owed, and no other live segment is marked or counted.      *)
Evictions ==
    /\ \A n \in segs \ discarded : recs[n] \cap Counted = {}
    /\ \A n \in segs \cap discarded : Unacked(n) \subseteq Counted
    /\ pc \notin {"down", "discard", "remove"} => segs \cap discarded = {}
    /\ pc = "remove" =>
          /\ victim \in segs
          /\ segs \cap discarded \subseteq {victim}
          /\ victim \in discarded \/ Unacked(victim) = {}
    /\ pc \in {"offsets", "losses"} => victim \in Record \ segs

(* A torn tail is in the last segment, and nothing is appended behind it.  *)
TornTail ==
    /\ torn # {} => (fault \/ pc = "down")
    /\ \A n \in torn : IsLast(n, segs)
    /\ fault => pc = "idle"
    /\ pc = "write" => IsLast(active, segs) /\ bootOf[active] = bootOf[incoming]

(* A status snapshot of the current revision holds all it would drop.      *)
SnapshotOK ==
    snapshot # NoSnapshot =>
        /\ snapshot.revision <= revision
        /\ snapshot.revision = revision =>
              Intervals(snapshot.sources) \subseteq snapshot.recs

(* The safety properties themselves.                                       *)
FateOK ==
    /\ NoSilentLoss /\ CountedOnce /\ LostNotAcked
    /\ acked \subseteq hub /\ DroppedIsTold /\ AlwaysRecovers

IInv ==
    /\ TypeInv /\ Directory /\ Numbering /\ Prefixes /\ CursorOK
    /\ Evictions /\ TornTail /\ SnapshotOK /\ FateOK
=============================================================================
