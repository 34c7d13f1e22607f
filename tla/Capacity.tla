------------------------------ MODULE Capacity -------------------------------
(***************************************************************************)
(* The guard of the hub's physical storage.                                *)
(*                                                                         *)
(*   internal/store/capacity.go      measurement and admission of ingest   *)
(*   internal/store/alerts_eval.go   admission of an alert's envelope      *)
(*   internal/store/recovery.go      reservation of a recovery grant       *)
(*   internal/store/incidents.go     admission of a manual investigation   *)
(*                                                                         *)
(* A measurement records what each quota class holds.  Between two         *)
(* measurements every admitted write leaves a charge in the maintenance    *)
(* cursor, and each writer adds to the measured bytes the charges of the   *)
(* writers it knows of.  A write grows a class by its whole envelope at    *)
(* most: the model takes that worst case.                                  *)
(*                                                                         *)
(* Rows that no writer charges (rollups, sessions, saved comparisons) are  *)
(* outside of this module.                                                 *)
(***************************************************************************)
EXTENDS Integers, FiniteSets, FiniteSetsExt

CONSTANTS Need,       \* Need[w][c]: bytes a write of w reserves in class c
          Limit,      \* Limit[c]: quota_classes.byte_limit
          PauseAt,    \* used bytes of live_total at which bulk ingest pauses
          MaxAge,     \* CapacityMeasurementMaxAge
          MaxNow      \* clock

Classes == {"live_total", "bulk_database", "incident_ledger", "metadata"}
Writers == {"bulk", "recovery", "firing", "resolution", "manual"}

ASSUME CapacityAssumption ==
  /\ Need \in [Writers -> [Classes -> Nat]] /\ Limit \in [Classes -> Nat]
  /\ {PauseAt, MaxAge, MaxNow} \subseteq Nat

VARIABLES now,
          written,   \* bytes each class really holds
          current,   \* quota_classes.current_physical_bytes
          observed,  \* capacity_observed_ms
          charges,   \* envelopes of each writer since the measurement
          grant,     \* the recovery grant that holds a reservation
          paused     \* storage_state is bulk_ingest_paused

capacityVars == <<now, written, current, observed, charges, grant, paused>>

(***************************************************************************)
(* Admission: the charges that a writer adds to the measured bytes.        *)
(***************************************************************************)
Alert == {"firing", "resolution"}

Known(w, c) ==
  CASE w = "bulk"     -> IF c = "live_total" THEN {"bulk", "recovery"} ELSE {"bulk"}
    [] w = "recovery" -> IF c = "live_total" THEN {"bulk", "recovery"} ELSE {"recovery"}
    [] w \in Alert    -> IF c = "live_total" THEN {"bulk", "recovery"} \cup Alert
                         ELSE IF c = "metadata" THEN {"recovery"} \cup Alert ELSE Alert
    [] w = "manual"   -> IF c = "live_total" THEN Writers ELSE Alert \cup {"manual"}

Charged(ws, c) ==
  LET of(w) == IF w \in ws THEN charges[w] * Need[w][c] ELSE 0
  IN  of("bulk") + of("recovery") + of("firing") + of("resolution") + of("manual")
Reserved(c) == IF grant.active THEN Need["recovery"][c] ELSE 0

Fresh == now - observed <= MaxAge
Fits(w, c) == current[c] + Reserved(c) + Charged(Known(w, c), c) + Need[w][c] <= Limit[c]

\* capacityAdmissionTx, admitAlertEnvelopeTx and reserveRecoveryCapacity ask
\* for every class they write; a manual incident asks for live_total here.
Admits(w) ==
  /\ Fresh
  /\ w = "bulk" => ~paused
  /\ \A c \in Classes : (Need[w][c] > 0 /\ (w = "manual" => c = "live_total")) => Fits(w, c)

Grown(w) == [c \in Classes |-> written[c] + Need[w][c]]
Charge(w) == charges' = [charges EXCEPT ![w] = @ + 1]

(***************************************************************************)
(* Ingest and recovery.                                                    *)
(***************************************************************************)
CapacityInit ==
  /\ now = 0 /\ observed = 0 /\ paused = FALSE
  /\ written = [c \in Classes |-> 0] /\ current = [c \in Classes |-> 0]
  /\ charges = [w \in Writers |-> 0]
  /\ grant = [active |-> FALSE, used |-> FALSE]

BulkWrite ==
  /\ Admits("bulk") /\ Charge("bulk") /\ written' = Grown("bulk")
  /\ UNCHANGED <<now, current, observed, grant, paused>>

GrantRecovery ==
  /\ ~grant.active /\ Admits("recovery")
  /\ grant' = [active |-> TRUE, used |-> FALSE]
  /\ UNCHANGED <<now, written, current, observed, charges, paused>>

\* Rows of the recovery lane, within the reservation of their grant.
RecoveryWrite ==
  /\ grant.active /\ ~grant.used
  /\ grant' = [grant EXCEPT !.used = TRUE] /\ written' = Grown("recovery")
  /\ UNCHANGED <<now, current, observed, charges, paused>>

\* Mutant of ReleaseGrant: the reservation ends without a charge.
ReleaseUncharged ==
  /\ grant.active
  /\ grant' = [active |-> FALSE, used |-> FALSE]
  /\ UNCHANGED <<now, written, current, observed, charges, paused>>

\* releaseRecoveryCapacity: what the grant wrote may not be measured yet.
ReleaseGrant ==
  /\ grant.active
  /\ grant' = [active |-> FALSE, used |-> FALSE] /\ Charge("recovery")
  /\ UNCHANGED <<now, written, current, observed, paused>>

(***************************************************************************)
(* MeasureAndRecordCapacity, at each tick of runMaintenance: the pages of  *)
(* every class, the state they put the storage in, and no charge left, all *)
(* in one transaction.                                                     *)
(***************************************************************************)
Measured == written

BulkPaused(bytes) == bytes["live_total"] + Reserved("live_total") >= PauseAt

Record(bytes) ==
  /\ current' = bytes /\ observed' = now /\ paused' = BulkPaused(bytes)
  /\ charges' = [w \in Writers |-> 0]

Measure == Record(Measured) /\ UNCHANGED <<now, written, grant>>

CapacityTick ==
  /\ now < MaxNow /\ now' = now + 1
  /\ UNCHANGED <<written, current, observed, charges, grant, paused>>

CapacityNext ==
  BulkWrite \/ GrantRecovery \/ RecoveryWrite \/ ReleaseGrant \/ Measure \/ CapacityTick

\* No byte escapes the account: whatever a class holds is in its last
\* measurement, in the reservation of a grant or in a charge.
EveryByteIsCharged ==
  \A c \in Classes :
    written[c] <= current[c] + (IF grant.used THEN Need["recovery"][c] ELSE 0) + Charged(Writers, c)
=============================================================================
