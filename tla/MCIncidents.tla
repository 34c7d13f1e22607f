----------------------------- MODULE MCIncidents -----------------------------
(***************************************************************************)
(* Envelopes in units of a few pages, in the proportions of the code's     *)
(* constants: a manual capsule takes two of an alert's.                    *)
(***************************************************************************)
EXTENDS Incidents, TLC

Bytes(live, bulk, ledger, metadata) ==
  [c \in Classes |-> CASE c = "live_total" -> live [] c = "bulk_database" -> bulk
                       [] c = "incident_ledger" -> ledger [] c = "metadata" -> metadata]

MCNeed == [w \in Writers |->
  CASE w = "bulk"       -> Bytes(1, 1, 0, 0)
    [] w = "recovery"   -> Bytes(1, 0, 0, 1)
    [] w = "firing"     -> Bytes(1, 0, 1, 1)
    [] w = "resolution" -> Bytes(1, 0, 0, 1)
    [] w = "manual"     -> Bytes(1, 0, 2, 0)]

MCLimit == Bytes(3, 1, 4, 2)
HandlerSymmetry == Permutations(Handlers)
MCPayload == [o \in Origins |-> 1]
=============================================================================
