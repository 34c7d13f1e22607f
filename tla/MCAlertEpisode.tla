--------------------------- MODULE MCAlertEpisode ---------------------------
(***************************************************************************)
(* Two rules, whose writes of one pass a revision or a failure may         *)
(* separate: the first fires at once and recovers after a dwell, the       *)
(* second has a dwell for both.                                            *)
(***************************************************************************)
EXTENDS AlertEpisode

Dwell == [r \in Rules |-> 2]
FirstAtOnce == [r \in Rules |-> IF r = 1 THEN 0 ELSE 2]
MostDecisions == AllDecisions \ {"clearNow"}
=============================================================================
