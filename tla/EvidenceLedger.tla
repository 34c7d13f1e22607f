--------------------------- MODULE EvidenceLedger ---------------------------
(***************************************************************************)
(* What the collector spool promises about every observation it is given,  *)
(* with segments, journals, crashes and the clock forgotten: an            *)
(* observation that became durable is retained until it is either          *)
(* delivered or declared lost, once, and the two verdicts are final.       *)
(***************************************************************************)
CONSTANT Record

VARIABLE fate

Fates == {"unborn", "retained", "delivered", "lost"}

Init == fate = [r \in Record |-> "unborn"]

(* Every record of S moves from one fate to the next. *)
Move(S, from, to) ==
    /\ \A r \in S : fate[r] = from
    /\ fate' = [r \in Record |-> IF r \in S THEN to ELSE fate[r]]

Store == \E r \in Record : Move({r}, "unborn", "retained")

Deliver == \E S \in SUBSET Record : Move(S, "retained", "delivered")

Lose == \E S \in SUBSET Record : Move(S, "retained", "lost")

Next == Store \/ Deliver \/ Lose

Spec == Init /\ [][Next]_fate
=============================================================================
