--------------------------- MODULE IncidentLedger ---------------------------
(***************************************************************************)
(* What the hub promises about the incidents of its alert rules, with      *)
(* evaluations, dwell times, rule revisions and crashes forgotten: a rule  *)
(* has at most one open incident, and a closed one is never reopened.      *)
(***************************************************************************)
EXTENDS Naturals

CONSTANTS Rules, Episode

VARIABLES open, closed      \* per rule, the incidents that are open, closed

Init ==
    /\ open = [r \in Rules |-> {}]
    /\ closed = [r \in Rules |-> {}]

Open(r) ==
    /\ open[r] = {}
    /\ \E e \in Episode \ closed[r] : open' = [open EXCEPT ![r] = {e}]
    /\ UNCHANGED closed

Close(r) ==
    /\ open[r] # {}
    /\ closed' = [closed EXCEPT ![r] = @ \cup open[r]]
    /\ open' = [open EXCEPT ![r] = {}]

Next == \E r \in Rules : Open(r) \/ Close(r)

Spec == Init /\ [][Next]_<<open, closed>>
=============================================================================
