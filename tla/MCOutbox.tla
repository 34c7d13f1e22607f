------------------------------ MODULE MCOutbox ------------------------------
(***************************************************************************)
(* One or two destinations and one alert that fires and resolves.  A lease *)
(* outlasts the first retry delay, as 30 s outlast 10 s.                   *)
(***************************************************************************)
EXTENDS Outbox

ShortDelays == <<1, 2>>
=============================================================================
