---------------------------- MODULE ReplayProofs ----------------------------
(***************************************************************************)
(* Recovery of a retained spool, for any number of files, grants, applies, *)
(* crashes and sessions: the cursor passes only what the hub holds, and    *)
(* the reports and the reserved bytes are right.                           *)
(***************************************************************************)
EXTENDS Replay, FiniteSetTheorems, TLAPS

(* The receipts of the applies: an acknowledgement kept on disk is of runs *)
(* the hub has stored, also long after the command that asked has died.    *)
Backed(a) == "ack" \in DOMAIN a /\ (a.ack = None \/ a.ack.runs \subseteq stored)

ReceiptsAreBacked ==
  /\ DOMAIN applies = Keys
  /\ \A k \in Keys : applies[k] = NoApply \/ Backed(applies[k])

(* The command that holds the lock works, outside the preview and the      *)
(* writing of a file, on an apply that has begun, and moves the cursor only*)
(* with an acknowledgement in hand.                                        *)
Outside == {"idle", "write", "fill", "compact"}

CommandIsOf(a) ==
  /\ {"pc", "key", "runs"} \subseteq DOMAIN cli
  /\ cli.pc \notin Outside => cli.key \in Keys /\ "ack" \in DOMAIN a
  /\ cli.pc = "ack" => a.ack # None

CommandHasItsReceipt == CommandIsOf(Mine)

ReplayInv == acked \subseteq stored /\ ReceiptsAreBacked /\ CommandHasItsReceipt

(* Nothing has been acknowledged, and no command runs.                     *)
LEMMA ReplayInit == Init => ReplayInv
<1> SUFFICES ASSUME Init PROVE ReplayInv
  OBVIOUS
<1>1. cli = [pc |-> "idle", key |-> 0, runs |-> {}]
  BY DEF Init, Idle
<1>2. CommandHasItsReceipt
  BY <1>1 DEF CommandHasItsReceipt, CommandIsOf, Outside
<1>3. ReceiptsAreBacked
  BY DEF Init, ReceiptsAreBacked
<1> QED
  BY <1>2, <1>3 DEF Init, ReplayInv

(* The hub only gains rows, and the receipts and the cursor stay.          *)
LEMMA ReceiptsStay ==
    ASSUME ReplayInv, UNCHANGED <<acked, applies>>, stored \subseteq stored',
           CommandHasItsReceipt'
    PROVE  ReplayInv'
<1>1. ReceiptsAreBacked'
  BY DEF ReplayInv, ReceiptsAreBacked, Backed
<1> QED
  BY <1>1 DEF ReplayInv

(* Nothing of the command changes either.                                  *)
LEMMA CommandStays ==
    ASSUME ReplayInv, UNCHANGED <<acked, applies, cli>>, stored \subseteq stored'
    PROVE  ReplayInv'
<1>1. CommandHasItsReceipt'
  BY DEF ReplayInv, CommandHasItsReceipt, CommandIsOf, Mine
<1> QED
  BY <1>1, ReceiptsStay

(* A command that ends, by itself or killed, leaves everything as it is.   *)
LEMMA CommandEnds ==
    ASSUME ReplayInv, UNCHANGED <<acked, applies>>, stored \subseteq stored', cli' = Idle
    PROVE  ReplayInv'
<1>1. cli' = [pc |-> "idle", key |-> 0, runs |-> {}]
  BY DEF Idle
<1>2. CommandHasItsReceipt'
  BY <1>1 DEF CommandHasItsReceipt, CommandIsOf, Outside
<1> QED
  BY <1>2, ReceiptsStay

(* A command of an apply goes on with the receipt it has.                  *)
Continues(pc) ==
  {"pc", "key", "runs"} \subseteq DOMAIN cli =>
    {"pc", "key", "runs"} \subseteq DOMAIN cli' /\ cli'.pc = pc /\ cli'.key = cli.key

LEMMA CommandGoesOn ==
    ASSUME ReplayInv, UNCHANGED <<acked, applies>>, stored \subseteq stored',
           cli.pc \notin Outside, NEW pc, Continues(pc), pc = "ack" => Mine.ack # None
    PROVE  ReplayInv'
<1>1. CommandHasItsReceipt'
  BY DEF ReplayInv, CommandHasItsReceipt, CommandIsOf, Continues, Mine
<1> QED
  BY <1>1, ReceiptsStay

(* One receipt is written: its acknowledgement is gone or of stored runs.   *)
Saves(key) ==
  /\ DOMAIN applies' = Keys
  /\ \A k \in Keys : k # key => applies'[k] = applies[k]

LEMMA ReceiptSaved ==
    ASSUME ReplayInv, stored \subseteq stored', acked' = acked,
           NEW key, Saves(key), key \in Keys => Backed(applies[key])',
           CommandHasItsReceipt'
    PROVE  ReplayInv'
<1>1. ASSUME NEW k \in Keys PROVE applies'[k] = NoApply \/ Backed(applies[k])'
  <2>1. CASE k = key
    BY <2>1
  <2>2. CASE k # key
    <3>1. applies'[k] = applies[k]
      BY <2>2 DEF Saves
    <3>2. applies[k] = NoApply \/ Backed(applies[k])
      BY DEF ReplayInv, ReceiptsAreBacked
    <3> QED
      BY <3>1, <3>2 DEF Backed
  <2> QED
    BY <2>1, <2>2
<1>2. ReceiptsAreBacked'
  BY <1>1 DEF Saves, ReceiptsAreBacked
<1> QED
  BY <1>2 DEF ReplayInv

-----------------------------------------------------------------------------
(* The commands, step by step                                              *)

(* The clock, the administrator and the ordinary collector.                *)
LEMMA OthersKeepTheCursor ==
    ASSUME ReplayInv,
           Tick \/ CreateRecoveryGrant \/ RevokeRecoveryGrant \/ OrdinaryRun
    PROVE  ReplayInv'
<1>1. UNCHANGED <<acked, applies, cli>> /\ stored' = stored
  BY DEF Tick, CreateRecoveryGrant, RevokeRecoveryGrant, OrdinaryRun, collector, hub
<1> QED
  BY <1>1, CommandStays

(* A preview touches neither the cursor nor a receipt, nor does the writing*)
(* of its file or of a report.                                             *)
LEMMA PreviewKeepsTheCursor ==
    ASSUME ReplayInv, BeginPreview \/ OpenOutput \/ FillOutput \/ CompactPreview
    PROVE  ReplayInv'
<1>1. UNCHANGED <<acked, applies>> /\ stored' = stored
  BY DEF BeginPreview, OpenOutput, FillOutput, CompactPreview, Hub, hub
<1>2. "pc" \in DOMAIN cli
  BY DEF ReplayInv, CommandHasItsReceipt, CommandIsOf
<1>3. CommandHasItsReceipt'
  <2>1. CASE BeginPreview
    <3>1. {"pc", "key", "runs"} \subseteq DOMAIN cli' /\ cli'.pc = "write"
      BY <2>1, Zenon DEF BeginPreview, Idle
    <3> QED
      BY <3>1 DEF CommandHasItsReceipt, CommandIsOf, Outside
  <2>2. CASE OpenOutput \/ FillOutput \/ CompactPreview
    <3>1. \/ cli' = Idle
          \/ \E pc \in {"fill", "compact"} : cli' = [cli EXCEPT !.pc = pc]
      BY <2>2 DEF OpenOutput, FillOutput, CompactPreview, Written, Fail
    <3>2. CASE cli' = Idle
      BY <3>2 DEF CommandHasItsReceipt, CommandIsOf, Outside, Idle
    <3>3. CASE \E pc \in {"fill", "compact"} : cli' = [cli EXCEPT !.pc = pc]
      <4>1. PICK pc \in {"fill", "compact"} : cli' = [cli EXCEPT !.pc = pc]
        BY <3>3
      <4>2. DOMAIN cli' = DOMAIN cli /\ cli'.pc = pc
        BY <1>2, <4>1, Zenon
      <4> QED
        BY <4>2 DEF ReplayInv, CommandHasItsReceipt, CommandIsOf, Outside
    <3> QED
      BY <3>1, <3>2, <3>3
  <2> QED
    BY <2>1, <2>2
<1> QED
  BY <1>1, <1>3, ReceiptsStay

(* A new receipt has no acknowledgement.                                   *)
LEMMA BeginApplyKeepsTheCursor ==
    ASSUME ReplayInv, NEW k \in Keys, BeginApply(k) PROVE ReplayInv'
<1>1. acked' = acked /\ stored' = stored
  BY DEF BeginApply, Hub, hub
<1>2. PICK g \in GrantFiles :
        applies' = [applies EXCEPT ![k] =
          [kind |-> "apply", grant |-> g, prev |-> pairing.prev, session |-> 0,
           ack |-> None, rec |-> 0, dup |-> 0, reported |-> FALSE, complete |-> FALSE]]
  BY DEF BeginApply
<1>3. DOMAIN applies = Keys
  BY DEF ReplayInv, ReceiptsAreBacked
<1>4. Saves(k) /\ applies'[k].ack = None /\ "ack" \in DOMAIN applies'[k]
  BY <1>2, <1>3 DEF Saves
<1>5. {"pc", "key", "runs"} \subseteq DOMAIN cli' /\ cli'.pc = "prepare" /\ cli'.key = k
  BY Zenon DEF BeginApply, Idle
<1>6. CommandHasItsReceipt'
  BY <1>4, <1>5 DEF CommandHasItsReceipt, CommandIsOf, Outside, Mine
<1> QED
  BY <1>1, <1>4, <1>6, ReceiptSaved DEF Backed

(* An interrupted apply is run again with its receipt.                     *)
LEMMA ResumeApplyKeepsTheCursor ==
    ASSUME ReplayInv, NEW k \in Keys, ResumeApply(k) PROVE ReplayInv'
<1>1. UNCHANGED <<acked, applies>> /\ stored' = stored
  BY DEF ResumeApply, Hub, hub
<1>2. applies[k] # NoApply
  BY DEF ResumeApply
<1>3. "ack" \in DOMAIN applies[k]
  BY <1>2 DEF ReplayInv, ReceiptsAreBacked, Backed
<1>4. {"pc", "key", "runs"} \subseteq DOMAIN cli' /\ cli'.pc \in {"write", "prepare"} /\ cli'.key = k
  BY Zenon DEF ResumeApply, Idle
<1>5. CommandHasItsReceipt'
  BY <1>1, <1>3, <1>4 DEF CommandHasItsReceipt, CommandIsOf, Outside, Mine
<1> QED
  BY <1>1, <1>5, ReceiptsStay

(* What every step of an apply finds: its receipt.                         *)
LEMMA ReceiptIsThere ==
    ASSUME ReplayInv, cli.pc \notin Outside
    PROVE  /\ {"pc", "key", "runs"} \subseteq DOMAIN cli /\ cli.key \in Keys
           /\ DOMAIN applies = Keys /\ Backed(Mine)
<1>1. cli.key \in Keys /\ "ack" \in DOMAIN Mine
  BY DEF ReplayInv, CommandHasItsReceipt, CommandIsOf
<1>2. Mine # NoApply
  BY <1>1 DEF NoApply
<1> QED
  BY <1>1, <1>2 DEF ReplayInv, CommandHasItsReceipt, CommandIsOf, ReceiptsAreBacked, Mine

(* The session is prepared and completed.                                  *)
LEMMA ActivationKeepsTheCursor ==
    ASSUME ReplayInv, PrepareActivation \/ CompleteActivation PROVE ReplayInv'
<1>1. UNCHANGED <<acked, applies>> /\ stored' = stored
  BY DEF PrepareActivation, CompleteActivation, Hub, hub
<1>2. cli.pc \notin Outside
  BY DEF PrepareActivation, CompleteActivation, Outside
<1>3. cli' = Idle \/ \E pc \in {"activate", "complete", "read"} : cli' = [cli EXCEPT !.pc = pc]
  BY DEF PrepareActivation, CompleteActivation, Fail
<1>4. CASE cli' = Idle
  BY <1>1, <1>4, CommandEnds
<1>5. CASE \E pc \in {"activate", "complete", "read"} : cli' = [cli EXCEPT !.pc = pc]
  <2>1. PICK pc \in {"activate", "complete", "read"} : cli' = [cli EXCEPT !.pc = pc]
    BY <1>5
  <2>2. Continues(pc)
    BY <2>1, Zenon DEF Continues
  <2> QED
    BY <1>1, <1>2, <2>2, CommandGoesOn
<1> QED
  BY <1>3, <1>4, <1>5

(* The receipt of an apply is changed and the apply goes on with it.       *)
LEMMA ApplySaves ==
    ASSUME ReplayInv, stored \subseteq stored', acked' = acked, cli.pc \notin Outside,
           Saves(cli.key), applies'[cli.key].ack = None \/ applies'[cli.key].ack.runs \subseteq stored',
           "ack" \in DOMAIN applies'[cli.key],
           NEW pc, cli' = Idle \/ (Continues(pc) /\ (pc = "ack" => applies'[cli.key].ack # None))
    PROVE  ReplayInv'
<1>1. {"pc", "key", "runs"} \subseteq DOMAIN cli /\ cli.key \in Keys
  BY ReceiptIsThere
<1>2. CommandHasItsReceipt'
  <2>1. CASE cli' = Idle
    BY <2>1 DEF CommandHasItsReceipt, CommandIsOf, Outside, Idle
  <2>2. CASE Continues(pc) /\ (pc = "ack" => applies'[cli.key].ack # None)
    BY <1>1, <2>2 DEF Continues, CommandHasItsReceipt, CommandIsOf, Mine
  <2> QED
    BY <2>1, <2>2
<1> QED
  BY <1>1, <1>2, ReceiptSaved DEF Backed

(* The session is kept in the receipt.                                     *)
LEMMA ActivateKeepsTheCursor ==
    ASSUME ReplayInv, Activate PROVE ReplayInv'
<1>1. acked' = acked /\ stored' = stored /\ cli.pc \notin Outside
  BY DEF Activate, Outside
<1>2. {"pc", "key", "runs"} \subseteq DOMAIN cli /\ cli.key \in Keys /\ DOMAIN applies = Keys
      /\ Backed(Mine)
  BY <1>1, ReceiptIsThere
<1>3. CASE ActivationRefused /\ Fail /\ UNCHANGED <<sessions, applies>>
  BY <1>1, <1>3, CommandEnds DEF Fail
<1>4. CASE /\ Save([Mine EXCEPT !.session = Len(sessions')])
           /\ cli' = [cli EXCEPT !.pc = "complete"]
  <2>1. applies'[cli.key] = [Mine EXCEPT !.session = Len(sessions')]
    BY <1>2, <1>4 DEF Save
  <2>2. DOMAIN applies'[cli.key] = DOMAIN Mine /\ applies'[cli.key].ack = Mine.ack
    BY <1>2, <2>1, Zenon DEF Backed
  <2>3. Saves(cli.key)
    BY <1>2, <1>4 DEF Save, Saves
  <2>4. Continues("complete")
    BY <1>4, Zenon DEF Continues
  <2> QED
    BY <1>1, <1>2, <2>2, <2>3, <2>4, ApplySaves DEF Backed
<1> QED
  BY <1>3, <1>4 DEF Activate

(* What has been counted is no longer owed.                                *)
LEMMA CountedIsPaid ==
    ASSUME NEW a, "ack" \in DOMAIN a
    PROVE  "ack" \in DOMAIN Counted(a) /\ Counted(a).ack = None
  BY Zenon DEF Counted

(* An acknowledgement found on disk is kept or counted.                    *)
LEMMA ReadKeepsTheCursor ==
    ASSUME ReplayInv, ReadRecovery PROVE ReplayInv'
<1>1. acked' = acked /\ stored' = stored /\ cli.pc \notin Outside
  BY DEF ReadRecovery, Outside, Hub, hub
<1>2. {"pc", "key", "runs"} \subseteq DOMAIN cli /\ cli.key \in Keys /\ DOMAIN applies = Keys
      /\ Backed(Mine)
  BY <1>1, ReceiptIsThere
<1>3. \/ cli' = [cli EXCEPT !.pc = "report"] /\ applies' = applies
      \/ cli' = Idle /\ applies' = applies
      \/ \E runs, pc : /\ Save(Settled(Mine, runs)) /\ pc \in {"report", "ask"}
                       /\ cli' = [cli EXCEPT !.pc = pc, !.runs = runs]
  BY Zenon DEF ReadRecovery, Fail
<1>4. CASE cli' = [cli EXCEPT !.pc = "report"] /\ applies' = applies
  <2>1. Continues("report")
    BY <1>4, Zenon DEF Continues
  <2> QED
    BY <1>1, <1>4, <2>1, CommandGoesOn
<1>5. CASE cli' = Idle /\ applies' = applies
  BY <1>1, <1>5, CommandEnds
<1>6. CASE \E runs, pc : /\ Save(Settled(Mine, runs)) /\ pc \in {"report", "ask"}
                         /\ cli' = [cli EXCEPT !.pc = pc, !.runs = runs]
  <2>1. PICK runs, pc : /\ Save(Settled(Mine, runs)) /\ pc \in {"report", "ask"}
                        /\ cli' = [cli EXCEPT !.pc = pc, !.runs = runs]
    BY <1>6
  <2>2. applies'[cli.key] = Settled(Mine, runs)
    BY <1>2, <2>1 DEF Save
  <2>3. Settled(Mine, runs) = Mine \/ Settled(Mine, runs) = Counted(Mine)
    BY DEF Settled
  <2>4. Backed(applies'[cli.key])
    BY <1>2, <2>2, <2>3, CountedIsPaid DEF Backed
  <2>5. Saves(cli.key)
    BY <1>2, <2>1 DEF Save, Saves
  <2>6. Continues(pc)
    BY <2>1, Zenon DEF Continues
  <2> QED
    BY <1>1, <2>1, <2>4, <2>5, <2>6, ApplySaves DEF Backed
<1> QED
  BY <1>3, <1>4, <1>5, <1>6

(* The hub's answer is of runs it has stored in the same transaction.      *)
LEMMA AskKeepsTheCursor ==
    ASSUME ReplayInv, AskHub PROVE ReplayInv'
<1>1. acked' = acked /\ cli.pc \notin Outside
  BY DEF AskHub, Outside
<1>2. {"pc", "key", "runs"} \subseteq DOMAIN cli /\ cli.key \in Keys /\ DOMAIN applies = Keys
      /\ Backed(Mine)
  BY <1>1, ReceiptIsThere
<1>3. CASE Mine.ack # None /\ cli' = [cli EXCEPT !.pc = "ack"] /\ UNCHANGED <<applies, hub>>
  <2>1. Continues("ack")
    BY <1>3, Zenon DEF Continues
  <2> QED
    BY <1>1, <1>3, <2>1, CommandGoesOn DEF hub
<1>4. CASE Mine.ack = None /\ RequestRefused /\ Fail /\ UNCHANGED <<applies, hub>>
  BY <1>1, <1>4, CommandEnds DEF Fail, hub
<1>5. CASE /\ Mine.ack = None /\ Asks(cli.key)
           /\ Save([Mine EXCEPT !.ack = Answer(Mine.grant, cli.runs)])
           /\ cli' = [cli EXCEPT !.pc = "ack"]
  <2>1. stored' = stored \cup cli.runs
    BY <1>5 DEF Asks, IngestRecoveryReplay
  <2>2. applies'[cli.key] = [Mine EXCEPT !.ack = Answer(Mine.grant, cli.runs)]
    BY <1>2, <1>5 DEF Save
  <2>3. /\ "ack" \in DOMAIN applies'[cli.key]
        /\ applies'[cli.key].ack = Answer(Mine.grant, cli.runs)
    BY <1>2, <2>2, Zenon DEF Backed
  <2>4. /\ Answer(Mine.grant, cli.runs).runs = cli.runs
        /\ Answer(Mine.grant, cli.runs).kind = "ack"
    BY DEF Answer
  <2>5. Answer(Mine.grant, cli.runs) # None
    BY <2>4 DEF None
  <2>6. Saves(cli.key)
    BY <1>2, <1>5 DEF Save, Saves
  <2>7. Continues("ack")
    BY <1>5, Zenon DEF Continues
  <2> QED
    BY <1>1, <2>1, <2>3, <2>4, <2>5, <2>6, <2>7, ApplySaves
<1> QED
  BY <1>3, <1>4, <1>5 DEF AskHub

(* The cursor moves over the acknowledged runs: the hub has them.          *)
LEMMA AckKeepsTheCursor ==
    ASSUME ReplayInv, AckRecovery PROVE ReplayInv'
<1>1. applies' = applies /\ stored' = stored /\ cli.pc = "ack" /\ cli.pc \notin Outside
  BY DEF AckRecovery, Outside, Hub, hub
<1>2. Mine.ack # None /\ Mine.ack.runs \subseteq stored
  BY <1>1, ReceiptIsThere DEF ReplayInv, CommandHasItsReceipt, CommandIsOf, Backed
<1>3. CASE acked' = acked /\ Fail
  BY <1>1, <1>3, CommandEnds DEF Fail
<1>4. CASE /\ Matches(Mine.ack, cli.runs) /\ acked' = acked \cup cli.runs
           /\ cli' = [cli EXCEPT !.pc = "count"]
  <2>1. acked' \subseteq stored'
    BY <1>1, <1>2, <1>4 DEF Matches, ReplayInv
  <2>2. Continues("count")
    BY <1>4, Zenon DEF Continues
  <2>3. CommandHasItsReceipt'
    BY <1>1, <2>2 DEF ReplayInv, CommandHasItsReceipt, CommandIsOf, Continues, Mine
  <2>4. ReceiptsAreBacked'
    BY <1>1 DEF ReplayInv, ReceiptsAreBacked, Backed
  <2> QED
    BY <2>1, <2>3, <2>4 DEF ReplayInv
<1> QED
  BY <1>3, <1>4 DEF AckRecovery

(* The receipt is counted, or reported.                                    *)
LEMMA CountAndReportKeepTheCursor ==
    ASSUME ReplayInv, CountACK \/ Report PROVE ReplayInv'
<1>1. acked' = acked /\ stored' = stored /\ cli.pc \notin Outside
  BY DEF CountACK, Report, Outside, Hub, hub
<1>2. {"pc", "key", "runs"} \subseteq DOMAIN cli /\ cli.key \in Keys /\ DOMAIN applies = Keys
      /\ Backed(Mine)
  BY <1>1, ReceiptIsThere
<1>3. CASE CountACK
  <2>1. applies'[cli.key] = Counted(Mine) /\ Saves(cli.key)
    BY <1>2, <1>3 DEF CountACK, Save, Saves
  <2>2. Backed(applies'[cli.key])
    BY <1>2, <2>1, CountedIsPaid DEF Backed
  <2>3. Continues("read")
    BY <1>3, Zenon DEF CountACK, Continues
  <2> QED
    BY <1>1, <2>1, <2>2, <2>3, ApplySaves DEF Backed
<1>4. CASE Report
  <2>1. PICK complete : Save([Mine EXCEPT !.reported = TRUE, !.complete = complete])
    BY <1>4 DEF Report
  <2>2. /\ applies'[cli.key] = [Mine EXCEPT !.reported = TRUE, !.complete = complete]
        /\ Saves(cli.key)
    BY <1>2, <2>1 DEF Save, Saves
  <2>3. DOMAIN applies'[cli.key] = DOMAIN Mine /\ applies'[cli.key].ack = Mine.ack
    BY <1>2, <2>2, Zenon DEF Backed
  <2>4. Continues("write")
    BY <1>4, Zenon DEF Report, Continues
  <2> QED
    BY <1>1, <1>2, <2>2, <2>3, <2>4, ApplySaves DEF Backed
<1> QED
  BY <1>3, <1>4

(* A command is killed; the hub may have committed its request.            *)
LEMMA KillKeepsTheCursor ==
    ASSUME ReplayInv, KillCommand PROVE ReplayInv'
<1>1. UNCHANGED <<acked, applies>> /\ cli' = Idle
  BY DEF KillCommand
<1>2. stored \subseteq stored'
  BY DEF KillCommand, Asks, IngestRecoveryReplay, hub
<1> QED
  BY <1>1, <1>2, CommandEnds

(* No step of anybody disturbs it.                                         *)
LEMMA StepKeepsTheCursor ==
    ASSUME ReplayInv, [Next]_vars PROVE ReplayInv'
<1>1. CASE Command
  BY <1>1, PreviewKeepsTheCursor, ActivationKeepsTheCursor, ActivateKeepsTheCursor,
     ReadKeepsTheCursor, AskKeepsTheCursor, AckKeepsTheCursor, CountAndReportKeepTheCursor
     DEF Command
<1>2. CASE \E k \in Keys : BeginApply(k) \/ ResumeApply(k)
  BY <1>2, BeginApplyKeepsTheCursor, ResumeApplyKeepsTheCursor
<1>3. CASE BeginPreview \/ KillCommand
  BY <1>3, PreviewKeepsTheCursor, KillKeepsTheCursor
<1>4. CASE Tick \/ CreateRecoveryGrant \/ RevokeRecoveryGrant \/ OrdinaryRun
  BY <1>4, OthersKeepTheCursor
<1>5. CASE UNCHANGED vars
  <2>1. UNCHANGED <<acked, applies, cli, stored>>
    BY <1>5 DEF vars, collector, hub
  <2> QED
    BY <2>1, CommandStays
<1> QED
  BY <1>1, <1>2, <1>3, <1>4, <1>5 DEF Next

(* Whatever is killed, repeated, revoked, granted again or taken over by   *)
(* another session, the spool's cursor passes only what the hub has        *)
(* (AckRecovery, runCollectorSpoolRecoveryApply).                          *)
THEOREM CursorIsBehindTheHub == Spec => []CursorFollowsHub
<1>1. ReplayInv => CursorFollowsHub
  BY DEF ReplayInv, CursorFollowsHub
<1> QED
  BY <1>1, ReplayInit, StepKeepsTheCursor, PTL DEF Spec

-----------------------------------------------------------------------------
(* The books: what was counted, what the hub has receipts of and what is   *)
(* reserved.  The operators are of values, so that what is proved of them  *)
(* holds before and after a step: rs are the hub's receipts, P the runs    *)
(* every grant approves, left the runs that are still in the spool.        *)

Of(rs, g) == {e.run : e \in {e \in rs : e.grant = g}}
Told(rs, g, R, w) == {e \in rs : e.grant = g /\ e.run \in R /\ e.how = w}

(* A grant has at most one receipt of a run.                               *)
OneEach(rs) == \A e, f \in rs : e.grant = f.grant /\ e.run = f.run => e = f

ReceiptsOK(rs, n, P) ==
  /\ IsFiniteSet(rs) /\ OneEach(rs)
  /\ \A e \in rs : e.grant \in 1..n /\ e.run \in P /\ e.how \in {"recovered", "duplicate"}

(* The two numbers are those of the receipts that a grant has of the runs. *)
Tells(rs, g, R, rec, dup) ==
  /\ R \subseteq Of(rs, g)
  /\ rec = Cardinality(Told(rs, g, R, "recovered"))
  /\ dup = Cardinality(Told(rs, g, R, "duplicate"))

(* Runs that were the head of the spool are that still, or have all left.  *)
OnHead(R, left, P) == R \cap left = {} \/ R = Readable(P, left)

(* An acknowledgement on disk has the hub's own numbers.                   *)
AckIsTrue(a, left, rs, P) ==
  a.ack # None =>
    /\ Tells(rs, a.grant, a.ack.runs, a.ack.rec, a.ack.dup)
    /\ a.ack.runs # {} /\ OnHead(a.ack.runs, left, P)

(* What an apply has counted are the receipts of some runs C, which have   *)
(* left the spool and are not those of its saved acknowledgement: so that  *)
(* is counted once, whichever process does it.                             *)
Counts(a, C, left, rs) ==
  /\ Tells(rs, a.grant, C, a.rec, a.dup)
  /\ C \cap left = {} /\ (a.ack # None => a.ack.runs \cap C = {})

ApplyFields == {"kind", "grant", "prev", "session", "ack", "rec", "dup", "reported", "complete"}

Entry(a, left, rs, n, P) ==
  /\ DOMAIN a = ApplyFields /\ a.kind = "apply" /\ a.grant \in 1..n
  /\ AckIsTrue(a, left, rs, P)
  /\ \E C \in SUBSET P : Counts(a, C, left, rs)
  /\ a.complete \in BOOLEAN /\ a.reported \in BOOLEAN
  /\ a.complete => a.reported /\ a.rec + a.dup = Cardinality(P)

(* The manifest, once written, does not change, and every grant is of it.  *)
OneManifest ==
  /\ DOMAIN preview = {"man", "compact", "file"}
  /\ preview.man \in SUBSET Runs /\ preview.file \in {{}, preview.man}

Grants(P) == [runs : {P}, exp : Nat, state : {"open", "revoked", "done"}]

(* At most one grant is open, and its bytes are what is reserved; one that *)
(* has a receipt of every run is done.                                     *)
GrantsOK(gs, rs, P, res) ==
  /\ gs \in Seq(Grants(P)) /\ (Len(gs) > 0 => P # {})
  /\ \A g, h \in DOMAIN gs : gs[g].state = "open" /\ gs[h].state = "open" => g = h
  /\ \A g \in DOMAIN gs : Of(rs, g) = P => gs[g].state = "done"
  /\ res = IF \E g \in DOMAIN gs : gs[g].state = "open" THEN Cardinality(P) ELSE 0

HubOK ==
  /\ now \in Nat /\ GrantsOK(grants, receipts, preview.file, reserved)
  /\ ReceiptsOK(receipts, Len(grants), preview.file)

Entries ==
  \A k \in Keys :
    applies[k] = NoApply \/ Entry(applies[k], Retained, receipts, Len(grants), preview.file)

(* The command c that holds the lock, with a its receipt: the runs it asks *)
(* for are the head of the spool, and its acknowledgement is of them.      *)
CommandOK(c, a, cursor, left, P) ==
  /\ DOMAIN c = {"pc", "key", "runs"}
  /\ c.pc \notin Outside => ~a.reported /\ a.kind = "apply"
  /\ c.pc \in {"ask", "ack"} => c.runs # {} /\ c.runs \subseteq left /\ c.runs = Readable(P, left)
  /\ c.pc = "ask" => (a.ack # None => a.ack.runs = c.runs)
  /\ c.pc \in {"ack", "count"} => a.ack # None /\ a.ack.runs = c.runs
  /\ c.pc = "count" => c.runs \subseteq cursor

BooksInv ==
  /\ OneManifest /\ HubOK /\ Entries
  /\ CommandOK(cli, Mine, acked, Retained, preview.file)

(* The runs are a finite set of numbers.                                   *)
LEMMA RunsAreFinite == IsFiniteSet(Runs) /\ Runs \subseteq Nat
<1>1. Files * FileSize \in Int
  BY ReplayAssumption
<1> QED
  BY <1>1, FS_Interval DEF Runs

(* Of finitely many receipts finitely many are told.                       *)
LEMMA ToldIsFinite ==
    ASSUME NEW rs, IsFiniteSet(rs), NEW g, NEW R, NEW w
    PROVE  IsFiniteSet(Told(rs, g, R, w)) /\ Cardinality(Told(rs, g, R, w)) \in Nat
<1>1. Told(rs, g, R, w) \subseteq rs
  BY DEF Told
<1>2. IsFiniteSet(Told(rs, g, R, w))
  BY <1>1, FS_Subset
<1> QED
  BY <1>2, FS_CardinalityType

(* Nothing is told of no runs.                                             *)
LEMMA NothingTold == ASSUME NEW rs, NEW g PROVE Tells(rs, g, {}, 0, 0)
<1>1. \A w : Told(rs, g, {}, w) = {}
  BY DEF Told
<1> QED
  BY <1>1, FS_EmptySet DEF Tells

(* What is told of disjoint sets of runs adds up.                          *)
LEMMA TalliesAdd ==
    ASSUME NEW rs, IsFiniteSet(rs), NEW g, NEW C, NEW D, C \cap D = {},
           NEW r, NEW d, NEW s, NEW e, Tells(rs, g, C, r, d), Tells(rs, g, D, s, e)
    PROVE  Tells(rs, g, C \cup D, r + s, d + e)
<1>1. ASSUME NEW w
      PROVE  Cardinality(Told(rs, g, C \cup D, w))
               = Cardinality(Told(rs, g, C, w)) + Cardinality(Told(rs, g, D, w))
  <2>1. /\ Told(rs, g, C \cup D, w) = Told(rs, g, C, w) \cup Told(rs, g, D, w)
        /\ Told(rs, g, C, w) \cap Told(rs, g, D, w) = {}
    BY DEF Told
  <2>2. /\ IsFiniteSet(Told(rs, g, C, w)) /\ Cardinality(Told(rs, g, C, w)) \in Nat
        /\ IsFiniteSet(Told(rs, g, D, w)) /\ Cardinality(Told(rs, g, D, w)) \in Nat
    BY ToldIsFinite
  <2>3. Cardinality(Told(rs, g, C, w) \cup Told(rs, g, D, w))
          = Cardinality(Told(rs, g, C, w)) + Cardinality(Told(rs, g, D, w)) - Cardinality({})
    BY <2>1, <2>2, FS_Union
  <2>4. Cardinality(Told(rs, g, C \cup D, w)) = Cardinality(Told(rs, g, C, w) \cup Told(rs, g, D, w))
    BY <2>1
  <2>5. Cardinality({}) = 0
    BY FS_EmptySet
  <2> QED
    BY <2>2, <2>3, <2>4, <2>5
<1> QED
  BY <1>1 DEF Tells

(* Of as many runs as the numbers say: a grant has one receipt of each.    *)
LEMMA TallyIsSize ==
    ASSUME NEW rs, NEW n, NEW P, ReceiptsOK(rs, n, P), NEW g, NEW C, NEW r, NEW d,
           Tells(rs, g, C, r, d)
    PROVE  r \in Nat /\ d \in Nat /\ IsFiniteSet(C) /\ Cardinality(C) = r + d
<1> DEFINE A == Told(rs, g, C, "recovered")
           B == Told(rs, g, C, "duplicate")
           f == [e \in A \cup B |-> e.run]
<1>1. IsFiniteSet(A) /\ IsFiniteSet(B) /\ Cardinality(A) \in Nat /\ Cardinality(B) \in Nat
  BY ToldIsFinite DEF ReceiptsOK
<1>2. A \cap B = {}
  BY DEF Told
<1>3. IsFiniteSet(A \cup B) /\ Cardinality(A \cup B) = Cardinality(A) + Cardinality(B)
  <2>1. IsFiniteSet(A \cup B) /\ Cardinality(A \cup B) = Cardinality(A) + Cardinality(B) - Cardinality({})
    BY <1>1, <1>2, FS_Union
  <2> QED
    BY <1>1, <2>1, FS_EmptySet
<1>4. A \cup B = {e \in rs : e.grant = g /\ e.run \in C}
  BY DEF Told, ReceiptsOK
<1>5. f \in [A \cup B -> C] /\ \A r1 \in C : \E e \in A \cup B : f[e] = r1
  BY <1>4 DEF Tells, Of
<1>6. \A e, h \in A \cup B : f[e] = f[h] => e = h
  BY <1>4 DEF ReceiptsOK, OneEach
<1> HIDE DEF f
<1>7. f \in Surjection(A \cup B, C) /\ f \in Injection(A \cup B, C)
  BY <1>5, <1>6 DEF Surjection, Injection, IsInjective
<1>8. IsFiniteSet(C) /\ Cardinality(C) = Cardinality(A \cup B)
  BY <1>3, <1>7, FS_Surjection
<1> QED
  BY <1>1, <1>3, <1>8 DEF Tells

(* The hub gains receipts: what was told of runs that had theirs stays.    *)
LEMMA TallyStays ==
    ASSUME NEW rs, NEW rs2, rs \subseteq rs2, OneEach(rs2), NEW g, NEW R, NEW r, NEW d,
           Tells(rs, g, R, r, d)
    PROVE  Tells(rs2, g, R, r, d)
<1>1. R \subseteq Of(rs, g) /\ R \subseteq Of(rs2, g)
  BY DEF Tells, Of
<1>2. ASSUME NEW w PROVE Told(rs2, g, R, w) = Told(rs, g, R, w)
  BY <1>1 DEF Told, Of, OneEach
<1> QED
  BY <1>1, <1>2 DEF Tells

-----------------------------------------------------------------------------
(* Induction, for the head of the spool: its least run.                    *)

(* A set with 0 and every successor has all the numbers.                   *)
LEMMA SetInduction ==
    ASSUME NEW S, 0 \in S, \A n \in Nat : n \in S => n + 1 \in S
    PROVE  Nat \subseteq S
<1> SUFFICES ASSUME NEW n \in Nat, n \notin S PROVE FALSE
  OBVIOUS
<1> DEFINE T == {k \in 0..n : k \notin S}
           f == [k \in T |-> k - 1]
<1>1. n \in T /\ T \subseteq 0..n
  OBVIOUS
<1>2. \A k \in T : k - 1 \in T \ {n}
  OBVIOUS
<1>3. f \in [T -> T \ {n}] /\ \A x, y \in T : x # y => f[x] # f[y]
  BY <1>2
<1> HIDE DEF T, f
<1>4. IsFiniteSet(T)
  <2>1. IsFiniteSet(0..n)
    BY FS_Interval
  <2> QED
    BY <1>1, <2>1, FS_Subset
<1>5. Cardinality(T) \in Nat /\ IsFiniteSet(T \ {n}) /\ Cardinality(T \ {n}) = Cardinality(T) - 1
  BY <1>1, <1>4, FS_CardinalityType, FS_RemoveElement
<1>6. Cardinality(T \ {n}) < Cardinality(T)
  BY <1>5
<1>7. \E x, y \in T : x # y /\ f[x] = f[y]
  BY <1>3, <1>4, <1>5, <1>6, FS_PigeonHole
<1> QED
  BY <1>3, <1>7

(* A set of numbers that is not empty has a least one.                     *)
LEMMA LeastIsThere ==
    ASSUME NEW S \in SUBSET Nat, S # {}
    PROVE  Min(S) \in S /\ \A y \in S : Min(S) <= y
<1> DEFINE Least(T) == \E x \in T : \A y \in T : x <= y
           Good == {m \in Nat : \A T \in SUBSET Nat : (\E x \in T : x <= m) => Least(T)}
<1>1. 0 \in Good
  OBVIOUS
<1>2. ASSUME NEW m \in Nat, m \in Good PROVE m + 1 \in Good
  <2> SUFFICES ASSUME NEW T \in SUBSET Nat, \E x \in T : x <= m + 1 PROVE Least(T)
    OBVIOUS
  <2>1. CASE \E x \in T : x <= m
    BY <1>2, <2>1
  <2>2. CASE ~\E x \in T : x <= m
    <3>1. m + 1 \in T /\ \A y \in T : m + 1 <= y
      BY <2>2
    <3> QED
      BY <3>1
  <2> QED
    BY <2>1, <2>2
<1> HIDE DEF Good
<1>3. Nat \subseteq Good
  BY <1>1, <1>2, SetInduction
<1> USE DEF Good
<1>4. PICK x \in S : TRUE
  OBVIOUS
<1>5. x \in Good /\ x \in Nat /\ x <= x
  BY <1>3, <1>4
<1>6. Least(S)
  BY <1>4, <1>5
<1> QED
  BY <1>6, Zenon DEF Min

(* The runs of a file age together: those at the head stay it, or all go.  *)
LEMMA AgingKeepsTheHead ==
    ASSUME NEW left \in SUBSET Runs, NEW old \in SUBSET left, NEW P, NEW R, OnHead(R, left, P),
           \A q, r \in left : FileOf(q) = FileOf(r) /\ q \in old => r \in old
    PROVE  OnHead(R, left \ old, P)
<1>1. CASE R \cap left = {}
  BY <1>1 DEF OnHead
<1>2. CASE R = Readable(P, left) /\ left # {}
  <2>1. /\ HeadOf(left) \in left /\ \A y \in left : HeadOf(left) <= y
        /\ left \subseteq Nat
    BY <1>2, RunsAreFinite, LeastIsThere DEF HeadOf
  <2>2. \A r \in R : r \in left /\ FileOf(r) = FileOf(HeadOf(left))
    BY <1>2 DEF Readable
  <2>3. CASE HeadOf(left) \in old
    BY <2>1, <2>2, <2>3 DEF OnHead
  <2>4. CASE HeadOf(left) \notin old
    <3>1. HeadOf(left) \in left \ old
      BY <2>1, <2>4
    <3>2. /\ HeadOf(left \ old) \in left \ old
          /\ \A y \in left \ old : HeadOf(left \ old) <= y
      BY <2>1, <3>1, LeastIsThere DEF HeadOf
    <3>3. HeadOf(left \ old) = HeadOf(left)
      <4>1. HeadOf(left \ old) <= HeadOf(left) /\ HeadOf(left) <= HeadOf(left \ old)
        BY <2>1, <3>1, <3>2
      <4>2. HeadOf(left \ old) \in Nat /\ HeadOf(left) \in Nat
        BY <2>1, <3>2
      <4> HIDE DEF HeadOf
      <4> QED
        BY <4>1, <4>2
    <3>4. {r \in left \ old : FileOf(r) = FileOf(HeadOf(left))}
            = {r \in left : FileOf(r) = FileOf(HeadOf(left))}
      BY <2>1, <2>4
    <3>5. Readable(P, left \ old) = Readable(P, left)
      BY <3>3, <3>4, Zenon DEF Readable
    <3> QED
      BY <1>2, <3>5 DEF OnHead
  <2> QED
    BY <2>3, <2>4
<1> QED
  BY <1>1, <1>2 DEF OnHead

(* The head is acknowledged: whoever had it as its own has it no longer.   *)
LEMMA AckTakesTheHead ==
    ASSUME NEW left, NEW P, NEW R, OnHead(R, left, P)
    PROVE  OnHead(R, left \ Readable(P, left), P)
  BY DEF OnHead

-----------------------------------------------------------------------------
(* What happens to the receipt of an apply.                                *)

(* Runs leave the spool.                                                   *)
LEMMA EntryShrinks ==
    ASSUME NEW a, NEW left, NEW left2 \in SUBSET left, NEW rs, NEW n, NEW P,
           Entry(a, left, rs, n, P), \A R : OnHead(R, left, P) => OnHead(R, left2, P)
    PROVE  Entry(a, left2, rs, n, P)
<1>1. AckIsTrue(a, left2, rs, P)
  BY DEF Entry, AckIsTrue
<1>2. \E C \in SUBSET P : Counts(a, C, left2, rs)
  BY DEF Entry, Counts
<1> QED
  BY <1>1, <1>2 DEF Entry

(* The hub gains receipts and grants.                                      *)
LEMMA EntryGrows ==
    ASSUME NEW a, NEW left, NEW rs, NEW rs2, NEW n \in Nat, NEW n2 \in Nat, NEW P,
           Entry(a, left, rs, n, P), rs \subseteq rs2, OneEach(rs2), n <= n2
    PROVE  Entry(a, left, rs2, n2, P)
<1>1. AckIsTrue(a, left, rs2, P)
  BY TallyStays DEF Entry, AckIsTrue
<1>2. \E C \in SUBSET P : Counts(a, C, left, rs2)
  BY TallyStays DEF Entry, Counts
<1>3. a.grant \in 1..n2
  BY DEF Entry
<1> QED
  BY <1>1, <1>2, <1>3 DEF Entry

(* A new apply has counted nothing.                                        *)
LEMMA EntryBegins ==
    ASSUME NEW left, NEW rs, NEW n, NEW P, NEW g \in 1..n, NEW prev
    PROVE  Entry([kind |-> "apply", grant |-> g, prev |-> prev, session |-> 0, ack |-> None,
                  rec |-> 0, dup |-> 0, reported |-> FALSE, complete |-> FALSE], left, rs, n, P)
<1> DEFINE a == [kind |-> "apply", grant |-> g, prev |-> prev, session |-> 0, ack |-> None,
                 rec |-> 0, dup |-> 0, reported |-> FALSE, complete |-> FALSE]
<1>1. /\ DOMAIN a = ApplyFields /\ a.kind = "apply" /\ a.grant = g /\ a.ack = None
      /\ a.rec = 0 /\ a.dup = 0 /\ a.reported = FALSE /\ a.complete = FALSE
  BY DEF ApplyFields
<1> HIDE DEF a
<1>2. Counts(a, {}, left, rs)
  BY <1>1, NothingTold DEF Counts
<1>3. AckIsTrue(a, left, rs, P)
  BY <1>1 DEF AckIsTrue
<1>4. Entry(a, left, rs, n, P)
  BY <1>1, <1>2, <1>3 DEF Entry
<1> QED
  BY <1>4 DEF a

(* Its session is kept in it.                                              *)
LEMMA EntryActivates ==
    ASSUME NEW a, NEW left, NEW rs, NEW n, NEW P, Entry(a, left, rs, n, P), NEW s
    PROVE  /\ Entry([a EXCEPT !.session = s], left, rs, n, P)
           /\ [a EXCEPT !.session = s].reported = a.reported
           /\ [a EXCEPT !.session = s].ack = a.ack
<1> DEFINE b == [a EXCEPT !.session = s]
<1>0. DOMAIN a = ApplyFields
  BY DEF Entry
<1>1. /\ DOMAIN b = DOMAIN a /\ b.kind = a.kind /\ b.grant = a.grant /\ b.ack = a.ack
      /\ b.rec = a.rec /\ b.dup = a.dup /\ b.reported = a.reported /\ b.complete = a.complete
  BY <1>0 DEF ApplyFields
<1> HIDE DEF b
<1>2. Entry(b, left, rs, n, P)
  BY <1>1 DEF Entry, AckIsTrue, Counts
<1> QED
  BY <1>1, <1>2 DEF b

(* The hub's answer of the head of the spool is saved.                     *)
LEMMA EntryAsks ==
    ASSUME NEW a, NEW left, NEW rs, NEW n, NEW P, Entry(a, left, rs, n, P), a.ack = None,
           NEW ack, ack # None, ack.runs # {}, ack.runs \subseteq left, ack.runs = Readable(P, left),
           Tells(rs, a.grant, ack.runs, ack.rec, ack.dup)
    PROVE  /\ Entry([a EXCEPT !.ack = ack], left, rs, n, P)
           /\ [a EXCEPT !.ack = ack].reported = a.reported
           /\ [a EXCEPT !.ack = ack].ack = ack
<1> DEFINE b == [a EXCEPT !.ack = ack]
<1>0. DOMAIN a = ApplyFields
  BY DEF Entry
<1>1. /\ DOMAIN b = DOMAIN a /\ b.kind = a.kind /\ b.grant = a.grant /\ b.ack = ack
      /\ b.rec = a.rec /\ b.dup = a.dup /\ b.reported = a.reported /\ b.complete = a.complete
  BY <1>0 DEF ApplyFields
<1> HIDE DEF b
<1>2. AckIsTrue(b, left, rs, P)
  BY <1>1 DEF AckIsTrue, OnHead
<1>3. PICK C \in SUBSET P : Counts(a, C, left, rs)
  BY DEF Entry
<1>4. Counts(b, C, left, rs)
  BY <1>1, <1>3 DEF Counts
<1>5. Entry(b, left, rs, n, P)
  BY <1>1, <1>2, <1>4 DEF Entry
<1> QED
  BY <1>1, <1>5 DEF b

(* The acknowledged runs have left the spool: they are counted.            *)
LEMMA EntryCounts ==
    ASSUME NEW a, NEW left, NEW rs, NEW n, NEW P, Entry(a, left, rs, n, P), ReceiptsOK(rs, n, P),
           a.ack # None, a.ack.runs \cap left = {}, ~a.reported
    PROVE  /\ Entry(Counted(a), left, rs, n, P)
           /\ Counted(a).reported = a.reported /\ Counted(a).ack = None
<1> DEFINE b == Counted(a)
<1>0. DOMAIN a = ApplyFields
  BY DEF Entry
<1>1. /\ DOMAIN b = DOMAIN a /\ b.kind = a.kind /\ b.grant = a.grant /\ b.ack = None
      /\ b.reported = a.reported /\ b.complete = a.complete
      /\ b.rec = a.rec + a.ack.rec /\ b.dup = a.dup + a.ack.dup
  BY <1>0, Zenon DEF ApplyFields, Counted
<1> HIDE DEF b
<1>2. PICK C \in SUBSET P : Counts(a, C, left, rs)
  BY DEF Entry
<1> DEFINE D == C \cup a.ack.runs
<1>3. Tells(rs, a.grant, D, b.rec, b.dup)
  <2>1. /\ Tells(rs, a.grant, C, a.rec, a.dup) /\ C \cap a.ack.runs = {}
        /\ Tells(rs, a.grant, a.ack.runs, a.ack.rec, a.ack.dup) /\ IsFiniteSet(rs)
    BY <1>2 DEF Counts, Entry, AckIsTrue, ReceiptsOK
  <2>2. Tells(rs, a.grant, C \cup a.ack.runs, a.rec + a.ack.rec, a.dup + a.ack.dup)
    BY <2>1, TalliesAdd
  <2> QED
    BY <1>1, <2>2
<1>4. D \in SUBSET P /\ D \cap left = {}
  <2>1. D \subseteq Of(rs, a.grant)
    BY <1>3 DEF Tells
  <2>2. Of(rs, a.grant) \subseteq P
    BY DEF Of, ReceiptsOK
  <2> QED
    BY <1>2, <2>1, <2>2 DEF Counts
<1> HIDE DEF D
<1>5. Counts(b, D, left, rs)
  BY <1>1, <1>3, <1>4 DEF Counts
<1>6. AckIsTrue(b, left, rs, P)
  BY <1>1 DEF AckIsTrue
<1>7. Entry(b, left, rs, n, P)
  BY <1>1, <1>4, <1>5, <1>6 DEF Entry
<1> QED
  BY <1>1, <1>7 DEF b

(* The apply ends with its report.                                         *)
LEMMA EntryReports ==
    ASSUME NEW a, NEW left, NEW rs, NEW n, NEW P, Entry(a, left, rs, n, P),
           NEW c \in BOOLEAN, c => a.rec + a.dup = Cardinality(P)
    PROVE  Entry([a EXCEPT !.reported = TRUE, !.complete = c], left, rs, n, P)
<1> DEFINE b == [a EXCEPT !.reported = TRUE, !.complete = c]
<1>0. DOMAIN a = ApplyFields
  BY DEF Entry
<1>1. /\ DOMAIN b = DOMAIN a /\ b.kind = a.kind /\ b.grant = a.grant /\ b.ack = a.ack
      /\ b.rec = a.rec /\ b.dup = a.dup /\ b.reported = TRUE /\ b.complete = c
  BY <1>0, Zenon DEF ApplyFields
<1> HIDE DEF b
<1>2. Entry(b, left, rs, n, P)
  BY <1>1 DEF Entry, AckIsTrue, Counts
<1> QED
  BY <1>2 DEF b

-----------------------------------------------------------------------------
(* The hub.                                                                *)

(* The grants that are open, and the bytes that some of them reserve.      *)
OpenOf(gs) == {g \in DOMAIN gs : gs[g].state = "open"}
BytesOf(gs, open) == Cardinality({p \in open \X Runs : p[2] \in gs[p[1]].runs})

(* What is reserved is what the one grant that is open has.                *)
LEMMA OpenReserves ==
    ASSUME NEW P \in SUBSET Runs, NEW gs, NEW rs, NEW res, GrantsOK(gs, rs, P, res)
    PROVE  res \in Nat /\ Cardinality(P) \in Nat /\ res = BytesOf(gs, OpenOf(gs))
<1> DEFINE open == OpenOf(gs)
<1> USE DEF BytesOf, OpenOf
<1>1. IsFiniteSet(P) /\ Cardinality(P) \in Nat
  BY RunsAreFinite, FS_Subset, FS_CardinalityType
<1>2. \A g \in DOMAIN gs : gs[g].runs = P
  <2>1. \A g \in DOMAIN gs : gs[g] \in Grants(P)
    BY DEF GrantsOK
  <2> QED
    BY <2>1 DEF Grants
<1>3. CASE open = {}
  <2>1. {p \in open \X Runs : p[2] \in gs[p[1]].runs} = {}
    BY <1>3
  <2>2. res = 0
    BY <1>3 DEF GrantsOK
  <2> QED
    BY <1>1, <2>1, <2>2, FS_EmptySet
<1>4. CASE open # {}
  <2>1. PICK g \in open : TRUE
    BY <1>4
  <2>2. open = {g}
    BY <2>1 DEF GrantsOK
  <2>3. {p \in open \X Runs : p[2] \in gs[p[1]].runs} = {g} \X P
    BY <1>2, <2>1, <2>2
  <2>4. IsFiniteSet({g}) /\ Cardinality({g}) = 1
    BY FS_Singleton
  <2>5. Cardinality({g} \X P) = Cardinality({g}) * Cardinality(P)
    BY <1>1, <2>4, FS_Product
  <2>6. Cardinality({g}) * Cardinality(P) = Cardinality(P)
    BY <1>1, <2>4
  <2>7. res = Cardinality(P)
    BY <2>1 DEF GrantsOK
  <2> QED
    BY <1>1, <2>3, <2>5, <2>6, <2>7
<1> QED
  BY <1>3, <1>4

(* A grant that is opened is the only one, and pays for its receipts.      *)
LEMMA CreateKeepsHub ==
    ASSUME OneManifest, HubOK, CreateRecoveryGrant
    PROVE  HubOK' /\ Len(grants') = Len(grants) + 1
<1> DEFINE P == preview.file
           lapsed == {g \in DOMAIN grants : Lapsed(g)}
           new == [runs |-> P, exp |-> now + Life, state |-> "open"]
           left == [g \in DOMAIN grants |->
                      IF g \in lapsed THEN [grants[g] EXCEPT !.state = "revoked"] ELSE grants[g]]
<1>1. /\ P # {} /\ \A g \in DOMAIN grants \ lapsed : ~Open(g)
      /\ grants' = Append(left, new) /\ reserved' = Reserve(reserved - Sum(lapsed), P)
      /\ UNCHANGED <<now, preview, receipts>>
  BY DEF CreateRecoveryGrant, GrantRequest, collector
<1>2. /\ grants \in Seq(Grants(P)) /\ Len(grants) \in Nat /\ DOMAIN grants = 1..Len(grants)
      /\ now \in Nat /\ Life \in Nat
  BY ReplayAssumption DEF HubOK, GrantsOK
<1>3. \A g \in DOMAIN grants : grants[g] \in Grants(P)
  BY <1>2
<1>4. new \in Grants(P) /\ new.state = "open" /\ new.runs = P
  BY <1>2 DEF Grants
<1>5. ASSUME NEW g \in DOMAIN grants
      PROVE  left[g] \in Grants(P) /\ left[g].state # "open"
               /\ (grants[g].state = "done" => left[g].state = "done")
  <2>1. CASE g \in lapsed
    <3>1. left[g] = [grants[g] EXCEPT !.state = "revoked"] /\ grants[g].state = "open"
      BY <2>1 DEF Lapsed, Open
    <3> QED
      BY <1>3, <3>1 DEF Grants
  <2>2. CASE g \notin lapsed
    <3>1. left[g] = grants[g] /\ grants[g].state # "open"
      BY <1>1, <2>2 DEF Open
    <3> QED
      BY <1>3, <3>1
  <2> QED
    BY <2>1, <2>2
<1>6. left \in Seq(Grants(P)) /\ Len(left) = Len(grants)
  <2>1. DOMAIN left = 1..Len(grants) /\ left \in [1..Len(grants) -> Grants(P)]
    BY <1>2, <1>5
  <2> HIDE DEF left
  <2> QED
    BY <1>2, <2>1
<1> HIDE DEF left, new
<1>7. /\ grants' \in Seq(Grants(P)) /\ Len(grants') = Len(grants) + 1
      /\ DOMAIN grants' = 1..(Len(grants) + 1) /\ grants'[Len(grants) + 1] = new
      /\ \A g \in DOMAIN grants : grants'[g] = left[g]
  BY <1>1, <1>2, <1>4, <1>6
<1>8. \A g \in DOMAIN grants' : grants'[g].state = "open" <=> g = Len(grants) + 1
  BY <1>2, <1>4, <1>5, <1>7
<1>9. ReceiptsOK(receipts', Len(grants'), preview'.file)
  BY <1>1, <1>2, <1>7 DEF HubOK, ReceiptsOK
<1>10. ASSUME NEW g \in DOMAIN grants', Of(receipts', g) = P PROVE grants'[g].state = "done"
  <2>1. CASE g = Len(grants) + 1
    <3>1. Of(receipts, g) = {}
      BY <1>2, <2>1 DEF Of, HubOK, ReceiptsOK
    <3> QED
      BY <1>1, <1>10, <3>1
  <2>2. CASE g # Len(grants) + 1
    <3>1. g \in DOMAIN grants
      BY <1>2, <1>7, <2>2
    <3>2. grants[g].state = "done"
      BY <1>1, <1>10, <3>1 DEF HubOK, GrantsOK
    <3> QED
      BY <1>5, <1>7, <3>1, <3>2
  <2> QED
    BY <2>1, <2>2
<1>11. reserved' = Cardinality(P)
  <2>1. lapsed = OpenOf(grants)
    BY <1>1 DEF Lapsed, Open, OpenOf
  <2>2. Sum(lapsed) = BytesOf(grants, lapsed)
    BY DEF Sum, Approved, BytesOf
  <2>3. P \in SUBSET Runs
    BY DEF OneManifest
  <2> HIDE DEF lapsed, P
  <2>4. GrantsOK(grants, receipts, P, reserved)
    BY DEF HubOK, P
  <2>5. /\ reserved \in Nat /\ Cardinality(P) \in Nat
        /\ reserved = BytesOf(grants, OpenOf(grants))
    BY <2>3, <2>4, OpenReserves
  <2>6. reserved = Sum(lapsed)
    BY <2>1, <2>2, <2>5, Zenon
  <2> QED
    BY <1>1, <2>5, <2>6 DEF Reserve
<1>12. GrantsOK(grants', receipts', P, reserved')
  BY <1>1, <1>2, <1>7, <1>8, <1>10, <1>11 DEF GrantsOK
<1> QED
  BY <1>1, <1>2, <1>7, <1>9, <1>12 DEF HubOK

(* A grant that is revoked gives back what it had reserved.                *)
LEMMA RevokeKeepsHub ==
    ASSUME OneManifest, HubOK, RevokeRecoveryGrant
    PROVE  HubOK' /\ Len(grants') = Len(grants)
<1> DEFINE P == preview.file
<1>1. PICK g \in DOMAIN grants :
        /\ Open(g) /\ grants' = [grants EXCEPT ![g].state = "revoked"]
        /\ reserved' = GiveBack(reserved, Approved(g)) /\ UNCHANGED <<now, preview, receipts>>
  BY DEF RevokeRecoveryGrant, collector
<1>2. /\ grants \in Seq(Grants(P)) /\ Len(grants) \in Nat /\ DOMAIN grants = 1..Len(grants)
      /\ \A h \in DOMAIN grants : grants[h] \in Grants(P)
  BY DEF HubOK, GrantsOK
<1>3. /\ grants[g].state = "open" /\ grants[g].runs = P
      /\ \A h \in DOMAIN grants : grants[h].state = "open" => h = g
  BY <1>1, <1>2 DEF HubOK, GrantsOK, Open, Grants
<1>4. [grants[g] EXCEPT !.state = "revoked"] \in Grants(P)
  BY <1>2 DEF Grants
<1>5. /\ grants' \in Seq(Grants(P)) /\ Len(grants') = Len(grants) /\ DOMAIN grants' = DOMAIN grants
      /\ grants'[g].state = "revoked" /\ \A h \in DOMAIN grants \ {g} : grants'[h] = grants[h]
  BY <1>1, <1>2, <1>4 DEF Grants
<1>6. reserved' = 0
  <2>1. reserved = Cardinality(P)
    BY <1>3 DEF HubOK, GrantsOK
  <2>2. Cardinality(P) \in Nat
    <3>1. IsFiniteSet(P)
      BY RunsAreFinite, FS_Subset DEF OneManifest
    <3> QED
      BY <3>1, FS_CardinalityType
  <2> QED
    BY <1>1, <1>3, <2>1, <2>2 DEF GiveBack, Approved
<1>7. \A h \in DOMAIN grants' : Of(receipts', h) = P => grants'[h].state = "done"
  BY <1>1, <1>3, <1>5 DEF HubOK, GrantsOK
<1>8. GrantsOK(grants', receipts', P, reserved')
  BY <1>2, <1>3, <1>5, <1>6, <1>7 DEF HubOK, GrantsOK
<1> QED
  BY <1>1, <1>5, <1>8 DEF HubOK

(* A request adds the receipts that were missing.                          *)
LEMMA IngestKeepsHub ==
    ASSUME OneManifest, HubOK, NEW g \in DOMAIN grants, NEW runs, NEW session, NEW boot,
           IngestRecoveryReplay(g, runs, session, boot), UNCHANGED <<now, preview>>
    PROVE  /\ HubOK' /\ Len(grants') = Len(grants) /\ receipts \subseteq receipts'
           /\ runs \subseteq Of(receipts', g)
<1> DEFINE P == preview.file
           missing == runs \ Of(receipts, g)
           of(r) == [grant |-> g, run |-> r, how |-> IF r \in stored THEN "duplicate" ELSE "recovered"]
           new == {of(r) : r \in missing}
<1>1. Receipted(g) = Of(receipts, g) /\ Approved(g) = P
  <2>1. grants[g] \in Grants(P)
    BY DEF HubOK, GrantsOK
  <2> QED
    BY <2>1 DEF Receipted, ReceiptsOf, Of, Approved, Grants
<1>2. /\ grants[g].state # "revoked" /\ runs \subseteq P /\ P \subseteq Runs
      /\ receipts' = receipts \cup new
  BY <1>1 DEF IngestRecoveryReplay, Admits, SegmentsApproved, NewReceipts, OneManifest
<1>3. /\ grants \in Seq(Grants(P)) /\ Len(grants) \in Nat /\ DOMAIN grants = 1..Len(grants)
      /\ \A h \in DOMAIN grants : grants[h] \in Grants(P)
  BY DEF HubOK, GrantsOK
<1>4. IsFiniteSet(receipts')
  <2>1. IsFiniteSet(missing)
    BY <1>2, RunsAreFinite, FS_Subset
  <2> DEFINE f == [r \in missing |-> of(r)]
  <2>2. f \in Surjection(missing, new)
    <3>1. f \in [missing -> new] /\ \A e \in new : \E r \in missing : f[r] = e
      OBVIOUS
    <3> HIDE DEF f, new
    <3> QED
      BY <3>1 DEF Surjection
  <2> HIDE DEF f, new, missing
  <2>3. IsFiniteSet(new)
    BY <2>1, <2>2, FS_Surjection
  <2> QED
    BY <1>2, <2>3, FS_Union DEF HubOK, ReceiptsOK
<1>5. OneEach(receipts')
  <2> SUFFICES ASSUME NEW e \in receipts \cup new, NEW f \in receipts \cup new,
                      e.grant = f.grant, e.run = f.run
               PROVE  e = f
    BY <1>2 DEF OneEach
  <2>1. CASE e \in receipts /\ f \in receipts
    BY <2>1 DEF HubOK, ReceiptsOK, OneEach
  <2>2. CASE e \in new /\ f \in new
    BY <2>2
  <2>3. ASSUME NEW x \in receipts, NEW y \in new, x.grant = y.grant, x.run = y.run PROVE FALSE
    BY <2>3 DEF Of
  <2> QED
    BY <2>1, <2>2, <2>3
<1>6. ReceiptsOK(receipts', Len(grants), P)
  <2>1. \A e \in new : e.grant \in 1..Len(grants) /\ e.run \in P /\ e.how \in {"recovered", "duplicate"}
    BY <1>2, <1>3
  <2> QED
    BY <1>2, <1>4, <1>5, <2>1 DEF HubOK, ReceiptsOK
<1>7. /\ Of(receipts', g) = Of(receipts, g) \cup runs
      /\ \A h \in DOMAIN grants \ {g} : Of(receipts', h) = Of(receipts, h)
  <2>1. \A e \in new : e.grant = g /\ e.run \in runs
    OBVIOUS
  <2>2. ASSUME NEW h \in DOMAIN grants \ {g} PROVE Of(receipts', h) = Of(receipts, h)
    <3>1. {e \in receipts' : e.grant = h} = {e \in receipts : e.grant = h}
      BY <1>2, <2>1
    <3> QED
      BY <3>1 DEF Of
  <2>3. Of(receipts', g) \subseteq Of(receipts, g) \cup runs
    BY <1>2, <2>1 DEF Of
  <2>4. Of(receipts, g) \subseteq Of(receipts', g)
    BY <1>2 DEF Of
  <2>5. ASSUME NEW r \in missing PROVE r \in Of(receipts', g)
    <3>1. of(r) \in receipts' /\ of(r).grant = g /\ of(r).run = r
      BY <1>2
    <3> QED
      BY <3>1 DEF Of
  <2> QED
    BY <2>2, <2>3, <2>4, <2>5
<1>8. /\ grants' = IF Completes(g, runs) THEN [grants EXCEPT ![g].state = "done"] ELSE grants
      /\ reserved' = Release(g, runs) /\ (Completes(g, runs) <=> P = Of(receipts', g))
  BY <1>1, <1>7 DEF IngestRecoveryReplay, Completes
<1>9. [grants[g] EXCEPT !.state = "done"] \in Grants(P)
  BY <1>3 DEF Grants
<1>10. /\ grants' \in Seq(Grants(P)) /\ Len(grants') = Len(grants) /\ DOMAIN grants' = DOMAIN grants
       /\ \A h \in DOMAIN grants \ {g} : grants'[h] = grants[h]
       /\ Completes(g, runs) => grants'[g].state = "done"
       /\ ~Completes(g, runs) => grants'[g] = grants[g]
  <2>1. CASE Completes(g, runs)
    <3>1. grants' = [grants EXCEPT ![g].state = "done"]
      BY <1>8, <2>1
    <3> QED
      BY <1>3, <1>9, <2>1, <3>1 DEF Grants
  <2>2. CASE ~Completes(g, runs)
    BY <1>3, <1>8, <2>2
  <2> QED
    BY <2>1, <2>2
<1>11. \A h \in DOMAIN grants' : Of(receipts', h) = P => grants'[h].state = "done"
  BY <1>7, <1>8, <1>10 DEF HubOK, GrantsOK
<1>12. \A h, i \in DOMAIN grants' : grants'[h].state = "open" /\ grants'[i].state = "open" => h = i
  BY <1>10 DEF HubOK, GrantsOK
<1>13. reserved' = IF \E h \in DOMAIN grants' : grants'[h].state = "open" THEN Cardinality(P) ELSE 0
  <2>1. reserved = IF \E h \in DOMAIN grants : grants[h].state = "open" THEN Cardinality(P) ELSE 0
    BY DEF HubOK, GrantsOK
  <2>2. Cardinality(P) \in Nat
    <3>1. IsFiniteSet(P)
      BY <1>2, RunsAreFinite, FS_Subset
    <3> QED
      BY <3>1, FS_CardinalityType
  <2>3. CASE Completes(g, runs) /\ Open(g)
    <3>1. \A h \in DOMAIN grants : grants[h].state = "open" => h = g
      BY <2>3 DEF HubOK, GrantsOK, Open
    <3>2. ~\E h \in DOMAIN grants' : grants'[h].state = "open"
      BY <1>10, <2>3, <3>1
    <3>3. reserved' = Cardinality(P) - Cardinality(P)
      BY <1>1, <1>8, <2>1, <2>3 DEF Release, GiveBack, Open
    <3> QED
      BY <2>2, <3>2, <3>3
  <2>4. CASE ~(Completes(g, runs) /\ Open(g))
    <3>1. \A h \in DOMAIN grants : grants'[h].state = "open" <=> grants[h].state = "open"
      BY <1>10, <2>4 DEF Open
    <3>2. reserved' = reserved
      BY <1>8, <2>4 DEF Release
    <3> QED
      BY <1>10, <2>1, <3>1, <3>2
  <2> QED
    BY <2>3, <2>4
<1>14. GrantsOK(grants', receipts', P, reserved')
  BY <1>3, <1>10, <1>11, <1>12, <1>13 DEF HubOK, GrantsOK
<1> QED
  BY <1>2, <1>6, <1>7, <1>10, <1>14 DEF HubOK

-----------------------------------------------------------------------------
(* The steps of the commands.                                              *)

(* Every grant approves the manifest, and its receipts are those of Of.    *)
LEMMA ApprovedIsTheManifest ==
    ASSUME HubOK, NEW g \in 1..Len(grants)
    PROVE  /\ Approved(g) = preview.file /\ Receipted(g) = Of(receipts, g) /\ g \in DOMAIN grants
           /\ Len(grants) \in Nat
<1>1. /\ grants \in Seq(Grants(preview.file)) /\ DOMAIN grants = 1..Len(grants) /\ Len(grants) \in Nat
      /\ grants[g] \in Grants(preview.file)
  BY DEF HubOK, GrantsOK
<1> QED
  BY <1>1 DEF Grants, Approved, Receipted, ReceiptsOf, Of

(* The hub is as it was, whatever the clock says.                          *)
LEMMA HubStays ==
    ASSUME HubOK, UNCHANGED <<grants, receipts, reserved>>, preview'.file = preview.file, now' \in Nat
    PROVE  HubOK'
  BY DEF HubOK

(* No command holds the lock.                                              *)
LEMMA IdleIsOK ==
    ASSUME NEW a, NEW cursor, NEW left, NEW P PROVE CommandOK(Idle, a, cursor, left, P)
<1>1. Idle = [pc |-> "idle", key |-> 0, runs |-> {}]
  BY DEF Idle
<1>2. DOMAIN Idle = {"pc", "key", "runs"} /\ Idle.pc = "idle"
  BY <1>1
<1> QED
  BY <1>2 DEF CommandOK, Outside

(* What the spool, the hub and the previews may do to the receipts.        *)
Grows ==
  /\ HubOK' /\ OneManifest' /\ preview'.file = preview.file
  /\ receipts \subseteq receipts' /\ Len(grants) <= Len(grants')
  /\ Retained' \subseteq Retained
  /\ \A R : OnHead(R, Retained, preview.file) => OnHead(R, Retained', preview.file)

(* A receipt that was right stays it.                                      *)
LEMMA ReceiptStays ==
    ASSUME BooksInv, Grows, NEW a, Entry(a, Retained, receipts, Len(grants), preview.file)
    PROVE  Entry(a, Retained', receipts', Len(grants'), preview'.file)
<1>1. Len(grants) \in Nat /\ Len(grants') \in Nat /\ OneEach(receipts')
  BY DEF BooksInv, Grows, HubOK, GrantsOK, ReceiptsOK
<1>2. Entry(a, Retained', receipts, Len(grants), preview.file)
  BY EntryShrinks DEF Grows
<1> QED
  BY <1>1, <1>2, EntryGrows DEF Grows

(* One receipt is saved ...                                                *)
LEMMA BooksOfOneChange ==
    ASSUME BooksInv, Grows, NEW key, Saves(key),
           key \in Keys => applies'[key] = NoApply \/
             Entry(applies'[key], Retained', receipts', Len(grants'), preview'.file),
           CommandOK(cli', applies'[cli'.key], acked', Retained', preview'.file)
    PROVE  BooksInv'
<1>1. ASSUME NEW k \in Keys
      PROVE  applies'[k] = NoApply \/
               Entry(applies'[k], Retained', receipts', Len(grants'), preview'.file)
  <2>1. CASE k # key
    <3>1. applies'[k] = applies[k]
      BY <2>1 DEF Saves
    <3>2. applies[k] = NoApply \/ Entry(applies[k], Retained, receipts, Len(grants), preview.file)
      BY DEF BooksInv, Entries
    <3> QED
      BY <3>1, <3>2, ReceiptStays
  <2> QED
    BY <2>1
<1>2. Entries'
  BY <1>1 DEF Entries
<1> QED
  BY <1>2 DEF BooksInv, Grows, Mine

(* ... or none.                                                            *)
LEMMA BooksStay ==
    ASSUME BooksInv, Grows, UNCHANGED applies,
           CommandOK(cli', applies'[cli'.key], acked', Retained', preview'.file)
    PROVE  BooksInv'
<1>1. ASSUME NEW k \in Keys
      PROVE  applies'[k] = NoApply \/
               Entry(applies'[k], Retained', receipts', Len(grants'), preview'.file)
  BY ReceiptStays DEF BooksInv, Entries
<1>2. Entries'
  BY <1>1 DEF Entries
<1> QED
  BY <1>2 DEF BooksInv, Grows, Mine

(* Neither the spool nor the hub changes.                                  *)
LEMMA NothingGrows ==
    ASSUME BooksInv, UNCHANGED <<now, acked, aged, grants, receipts, reserved>>,
           preview'.file = preview.file, OneManifest'
    PROVE  Grows /\ Retained' = Retained
<1>1. HubOK'
  BY HubStays DEF BooksInv, HubOK
<1>2. Retained' = Retained
  BY DEF Retained
<1>3. Len(grants) \in Nat
  BY DEF BooksInv, HubOK, GrantsOK
<1> QED
  BY <1>1, <1>2, <1>3 DEF Grows

(* Files leave the spool by age.                                           *)
LEMMA AgingGrows ==
    ASSUME BooksInv, UNCHANGED <<now, acked, grants, receipts, reserved, preview>>,
           aged' = aged \cup Pruned
    PROVE  Grows /\ Retained' = Retained \ Pruned
<1>1. HubOK' /\ OneManifest'
  BY HubStays DEF BooksInv, HubOK, OneManifest
<1>2. Retained' = Retained \ Pruned
  BY DEF Retained
<1>3. Len(grants) \in Nat
  BY DEF BooksInv, HubOK, GrantsOK
<1>4. \A q, r \in Retained : FileOf(q) = FileOf(r) /\ q \in Pruned => r \in Pruned
  BY DEF Pruned, Expired, Observed
<1>5. Retained \in SUBSET Runs /\ Pruned \in SUBSET Retained
  BY DEF Retained, Pruned
<1>6. ASSUME NEW R, OnHead(R, Retained, preview.file) PROVE OnHead(R, Retained', preview.file)
  <2>1. OnHead(R, Retained \ Pruned, preview.file)
    BY <1>4, <1>5, <1>6, AgingKeepsTheHead
  <2> QED
    BY <1>2, <2>1
<1>7. Retained' \subseteq Retained
  BY <1>2
<1>8. receipts' = receipts /\ grants' = grants /\ preview' = preview
  OBVIOUS
<1> HIDE DEF Retained
<1>9. Len(grants) <= Len(grants')
  BY <1>3, <1>8
<1> QED
  BY <1>1, <1>2, <1>6, <1>7, <1>8, <1>9, Zenon DEF Grows

(* The clock, the administrator and the ordinary collector.                *)
LEMMA OthersKeepTheBooks ==
    ASSUME BooksInv, Tick \/ CreateRecoveryGrant \/ RevokeRecoveryGrant \/ OrdinaryRun
    PROVE  BooksInv'
<1>0. OneManifest /\ HubOK /\ CommandOK(cli, applies[cli.key], acked, Retained, preview.file)
      /\ Len(grants) \in Nat
  BY DEF BooksInv, Mine, HubOK, GrantsOK
<1>1. CASE Tick \/ CreateRecoveryGrant \/ RevokeRecoveryGrant
  <2>1. UNCHANGED <<acked, aged, preview, applies, cli, receipts>>
    BY <1>1 DEF Tick, CreateRecoveryGrant, RevokeRecoveryGrant, collector, hub
  <2>2. HubOK' /\ Len(grants) <= Len(grants')
    <3>1. CASE Tick
      <4>1. UNCHANGED <<grants, receipts, reserved, preview>> /\ now' = now + 1 /\ now \in Nat
        BY <1>0, <3>1 DEF Tick, hub, collector, HubOK
      <4> QED
        BY <1>0, <4>1, HubStays
    <3>2. CASE CreateRecoveryGrant
      BY <1>0, <3>2, CreateKeepsHub
    <3>3. CASE RevokeRecoveryGrant
      BY <1>0, <3>3, RevokeKeepsHub
    <3> QED
      BY <1>1, <3>1, <3>2, <3>3
  <2>3. Retained' = Retained /\ OneManifest'
    BY <1>0, <2>1 DEF Retained, OneManifest
  <2>4. Grows
    BY <2>1, <2>2, <2>3 DEF Grows
  <2> QED
    BY <1>0, <2>1, <2>3, <2>4, BooksStay
<1>2. CASE OrdinaryRun
  <2>1. /\ UNCHANGED <<now, acked, preview, applies, cli, grants, receipts, reserved>>
        /\ aged' = aged \cup Pruned /\ cli = Idle
    BY <1>2 DEF OrdinaryRun
  <2> QED
    BY <2>1, AgingGrows, IdleIsOK, BooksStay
<1> QED
  BY <1>1, <1>2

(* A manifest that is there is not written again, and without it there is  *)
(* no grant.                                                               *)
LEMMA PreviewKeepsTheBooks ==
    ASSUME BooksInv, BeginPreview \/ OpenOutput \/ FillOutput \/ CompactPreview PROVE BooksInv'
<1>1. UNCHANGED <<now, acked, aged, applies, grants, receipts, reserved>>
  BY DEF BeginPreview, OpenOutput, FillOutput, CompactPreview, Hub, hub
<1>2. /\ DOMAIN preview = {"man", "compact", "file"} /\ preview.man \in SUBSET Runs
      /\ preview.file \in {{}, preview.man} /\ DOMAIN cli = {"pc", "key", "runs"}
  BY DEF BooksInv, OneManifest, CommandOK
<1>3. ASSUME NEW a, NEW left, NEW P PROVE CommandOK(cli', a, acked', left, P)
  <2>1. CASE BeginPreview
    <3>1. cli' = [pc |-> "write", key |-> 0, runs |-> {}]
      BY <2>1 DEF BeginPreview, Idle
    <3>2. DOMAIN cli' = {"pc", "key", "runs"} /\ cli'.pc = "write"
      BY <3>1
    <3> QED
      BY <3>2 DEF CommandOK, Outside
  <2>2. CASE OpenOutput \/ FillOutput \/ CompactPreview
    <3>1. \/ cli' = Idle
          \/ \E pc \in {"fill", "compact"} : cli' = [cli EXCEPT !.pc = pc]
      BY <2>2 DEF OpenOutput, FillOutput, CompactPreview, Written, Fail
    <3>2. CASE cli' = Idle
      BY <3>2, IdleIsOK
    <3>3. CASE \E pc \in {"fill", "compact"} : cli' = [cli EXCEPT !.pc = pc]
      <4>1. PICK pc \in {"fill", "compact"} : cli' = [cli EXCEPT !.pc = pc]
        BY <3>3
      <4>2. DOMAIN cli' = {"pc", "key", "runs"} /\ cli'.pc = pc
        BY <1>2, <4>1, Zenon
      <4> QED
        BY <4>2 DEF CommandOK, Outside
    <3> QED
      BY <3>1, <3>2, <3>3
  <2> QED
    BY <2>1, <2>2
<1>4. CASE OneManifest' /\ preview'.file = preview.file
  BY <1>1, <1>3, <1>4, NothingGrows, BooksStay
<1>5. CASE BeginPreview
  <2>1. CASE preview = NoPreview
    <3>1. PICK last \in Runs : preview' = [preview EXCEPT !.man = PreviewRecovery(last)]
      BY <1>5, <2>1 DEF BeginPreview, NoPreview
    <3>2. PreviewRecovery(last) \in SUBSET Runs /\ preview.file = {}
      BY <2>1 DEF PreviewRecovery, Retained, NoPreview
    <3>3. /\ DOMAIN preview' = DOMAIN preview /\ preview'.file = preview.file
          /\ preview'.man = PreviewRecovery(last)
      BY <1>2, <3>1
    <3> QED
      BY <1>2, <1>4, <3>2, <3>3 DEF OneManifest
  <2>2. CASE preview # NoPreview
    <3>1. preview' = [preview EXCEPT !.man = preview.man]
      BY <1>5, <2>2 DEF BeginPreview, Reviewed
    <3>2. /\ DOMAIN preview' = DOMAIN preview /\ preview'.file = preview.file
          /\ preview'.man = preview.man
      BY <1>2, <3>1
    <3> QED
      BY <1>2, <1>4, <3>2 DEF OneManifest
  <2> QED
    BY <2>1, <2>2
<1>6. CASE CompactPreview
  <2>1. preview' = [preview EXCEPT !.compact = TRUE]
    BY <1>6 DEF CompactPreview
  <2>2. /\ DOMAIN preview' = DOMAIN preview /\ preview'.file = preview.file
        /\ preview'.man = preview.man
    BY <1>2, <2>1
  <2> QED
    BY <1>2, <1>4, <2>2 DEF OneManifest
<1>7. CASE OpenOutput \/ FillOutput
  <2>1. CASE UNCHANGED preview
    BY <1>4, <2>1 DEF BooksInv, OneManifest
  <2>2. CASE preview' = [preview EXCEPT !.file = preview.man]
    <3>1. /\ DOMAIN preview' = DOMAIN preview /\ preview'.file = preview.man
          /\ preview'.man = preview.man
      BY <1>2, <2>2
    <3>2. OneManifest'
      BY <1>2, <3>1 DEF OneManifest
    <3>3. CASE preview.file = preview.man
      BY <1>4, <3>1, <3>2, <3>3
    <3>4. CASE preview.file # preview.man
      <4>1. preview.file = {} /\ grants \in Seq(Grants({})) /\ Len(grants) = 0
        BY <1>2, <3>4 DEF BooksInv, HubOK, GrantsOK
      <4>2. DOMAIN grants = {} /\ grants \in Seq(Grants(preview'.file))
        <5>1. DOMAIN grants = 1..0
          BY <4>1
        <5>2. grants \in [1..0 -> Grants(preview'.file)]
          BY <4>1, <5>1
        <5> QED
          BY <5>1, <5>2
      <4>3. receipts = {}
        BY <4>1 DEF BooksInv, HubOK, ReceiptsOK
      <4>4. reserved = 0
        BY <4>2 DEF BooksInv, HubOK, GrantsOK
      <4>5. HubOK'
        <5>1. GrantsOK(grants', receipts', preview'.file, reserved')
          BY <1>1, <4>1, <4>2, <4>4 DEF GrantsOK
        <5>2. ReceiptsOK(receipts', Len(grants'), preview'.file)
          BY <1>1, <4>3, FS_EmptySet DEF ReceiptsOK, OneEach
        <5> QED
          BY <1>1, <5>1, <5>2 DEF HubOK, BooksInv
      <4>6. Entries'
        <5>1. \A k \in Keys : applies[k] = NoApply
          BY <4>1 DEF BooksInv, Entries, Entry
        <5> QED
          BY <1>1, <5>1 DEF Entries
      <4> QED
        BY <1>3, <3>2, <4>5, <4>6 DEF BooksInv, Mine
    <3> QED
      BY <3>3, <3>4
  <2> QED
    BY <1>7, <2>1, <2>2 DEF OpenOutput, FillOutput
<1> QED
  BY <1>5, <1>6, <1>7

(* What the command of an apply finds.                                     *)
LEMMA ApplyIsThere ==
    ASSUME ReplayInv, BooksInv, cli.pc \notin Outside
    PROVE  /\ DOMAIN cli = {"pc", "key", "runs"} /\ cli.key \in Keys /\ DOMAIN applies = Keys
           /\ Entry(Mine, Retained, receipts, Len(grants), preview.file) /\ ~Mine.reported
           /\ Approved(Mine.grant) = preview.file /\ Mine.grant \in DOMAIN grants
<1>1. cli.key \in Keys /\ DOMAIN applies = Keys
  BY ReceiptIsThere
<1>2. DOMAIN cli = {"pc", "key", "runs"} /\ ~Mine.reported /\ Mine.kind = "apply"
  BY DEF BooksInv, CommandOK
<1>3. Mine # NoApply
  BY <1>2 DEF NoApply
<1>4. Entry(Mine, Retained, receipts, Len(grants), preview.file)
  BY <1>1, <1>3 DEF BooksInv, Entries, Mine
<1>5. Mine.grant \in 1..Len(grants)
  BY <1>4 DEF Entry
<1> QED
  BY <1>1, <1>2, <1>4, <1>5, ApprovedIsTheManifest DEF BooksInv

(* The command goes on with its receipt.                                   *)
LEMMA GoesOn ==
    ASSUME NEW c, DOMAIN c = {"pc", "key", "runs"},
           NEW pc \in {"prepare", "activate", "complete", "read", "report"}, NEW R, NEW d,
           d = [c EXCEPT !.pc = pc] \/ d = [c EXCEPT !.pc = pc, !.runs = R],
           NEW a, ~a.reported, a.kind = "apply", NEW cursor, NEW left, NEW P
    PROVE  d.key = c.key /\ CommandOK(d, a, cursor, left, P)
<1>1. DOMAIN d = {"pc", "key", "runs"} /\ d.pc = pc /\ d.key = c.key
  BY Zenon
<1> QED
  BY <1>1 DEF CommandOK

(* An apply begins or is run again.                                        *)
LEMMA ApplyBeginsKeepsTheBooks ==
    ASSUME ReplayInv, BooksInv, NEW k \in Keys, BeginApply(k) \/ ResumeApply(k) PROVE BooksInv'
<1>1. UNCHANGED <<now, acked, aged, preview, grants, receipts, reserved>>
  BY DEF BeginApply, ResumeApply, Hub, hub
<1>2. OneManifest'
  BY <1>1 DEF BooksInv, OneManifest
<1>3. /\ DOMAIN cli' = {"pc", "key", "runs"} /\ cli'.key = k
      /\ cli'.pc \in {"write", "prepare"}
      /\ cli'.pc = "prepare" => BeginApply(k) \/ ~applies[k].reported
  <2>1. CASE BeginApply(k)
    BY <2>1, Zenon DEF BeginApply, Idle
  <2>2. CASE ResumeApply(k)
    BY <2>2, Zenon DEF ResumeApply, Idle
  <2> QED
    BY <2>1, <2>2
<1>4. ASSUME NEW a, cli'.pc = "prepare" => ~a.reported, a.kind = "apply", NEW cursor, NEW left, NEW P
      PROVE  CommandOK(cli', a, cursor, left, P)
  BY <1>3, <1>4 DEF CommandOK, Outside
<1>5. DOMAIN applies = Keys
  BY DEF ReplayInv, ReceiptsAreBacked
<1>6. CASE BeginApply(k)
  <2>1. PICK g \in GrantFiles :
          applies' = [applies EXCEPT ![k] =
            [kind |-> "apply", grant |-> g, prev |-> pairing.prev, session |-> 0,
             ack |-> None, rec |-> 0, dup |-> 0, reported |-> FALSE, complete |-> FALSE]]
    BY <1>6 DEF BeginApply
  <2>2. g \in 1..Len(grants)
    BY DEF GrantFiles, BooksInv, HubOK, GrantsOK
  <2> DEFINE a == [kind |-> "apply", grant |-> g, prev |-> pairing.prev, session |-> 0,
                   ack |-> None, rec |-> 0, dup |-> 0, reported |-> FALSE, complete |-> FALSE]
  <2>3. Entry(a, Retained', receipts', Len(grants'), preview'.file)
    <3>1. g \in 1..Len(grants')
      BY <1>1, <2>2
    <3> QED
      BY <3>1, EntryBegins
  <2>4. ~a.reported /\ a.kind = "apply"
    OBVIOUS
  <2>5. applies'[k] = a /\ Saves(k)
    BY <1>5, <2>1 DEF Saves
  <2> HIDE DEF a
  <2> QED
    BY <1>1, <1>2, <1>3, <1>4, <2>3, <2>4, <2>5, NothingGrows, BooksOfOneChange
<1>7. CASE ResumeApply(k)
  <2>1. applies' = applies /\ (cli'.pc = "prepare" => ~applies[k].reported)
    BY <1>7, Zenon DEF ResumeApply, Idle
  <2>2. applies[k] # NoApply
    BY <1>7 DEF ResumeApply
  <2>3. applies[k].kind = "apply"
    BY <2>2 DEF BooksInv, Entries, Entry
  <2> QED
    BY <1>1, <1>2, <1>3, <1>4, <2>1, <2>3, NothingGrows, BooksStay
<1> QED
  BY <1>6, <1>7

(* Its session is prepared, asked for and completed.                       *)
LEMMA ActivationKeepsTheBooks ==
    ASSUME ReplayInv, BooksInv, PrepareActivation \/ Activate \/ CompleteActivation PROVE BooksInv'
<1>1. /\ UNCHANGED <<now, acked, aged, preview, grants, receipts, reserved>>
      /\ cli.pc \notin Outside
  BY DEF PrepareActivation, Activate, CompleteActivation, Hub, hub, Outside
<1>2. OneManifest'
  BY <1>1 DEF BooksInv, OneManifest
<1>3. Grows
  BY <1>1, <1>2, NothingGrows
<1>4. CASE cli' = Idle /\ applies' = applies
  BY <1>3, <1>4, IdleIsOK, BooksStay
<1>5. CASE applies' = applies /\ \E pc \in {"activate", "complete", "read"} : cli' = [cli EXCEPT !.pc = pc]
  <2>1. PICK pc \in {"activate", "complete", "read"} : cli' = [cli EXCEPT !.pc = pc]
    BY <1>5
  <2>2. DOMAIN cli = {"pc", "key", "runs"} /\ ~applies[cli.key].reported /\ applies[cli.key].kind = "apply"
    BY <1>1, ApplyIsThere DEF Mine, Entry
  <2>3. cli'.key = cli.key /\ CommandOK(cli', applies[cli.key], acked', Retained', preview'.file)
    BY <2>1, <2>2, GoesOn
  <2> QED
    BY <1>3, <1>5, <2>3, BooksStay
<1>6. CASE /\ Save([Mine EXCEPT !.session = Len(sessions')])
           /\ cli' = [cli EXCEPT !.pc = "complete"]
  <2>1. /\ DOMAIN cli = {"pc", "key", "runs"} /\ cli.key \in Keys /\ DOMAIN applies = Keys
        /\ Entry(Mine, Retained, receipts, Len(grants), preview.file) /\ ~Mine.reported
    BY <1>1, ApplyIsThere
  <2>2. applies'[cli.key] = [Mine EXCEPT !.session = Len(sessions')] /\ Saves(cli.key)
    BY <1>6, <2>1 DEF Save, Saves
  <2>3. /\ Entry(applies'[cli.key], Retained, receipts, Len(grants), preview.file)
        /\ ~applies'[cli.key].reported
    <3>1. PICK s : s = Len(sessions')
      OBVIOUS
    <3>2. /\ Entry([Mine EXCEPT !.session = s], Retained, receipts, Len(grants), preview.file)
          /\ [Mine EXCEPT !.session = s].reported = Mine.reported
      BY <2>1, EntryActivates
    <3>3. applies'[cli.key] = [Mine EXCEPT !.session = s]
      BY <2>2, <3>1
    <3> QED
      BY <2>1, <3>2, <3>3, Zenon
  <2>4. Entry(applies'[cli.key], Retained', receipts', Len(grants'), preview'.file)
    BY <1>3, <2>3, ReceiptStays
  <2>5. applies'[cli.key].kind = "apply"
    BY <2>3 DEF Entry
  <2>6. cli'.key = cli.key /\ CommandOK(cli', applies'[cli.key], acked', Retained', preview'.file)
    BY <1>6, <2>1, <2>3, <2>5, GoesOn
  <2> QED
    BY <1>3, <2>2, <2>4, <2>6, BooksOfOneChange
<1> QED
  BY <1>4, <1>5, <1>6 DEF PrepareActivation, Activate, CompleteActivation, Fail

(* The runs read are the head of what age has left of the spool, and the   *)
(* acknowledgement found on disk is of them or is counted.                 *)
LEMMA ReadKeepsTheBooks == ASSUME ReplayInv, BooksInv, ReadRecovery PROVE BooksInv'
<1> DEFINE P == preview.file
           left == Retained \ Pruned
           runs == IF left = {} THEN {} ELSE Readable(P, left)
<1>1. UNCHANGED <<now, acked, preview, grants, receipts, reserved>> /\ cli.pc \notin Outside
  BY DEF ReadRecovery, Hub, hub, Outside
<1>2. /\ DOMAIN cli = {"pc", "key", "runs"} /\ cli.key \in Keys /\ DOMAIN applies = Keys
      /\ Entry(Mine, Retained, receipts, Len(grants), P) /\ ~Mine.reported
      /\ Approved(Mine.grant) = P
  BY <1>1, ApplyIsThere
<1>3. \/ cli' = [cli EXCEPT !.pc = "report"] /\ UNCHANGED <<aged, applies>>
      \/ /\ aged' = aged \cup Pruned
         /\ \/ cli' = Idle /\ UNCHANGED applies
            \/ /\ Save(Settled(Mine, runs)) /\ ~(left # {} /\ runs = {})
               /\ cli' = [cli EXCEPT !.pc = IF runs = {} THEN "report" ELSE "ask", !.runs = runs]
  BY <1>2, Zenon DEF ReadRecovery, Fail
<1>4. CASE cli' = [cli EXCEPT !.pc = "report"] /\ UNCHANGED <<aged, applies>>
  <2>1. Grows
    <3>1. OneManifest'
      BY <1>1 DEF BooksInv, OneManifest
    <3> QED
      BY <1>1, <1>4, <3>1, NothingGrows
  <2>2. applies[cli.key].kind = "apply" /\ ~applies[cli.key].reported
    BY <1>2 DEF Mine, Entry
  <2>3. cli'.key = cli.key /\ CommandOK(cli', applies[cli.key], acked', Retained', preview'.file)
    BY <1>2, <1>4, <2>2, GoesOn
  <2> QED
    BY <1>4, <2>1, <2>3, BooksStay
<1>5. CASE aged' = aged \cup Pruned /\ cli' = Idle /\ UNCHANGED applies
  BY <1>1, <1>5, AgingGrows, IdleIsOK, BooksStay
<1>6. CASE /\ aged' = aged \cup Pruned /\ Save(Settled(Mine, runs)) /\ ~(left # {} /\ runs = {})
           /\ cli' = [cli EXCEPT !.pc = IF runs = {} THEN "report" ELSE "ask", !.runs = runs]
  <2>1. Grows /\ Retained' = left
    BY <1>1, <1>6, AgingGrows
  <2>2. Entry(Mine, left, receipts, Len(grants), P)
    <3>1. Entry(Mine, Retained', receipts', Len(grants'), preview'.file)
      BY <1>2, <2>1, ReceiptStays
    <3> QED
      BY <1>1, <2>1, <3>1
  <2> DEFINE a == Settled(Mine, runs)
  <2>3. /\ Entry(a, left, receipts, Len(grants), P) /\ ~a.reported
        /\ a.ack # None => a.ack.runs = runs
    <3>1. CASE Mine.ack # None /\ Mine.ack.runs # runs
      <4>1. a = Counted(Mine)
        BY <3>1 DEF Settled, Matches
      <4>2. OnHead(Mine.ack.runs, left, P)
        BY <2>2, <3>1 DEF Entry, AckIsTrue
      <4>3. Mine.ack.runs \cap left = {}
        BY <3>1, <4>2 DEF OnHead
      <4>4. ReceiptsOK(receipts, Len(grants), P)
        BY DEF BooksInv, HubOK
      <4>5. /\ Entry(Counted(Mine), left, receipts, Len(grants), P)
            /\ Counted(Mine).reported = Mine.reported /\ Counted(Mine).ack = None
        BY <1>2, <2>2, <3>1, <4>3, <4>4, EntryCounts
      <4> QED
        BY <1>2, <4>1, <4>5, Zenon
    <3>2. CASE ~(Mine.ack # None /\ Mine.ack.runs # runs)
      <4>1. a = Mine
        BY <3>2 DEF Settled, Matches
      <4> QED
        BY <1>2, <2>2, <3>2, <4>1, Zenon
    <3> QED
      BY <3>1, <3>2
  <2>4. applies'[cli.key] = a /\ Saves(cli.key)
    BY <1>2, <1>6 DEF Save, Saves
  <2>5. a.kind = "apply"
    BY <2>3 DEF Entry
  <2>6. runs = {} \/ (runs = Readable(P, left) /\ runs \subseteq left)
    BY DEF Readable
  <2>7. cli'.key = cli.key /\ CommandOK(cli', a, acked', left, P)
    <3> HIDE DEF a, left, runs, P
    <3>1. CASE runs = {}
      <4>1. cli' = [cli EXCEPT !.pc = "report", !.runs = runs]
        BY <1>6, <3>1
      <4>2. DOMAIN cli' = {"pc", "key", "runs"} /\ cli'.pc = "report" /\ cli'.key = cli.key
        BY <1>2, <4>1, Zenon
      <4> QED
        BY <2>3, <2>5, <4>2 DEF CommandOK
    <3>2. CASE runs # {}
      <4>1. cli' = [cli EXCEPT !.pc = "ask", !.runs = runs]
        BY <1>6, <3>2
      <4>2. DOMAIN cli' = {"pc", "key", "runs"} /\ cli'.pc = "ask" /\ cli'.key = cli.key /\ cli'.runs = runs
        BY <1>2, <4>1, Zenon
      <4> QED
        BY <2>3, <2>5, <2>6, <3>2, <4>2 DEF CommandOK
    <3> QED
      BY <3>1, <3>2
  <2>8. CommandOK(cli', applies'[cli'.key], acked', Retained', preview'.file)
    BY <1>1, <2>1, <2>4, <2>7
  <2>9. Entry(applies'[cli.key], Retained', receipts', Len(grants'), preview'.file)
    BY <1>1, <2>1, <2>3, <2>4
  <2> QED
    BY <2>1, <2>4, <2>8, <2>9, BooksOfOneChange
<1> QED
  BY <1>3, <1>4, <1>5, <1>6

(* The request of an apply commits at the hub.                             *)
LEMMA RequestGrows ==
    ASSUME ReplayInv, BooksInv, cli.pc = "ask", Asks(cli.key),
           UNCHANGED <<now, acked, aged, preview>>
    PROVE  /\ Grows /\ Retained' = Retained /\ Len(grants') = Len(grants)
           /\ cli.runs \subseteq Of(receipts', Mine.grant)
<1>1. Mine.grant \in DOMAIN grants
  BY ApplyIsThere DEF Outside
<1>2. IngestRecoveryReplay(Mine.grant, cli.runs, Mine.session, cli.key)
  BY DEF Asks, Mine
<1>3. OneManifest /\ HubOK /\ Len(grants) \in Nat
  BY DEF BooksInv, HubOK, GrantsOK
<1>4. /\ HubOK' /\ Len(grants') = Len(grants) /\ receipts \subseteq receipts'
      /\ cli.runs \subseteq Of(receipts', Mine.grant)
  BY <1>1, <1>2, <1>3, IngestKeepsHub
<1>5. Retained' = Retained /\ OneManifest' /\ preview'.file = preview.file
  BY <1>3 DEF Retained, OneManifest
<1>6. Len(grants) <= Len(grants')
  BY <1>3, <1>4
<1> QED
  BY <1>4, <1>5, <1>6 DEF Grows

(* The answer has the numbers of the hub's receipts of these runs.         *)
LEMMA AskKeepsTheBooks == ASSUME ReplayInv, BooksInv, AskHub PROVE BooksInv'
<1> DEFINE P == preview.file
<1>1. UNCHANGED <<now, acked, aged, preview>> /\ cli.pc = "ask" /\ cli.pc \notin Outside
  BY DEF AskHub, Outside
<1>2. /\ DOMAIN cli = {"pc", "key", "runs"} /\ cli.key \in Keys /\ DOMAIN applies = Keys
      /\ Entry(Mine, Retained, receipts, Len(grants), P) /\ ~Mine.reported
  BY <1>1, ApplyIsThere
<1>3. /\ cli.runs # {} /\ cli.runs \subseteq Retained /\ cli.runs = Readable(P, Retained)
      /\ Mine.ack # None => Mine.ack.runs = cli.runs
  BY <1>1 DEF BooksInv, CommandOK
<1>4. OneManifest'
  BY <1>1 DEF BooksInv, OneManifest
<1>5. CASE Mine.ack # None /\ cli' = [cli EXCEPT !.pc = "ack"] /\ UNCHANGED <<applies, hub>>
  <2>1. Grows /\ Retained' = Retained
    BY <1>1, <1>4, <1>5, NothingGrows DEF hub
  <2>2. DOMAIN cli' = {"pc", "key", "runs"} /\ cli'.pc = "ack" /\ cli'.key = cli.key /\ cli'.runs = cli.runs
    BY <1>2, <1>5, Zenon
  <2>3. Mine.kind = "apply"
    BY <1>2 DEF Entry
  <2>4. CommandOK(cli', Mine, acked', Retained', preview'.file)
    BY <1>1, <1>2, <1>3, <1>5, <2>1, <2>2, <2>3 DEF CommandOK
  <2> QED
    BY <1>5, <2>1, <2>2, <2>4, BooksStay DEF Mine
<1>6. CASE Mine.ack = None /\ Fail /\ UNCHANGED <<applies, hub>>
  BY <1>1, <1>4, <1>6, NothingGrows, IdleIsOK, BooksStay DEF Fail, hub
<1>7. CASE /\ Mine.ack = None /\ Asks(cli.key)
           /\ Save([Mine EXCEPT !.ack = Answer(Mine.grant, cli.runs)])
           /\ cli' = [cli EXCEPT !.pc = "ack"]
  <2>1. /\ Grows /\ Retained' = Retained /\ Len(grants') = Len(grants)
        /\ cli.runs \subseteq Of(receipts', Mine.grant)
    BY <1>1, <1>7, RequestGrows
  <2>2. Entry(Mine, Retained', receipts', Len(grants'), P)
    BY <1>1, <1>2, <2>1, ReceiptStays
  <2>3. PICK ack : ack = Answer(Mine.grant, cli.runs)
    OBVIOUS
  <2>4. /\ ack.kind = "ack" /\ ack.runs = cli.runs
        /\ Tells(receipts', Mine.grant, cli.runs, ack.rec, ack.dup)
    <3> DEFINE mine == {e \in receipts' : e.grant = Mine.grant /\ e.run \in cli.runs}
    <3>1. \A w : Told(receipts', Mine.grant, cli.runs, w) = {e \in mine : e.how = w}
      BY DEF Told
    <3>2. /\ ack.kind = "ack" /\ ack.runs = cli.runs
          /\ ack.rec = Cardinality({e \in mine : e.how = "recovered"})
          /\ ack.dup = Cardinality({e \in mine : e.how = "duplicate"})
      BY <2>3 DEF Answer
    <3> HIDE DEF mine
    <3> QED
      BY <2>1, <3>1, <3>2 DEF Tells
  <2>5. ack # None
    BY <2>4 DEF None
  <2> DEFINE b == [Mine EXCEPT !.ack = ack]
  <2>6. Entry(b, Retained', receipts', Len(grants'), P) /\ b.reported = Mine.reported /\ b.ack = ack
    BY <1>3, <1>7, <2>1, <2>2, <2>4, <2>5, EntryAsks
  <2>7. applies'[cli.key] = b /\ Saves(cli.key)
    BY <1>2, <1>7, <2>3 DEF Save, Saves
  <2> HIDE DEF b
  <2>8. DOMAIN cli' = {"pc", "key", "runs"} /\ cli'.pc = "ack" /\ cli'.key = cli.key /\ cli'.runs = cli.runs
    BY <1>2, <1>7, Zenon
  <2>9. b.kind = "apply"
    BY <2>6 DEF Entry
  <2>10. CommandOK(cli', b, acked', Retained', P)
    BY <1>2, <1>3, <2>1, <2>4, <2>5, <2>6, <2>8, <2>9 DEF CommandOK
  <2> QED
    BY <1>1, <2>1, <2>6, <2>7, <2>8, <2>10, BooksOfOneChange
<1> QED
  BY <1>5, <1>6, <1>7 DEF AskHub

(* The acknowledged head leaves the spool.                                 *)
LEMMA AckKeepsTheBooks == ASSUME ReplayInv, BooksInv, AckRecovery PROVE BooksInv'
<1> DEFINE P == preview.file
<1>1. /\ UNCHANGED <<now, aged, preview, applies, grants, receipts, reserved>>
      /\ cli.pc = "ack" /\ cli.pc \notin Outside
  BY DEF AckRecovery, Hub, hub, Outside
<1>2. DOMAIN cli = {"pc", "key", "runs"} /\ ~Mine.reported /\ Mine.kind = "apply"
  BY <1>1, ApplyIsThere DEF Entry
<1>3. cli.runs = Readable(P, Retained) /\ Mine.ack # None /\ Mine.ack.runs = cli.runs
  BY <1>1 DEF BooksInv, CommandOK
<1>4. HubOK' /\ OneManifest' /\ Len(grants) \in Nat
  BY <1>1, HubStays DEF BooksInv, OneManifest, HubOK, GrantsOK
<1>5. CASE acked' = acked /\ cli' = Idle
  BY <1>1, <1>4, <1>5, NothingGrows, IdleIsOK, BooksStay
<1>6. CASE acked' = acked \cup cli.runs /\ cli' = [cli EXCEPT !.pc = "count"]
  <2>1. Retained' = Retained \ Readable(P, Retained)
    BY <1>1, <1>3, <1>6 DEF Retained
  <2>2. Retained' \subseteq Retained
    BY <2>1
  <2>3. ASSUME NEW R, OnHead(R, Retained, P) PROVE OnHead(R, Retained', P)
    <3>1. OnHead(R, Retained \ Readable(P, Retained), P)
      BY <2>3, AckTakesTheHead
    <3> QED
      BY <2>1, <3>1
  <2>4. receipts' = receipts /\ grants' = grants /\ preview' = preview /\ Len(grants) <= Len(grants)
    BY <1>1, <1>4
  <2>5. Grows
    BY <1>4, <2>2, <2>3, <2>4, Zenon DEF Grows
  <2>6. DOMAIN cli' = {"pc", "key", "runs"} /\ cli'.pc = "count" /\ cli'.key = cli.key /\ cli'.runs = cli.runs
    BY <1>2, <1>6, Zenon
  <2>7. cli'.runs \subseteq acked'
    BY <1>6, <2>6
  <2>8. CommandOK(cli', Mine, acked', Retained', preview'.file)
    BY <1>2, <1>3, <2>6, <2>7 DEF CommandOK
  <2> QED
    BY <1>1, <2>5, <2>6, <2>8, BooksStay DEF Mine
<1> QED
  BY <1>5, <1>6 DEF AckRecovery, Fail

(* They are counted, and the numbers are reported.                         *)
LEMMA CountAndReportKeepTheBooks ==
    ASSUME ReplayInv, BooksInv, CountACK \/ Report PROVE BooksInv'
<1> DEFINE P == preview.file
<1>1. /\ UNCHANGED <<now, acked, aged, preview, grants, receipts, reserved>>
      /\ cli.pc \notin Outside
  BY DEF CountACK, Report, Hub, hub, Outside
<1>2. /\ DOMAIN cli = {"pc", "key", "runs"} /\ cli.key \in Keys /\ DOMAIN applies = Keys
      /\ Entry(Mine, Retained, receipts, Len(grants), P) /\ ~Mine.reported
      /\ Approved(Mine.grant) = P
  BY <1>1, ApplyIsThere
<1>3. Grows /\ Retained' = Retained
  <2>1. OneManifest'
    BY <1>1 DEF BooksInv, OneManifest
  <2> QED
    BY <1>1, <2>1, NothingGrows
<1>4. CASE CountACK
  <2>1. cli.pc = "count" /\ Save(Counted(Mine)) /\ cli' = [cli EXCEPT !.pc = "read", !.runs = {}]
    BY <1>4 DEF CountACK
  <2>2. Mine.ack # None /\ Mine.ack.runs \cap Retained = {}
    BY <2>1 DEF BooksInv, CommandOK, Retained
  <2>3. ReceiptsOK(receipts, Len(grants), P)
    BY DEF BooksInv, HubOK
  <2>4. /\ Entry(Counted(Mine), Retained, receipts, Len(grants), P)
        /\ Counted(Mine).reported = Mine.reported
    BY <1>2, <2>2, <2>3, EntryCounts
  <2>5. applies'[cli.key] = Counted(Mine) /\ Saves(cli.key)
    BY <1>2, <2>1 DEF Save, Saves
  <2>6. Counted(Mine).kind = "apply" /\ ~Counted(Mine).reported
    BY <1>2, <2>4 DEF Entry
  <2>7. cli'.key = cli.key /\ CommandOK(cli', Counted(Mine), acked', Retained', preview'.file)
    BY <1>2, <2>1, <2>6, GoesOn
  <2> QED
    BY <1>1, <1>3, <2>4, <2>5, <2>7, BooksOfOneChange
<1>5. CASE Report
  <2>1. PICK c \in BOOLEAN :
          /\ c <=> Mine.rec + Mine.dup = Cardinality(P)
          /\ Save([Mine EXCEPT !.reported = TRUE, !.complete = c])
          /\ cli' = [cli EXCEPT !.pc = "write"]
    BY <1>2, <1>5 DEF Report
  <2>2. Entry([Mine EXCEPT !.reported = TRUE, !.complete = c], Retained, receipts, Len(grants), P)
    BY <1>2, <2>1, EntryReports
  <2>3. applies'[cli.key] = [Mine EXCEPT !.reported = TRUE, !.complete = c] /\ Saves(cli.key)
    BY <1>2, <2>1 DEF Save, Saves
  <2>4. DOMAIN cli' = {"pc", "key", "runs"} /\ cli'.pc = "write" /\ cli'.key = cli.key
    BY <1>2, <2>1, Zenon
  <2>5. \A a : CommandOK(cli', a, acked', Retained', preview'.file)
    BY <2>4 DEF CommandOK, Outside
  <2> QED
    BY <1>1, <1>3, <2>2, <2>3, <2>4, <2>5, BooksOfOneChange
<1> QED
  BY <1>4, <1>5

(* A command is killed; the hub may have committed its request.            *)
LEMMA KillKeepsTheBooks == ASSUME ReplayInv, BooksInv, KillCommand PROVE BooksInv'
<1>1. UNCHANGED <<now, acked, aged, preview, applies>> /\ cli' = Idle
  BY DEF KillCommand
<1>2. CASE UNCHANGED <<grants, receipts, reserved>>
  <2>1. OneManifest'
    BY <1>1 DEF BooksInv, OneManifest
  <2> QED
    BY <1>1, <1>2, <2>1, NothingGrows, IdleIsOK, BooksStay
<1>3. CASE cli.pc = "ask" /\ Asks(cli.key)
  BY <1>1, <1>3, RequestGrows, IdleIsOK, BooksStay
<1> QED
  BY <1>2, <1>3 DEF KillCommand, hub

(* There is nothing to account for.                                        *)
LEMMA BooksBegin == Init => BooksInv
<1> SUFFICES ASSUME Init PROVE BooksInv
  OBVIOUS
<1>1. preview = [man |-> {}, compact |-> FALSE, file |-> {}]
  BY DEF Init, NoPreview
<1>2. OneManifest /\ preview.file = {}
  BY <1>1 DEF OneManifest
<1>3. grants = <<>> /\ receipts = {} /\ reserved = 0 /\ cli = Idle
      /\ now = Files - 1 /\ applies = [k \in Keys |-> NoApply]
  BY DEF Init
<1>4. now \in Nat
  BY <1>3, ReplayAssumption
<1>5. GrantsOK(grants, receipts, preview.file, reserved)
  BY <1>3 DEF GrantsOK
<1>6. ReceiptsOK(receipts, Len(grants), preview.file)
  BY <1>3, FS_EmptySet DEF ReceiptsOK, OneEach
<1>7. Entries
  BY <1>3 DEF Entries
<1> QED
  BY <1>2, <1>3, <1>4, <1>5, <1>6, <1>7, IdleIsOK DEF BooksInv, HubOK

(* No step of anybody disturbs them.                                       *)
LEMMA StepKeepsTheBooks ==
    ASSUME ReplayInv, BooksInv, [Next]_vars PROVE BooksInv'
<1>1. CASE Command
  BY <1>1, PreviewKeepsTheBooks, ActivationKeepsTheBooks, ReadKeepsTheBooks, AskKeepsTheBooks,
     AckKeepsTheBooks, CountAndReportKeepTheBooks DEF Command
<1>2. CASE \E k \in Keys : BeginApply(k) \/ ResumeApply(k)
  BY <1>2, ApplyBeginsKeepsTheBooks
<1>3. CASE BeginPreview \/ KillCommand
  BY <1>3, PreviewKeepsTheBooks, KillKeepsTheBooks
<1>4. CASE Tick \/ CreateRecoveryGrant \/ RevokeRecoveryGrant \/ OrdinaryRun
  BY <1>4, OthersKeepTheBooks
<1>5. CASE UNCHANGED vars
  <2>1. UNCHANGED <<now, acked, aged, preview, applies, cli, grants, receipts, reserved>>
    BY <1>5 DEF vars, collector, hub
  <2>2. OneManifest'
    BY <2>1 DEF BooksInv, OneManifest
  <2>3. Grows /\ Retained' = Retained
    BY <2>1, <2>2, NothingGrows
  <2>4. CommandOK(cli', applies'[cli'.key], acked', Retained', preview'.file)
    BY <2>1, <2>3 DEF BooksInv, Mine
  <2> QED
    BY <2>1, <2>3, <2>4, BooksStay
<1> QED
  BY <1>1, <1>2, <1>3, <1>4, <1>5 DEF Next

(* What the invariant says of the reports and of the reserved bytes.       *)
LEMMA BooksInvIsEnough == BooksInv => BooksAreTrue
<1> SUFFICES ASSUME BooksInv PROVE ReportIsTrue /\ ReservationsAreExact
  BY DEF BooksAreTrue
<1> DEFINE P == preview.file
<1>1. /\ GrantsOK(grants, receipts, P, reserved) /\ ReceiptsOK(receipts, Len(grants), P) /\ P \in SUBSET Runs
  BY DEF BooksInv, HubOK, OneManifest
<1>2. ReservationsAreExact
  <2>1. {g \in DOMAIN grants : Open(g)} = OpenOf(grants)
    BY DEF Open, OpenOf
  <2>2. reserved = BytesOf(grants, OpenOf(grants))
    BY <1>1, OpenReserves
  <2>3. Sum(OpenOf(grants)) = BytesOf(grants, OpenOf(grants))
    BY DEF Sum, Approved, BytesOf
  <2> QED
    BY <2>1, <2>2, <2>3, Zenon DEF ReservationsAreExact
<1>3. ReportIsTrue
  <2> SUFFICES ASSUME NEW k \in Keys, applies[k] # NoApply
               PROVE  LET a == applies[k]
                          how(w) == Cardinality({e \in ReceiptsOf(a.grant) : e.how = w})
                      IN  /\ a.rec <= how("recovered") /\ a.dup <= how("duplicate")
                          /\ a.complete => /\ grants[a.grant].state = "done"
                                           /\ a.rec = how("recovered") /\ a.dup = how("duplicate")
    BY DEF ReportIsTrue
  <2>1. PICK a : a = applies[k]
    OBVIOUS
  <2> DEFINE all(w) == {e \in ReceiptsOf(a.grant) : e.how = w}
  <2>2. Entry(a, Retained, receipts, Len(grants), P)
    BY <2>1 DEF BooksInv, Entries
  <2>3. PICK C \in SUBSET P : Tells(receipts, a.grant, C, a.rec, a.dup)
    BY <2>2 DEF Entry, Counts
  <2>4. /\ a.rec = Cardinality(Told(receipts, a.grant, C, "recovered"))
        /\ a.dup = Cardinality(Told(receipts, a.grant, C, "duplicate")) /\ C \subseteq Of(receipts, a.grant)
    BY <2>3 DEF Tells
  <2>5. ASSUME NEW w PROVE Cardinality(Told(receipts, a.grant, C, w)) <= Cardinality(all(w))
    <3>1. Told(receipts, a.grant, C, w) \subseteq all(w) /\ all(w) \subseteq receipts
      BY DEF Told, ReceiptsOf
    <3>2. IsFiniteSet(all(w))
      BY <1>1, <3>1, FS_Subset DEF ReceiptsOK
    <3> QED
      BY <3>1, <3>2, FS_Subset
  <2>6. ASSUME a.complete
        PROVE  grants[a.grant].state = "done" /\ \A w : Told(receipts, a.grant, C, w) = all(w)
    <3>1. Cardinality(C) = Cardinality(P)
      BY <1>1, <2>2, <2>3, <2>6, TallyIsSize DEF Entry
    <3>2. IsFiniteSet(P) /\ C \subseteq P
      BY <1>1, RunsAreFinite, FS_Subset
    <3>3. C = P
      BY <3>1, <3>2, FS_Subset
    <3>4. Of(receipts, a.grant) = P
      <4>1. Of(receipts, a.grant) \subseteq P
        BY <1>1 DEF Of, ReceiptsOK
      <4> QED
        BY <2>4, <3>3, <4>1
    <3>5. a.grant \in DOMAIN grants
      BY <1>1, <2>2 DEF Entry, GrantsOK
    <3>6. grants[a.grant].state = "done"
      BY <1>1, <3>4, <3>5 DEF GrantsOK
    <3>7. ASSUME NEW w PROVE Told(receipts, a.grant, C, w) = all(w)
      <4>1. \A e \in receipts : e.grant = a.grant => e.run \in C
        BY <3>3, <3>4 DEF Of
      <4> QED
        BY <4>1 DEF Told, ReceiptsOf
    <3> QED
      BY <3>6, <3>7
  <2> HIDE DEF all
  <2>7. /\ a.rec <= Cardinality(all("recovered")) /\ a.dup <= Cardinality(all("duplicate"))
        /\ a.complete => /\ grants[a.grant].state = "done"
                         /\ a.rec = Cardinality(all("recovered")) /\ a.dup = Cardinality(all("duplicate"))
    BY <2>4, <2>5, <2>6
  <2> USE DEF all
  <2> QED
    BY <2>1, <2>7
<1> QED
  BY <1>2, <1>3

(* Whatever is killed, repeated, revoked or granted again, a report counts *)
(* every frame at most once and has the hub's own numbers when it is       *)
(* complete (collectorRecoveryReport), and the receipt bytes reserved are  *)
(* those of the grants that are open (releaseRecoveryCapacity).            *)
THEOREM BooksAreRight == Spec => []BooksAreTrue
<1> DEFINE Inv == ReplayInv /\ BooksInv
<1>1. Init => Inv
  BY ReplayInit, BooksBegin
<1>2. Inv /\ [Next]_vars => Inv'
  BY StepKeepsTheCursor, StepKeepsTheBooks
<1>3. Inv => BooksAreTrue
  BY BooksInvIsEnough
<1> QED
  BY <1>1, <1>2, <1>3, PTL DEF Spec
=============================================================================
