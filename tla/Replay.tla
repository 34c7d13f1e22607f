-------------------------------- MODULE Replay --------------------------------
(***************************************************************************)
(* Approved recovery of the spool a collector kept from before a restore.  *)
(*                                                                         *)
(*   internal/collector/spool/recovery.go       preview, read, acknowledge *)
(*   internal/lifecycle/collector_recovery_cli.go   preview and apply      *)
(*   internal/store/recovery.go      grants, reservations, ingest          *)
(*   internal/protocol/recovery.go, internal/store/collector_session.go    *)
(*                                                                         *)
(* A preview describes the retained prefix in a manifest, an administrator *)
(* turns it into a grant, and an apply sends the approved runs to the hub  *)
(* and moves the spool cursor behind what the hub holds.  Both commands    *)
(* keep a receipt on disk, so that they can be killed anywhere and run     *)
(* again with their key.  They hold the spool lock: one command, or one    *)
(* collector, at a time.                                                   *)
(*                                                                         *)
(* A run is a maximal stretch of one source in one physical file, sent as  *)
(* a whole (protocol.RecoverySegment); it counts as one frame here.        *)
(***************************************************************************)
EXTENDS Naturals, Sequences, FiniteSets, FiniteSetsExt

CONSTANTS Files,       \* physical spool files retained
          FileSize,    \* runs in each
          MaxRequest,  \* runs in one request, MaxRecoveryReplayFrames
          Age,         \* 24 hours: the spool and the hub take nothing older
          Life,        \* one hour: a grant
          MaxNow,      \* clock
          MaxGrant,    \* grants issued
          MaxKey,      \* applies begun, each with a key of its own
          MaxSession,  \* sessions activated
          MaxFault     \* crashes and lost answers

ASSUME ReplayAssumption ==
  /\ {Files, FileSize, MaxRequest, Life, MaxGrant, MaxKey, MaxSession} \subseteq Nat \ {0}
  /\ {MaxNow, MaxFault, Age} \subseteq Nat

Runs == 1..(Files * FileSize)
Keys == 1..MaxKey
FileOf(r) == 1 + (r - 1) \div FileSize
Observed(r) == FileOf(r) - 1

VARIABLES now,
          acked,     \* spool: runs behind the cursor
          aged,      \* spool: runs pruned by age, counted as lost
          pairing,   \* collector: [prev, pending], the durable session state
          preview,   \* collector: the preview's receipt and its file
          outputs,   \* collector: what became of each file a command writes
          applies,   \* collector: key -> receipt of an apply
          cli,       \* the command that holds the spool lock
          sessions,  \* hub: <<[boot, prev]>>, the last one is current
          grants,    \* hub: <<[runs, exp, state]>>
          receipts,  \* hub: {[grant, run, how]}
          stored,    \* hub: runs in source_frames
          uses,      \* hub: {[grant, runs, session]}, audited requests
          reserved,  \* hub: receipt bytes reserved, in runs
          faults

collector == <<acked, aged, pairing, preview, outputs, applies, cli>>
hub  == <<sessions, grants, receipts, stored, uses, reserved>>
vars == <<now, collector, hub, faults>>

None == [kind |-> "none"]
Idle == [pc |-> "idle", key |-> 0, runs |-> {}]
NoPreview == [man |-> {}, compact |-> FALSE, file |-> {}]
NoApply   == [kind |-> "none", reported |-> TRUE]

\* The files a command writes under a name of its own: the manifest of the
\* preview, and the report of each apply.
Manifest == 0
Outputs  == {Manifest} \cup Keys

Init ==
  /\ now = Files - 1 /\ acked = {} /\ aged = {}
  /\ pairing = [prev |-> 0, pending |-> None]
  /\ preview = NoPreview /\ outputs = [o \in Outputs |-> "absent"]
  /\ applies = [k \in Keys |-> NoApply] /\ cli = Idle
  /\ sessions = <<>> /\ grants = <<>> /\ receipts = {} /\ stored = {} /\ uses = {}
  /\ reserved = 0 /\ faults = 0

------------------------------------------------------------------------------
(* The spool *)

Retained == Runs \ (acked \cup aged)
Expired(r) == now - Observed(r) >= Age /\ now >= Observed(r)

\* prune(0): whole files go by the age of their first record; what was not yet
\* acknowledged in them is lost and counted.
Pruned == {r \in Retained : Expired(r)}

\* PreviewRecovery: from the cursor, over files too old, up to the first record
\* outside the selection; a selection ends at a sequence.
PreviewRecovery(last) == {r \in Retained : ~Expired(r) /\ r <= last}

HeadOf(left) == Min(left)

\* ReadRecovery: the approved runs at the head of the first file that has any
\* left; a head that was not approved is an error, {} of a spool that is not empty.
Readable(approved, left) ==
  LET file == {r \in left : FileOf(r) = FileOf(HeadOf(left))}
      head == {r \in file : \A q \in file : q <= r => q \in approved}
  IN  {r \in head : Cardinality({q \in head : q <= r}) <= MaxRequest}

------------------------------------------------------------------------------
(* The hub *)

Open(g) == grants[g].state = "open"
Lapsed(g) == Open(g) /\ grants[g].exp < now
Approved(g) == grants[g].runs

\* expireRecoveryGrantsTx, in front of a new grant, gives back what each reserves:
\* the bytes of a receipt for every run it approves.
Sum(gs) == Cardinality({p \in gs \X Runs : p[2] \in Approved(p[1])})

\* Bytes for the receipts of the approved runs, reserved and given back.
Reserve(n, runs) == n + Cardinality(runs)
GiveBack(n, runs) == n - Cardinality(runs)

\* recovery grants create sends the manifest the administrator has reviewed; the
\* grant's file is carried to the collector.
GrantRequest == preview.file
GrantFiles == DOMAIN grants

\* CreateRecoveryGrant; a repeated request with its key answers the stored grant.
CreateRecoveryGrant ==
  LET lapsed == {g \in DOMAIN grants : Lapsed(g)}
      new    == [runs |-> GrantRequest, exp |-> now + Life, state |-> "open"]
  IN
  /\ GrantRequest # {} /\ Len(grants) < MaxGrant
  /\ \A r \in GrantRequest : now - Observed(r) <= Age
  /\ \A g \in DOMAIN grants \ lapsed : ~Open(g)
  /\ grants' = Append([g \in DOMAIN grants |->
                         IF g \in lapsed THEN [grants[g] EXCEPT !.state = "revoked"] ELSE grants[g]], new)
  /\ reserved' = Reserve(reserved - Sum(lapsed), new.runs)
  /\ UNCHANGED <<now, collector, sessions, receipts, stored, uses, faults>>

RevokeRecoveryGrant ==
  \E g \in DOMAIN grants :
    /\ Open(g)
    /\ grants' = [grants EXCEPT ![g].state = "revoked"]
    /\ reserved' = GiveBack(reserved, Approved(g))
    /\ UNCHANGED <<now, collector, sessions, receipts, stored, uses, faults>>

\* ActivateCollectorSession: an exact retry of the current activation is answered
\* again, anything else must name the current session as its predecessor.
Activates(request) ==
  \/ Len(sessions) > 0 /\ sessions[Len(sessions)] = request /\ UNCHANGED sessions
  \/ /\ request.prev = Len(sessions) /\ Len(sessions) < MaxSession
     /\ sessions' = Append(sessions, request)

IsCurrent(session, boot) == session = Len(sessions) /\ sessions[session].boot = boot

ReceiptsOf(g) == {e \in receipts : e.grant = g}
Receipted(g)  == {e.run : e \in ReceiptsOf(g)}

\* Mutant of Repeats: every request is a new one.
NeverRepeats(g, runs) == FALSE

Repeats(g, runs) == \E u \in uses : u.grant = g /\ u.runs = runs

SegmentsApproved(g, runs) == runs \subseteq Approved(g)

\* The grant, its age, its runs, and the scope of an earlier request of the same
\* frames: the session is part of the scope.
Admits(g, runs, session) ==
  /\ grants[g].state # "revoked" /\ now <= grants[g].exp
  /\ SegmentsApproved(g, runs) /\ \A r \in runs : now - Observed(r) <= Age
  /\ \A u \in uses : u.grant = g /\ u.runs = runs => u.session = session
  /\ Repeats(g, runs) \/ runs \ Receipted(g) # {}

NewReceipts(g, runs) ==
  {[grant |-> g, run |-> r, how |-> IF r \in stored THEN "duplicate" ELSE "recovered"] :
     r \in runs \ Receipted(g)}

Completes(g, runs) == Approved(g) = Receipted(g) \cup runs

Release(g, runs) ==
  IF Completes(g, runs) /\ Open(g) THEN GiveBack(reserved, Approved(g)) ELSE reserved

\* IngestRecoveryReplay, one transaction.
IngestRecoveryReplay(g, runs, session, boot) ==
  /\ IsCurrent(session, boot) /\ Admits(g, runs, session)
  /\ receipts' = receipts \cup NewReceipts(g, runs)
  /\ stored' = stored \cup runs
  /\ uses' = uses \cup {[grant |-> g, runs |-> runs, session |-> session]}
  /\ reserved' = Release(g, runs)
  /\ grants' = IF Completes(g, runs) THEN [grants EXCEPT ![g].state = "done"] ELSE grants
  /\ UNCHANGED sessions

\* The acknowledgement: the receipts of the request's runs, old and new.
Answer(g, runs) ==
  LET mine == {e \in receipts' : e.grant = g /\ e.run \in runs} IN
  [kind |-> "ack", runs |-> runs,
   rec |-> Cardinality({e \in mine : e.how = "recovered"}),
   dup |-> Cardinality({e \in mine : e.how = "duplicate"})]

------------------------------------------------------------------------------
(* An ordinary collector, between two commands *)

\* It prunes, finishes the pending activation or makes its own, and may die
\* before it has completed it (Delivery.tla models its work).
Boot == MaxKey + 1 + Len(sessions)
OrdinaryRun ==
  LET pending == IF pairing.pending = None THEN [kind |-> "request", boot |-> Boot, prev |-> pairing.prev]
                 ELSE pairing.pending
  IN
  /\ cli = Idle
  /\ aged' = aged \cup Pruned
  /\ Activates(pending)
  /\ \/ pairing' = [prev |-> Len(sessions'), pending |-> None] /\ UNCHANGED faults
     \/ faults < MaxFault /\ faults' = faults + 1 /\ pairing' = [pairing EXCEPT !.pending = pending]
  /\ UNCHANGED <<now, acked, preview, outputs, applies, cli, grants, receipts, stored, uses, reserved>>

------------------------------------------------------------------------------
(* collector recover-spool preview *)

Hub == <<now, hub, faults>>
Fail == cli' = Idle

\* Mutant of Reviewed: the retry looks at the spool again.
ReviewedAnew == PreviewRecovery(Max(Runs))

\* manifestForPreviewReceipt: a retry uses the manifest of the receipt.
Reviewed == preview.man

BeginPreview ==
  /\ cli = Idle
  /\ \/ /\ preview = NoPreview
        /\ \E last \in Runs :
             /\ PreviewRecovery(last) # {}
             /\ preview' = [preview EXCEPT !.man = PreviewRecovery(last)]
     \/ /\ preview.man # {} /\ preview' = [preview EXCEPT !.man = Reviewed]
  /\ cli' = [Idle EXCEPT !.pc = "write"]
  /\ UNCHANGED <<acked, aged, pairing, outputs, applies, Hub>>

\* writeExactPrivateRecoveryFile creates the final name, exclusively, and writes
\* in place: a command killed in between leaves a torn file.  One that is there
\* must hold what would be written.
Exact == outputs[cli.key] = "whole" /\ (cli.key = Manifest => preview.file = preview.man)

Written == cli' = IF cli.key = Manifest THEN [cli EXCEPT !.pc = "compact"] ELSE Idle

OpenOutput ==
  /\ cli.pc = "write"
  /\ \/ /\ outputs[cli.key] = "absent"
        /\ outputs' = [outputs EXCEPT ![cli.key] = "torn"] /\ cli' = [cli EXCEPT !.pc = "fill"]
     \/ Exact /\ Written /\ UNCHANGED outputs
     \/ outputs[cli.key] # "absent" /\ ~Exact /\ Fail /\ UNCHANGED outputs
  /\ UNCHANGED <<acked, aged, pairing, preview, applies, Hub>>

FillOutput ==
  /\ cli.pc = "fill"
  /\ outputs' = [outputs EXCEPT ![cli.key] = "whole"]
  /\ preview' = IF cli.key = Manifest THEN [preview EXCEPT !.file = preview.man] ELSE preview
  /\ Written
  /\ UNCHANGED <<acked, aged, pairing, applies, Hub>>

CompactPreview ==
  /\ cli.pc = "compact"
  /\ preview' = [preview EXCEPT !.compact = TRUE] /\ cli' = Idle
  /\ UNCHANGED <<acked, aged, pairing, outputs, applies, Hub>>

------------------------------------------------------------------------------
(* collector recover-spool apply *)

Mine == applies[cli.key]
Save(receipt) == applies' = [applies EXCEPT ![cli.key] = receipt]

\* The receipt, with a boot of its own, is on disk before anything else happens
\* (keys are fresh names, taken here in order).
BeginApply(k) ==
  /\ cli = Idle /\ applies[k] = NoApply /\ \A j \in 1..(k - 1) : applies[j] # NoApply
  /\ \E g \in GrantFiles :
       applies' = [applies EXCEPT ![k] =
         [kind |-> "apply", grant |-> g, prev |-> pairing.prev, session |-> 0,
          ack |-> None, rec |-> 0, dup |-> 0, reported |-> FALSE, complete |-> FALSE]]
  /\ cli' = [Idle EXCEPT !.pc = "prepare", !.key = k]
  /\ UNCHANGED <<acked, aged, pairing, preview, outputs, Hub>>

\* A retry of an apply that has its report only writes the file.
ResumeApply(k) ==
  /\ cli = Idle /\ applies[k] # NoApply
  /\ cli' = [Idle EXCEPT !.pc = IF applies[k].reported THEN "write" ELSE "prepare", !.key = k]
  /\ UNCHANGED <<acked, aged, pairing, preview, outputs, applies, Hub>>

\* One session for the whole apply: prepared durably, asked for, and kept in the
\* receipt before the pairing forgets the request.
PrepareActivation ==
  /\ cli.pc = "prepare"
  /\ IF Mine.session # 0 THEN cli' = [cli EXCEPT !.pc = "complete"] /\ UNCHANGED pairing
     ELSE IF pairing.pending = None /\ pairing.prev # Mine.prev THEN Fail /\ UNCHANGED pairing
     ELSE /\ cli' = [cli EXCEPT !.pc = "activate"]
          /\ pairing' = IF pairing.pending # None THEN pairing
                        ELSE [pairing EXCEPT !.pending = [kind |-> "request", boot |-> cli.key, prev |-> pairing.prev]]
  /\ UNCHANGED <<acked, aged, preview, outputs, applies, Hub>>

ActivationRefused == ~ENABLED Activates(pairing.pending)

Activate ==
  /\ cli.pc = "activate"
  /\ \/ /\ Activates(pairing.pending)
        /\ Save([Mine EXCEPT !.session = Len(sessions')])
        /\ cli' = [cli EXCEPT !.pc = "complete"]
     \/ ActivationRefused /\ Fail /\ UNCHANGED <<sessions, applies>>
  /\ UNCHANGED <<now, acked, aged, pairing, preview, outputs, grants, receipts, stored, uses, reserved, faults>>

\* CompleteActivation, or the session was completed before.
CompleteActivation ==
  /\ cli.pc = "complete"
  /\ IF pairing.pending # None /\ pairing.pending.boot = cli.key /\ Mine.session > pairing.pending.prev
       THEN pairing' = [prev |-> Mine.session, pending |-> None] /\ cli' = [cli EXCEPT !.pc = "read"]
     ELSE IF pairing.pending = None /\ pairing.prev = Mine.session
       THEN cli' = [cli EXCEPT !.pc = "read"] /\ UNCHANGED pairing
     ELSE Fail /\ UNCHANGED pairing
  /\ UNCHANGED <<acked, aged, preview, outputs, applies, Hub>>

Counted(receipt) ==
  [receipt EXCEPT !.rec = @ + receipt.ack.rec, !.dup = @ + receipt.ack.dup, !.ack = None]

\* Mutant of Matches: an acknowledgement of as many runs will do.
MatchesInSize(ack, runs) == Cardinality(ack.runs) = Cardinality(runs)

\* pendingMatchesRecoveryACK, and the same comparison in AckRecovery.
Matches(ack, runs) == ack.runs = runs

\* Mutant of Settled: the acknowledgement found on disk is counted at once.
SettledAtOnce(receipt, runs) ==
  IF receipt.ack # None THEN [Counted(receipt) EXCEPT !.ack = receipt.ack] ELSE receipt

\* A saved acknowledgement whose runs are no longer at the head was applied by the
\* process that died: it is counted now.
Settled(receipt, runs) ==
  IF receipt.ack # None /\ ~Matches(receipt.ack, runs) THEN Counted(receipt) ELSE receipt

\* One round: prune, read the head, settle what the last process left.
ReadRecovery ==
  LET left  == Retained \ Pruned
      g     == Mine.grant
      runs  == IF left = {} THEN {} ELSE Readable(Approved(g), left)
  IN
  /\ cli.pc = "read"
  /\ IF Mine.rec + Mine.dup >= Cardinality(Approved(g))
       THEN cli' = [cli EXCEPT !.pc = "report"] /\ UNCHANGED <<aged, applies>>
     ELSE /\ aged' = aged \cup Pruned
          /\ IF now > grants[g].exp \/ (left # {} /\ runs = {})
               THEN Fail /\ UNCHANGED applies
             ELSE /\ Save(Settled(Mine, runs))
                  /\ cli' = [cli EXCEPT !.pc = IF runs = {} THEN "report" ELSE "ask", !.runs = runs]
  /\ UNCHANGED <<acked, pairing, preview, outputs, Hub>>

Asks(k) == IngestRecoveryReplay(applies[k].grant, cli.runs, applies[k].session, k)
RequestRefused == ~ENABLED Asks(cli.key)

\* The answer is on disk before the cursor moves.
AskHub ==
  /\ cli.pc = "ask"
  /\ \/ Mine.ack # None /\ cli' = [cli EXCEPT !.pc = "ack"] /\ UNCHANGED <<applies, hub>>
     \/ /\ Mine.ack = None /\ Asks(cli.key)
        /\ Save([Mine EXCEPT !.ack = Answer(Mine.grant, cli.runs)])
        /\ cli' = [cli EXCEPT !.pc = "ack"]
     \/ Mine.ack = None /\ RequestRefused /\ Fail /\ UNCHANGED <<applies, hub>>
  /\ UNCHANGED <<now, acked, aged, pairing, preview, outputs, faults>>

AckRecovery ==
  /\ cli.pc = "ack"
  /\ IF Matches(Mine.ack, cli.runs)
       THEN acked' = acked \cup cli.runs /\ cli' = [cli EXCEPT !.pc = "count"]
       ELSE Fail /\ UNCHANGED acked
  /\ UNCHANGED <<aged, pairing, preview, outputs, applies, Hub>>

CountACK ==
  /\ cli.pc = "count"
  /\ Save(Counted(Mine))
  /\ cli' = [cli EXCEPT !.pc = "read", !.runs = {}]
  /\ UNCHANGED <<acked, aged, pairing, preview, outputs, Hub>>

\* The receipt has the report before the file has: it is written next.
Report ==
  /\ cli.pc = "report"
  /\ Save([Mine EXCEPT !.reported = TRUE,
                       !.complete = (Mine.rec + Mine.dup = Cardinality(Approved(Mine.grant)))])
  /\ cli' = [cli EXCEPT !.pc = "write"]
  /\ UNCHANGED <<acked, aged, pairing, preview, outputs, Hub>>

\* The command is killed, or the hub has answered and nobody heard it.
KillCommand ==
  /\ cli # Idle /\ faults < MaxFault /\ faults' = faults + 1 /\ cli' = Idle
  /\ \/ UNCHANGED hub
     \/ cli.pc = "ask" /\ Mine.ack = None /\ Asks(cli.key)
     \/ cli.pc = "activate" /\ Activates(pairing.pending)
          /\ UNCHANGED <<grants, receipts, stored, uses, reserved>>
  /\ UNCHANGED <<now, acked, aged, pairing, preview, outputs, applies>>

Tick == now < MaxNow /\ now' = now + 1 /\ UNCHANGED <<collector, hub, faults>>

Command ==
  \/ OpenOutput \/ FillOutput \/ CompactPreview
  \/ PrepareActivation \/ Activate \/ CompleteActivation
  \/ ReadRecovery \/ AskHub \/ AckRecovery \/ CountACK \/ Report

Next ==
  \/ Tick \/ CreateRecoveryGrant \/ RevokeRecoveryGrant \/ OrdinaryRun
  \/ BeginPreview \/ Command \/ KillCommand
  \/ \E k \in Keys : BeginApply(k) \/ ResumeApply(k)

\* A command that runs takes its steps, and the operator runs an interrupted
\* one again with its key.
Reported(k) == applies[k].reported /\ (applies[k] # NoApply => outputs[k] = "whole")
RetryPreview == preview.man # {} /\ ~preview.compact /\ BeginPreview
RetryApply(k) == ~Reported(k) /\ ResumeApply(k)
Spec ==
  /\ Init /\ [][Next]_vars
  /\ WF_vars(Command) /\ SF_vars(RetryPreview) /\ \A k \in Keys : SF_vars(RetryApply(k))

------------------------------------------------------------------------------
(* Properties *)

\* The cursor of the spool (AckRecovery) passes only what the hub holds: whatever
\* is killed, repeated, revoked or granted again, a retained frame is at the hub,
\* still in the spool, or counted as lost by age.
CursorFollowsHub == acked \subseteq stored

\* What an apply reports is what the hub did: it never counts a frame twice or a
\* frame the hub has no receipt for, and a complete report (collectorRecoveryReport)
\* has the hub's own numbers of recovered and duplicate frames.
ReportIsTrue ==
  \A k \in Keys : applies[k] # NoApply =>
    LET a   == applies[k]
        how(w) == Cardinality({e \in ReceiptsOf(a.grant) : e.how = w})
    IN
    /\ a.rec <= how("recovered") /\ a.dup <= how("duplicate")
    /\ a.complete => /\ grants[a.grant].state = "done"
                     /\ a.rec = how("recovered") /\ a.dup = how("duplicate")

\* Reserved receipt bytes are those of the grants that are open, neither leaked
\* nor given back twice by completion, revocation and expiry (releaseRecoveryCapacity).
ReservationsAreExact == reserved = Sum({g \in DOMAIN grants : Open(g)})

\* The books of a recovery are right, of what it did and of what it may still do.
BooksAreTrue == ReportIsTrue /\ ReservationsAreExact

\* An interrupted preview or apply that is run again with its key ends with its
\* file, unless a command was killed between creating that file and having
\* written it: the retry then finds a file that differs, and the key is bound to
\* the path.  Until an apply has its report it may also fail for good: its grant
\* has run out, been revoked or lost the head of the spool, or another process
\* took a session in between: also the one whose pending activation this apply
\* finished, whose boot is not the apply's own, and the one that sent frames of
\* the grant before, whose scope they conflict with.
Torn(o) == outputs[o] = "torn" /\ ~(cli.pc = "fill" /\ cli.key = o)
Hopeless(k) ==
  LET a == applies[k] IN
  \/ now > grants[a.grant].exp \/ grants[a.grant].state = "revoked"
  \/ Retained # {} /\ HeadOf(Retained) \notin Approved(a.grant)
  \/ \E r \in Retained : now - Observed(r) >= Age
  \/ pairing.pending # None /\ pairing.pending.boot # k
  \/ pairing.prev \notin {a.prev, a.session}
  \/ a.session # 0 /\ a.session # Len(sessions)
  \/ a.session = 0 /\ Len(sessions) = MaxSession
  \/ a.session # 0 /\ sessions[a.session].boot # k
  \/ \E u \in uses : u.grant = a.grant /\ u.session # a.session
Excused(k) == Torn(k) \/ (~applies[k].reported /\ Hopeless(k))
RecoveryFinishes ==
  /\ []<>(preview.man = {} \/ preview.compact \/ Torn(Manifest))
  /\ \A k \in Keys : []<>(Reported(k) \/ Excused(k))
===============================================================================
