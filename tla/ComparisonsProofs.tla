------------------------- MODULE ComparisonsProofs -------------------------
(***************************************************************************)
(* One run per key, for any number of requests under way, keys, runs and   *)
(* restarts; what a saved comparison claims of its two runs, and what      *)
(* receipts, results and attachments refer to: the invariants and their    *)
(* proofs.                                                                 *)
(***************************************************************************)
EXTENDS Comparisons, TLAPS

(* A key that has a run has a receipt that runs out no earlier than the    *)
(* run's own did, even if another operation has written its receipt since. *)
KeyIsHeld(id) ==
  /\ runs[id].key \in Keys /\ runs[id].born \in Int
  /\ receipts[runs[id].key] # None
  /\ receipts[runs[id].key].expires \in Int
  /\ runs[id].born + ReceiptFor <= receipts[runs[id].key].expires

(* A request under way goes by one of the keys.                            *)
RequestsHaveKeys ==
  \A c \in Clients : request[c].at \in {"preflight", "submitted"} => request[c].key \in Keys

ProbeInv ==
  /\ now \in Int
  /\ DOMAIN receipts = Keys /\ DOMAIN request = Clients
  /\ RequestsHaveKeys
  /\ \A id \in DOMAIN runs : KeyIsHeld(id)
  /\ OneRunPerKey

LEMMA ReceiptForIsInt == ReceiptFor \in Int /\ ReceiptFor >= 0
  BY ProbeAssumption

LEMMA InitHoldsKeys == Init => ProbeInv
<1> SUFFICES ASSUME Init PROVE ProbeInv
  OBVIOUS
<1>1. DOMAIN runs = {}
  BY DEF Init, ProbeInit
<1>2. RequestsHaveKeys
  BY DEF Init, ProbeInit, RequestsHaveKeys, Idle
<1> QED
  BY <1>1, <1>2 DEF Init, ProbeInit, ProbeInv, OneRunPerKey

(* Neither a run nor a receipt changes.                                    *)
LEMMA RunsStay ==
    ASSUME ProbeInv, UNCHANGED <<runs, receipts>>, now' \in Int,
           DOMAIN request' = Clients, RequestsHaveKeys'
    PROVE  ProbeInv'
  BY DEF ProbeInv, KeyIsHeld, OneRunPerKey

(* A receipt that is not live may be replaced: the new one ends later.     *)
LEMMA ReceiptReplaced ==
    ASSUME ProbeInv, UNCHANGED <<now, runs>>, NEW k \in Keys, ~Live(k),
           NEW kind, NEW body, NEW result, Keep(k, kind, body, result),
           DOMAIN request' = Clients, RequestsHaveKeys'
    PROVE  ProbeInv'
<1>1. /\ DOMAIN receipts' = Keys
      /\ receipts'[k] = Receipt(kind, body, result)
      /\ \A j \in Keys : j # k => receipts'[j] = receipts[j]
  BY DEF Keep, ProbeInv
<1>2. receipts'[k] # None /\ receipts'[k].expires = now + ReceiptFor
  BY <1>1 DEF Receipt, None
<1>3. ASSUME NEW id \in DOMAIN runs PROVE KeyIsHeld(id)'
  <2>1. KeyIsHeld(id)
    BY DEF ProbeInv
  <2>2. CASE runs[id].key # k
    BY <1>1, <2>1, <2>2 DEF KeyIsHeld
  <2>3. CASE runs[id].key = k
    <3>1. runs[id].born + ReceiptFor <= now
      BY <2>1, <2>3, ReceiptForIsInt DEF KeyIsHeld, Live, ProbeInv
    <3> QED
      BY <1>2, <2>1, <2>3, <3>1, ReceiptForIsInt DEF KeyIsHeld, ProbeInv
  <2> QED
    BY <2>2, <2>3
<1> QED
  BY <1>1, <1>3 DEF ProbeInv, OneRunPerKey

(* A run is stored together with its receipt, when the key has none alive. *)
LEMMA RunStored ==
    ASSUME ProbeInv, now' = now, NEW k \in Keys, ~Live(k), NEW id, NEW run,
           NEW kind, NEW body, NEW result, Keep(k, kind, body, result),
           runs' = With(runs, id, Stored(run, k)),
           DOMAIN request' = Clients, RequestsHaveKeys'
    PROVE  ProbeInv'
<1>1. /\ DOMAIN receipts' = Keys
      /\ receipts'[k] = Receipt(kind, body, result)
      /\ \A j \in Keys : j # k => receipts'[j] = receipts[j]
  BY DEF Keep, ProbeInv
<1>2. receipts'[k] # None /\ receipts'[k].expires = now + ReceiptFor
  BY <1>1 DEF Receipt, None
<1>3. /\ DOMAIN runs' = DOMAIN runs \cup {id}
      /\ runs'[id] = Stored(run, k)
      /\ \A i \in DOMAIN runs \ {id} : runs'[i] = runs[i]
  BY DEF With
<1>4. runs'[id].key = k /\ runs'[id].born = now
  BY <1>3 DEF Stored
<1>5. ASSUME NEW i \in DOMAIN runs, runs[i].key = k PROVE runs[i].born + ReceiptFor <= now
  BY <1>5, ReceiptForIsInt DEF ProbeInv, KeyIsHeld, Live
<1>6. ASSUME NEW i \in DOMAIN runs \ {id} PROVE KeyIsHeld(i)'
  <2>1. KeyIsHeld(i) /\ runs'[i] = runs[i]
    BY <1>3 DEF ProbeInv
  <2>2. CASE runs[i].key # k
    BY <1>1, <2>1, <2>2 DEF KeyIsHeld
  <2>3. CASE runs[i].key = k
    BY <1>2, <1>5, <2>1, <2>3, ReceiptForIsInt DEF KeyIsHeld, ProbeInv
  <2> QED
    BY <2>2, <2>3
<1>7. KeyIsHeld(id)'
  BY <1>2, <1>4, ReceiptForIsInt DEF KeyIsHeld, ProbeInv
<1>8. OneRunPerKey'
  <2> SUFFICES ASSUME NEW i \in DOMAIN runs', NEW j \in DOMAIN runs', i # j,
                      runs'[i].key = runs'[j].key
               PROVE  \/ runs'[i].born >= runs'[j].born + ReceiptFor
                      \/ runs'[j].born >= runs'[i].born + ReceiptFor
    BY DEF OneRunPerKey
  <2>1. CASE i = id
    BY <1>3, <1>4, <1>5, <2>1
  <2>2. CASE j = id
    BY <1>3, <1>4, <1>5, <2>2
  <2>3. CASE i # id /\ j # id
    BY <1>3, <2>3 DEF ProbeInv, OneRunPerKey
  <2> QED
    BY <2>1, <2>2, <2>3
<1> QED
  BY <1>1, <1>3, <1>6, <1>7, <1>8 DEF ProbeInv

(* A blocked answer keeps the receipt that is alive, or writes one.         *)
LEMMA BlockRecorded ==
    ASSUME ProbeInv, UNCHANGED <<now, runs>>, NEW k \in Keys, RecordBlock(k),
           DOMAIN request' = Clients, RequestsHaveKeys'
    PROVE  ProbeInv'
<1>1. CASE Live(k)
  BY <1>1, RunsStay DEF RecordBlock, ProbeInv
<1>2. CASE ~Live(k)
  BY <1>2, ReceiptReplaced DEF RecordBlock
<1> QED
  BY <1>1, <1>2

LEMMA ProbeHoldsKeys ==
    ASSUME ProbeInv, ProbeNext PROVE ProbeInv'
<1>1. ASSUME NEW c \in Clients, NEW k \in Keys, ProbeBusy(c, k) PROVE ProbeInv'
  <2>1. UNCHANGED <<now, runs, request>> /\ RecordBlock(k)
    BY <1>1 DEF ProbeBusy
  <2> QED
    BY <2>1, BlockRecorded DEF ProbeInv, RequestsHaveKeys
<1>2. ASSUME NEW c \in Clients, NEW k \in Keys, TakeLock(c, k) PROVE ProbeInv'
  <2>1. /\ UNCHANGED <<now, runs, receipts>>
        /\ request' = [request EXCEPT ![c] = [at |-> "preflight", key |-> k]]
    BY <1>2 DEF TakeLock
  <2>2. DOMAIN request' = Clients /\ RequestsHaveKeys'
    BY <2>1 DEF ProbeInv, RequestsHaveKeys
  <2> QED
    BY <2>1, <2>2, RunsStay DEF ProbeInv
<1>3. ASSUME NEW c \in Clients, PreflightBlocks(c) PROVE ProbeInv'
  <2>1. /\ UNCHANGED <<now, runs>> /\ RecordBlock(request[c].key) /\ request[c].key \in Keys
        /\ request' = [request EXCEPT ![c] = Idle]
    BY <1>3 DEF PreflightBlocks, ProbeInv, RequestsHaveKeys
  <2>2. DOMAIN request' = Clients /\ RequestsHaveKeys'
    BY <2>1 DEF ProbeInv, RequestsHaveKeys, Idle
  <2> QED
    BY <2>1, <2>2, BlockRecorded
<1>4. ASSUME NEW c \in Clients, ProbeLost(c) PROVE ProbeInv'
  <2>1. UNCHANGED <<now, runs, receipts>> /\ request' = [request EXCEPT ![c] = Idle]
    BY <1>4 DEF ProbeLost
  <2>2. DOMAIN request' = Clients /\ RequestsHaveKeys'
    BY <2>1 DEF ProbeInv, RequestsHaveKeys, Idle
  <2> QED
    BY <2>1, <2>2, RunsStay DEF ProbeInv
<1>5. ASSUME NEW c \in Clients, NEW w \in Warmths, Submit(c, w) PROVE ProbeInv'
  <2>1. PICK id : request' = [request EXCEPT ![c] = [at |-> "submitted", key |-> @.key, id |-> id, warmth |-> w]]
    BY <1>5 DEF Submit
  <2>2. UNCHANGED <<now, runs, receipts>> /\ request[c].key \in Keys
    BY <1>5 DEF Submit, ProbeInv, RequestsHaveKeys
  <2>3. DOMAIN request' = Clients /\ RequestsHaveKeys'
    BY <2>1, <2>2 DEF ProbeInv, RequestsHaveKeys
  <2> QED
    BY <2>2, <2>3, RunsStay DEF ProbeInv
<1>6. ASSUME NEW c \in Clients, NEW o \in Outcomes, RecordDirectProbe(c, o) PROVE ProbeInv'
  <2>1. now' = now /\ request[c].key \in Keys /\ request' = [request EXCEPT ![c] = Idle]
    BY <1>6 DEF RecordDirectProbe, ProbeInv, RequestsHaveKeys
  <2>2. DOMAIN request' = Clients /\ RequestsHaveKeys'
    BY <2>1 DEF ProbeInv, RequestsHaveKeys, Idle
  <2>3. CASE Live(request[c].key)
    <3>1. UNCHANGED <<runs, receipts>>
      BY <1>6, <2>3 DEF RecordDirectProbe
    <3> QED
      BY <2>1, <2>2, <3>1, RunsStay DEF ProbeInv
  <2>4. CASE ~Live(request[c].key)
    <3>1. /\ runs' = With(runs, request[c].id, Stored(DirectRun(o, request[c].warmth), request[c].key))
          /\ Keep(request[c].key, "run", ProbeBody, request[c].id)
      BY <1>6, <2>4 DEF RecordDirectProbe
    <3> QED
      BY <2>1, <2>2, <2>4, <3>1, RunStored
  <2> QED
    BY <2>3, <2>4
<1>7. ASSUME HubRestarts PROVE ProbeInv'
  <2>1. UNCHANGED <<now, runs, receipts>> /\ request' = [c \in Clients |-> Idle]
    BY <1>7 DEF HubRestarts
  <2>2. DOMAIN request' = Clients /\ RequestsHaveKeys'
    BY <2>1 DEF RequestsHaveKeys, Idle
  <2> QED
    BY <2>1, <2>2, RunsStay DEF ProbeInv
<1>8. ASSUME ProbeTick PROVE ProbeInv'
  <2>1. UNCHANGED <<runs, receipts, request>> /\ now' = now + 1
    BY <1>8 DEF ProbeTick
  <2>2. now' \in Int /\ DOMAIN request' = Clients /\ RequestsHaveKeys'
    BY <2>1 DEF ProbeInv, RequestsHaveKeys
  <2> QED
    BY <2>1, <2>2, RunsStay
<1> QED
  BY <1>1, <1>2, <1>3, <1>4, <1>5, <1>6, <1>7, <1>8 DEF ProbeNext

LEMMA StepHoldsKeys ==
    ASSUME ProbeInv, [Next]_vars PROVE ProbeInv'
<1> DEFINE Requests == DOMAIN request' = Clients /\ RequestsHaveKeys'
<1>1. CASE ProbeNext
  BY <1>1, ProbeHoldsKeys
<1>2. ASSUME NEW k \in Keys, NEW id \in ImportIds, NEW run \in Artifacts, ImportProbe(k, id, run)
      PROVE  ProbeInv'
  <2>1. /\ now' = now /\ request' = request /\ ~Live(k)
        /\ runs' = With(runs, id, Stored(run, k))
        /\ Keep(k, "run", <<"import", id, run>>, id)
    BY <1>2 DEF ImportProbe
  <2>2. Requests
    BY <2>1 DEF ProbeInv, RequestsHaveKeys
  <2> QED
    BY <2>1, <2>2, RunStored
<1>3. ASSUME NEW k \in Keys, NEW q \in ValidRequests, SaveComparison(k, q) PROVE ProbeInv'
  <2>1. UNCHANGED <<now, runs, request>> /\ ~Live(k)
    BY <1>3 DEF SaveComparison
  <2>2. PICK id : Keep(k, "comparison", <<"save", q>>, id)
    BY <1>3 DEF SaveComparison
  <2>3. Requests
    BY <2>1 DEF ProbeInv, RequestsHaveKeys
  <2> QED
    BY <2>1, <2>2, <2>3, ReceiptReplaced
<1>4. ASSUME NEW k \in Keys, NEW id \in ResultIds, AttachComparison(k, id) PROVE ProbeInv'
  <2>1. UNCHANGED <<now, runs, request>> /\ ~Live(k) /\ Keep(k, "attached", <<"attach", id>>, id)
    BY <1>4 DEF AttachComparison
  <2>2. Requests
    BY <2>1 DEF ProbeInv, RequestsHaveKeys
  <2> QED
    BY <2>1, <2>2, ReceiptReplaced
<1>5. CASE UNCHANGED vars
  <2>1. UNCHANGED <<now, runs, receipts, request>>
    BY <1>5 DEF vars, probeVars
  <2>2. Requests
    BY <2>1 DEF ProbeInv, RequestsHaveKeys
  <2> QED
    BY <2>1, <2>2, RunsStay DEF ProbeInv
<1>6. ASSUME NEW k \in Keys, NEW q \in ValidRequests, RefuseSave(k, q) PROVE ProbeInv'
  BY <1>5, <1>6 DEF RefuseSave
<1> QED
  BY <1>1, <1>2, <1>3, <1>4, <1>5, <1>6 DEF Next

-----------------------------------------------------------------------------
(* What a comparison claims, and what is answered.                         *)

(* A request has the lock to itself; the identity of its run is new.       *)
LockIsOfOne ==
  /\ \A c \in Clients : request[c] = Idle \/ request[c].at \in {"preflight", "submitted"}
  /\ \A c, d \in Clients : request[c] # Idle /\ request[d] # Idle => c = d
  /\ \A c \in Clients : request[c].at = "submitted" => request[c].id \in ProbeIds \ DOMAIN runs

(* What ClaimIsEarned says of two runs, of a request and its status.       *)
Earned(b, a, change, status) ==
  /\ b.state = "finalized" /\ a.state = "finalized" /\ SameButFor(b, a, change)
  /\ status = "no_clear_observed_change" <=> Median2(b) = Median2(a)
  /\ status = "observed_change_similar_recorded_conditions" => change = NoChange

(* ... and of every result as it is saved: its runs are there.             *)
SavedIsEarned ==
  \A id \in DOMAIN saved :
    LET q == saved[id].request
    IN  /\ q.before \in DOMAIN runs /\ q.after \in DOMAIN runs /\ saved[id].expires \in Int
        /\ Earned(runs[q.before].run, runs[q.after].run, q.change, saved[id].status)

(* A receipt that was written says when it ends.                           *)
ReceiptsExpire == \A k \in Keys : receipts[k] # None => receipts[k].expires \in Int

(* A live receipt ends before what it names.                               *)
AnswerIsThere ==
  \A k \in Keys : Live(k) =>
    /\ receipts[k].kind = "run" => receipts[k].result \in DOMAIN runs
    /\ receipts[k].kind = "comparison" =>
         receipts[k].result \in DOMAIN saved /\ receipts[k].expires <= saved[receipts[k].result].expires

(* A stored run has all the fields of a population.                        *)
RunsHaveFields == \A id \in DOMAIN runs : DOMAIN runs[id].run.population = PopulationFields

(* What holds of runs, results, receipts and attachments.                  *)
EvidenceInv ==
  /\ LockIsOfOne /\ RunsHaveFields /\ SavedIsEarned
  /\ ReceiptsExpire /\ AnswerIsThere /\ attached \subseteq DOMAIN saved

(* The inductive invariant.                                                *)
ComparisonInv == ProbeInv /\ EvidenceInv

(* Nothing is stored, and nobody has the lock.                             *)
LEMMA InitHasNoEvidence == Init => EvidenceInv
<1> SUFFICES ASSUME Init PROVE EvidenceInv
  OBVIOUS
<1>1. LockIsOfOne
  BY DEF Init, ProbeInit, LockIsOfOne, Idle
<1>2. DOMAIN runs = {} /\ DOMAIN saved = {} /\ attached = {}
  BY DEF Init, ProbeInit
<1>3. AnswerIsThere /\ ReceiptsExpire
  BY DEF Init, ProbeInit, AnswerIsThere, ReceiptsExpire, Live
<1> QED
  BY <1>1, <1>2, <1>3 DEF EvidenceInv, RunsHaveFields, SavedIsEarned

(* A comparison that is not refused says what is true of its runs.         *)
LEMMA PreviewIsEarned ==
    ASSUME NEW b, NEW a, DOMAIN b.population = PopulationFields, NEW change \in Declarations,
           Status(b, a, change) # "insufficient_evidence"
    PROVE  Earned(b, a, change, Status(b, a, change))
<1>1. BlockedReasons(b, a, change) = {}
  BY DEF Status
<1>2. {b.state, a.state} = {"finalized"} /\ PopulationReasons(b, a, change) = {}
  BY <1>1 DEF BlockedReasons
<1> DEFINE found == Differences(b, a)
<1>3. /\ found \subseteq {change.field}
      /\ change # NoChange => DeclaredValues(b, a, change) /\ change.field \in found
  BY <1>2 DEF PopulationReasons
<1>4. change = NoChange \/ change.field \in Declarable
  BY ComparisonsAssumption DEF ComparisonsAssumption
<1>5. change.field \notin {"source_kind"} /\ (change = NoChange => change.field \notin PopulationFields)
  BY <1>4 DEF NoChange, Declarable, PopulationFields
<1>6. b.kind = a.kind
  BY <1>3, <1>5 DEF Differences
<1>7. ASSUME NEW f \in DOMAIN b.population
      PROVE  IF f = change.field
             THEN b.population[f] = change.before /\ a.population[f] = change.after
                    /\ change.before # change.after
             ELSE b.population[f] = a.population[f]
  <2>1. CASE f = change.field
    <3>1. change # NoChange
      BY <1>5, <2>1
    <3>2. DeclaredValues(b, a, change) /\ change.field \in found
      BY <1>3, <3>1
    <3>3. b.population[f] # a.population[f]
      BY <1>5, <2>1, <3>2 DEF Differences
    <3> QED
      BY <2>1, <3>2, <3>3 DEF DeclaredValues
  <2>2. CASE f # change.field
    BY <1>3, <2>2 DEF Differences
  <2> QED
    BY <2>1, <2>2
<1>8. SameButFor(b, a, change)
  BY <1>6, <1>7 DEF SameButFor
<1>9. /\ Status(b, a, change) = "no_clear_observed_change" <=> Median2(b) = Median2(a)
      /\ Status(b, a, change) = "observed_change_similar_recorded_conditions" => change = NoChange
  BY <1>1 DEF Status
<1>10. b.state = "finalized" /\ a.state = "finalized"
  BY <1>2
<1> QED
  BY <1>8, <1>9, <1>10 DEF Earned

-----------------------------------------------------------------------------
(* The steps, by what they write.                                          *)
RunsGrow == \A id \in DOMAIN runs : id \in DOMAIN runs' /\ runs'[id] = runs[id]

(* A run stored under a new identity leaves the others as they are.        *)
LEMMA StoringGrows ==
    ASSUME NEW id, id \notin DOMAIN runs, NEW run, NEW k, runs' = With(runs, id, Stored(run, k))
    PROVE  /\ RunsGrow /\ DOMAIN runs' = DOMAIN runs \cup {id} /\ runs'[id].run = run
  BY DEF RunsGrow, With, Stored

(* The results of a comparison stay while its runs do.                     *)
LEMMA SavedStays ==
    ASSUME SavedIsEarned, RunsGrow, UNCHANGED saved PROVE SavedIsEarned'
  BY DEF SavedIsEarned, RunsGrow

(* No receipt is written: what is live was live before.                    *)
LEMMA AnswersStay ==
    ASSUME ProbeInv, ReceiptsExpire, AnswerIsThere, RunsGrow, UNCHANGED <<receipts, saved>>,
           now' \in Int, now <= now'
    PROVE  ReceiptsExpire' /\ AnswerIsThere'
<1>1. now \in Int
  BY DEF ProbeInv
<1>2. ASSUME NEW k \in Keys, Live(k)' PROVE Live(k)
  BY <1>1, <1>2 DEF Live, ReceiptsExpire
<1>3. ASSUME NEW k \in Keys, Live(k)'
      PROVE  /\ receipts'[k].kind = "run" => receipts'[k].result \in DOMAIN runs'
             /\ receipts'[k].kind = "comparison" =>
                  receipts'[k].result \in DOMAIN saved'
                    /\ receipts'[k].expires <= saved'[receipts'[k].result].expires
  BY <1>2, <1>3 DEF AnswerIsThere, RunsGrow
<1> QED
  BY <1>3 DEF AnswerIsThere, ReceiptsExpire

(* A receipt is written for a run or a result that is there; what the      *)
(* other live receipts name stays.                                         *)
LEMMA AnswerWritten ==
    ASSUME ProbeInv, ReceiptsExpire, AnswerIsThere, RunsGrow, now' = now,
           \A id \in DOMAIN saved : now < saved[id].expires =>
             id \in DOMAIN saved' /\ saved'[id] = saved[id],
           SavedIsEarned,
           NEW k \in Keys, NEW kind, NEW body, NEW result, Keep(k, kind, body, result),
           kind = "run" => result \in DOMAIN runs',
           kind = "comparison" =>
             result \in DOMAIN saved' /\ now + ReceiptFor <= saved'[result].expires
    PROVE  ReceiptsExpire' /\ AnswerIsThere'
<1>1. /\ receipts'[k] = Receipt(kind, body, result)
      /\ \A j \in Keys : j # k => receipts'[j] = receipts[j]
  BY DEF Keep, ProbeInv
<1>2. /\ receipts'[k].kind = kind /\ receipts'[k].result = result
      /\ receipts'[k].expires = now + ReceiptFor
  BY <1>1 DEF Receipt
<1>3. now + ReceiptFor \in Int /\ now \in Int
  BY ReceiptForIsInt DEF ProbeInv
<1>4. ReceiptsExpire'
  BY <1>1, <1>2, <1>3 DEF ReceiptsExpire
<1>5. ASSUME NEW j \in Keys, Live(j)'
      PROVE  /\ receipts'[j].kind = "run" => receipts'[j].result \in DOMAIN runs'
             /\ receipts'[j].kind = "comparison" =>
                  receipts'[j].result \in DOMAIN saved'
                    /\ receipts'[j].expires <= saved'[receipts'[j].result].expires
  <2>1. CASE j = k
    BY <1>2, <2>1
  <2>2. CASE j # k
    <3>1. Live(j) /\ receipts'[j] = receipts[j]
      BY <1>1, <1>5, <2>2 DEF Live
    <3>2. receipts[j].kind = "run" => receipts[j].result \in DOMAIN runs'
      BY <3>1 DEF AnswerIsThere, RunsGrow
    <3>3. ASSUME receipts[j].kind = "comparison"
          PROVE  receipts[j].result \in DOMAIN saved'
                   /\ receipts[j].expires <= saved'[receipts[j].result].expires
      <4>1. /\ receipts[j].result \in DOMAIN saved
            /\ receipts[j].expires <= saved[receipts[j].result].expires
        BY <3>1, <3>3 DEF AnswerIsThere
      <4>2. /\ receipts[j].expires \in Int /\ now < receipts[j].expires
            /\ saved[receipts[j].result].expires \in Int
        BY <3>1, <4>1 DEF ReceiptsExpire, Live, SavedIsEarned
      <4>3. now < saved[receipts[j].result].expires
        BY <1>3, <4>1, <4>2
      <4> QED
        BY <4>1, <4>3
    <3> QED
      BY <3>1, <3>2, <3>3
  <2> QED
    BY <2>1, <2>2
<1> QED
  BY <1>4, <1>5 DEF AnswerIsThere

(* A receipt that says blocked names nothing.                              *)
LEMMA BlockNamesNothing ==
    ASSUME ProbeInv, EvidenceInv, UNCHANGED <<now, runs, saved>>, NEW k \in Keys, RecordBlock(k)
    PROVE  ReceiptsExpire' /\ AnswerIsThere'
<1>1. RunsGrow /\ now' \in Int /\ now <= now'
  BY DEF RunsGrow, ProbeInv
<1>2. CASE Live(k)
  BY <1>1, <1>2, AnswersStay DEF RecordBlock, EvidenceInv
<1>3. CASE ~Live(k)
  <2>1. Keep(k, "blocked", ProbeBody, "none")
    BY <1>3 DEF RecordBlock
  <2> QED
    BY <1>1, <2>1, AnswerWritten DEF EvidenceInv
<1> QED
  BY <1>2, <1>3

(* The request of one client ends, or has just taken the lock.             *)
LEMMA LockChanges ==
    ASSUME ProbeInv, LockIsOfOne, NEW c \in Clients, NEW r, request' = [request EXCEPT ![c] = r],
           \A d \in Clients \ {c} : request[d] = Idle,
           \/ r = Idle
           \/ r.at = "preflight"
           \/ r.at = "submitted" /\ r.id \in ProbeIds \ DOMAIN runs'
    PROVE  LockIsOfOne'
<1>1. request'[c] = r /\ \A d \in Clients \ {c} : request'[d] = Idle
  BY DEF ProbeInv
<1>2. Idle.at = "idle"
  BY DEF Idle
<1> QED
  BY <1>1, <1>2 DEF LockIsOfOne

(* What holds of the others while a client has the lock.                   *)
LEMMA OthersAreIdle ==
    ASSUME LockIsOfOne, NEW c \in Clients, request[c] # Idle
    PROVE  \A d \in Clients \ {c} : request[d] = Idle
  BY DEF LockIsOfOne

(* The results and the attachments stay, and no run is lost: what is left  *)
(* to show of a step is the lock and the receipts.                         *)
LEMMA EvidenceStays ==
    ASSUME EvidenceInv, RunsGrow, RunsHaveFields', UNCHANGED <<saved, attached>>,
           LockIsOfOne', ReceiptsExpire', AnswerIsThere'
    PROVE  EvidenceInv'
  BY SavedStays DEF EvidenceInv

(* A request to the runtime changes no result.                             *)
LEMMA ProbeKeepsEvidence ==
    ASSUME ProbeInv, EvidenceInv, ProbeNext, UNCHANGED comparisonVars
    PROVE  EvidenceInv' /\ RunsGrow
<1>0. UNCHANGED <<saved, attached>> /\ now \in Int /\ DOMAIN request = Clients
  BY DEF comparisonVars, ProbeInv
<1>1. ASSUME UNCHANGED runs PROVE RunsGrow /\ RunsHaveFields'
  BY <1>1 DEF RunsGrow, RunsHaveFields, EvidenceInv
<1>2. ASSUME UNCHANGED <<now, runs, receipts>> PROVE ReceiptsExpire' /\ AnswerIsThere'
  BY <1>0, <1>1, <1>2, AnswersStay DEF EvidenceInv
<1>3. ASSUME NEW c \in Clients, NEW k \in Keys, ProbeBusy(c, k) PROVE EvidenceInv' /\ RunsGrow
  <2>1. UNCHANGED <<now, runs, request>> /\ RecordBlock(k)
    BY <1>3 DEF ProbeBusy
  <2>2. LockIsOfOne'
    BY <2>1 DEF LockIsOfOne, EvidenceInv
  <2> QED
    BY <1>0, <1>1, <2>1, <2>2, BlockNamesNothing, EvidenceStays
<1>4. ASSUME NEW c \in Clients, NEW k \in Keys, TakeLock(c, k) PROVE EvidenceInv' /\ RunsGrow
  <2>1. /\ UNCHANGED <<now, runs, receipts>> /\ ~Locked
        /\ request' = [request EXCEPT ![c] = [at |-> "preflight", key |-> k]]
    BY <1>4 DEF TakeLock
  <2>2. LockIsOfOne'
    BY <2>1, LockChanges DEF EvidenceInv, Locked
  <2> QED
    BY <1>0, <1>1, <1>2, <2>1, <2>2, EvidenceStays
<1>5. ASSUME NEW c \in Clients, PreflightBlocks(c) PROVE EvidenceInv' /\ RunsGrow
  <2>1. /\ UNCHANGED <<now, runs>> /\ RecordBlock(request[c].key) /\ request[c].key \in Keys
        /\ request' = [request EXCEPT ![c] = Idle] /\ request[c] # Idle
    BY <1>5 DEF PreflightBlocks, ProbeInv, RequestsHaveKeys, Idle
  <2>2. LockIsOfOne'
    BY <2>1, OthersAreIdle, LockChanges DEF EvidenceInv
  <2> QED
    BY <1>0, <1>1, <2>1, <2>2, BlockNamesNothing, EvidenceStays
<1>6. ASSUME NEW c \in Clients, ProbeLost(c) PROVE EvidenceInv' /\ RunsGrow
  <2>1. /\ UNCHANGED <<now, runs, receipts>>
        /\ request' = [request EXCEPT ![c] = Idle] /\ request[c] # Idle
    BY <1>6 DEF ProbeLost
  <2>2. LockIsOfOne'
    BY <2>1, OthersAreIdle, LockChanges DEF EvidenceInv
  <2> QED
    BY <1>0, <1>1, <1>2, <2>1, <2>2, EvidenceStays
<1>7. ASSUME NEW c \in Clients, NEW w \in Warmths, Submit(c, w) PROVE EvidenceInv' /\ RunsGrow
  <2>1. PICK id \in ProbeIds \ DOMAIN runs :
          request' = [request EXCEPT ![c] = [at |-> "submitted", key |-> @.key, id |-> id, warmth |-> w]]
    BY <1>7 DEF Submit
  <2>2. UNCHANGED <<now, runs, receipts>> /\ request[c] # Idle
    BY <1>7 DEF Submit, Idle
  <2> DEFINE r == [at |-> "submitted", key |-> request[c].key, id |-> id, warmth |-> w]
  <2>3. request' = [request EXCEPT ![c] = r]
    BY <2>1
  <2>4. r.at = "submitted" /\ r.id \in ProbeIds \ DOMAIN runs'
    BY <2>1, <2>2
  <2> HIDE DEF r
  <2>5. LockIsOfOne'
    BY <2>2, <2>3, <2>4, OthersAreIdle, LockChanges DEF EvidenceInv
  <2> QED
    BY <1>0, <1>1, <1>2, <2>2, <2>5, EvidenceStays
<1>8. ASSUME NEW c \in Clients, NEW o \in Outcomes, RecordDirectProbe(c, o) PROVE EvidenceInv' /\ RunsGrow
  <2> DEFINE r == request[c]
  <2>1. /\ now' = now /\ r.at = "submitted" /\ r.key \in Keys /\ r # Idle
        /\ request' = [request EXCEPT ![c] = Idle] /\ r.id \notin DOMAIN runs
    BY <1>8 DEF RecordDirectProbe, ProbeInv, RequestsHaveKeys, LockIsOfOne, EvidenceInv, Idle
  <2>2. LockIsOfOne'
    BY <2>1, OthersAreIdle, LockChanges DEF EvidenceInv
  <2>3. CASE Live(r.key)
    <3>1. UNCHANGED <<runs, receipts>>
      BY <1>8, <2>3 DEF RecordDirectProbe
    <3> QED
      BY <1>0, <1>1, <1>2, <2>1, <2>2, <3>1, EvidenceStays
  <2>4. CASE ~Live(r.key)
    <3> DEFINE run == DirectRun(o, r.warmth)
    <3>1. runs' = With(runs, r.id, Stored(run, r.key)) /\ Keep(r.key, "run", ProbeBody, r.id)
      BY <1>8, <2>4 DEF RecordDirectProbe
    <3>2. DOMAIN run.population = PopulationFields
      BY DEF DirectRun, PopulationFields, Declarable
    <3> HIDE DEF run, r
    <3>3. RunsGrow /\ DOMAIN runs' = DOMAIN runs \cup {r.id} /\ runs'[r.id].run = run
      BY <2>1, <3>1, StoringGrows
    <3>4. RunsHaveFields'
      BY <3>2, <3>3 DEF RunsGrow, RunsHaveFields, EvidenceInv
    <3>5. ReceiptsExpire' /\ AnswerIsThere'
      BY <1>0, <2>1, <3>1, <3>3, AnswerWritten DEF EvidenceInv
    <3> QED
      BY <1>0, <2>2, <3>3, <3>4, <3>5, EvidenceStays
  <2> QED
    BY <2>3, <2>4
<1>9. ASSUME HubRestarts PROVE EvidenceInv' /\ RunsGrow
  <2>1. UNCHANGED <<now, runs, receipts>> /\ request' = [c \in Clients |-> Idle]
    BY <1>9 DEF HubRestarts
  <2>2. LockIsOfOne'
    BY <2>1 DEF LockIsOfOne, Idle
  <2> QED
    BY <1>0, <1>1, <1>2, <2>1, <2>2, EvidenceStays
<1>10. ASSUME ProbeTick PROVE EvidenceInv' /\ RunsGrow
  <2>1. UNCHANGED <<runs, receipts, request>> /\ now' = now + 1
    BY <1>10 DEF ProbeTick
  <2>2. LockIsOfOne'
    BY <2>1 DEF LockIsOfOne, EvidenceInv
  <2>3. ReceiptsExpire' /\ AnswerIsThere'
    BY <1>0, <1>1, <2>1, AnswersStay DEF EvidenceInv
  <2> QED
    BY <1>0, <1>1, <2>1, <2>2, <2>3, EvidenceStays
<1> QED
  BY <1>3, <1>4, <1>5, <1>6, <1>7, <1>8, <1>9, <1>10 DEF ProbeNext

(* A run is imported under an identity that no probe has.                  *)
LEMMA ImportKeepsEvidence ==
    ASSUME ProbeInv, EvidenceInv, NEW k \in Keys, NEW id \in ImportIds, NEW run \in Artifacts,
           ImportProbe(k, id, run)
    PROVE  EvidenceInv' /\ RunsGrow /\ UNCHANGED saved
<1>1. /\ UNCHANGED <<now, request, saved, attached>> /\ id \notin DOMAIN runs
      /\ runs' = With(runs, id, Stored(run, k))
      /\ Keep(k, "run", <<"import", id, run>>, id)
  BY DEF ImportProbe, Importable
<1>2. DOMAIN run.population = PopulationFields /\ id \notin ProbeIds
  BY ComparisonsAssumption
<1>3. RunsGrow /\ DOMAIN runs' = DOMAIN runs \cup {id} /\ runs'[id].run = run
  BY <1>1, StoringGrows
<1>4. RunsHaveFields'
  BY <1>2, <1>3 DEF RunsGrow, RunsHaveFields, EvidenceInv
<1>5. LockIsOfOne'
  BY <1>1, <1>2, <1>3 DEF LockIsOfOne, EvidenceInv
<1>6. ReceiptsExpire' /\ AnswerIsThere'
  BY <1>1, <1>3, AnswerWritten DEF EvidenceInv
<1> QED
  BY <1>1, <1>3, <1>4, <1>5, <1>6, EvidenceStays

(* A result leaves only when it has expired and another one is saved.      *)
LeavesForAnother ==
  \A id \in DOMAIN saved \ DOMAIN saved' :
    saved[id].expires <= now /\ \E new \in DOMAIN saved' : new \notin DOMAIN saved

(* A saved comparison claims what its runs show, and outlives its receipt. *)
LEMMA SaveKeepsEvidence ==
    ASSUME ProbeInv, EvidenceInv, NEW k \in Keys, NEW q \in ValidRequests, SaveComparison(k, q)
    PROVE  EvidenceInv' /\ RunsGrow /\ LeavesForAnother
<1> DEFINE status == Preview(q)
<1>1. /\ UNCHANGED <<now, runs, request>> /\ attached' = attached \cap Kept
      /\ status # "insufficient_evidence"
  BY DEF SaveComparison, Purge
<1>2. PICK id \in ResultIds \ DOMAIN saved :
        /\ saved' = With(Purge.saved, id, [request |-> q, status |-> status, expires |-> now + Retention])
        /\ Keep(k, "comparison", <<"save", q>>, id)
  BY DEF SaveComparison
<1>3. /\ q.before \in DOMAIN runs /\ q.after \in DOMAIN runs /\ q.change \in Declarations
  BY DEF ValidRequests
<1>4. status = Status(runs[q.before].run, runs[q.after].run, q.change)
  BY DEF Preview, RunOf
<1> HIDE DEF status
<1>5. Earned(runs[q.before].run, runs[q.after].run, q.change, status)
  <2>1. DOMAIN runs[q.before].run.population = PopulationFields
    BY <1>3 DEF EvidenceInv, RunsHaveFields
  <2> QED
    BY <1>1, <1>3, <1>4, <2>1, PreviewIsEarned
<1>6. /\ DOMAIN saved' = Kept \cup {id}
      /\ saved'[id].request = q /\ saved'[id].status = status /\ saved'[id].expires = now + Retention
      /\ \A old \in Kept : saved'[old] = saved[old]
      /\ Kept \subseteq DOMAIN saved /\ id \notin DOMAIN saved
  BY <1>2 DEF With, Purge, Kept
<1>7. now \in Int /\ Retention \in Int /\ ReceiptFor <= Retention
  BY ComparisonsAssumption DEF ProbeInv
<1>8. RunsGrow /\ RunsHaveFields' /\ LockIsOfOne'
  BY <1>1 DEF RunsGrow, RunsHaveFields, LockIsOfOne, EvidenceInv
<1>9. SavedIsEarned'
  <2>1. ASSUME NEW old \in DOMAIN saved'
        PROVE  /\ saved'[old].request.before \in DOMAIN runs /\ saved'[old].request.after \in DOMAIN runs
               /\ saved'[old].expires \in Int
               /\ Earned(runs[saved'[old].request.before].run, runs[saved'[old].request.after].run,
                         saved'[old].request.change, saved'[old].status)
    <3>1. CASE old = id
      BY <1>3, <1>5, <1>6, <1>7, <3>1
    <3>2. CASE old \in Kept
      BY <1>6, <3>2 DEF SavedIsEarned, EvidenceInv
    <3> QED
      BY <1>6, <3>1, <3>2
  <2> QED
    BY <1>1, <2>1 DEF SavedIsEarned
<1>10. ReceiptsExpire' /\ AnswerIsThere'
  <2>1. \A old \in DOMAIN saved : now < saved[old].expires =>
          old \in DOMAIN saved' /\ saved'[old] = saved[old]
    BY <1>6 DEF Kept, Readable
  <2>2. id \in DOMAIN saved' /\ now + ReceiptFor <= saved'[id].expires
    BY <1>6, <1>7, ReceiptForIsInt
  <2> QED
    BY <1>1, <1>2, <1>8, <2>1, <2>2, AnswerWritten DEF EvidenceInv
<1>11. LeavesForAnother
  BY <1>6, <1>7 DEF LeavesForAnother, Kept, Readable, EvidenceInv, SavedIsEarned
<1> QED
  BY <1>1, <1>6, <1>8, <1>9, <1>10, <1>11 DEF EvidenceInv

(* Only what is saved and has not expired is attached.                     *)
LEMMA AttachKeepsEvidence ==
    ASSUME ProbeInv, EvidenceInv, NEW k \in Keys, NEW id \in ResultIds, AttachComparison(k, id)
    PROVE  EvidenceInv' /\ RunsGrow /\ UNCHANGED saved
<1>1. /\ UNCHANGED <<now, runs, request, saved>> /\ id \in DOMAIN saved
      /\ attached' = attached \cup {id} /\ Keep(k, "attached", <<"attach", id>>, id)
  BY DEF AttachComparison, Readable
<1>2. RunsGrow /\ RunsHaveFields' /\ LockIsOfOne'
  BY <1>1 DEF RunsGrow, RunsHaveFields, LockIsOfOne, EvidenceInv
<1>3. SavedIsEarned'
  BY <1>1, <1>2, SavedStays DEF EvidenceInv
<1>4. ReceiptsExpire' /\ AnswerIsThere'
  BY <1>1, <1>2, AnswerWritten DEF EvidenceInv
<1> QED
  BY <1>1, <1>2, <1>3, <1>4 DEF EvidenceInv

(* Every step keeps the invariant and the runs, and takes only results     *)
(* that may go.                                                            *)
LEMMA StepKeepsEvidence ==
    ASSUME ComparisonInv, [Next]_vars PROVE ComparisonInv' /\ RunsGrow /\ LeavesForAnother
<1>1. ProbeInv /\ EvidenceInv /\ ProbeInv'
  BY StepHoldsKeys DEF ComparisonInv
<1>2. ASSUME UNCHANGED saved PROVE LeavesForAnother
  BY <1>2 DEF LeavesForAnother
<1>3. CASE ProbeNext /\ UNCHANGED comparisonVars
  BY <1>1, <1>2, <1>3, ProbeKeepsEvidence DEF ComparisonInv, comparisonVars
<1>4. ASSUME NEW k \in Keys, NEW id \in ImportIds, NEW run \in Artifacts, ImportProbe(k, id, run)
      PROVE  ComparisonInv' /\ RunsGrow /\ LeavesForAnother
  BY <1>1, <1>2, <1>4, ImportKeepsEvidence DEF ComparisonInv
<1>5. ASSUME NEW k \in Keys, NEW q \in ValidRequests, SaveComparison(k, q)
      PROVE  ComparisonInv' /\ RunsGrow /\ LeavesForAnother
  BY <1>1, <1>5, SaveKeepsEvidence DEF ComparisonInv
<1>6. ASSUME NEW k \in Keys, NEW id \in ResultIds, AttachComparison(k, id)
      PROVE  ComparisonInv' /\ RunsGrow /\ LeavesForAnother
  BY <1>1, <1>2, <1>6, AttachKeepsEvidence DEF ComparisonInv
<1>7. CASE UNCHANGED vars
  <2>1. UNCHANGED <<now, runs, receipts, request, saved, attached>>
    BY <1>7 DEF vars, probeVars, comparisonVars
  <2>2. RunsGrow
    BY <2>1 DEF RunsGrow
  <2>3. EvidenceInv'
    BY <1>1, <2>1 DEF EvidenceInv, LockIsOfOne, RunsHaveFields, SavedIsEarned, ReceiptsExpire,
                      AnswerIsThere, Live
  <2> QED
    BY <1>1, <1>2, <2>1, <2>2, <2>3 DEF ComparisonInv
<1>8. ASSUME NEW k \in Keys, NEW q \in ValidRequests, RefuseSave(k, q)
      PROVE  ComparisonInv' /\ RunsGrow /\ LeavesForAnother
  BY <1>7, <1>8 DEF RefuseSave
<1> QED
  BY <1>3, <1>4, <1>5, <1>6, <1>7, <1>8 DEF Next

(* The key of a run, the lock of a request, the claims of results and what *)
(* receipts name hold together in every state, for every number of         *)
(* clients, keys and runs and every retention (Spec of Comparisons).       *)
THEOREM ComparisonsAreConsistent == Spec => []ComparisonInv
<1>1. Init => ComparisonInv
  BY InitHoldsKeys, InitHasNoEvidence DEF ComparisonInv
<1>2. ComparisonInv /\ [Next]_vars => ComparisonInv'
  BY StepKeepsEvidence
<1> QED
  BY <1>1, <1>2, PTL DEF Spec

(* What a saved result says of two runs is true of them for as long as it  *)
(* is kept, although the runs, the requests and their retries go on        *)
(* (SaveComparison, ImportProbe, RecordDirectProbe).                       *)
THEOREM ClaimsAreEarned == Spec => []ClaimIsEarned
<1>1. ComparisonInv => ClaimIsEarned
  BY DEF ComparisonInv, EvidenceInv, SavedIsEarned, Earned, ClaimIsEarned
<1> QED
  BY <1>1, ComparisonsAreConsistent, PTL

(* Receipts, results, attachments and runs hold together: a live receipt   *)
(* finds what it names, a run never changes, and a result leaves only when *)
(* it has expired and another one is saved (SaveComparison).               *)
THEOREM AnswersAlwaysHold == Spec => AnswersHold
<1>1. ComparisonInv => NothingDangles
  <2> SUFFICES ASSUME ComparisonInv PROVE NothingDangles
    OBVIOUS
  <2>1. Listed = attached
    BY DEF ComparisonInv, EvidenceInv, Listed
  <2>2. ASSUME NEW k \in Keys, Live(k)
        PROVE  /\ receipts[k].kind = "run" => receipts[k].result \in DOMAIN runs
               /\ receipts[k].kind = "comparison" => Readable(receipts[k].result)
    <3>1. now \in Int /\ receipts[k].expires \in Int /\ now < receipts[k].expires
      BY <2>2 DEF ComparisonInv, ProbeInv, EvidenceInv, ReceiptsExpire, Live
    <3>2. \A id \in DOMAIN saved : saved[id].expires \in Int
      BY DEF ComparisonInv, EvidenceInv, SavedIsEarned
    <3> QED
      BY <2>2, <3>1, <3>2 DEF ComparisonInv, EvidenceInv, AnswerIsThere, Readable
  <2> QED
    BY <2>1, <2>2 DEF NothingDangles
<1>2. ComparisonInv /\ [Next]_vars =>
        [\A id \in DOMAIN runs : id \in DOMAIN runs' /\ runs'[id] = runs[id]]_vars
  BY StepKeepsEvidence DEF RunsGrow
<1>3. ComparisonInv /\ [Next]_vars =>
        [\A id \in DOMAIN saved \ DOMAIN saved' :
           saved[id].expires <= now /\ \E new \in DOMAIN saved' : new \notin DOMAIN saved]_vars
  BY StepKeepsEvidence DEF LeavesForAnother
<1> QED
  BY <1>1, <1>2, <1>3, ComparisonsAreConsistent, PTL
     DEF Spec, AnswersHold, RunsAreImmutable, ResultsLeaveForOthers

(* However requests with one key overlap, are retried, blocked, lost or    *)
(* cut by a restart, no second run is stored under it before the receipt   *)
(* of the first has run out (RecordDirectProbe, ImportProbe).              *)
THEOREM KeysAreUsedOnce == Spec => []OneRunPerKey
<1>1. ProbeInv => OneRunPerKey
  BY DEF ProbeInv
<1> QED
  BY <1>1, InitHoldsKeys, StepHoldsKeys, PTL DEF Spec
=============================================================================
