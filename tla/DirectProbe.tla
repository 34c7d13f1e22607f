----------------------------- MODULE DirectProbe -----------------------------
(***************************************************************************)
(* One deliberate request to the local runtime, recorded as a run.         *)
(*                                                                         *)
(*   internal/httpapi/direct_probe.go      the request and its preflight   *)
(*   internal/store/direct_probe.go        runs, receipts, blocked results *)
(*   internal/adapters/ollama/generate.go  the request to the runtime      *)
(*                                                                         *)
(* A request takes the lock of the hub process, looks at the runtime and   *)
(* is either blocked or submits one sample, whose run is stored with a     *)
(* receipt under the request's key.  Requests are sent again under the     *)
(* same key when their answer is lost.  The lock and whatever a request    *)
(* has learnt die with the hub process; runs and receipts do not.          *)
(***************************************************************************)
EXTENDS Integers, FiniteSets, Sequences

CONSTANTS Clients,     \* requests that may be under way at once
          Keys,        \* idempotency keys
          ProbeIds,    \* identities of direct runs
          Warmths,     \* what the preflight may find: values of cold_warm_policy
          MaxNow, ReceiptFor

ASSUME ProbeAssumption == {MaxNow, ReceiptFor} \subseteq Nat

VARIABLES now,
          runs,      \* stored runs, by identity
          receipts,  \* idempotency receipt of each key
          request    \* what each client's request is doing

probeVars == <<now, runs, receipts, request>>

None == [kind |-> "none"]
Idle == [at |-> "idle"]

ProbeInit ==
  /\ now = 0 /\ runs = <<>>
  /\ receipts = [k \in Keys |-> None]
  /\ request = [c \in Clients |-> Idle]

With(f, x, y) == [z \in DOMAIN f \cup {x} |-> IF z = x THEN y ELSE f[z]]

(***************************************************************************)
(* Receipts.  A live one answers its own request and refuses any other.    *)
(***************************************************************************)
Live(k) == receipts[k] # None /\ now < receipts[k].expires
Receipt(kind, body, result) ==
  [kind |-> kind, body |-> body, result |-> result, expires |-> now + ReceiptFor]
Keep(k, kind, body, result) == receipts' = [receipts EXCEPT ![k] = Receipt(kind, body, result)]

ProbeBody == <<"probe">>

(***************************************************************************)
(* What the runtime answers (Generate, DecodeObservedResponse): a terminal *)
(* record that completes the sample, an error with its category, or a      *)
(* terminal record that only loads or unloads the model.                   *)
(***************************************************************************)
Missing == -1
Outcomes == {[status |-> "completed",  category |-> FALSE, value |-> 1],
             [status |-> "failed",     category |-> TRUE,  value |-> Missing],
             [status |-> "incomplete", category |-> FALSE, value |-> Missing]}

\* validateSampleHTTPAndTerminal.
ValidSample(s) ==
  IF s.status = "completed" THEN ~s.category /\ s.value # Missing ELSE s.category

Counted(samples, status) == Cardinality({i \in DOMAIN samples : samples[i].status = status})

\* directProbeRun.
DirectRun(outcome, warmth) ==
  [kind |-> "deliberate_probe", state |-> "finalized", samples |-> <<outcome>>,
   completed |-> Counted(<<outcome>>, "completed"), submitted |-> 1,
   population |-> [fixed |-> 0, runtime_version |-> 0, option |-> warmth]]

\* validateDirectProbe.
ValidDirectRun(run) ==
  /\ run.state = "finalized" /\ Len(run.samples) = run.submitted
  /\ \A i \in DOMAIN run.samples : ValidSample(run.samples[i])

Stored(run, k) == [run |-> run, key |-> k, born |-> now]

(***************************************************************************)
(* POST /api/v1/probes/run.                                                *)
(***************************************************************************)
Locked == \E c \in Clients : request[c] # Idle

\* RecordDirectProbeBlock: the key's own receipt, or a new one that says blocked.
RecordBlock(k) ==
  IF Live(k) THEN UNCHANGED receipts ELSE Keep(k, "blocked", ProbeBody, "none")

ProbeBusy(c, k) ==
  /\ Locked /\ request[c] = Idle /\ RecordBlock(k)
  /\ UNCHANGED <<now, runs, request>>

TakeLock(c, k) ==
  /\ ~Locked /\ request' = [request EXCEPT ![c] = [at |-> "preflight", key |-> k]]
  /\ UNCHANGED <<now, runs, receipts>>

PreflightBlocks(c) ==
  /\ request[c].at = "preflight" /\ RecordBlock(request[c].key)
  /\ request' = [request EXCEPT ![c] = Idle]
  /\ UNCHANGED <<now, runs>>

\* executeLocalProbe: the run has its identity before the request is sent.
Submit(c, warmth) ==
  /\ request[c].at = "preflight"
  /\ \E id \in ProbeIds \ DOMAIN runs :
       request' = [request EXCEPT ![c] = [at |-> "submitted", key |-> @.key, id |-> id, warmth |-> warmth]]
  /\ UNCHANGED <<now, runs, receipts>>

\* Mutant of RecordDirectProbe: the receipt is not looked at again once the
\* runtime has answered.
RecordUnchecked(c, outcome) ==
  LET r == request[c]
      run == DirectRun(outcome, r.warmth)
  IN  /\ r.at = "submitted" /\ ValidDirectRun(run)
      /\ runs' = With(runs, r.id, Stored(run, r.key))
      /\ Keep(r.key, "run", ProbeBody, r.id)
      /\ request' = [request EXCEPT ![c] = Idle] /\ UNCHANGED now

RecordDirectProbe(c, outcome) ==
  LET r == request[c]
      run == DirectRun(outcome, r.warmth)
  IN  /\ r.at = "submitted" /\ ValidDirectRun(run)
      /\ IF Live(r.key)
         THEN UNCHANGED <<runs, receipts>>
         ELSE /\ runs' = With(runs, r.id, Stored(run, r.key))
              /\ Keep(r.key, "run", ProbeBody, r.id)
      /\ request' = [request EXCEPT ![c] = Idle] /\ UNCHANGED now

\* The client leaves, and its context ends the request and the write; the run
\* is invalid; its target was retired; or there is no room: nothing is stored.
ProbeLost(c) ==
  /\ request[c] # Idle /\ request' = [request EXCEPT ![c] = Idle]
  /\ UNCHANGED <<now, runs, receipts>>

HubRestarts ==
  /\ Locked /\ request' = [c \in Clients |-> Idle]
  /\ UNCHANGED <<now, runs, receipts>>

ProbeTick == now < MaxNow /\ now' = now + 1 /\ UNCHANGED <<runs, receipts, request>>

ProbeNext ==
  \/ \E c \in Clients :
       \/ \E k \in Keys : ProbeBusy(c, k) \/ TakeLock(c, k)
       \/ PreflightBlocks(c) \/ ProbeLost(c)
       \/ \E w \in Warmths : Submit(c, w)
       \/ \E o \in Outcomes : RecordDirectProbe(c, o)
  \/ HubRestarts \/ ProbeTick

(***************************************************************************)
(* Properties                                                              *)
(***************************************************************************)

\* A request sent again, while the first waits for the runtime or after its
\* answer, stores no second run while the receipt of the first lives.
OneRunPerKey ==
  \A i, j \in DOMAIN runs :
    (i # j /\ runs[i].key = runs[j].key)
      => \/ runs[i].born >= runs[j].born + ReceiptFor
         \/ runs[j].born >= runs[i].born + ReceiptFor
=============================================================================
