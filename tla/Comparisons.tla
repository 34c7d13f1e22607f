----------------------------- MODULE Comparisons -----------------------------
(***************************************************************************)
(* Request evidence and the comparisons saved about it.                    *)
(*                                                                         *)
(*   internal/store/comparisons.go    import, comparison, retention        *)
(*   internal/httpapi/comparisons.go  its operations over HTTP             *)
(*                                                                         *)
(* Runs are imported by an operator or recorded by a direct probe.  Two of *)
(* them are compared on one metric, with at most one declared change; the  *)
(* result is saved for a time and may be attached to an incident.  Every   *)
(* operation is one transaction and may be sent again under its key.       *)
(*                                                                         *)
(* A population is its fixed fields, which nobody may declare a change of, *)
(* and two fields that can be declared.                                    *)
(***************************************************************************)
EXTENDS DirectProbe, FiniteSetsExt

CONSTANTS ImportIds,     \* run identities that imports choose
          ResultIds,     \* identities of saved comparisons
          Artifacts,     \* normalized runs an operator may import
          Declarations,  \* declared interventions, and NoChange
          ImportGap,     \* probeImportMinimumInterval
          Retention,     \* comparisonRetention
          MaxResults     \* comparisonMaximumResults

VARIABLES imported,  \* time of the last import job
          saved,     \* comparisons, by identity
          attached   \* comparisons attached to the incident

comparisonVars == <<imported, saved, attached>>
vars == <<probeVars, comparisonVars>>

Declarable == {"runtime_version", "option"}
PopulationFields == {"fixed"} \cup Declarable
NoChange == [field |-> "none"]
LongAgo == -1

ASSUME ComparisonsAssumption ==
  /\ {ImportGap, Retention, MaxResults} \subseteq Nat
  /\ ReceiptFor <= Retention
  /\ \A d \in Declarations : d = NoChange \/ d.field \in Declarable
  /\ \A run \in Artifacts : DOMAIN run.population = PopulationFields
  /\ ImportIds \cap ProbeIds = {}

Init == ProbeInit /\ imported = LongAgo /\ saved = <<>> /\ attached = {}

(***************************************************************************)
(* Import, one transaction.                                                *)
(***************************************************************************)
\* validateProbeImport: the counts are those of the samples; only incomplete
\* ones may be without a sample.
ValidImport(run) ==
  /\ \A i \in DOMAIN run.samples : ValidSample(run.samples[i])
  /\ Counted(run.samples, "completed") = run.completed
  /\ Len(run.samples) <= run.submitted

\* Not more than one import in the interval, and never over an earlier run.
Importable(id) ==
  /\ imported = LongAgo \/ now - imported >= ImportGap
  /\ id \notin DOMAIN runs

ImportProbe(k, id, run) ==
  /\ ~Live(k) /\ ValidImport(run) /\ Importable(id)
  /\ runs' = With(runs, id, Stored(run, k)) /\ imported' = now
  /\ Keep(k, "run", <<"import", id, run>>, id)
  /\ UNCHANGED <<now, request, saved, attached>>

(***************************************************************************)
(* A comparison of two runs.                                               *)
(***************************************************************************)
\* requestSampleMetric: the values of the completed samples that have one.
Measured(run) ==
  {i \in DOMAIN run.samples : run.samples[i].status = "completed" /\ run.samples[i].value # Missing}

Nth(run, n) ==
  CHOOSE v \in {run.samples[i].value : i \in Measured(run)} :
    /\ Cardinality({i \in Measured(run) : run.samples[i].value < v}) < n
    /\ n <= Cardinality({i \in Measured(run) : run.samples[i].value <= v})

\* summarizeRequestRun: twice the median, so that it stays an integer.
Median2(run) ==
  LET n == Cardinality(Measured(run))
  IN  IF n % 2 = 1 THEN 2 * Nth(run, n \div 2 + 1) ELSE Nth(run, n \div 2) + Nth(run, n \div 2 + 1)

Differences(before, after) ==
  {f \in DOMAIN before.population : before.population[f] # after.population[f]}
    \cup (IF before.kind # after.kind THEN {"source_kind"} ELSE {})

\* declaredPopulationValue, and the hashes of the declaration.
DeclaredValues(before, after, change) ==
  before.population[change.field] = change.before /\ after.population[change.field] = change.after

\* comparePopulationDifferences: why the populations may not be compared.
PopulationReasons(before, after, change) ==
  LET found   == Differences(before, after)
      allowed == found \cap {change.field}
  IN  {f \in found : f \notin allowed}
      \cup (IF change # NoChange /\ ~DeclaredValues(before, after, change)
              THEN {"declared_change_hash_mismatch"} ELSE {})
      \cup (IF change # NoChange /\ allowed = {} THEN {"declared_change_not_observed"} ELSE {})

\* Mutant of BlockedReasons: a declared change excuses every difference.
BlockedUnlessDeclared(before, after, change) ==
  (IF {before.state, after.state} # {"finalized"} THEN {"run_not_finalized"} ELSE {})
    \cup (IF change = NoChange THEN PopulationReasons(before, after, change) ELSE {})
    \cup (IF Measured(before) = {} \/ Measured(after) = {} THEN {"selected_metric_missing"} ELSE {})

BlockedReasons(before, after, change) ==
  (IF {before.state, after.state} # {"finalized"} THEN {"run_not_finalized"} ELSE {})
    \cup PopulationReasons(before, after, change)
    \cup (IF Measured(before) = {} \/ Measured(after) = {} THEN {"selected_metric_missing"} ELSE {})

\* buildRequestComparison.
Status(before, after, change) ==
  IF BlockedReasons(before, after, change) # {} THEN "insufficient_evidence"
  ELSE IF Median2(before) = Median2(after) THEN "no_clear_observed_change"
  ELSE IF change # NoChange THEN "observed_change_with_confounds"
  ELSE "observed_change_similar_recorded_conditions"

\* readImportedRunTx: the run and its samples as they are stored now.
RunOf(id) == runs[id].run

Preview(q) == Status(RunOf(q.before), RunOf(q.after), q.change)

(***************************************************************************)
(* Saving, one transaction: the expired results go first.                  *)
(***************************************************************************)
ValidRequests ==
  {q \in [before : DOMAIN runs, after : DOMAIN runs, change : Declarations] : q.before # q.after}

Readable(id) == id \in DOMAIN saved /\ now < saved[id].expires

Kept == {id \in DOMAIN saved : Readable(id)}

Purge == [saved |-> [id \in Kept |-> saved[id]], attached |-> attached \cap Kept]

Room == Cardinality(Kept) < MaxResults

SaveComparison(k, q) ==
  LET result == Preview(q)
  IN  /\ ~Live(k) /\ result # "insufficient_evidence" /\ Room
      /\ \E id \in ResultIds \ DOMAIN saved :
           /\ saved' = With(Purge.saved, id, [request |-> q, status |-> result, expires |-> now + Retention])
           /\ Keep(k, "comparison", <<"save", q>>, id)
      /\ attached' = Purge.attached
      /\ UNCHANGED <<now, runs, request, imported>>

\* Mutant of RefuseSave: the purge is committed although there is no room.
RefuseAfterPurge(k, q) ==
  /\ ~Live(k) /\ Preview(q) # "insufficient_evidence"
  /\ saved' = Purge.saved /\ attached' = Purge.attached
  /\ UNCHANGED <<probeVars, imported>>

\* No room among the results, in their quota or in that of live data: the
\* purge is rolled back with everything else.
RefuseSave(k, q) ==
  /\ ~Live(k) /\ Preview(q) # "insufficient_evidence"
  /\ UNCHANGED vars

\* AttachComparison: an expired comparison can no longer be attached.
AttachComparison(k, id) ==
  /\ ~Live(k) /\ Readable(id)
  /\ attached' = attached \cup {id}
  /\ Keep(k, "attached", <<"attach", id>>, id)
  /\ UNCHANGED <<now, runs, request, imported, saved>>

\* ListIncidentComparisons: the attachments that join a comparison.
Listed == {id \in attached : id \in DOMAIN saved}

Next ==
  \/ ProbeNext /\ UNCHANGED comparisonVars
  \/ \E k \in Keys :
       \/ \E id \in ImportIds, run \in Artifacts : ImportProbe(k, id, run)
       \/ \E q \in ValidRequests : SaveComparison(k, q) \/ RefuseSave(k, q)
       \/ \E id \in ResultIds : AttachComparison(k, id)

Spec == Init /\ [][Next]_vars

(***************************************************************************)
(* Properties                                                              *)
(***************************************************************************)

\* What a saved result claims is true of its two runs as they are stored: both
\* are finalized and measured, and their populations are the same but for the
\* one change that was declared with its exact values (buildRequestComparison).
SameButFor(before, after, change) ==
  /\ before.kind = after.kind
  /\ \A f \in DOMAIN before.population :
       IF f = change.field
       THEN before.population[f] = change.before /\ after.population[f] = change.after
              /\ change.before # change.after
       ELSE before.population[f] = after.population[f]

ClaimIsEarned ==
  \A id \in DOMAIN saved :
    LET q == saved[id].request
        b == runs[q.before].run
        a == runs[q.after].run
    IN  /\ b.state = "finalized" /\ a.state = "finalized"
        /\ SameButFor(b, a, q.change)
        /\ saved[id].status = "no_clear_observed_change" <=> Median2(b) = Median2(a)
        /\ saved[id].status = "observed_change_similar_recorded_conditions" => q.change = NoChange

\* What was compared is never changed afterwards: a run has one content.
RunsAreImmutable == [][\A id \in DOMAIN runs : id \in DOMAIN runs' /\ runs'[id] = runs[id]]_vars

\* Whatever a live receipt or an incident refers to is there: receipts end
\* before the results they name, and a purge takes the attachments along.
NothingDangles ==
  /\ \A k \in Keys : Live(k) =>
       /\ receipts[k].kind = "run" => receipts[k].result \in DOMAIN runs
       /\ receipts[k].kind = "comparison" => Readable(receipts[k].result)
  /\ Listed = attached

\* A result leaves only when it has expired, and only to make room for one
\* that is saved in the same step: a refused request removes nothing.
ResultsLeaveForOthers ==
  [][\A id \in DOMAIN saved \ DOMAIN saved' :
       saved[id].expires <= now /\ \E new \in DOMAIN saved' : new \notin DOMAIN saved]_vars

\* What was answered stays answered: the runs, results, receipts and attachments
\* of a comparison hold together and go only by rule.
AnswersHold == []NothingDangles /\ RunsAreImmutable /\ ResultsLeaveForOthers
=============================================================================
