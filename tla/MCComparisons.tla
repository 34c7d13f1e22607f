---------------------------- MODULE MCComparisons ----------------------------
(***************************************************************************)
(* Artifacts that differ from the first in one respect each.               *)
(***************************************************************************)
EXTENDS Comparisons, TLC

Done(v) == [status |-> "completed", category |-> FALSE, value |-> v]
Failed == [status |-> "failed", category |-> TRUE, value |-> Missing]

Artifact(samples, state, fixed, version) ==
  [kind |-> "imported_test", state |-> state, samples |-> samples,
   completed |-> Counted(samples, "completed"), submitted |-> Len(samples),
   population |-> [fixed |-> fixed, runtime_version |-> version, option |-> 0]]

MCArtifacts ==
  {Artifact(<<Done(1), Failed>>, "finalized", 0, 0),
   Artifact(<<Done(1), Done(2)>>, "finalized", 0, 1),
   Artifact(<<Done(2)>>, "finalized", 1, 1),
   Artifact(<<Done(3)>>, "active", 0, 0)}

MCDeclarations ==
  {NoChange, [field |-> "runtime_version", before |-> 0, after |-> 1],
   [field |-> "option", before |-> 0, after |-> 1]}

MCSymmetry ==
  Permutations(Clients) \cup Permutations(Keys) \cup Permutations(ProbeIds)
    \cup Permutations(ImportIds) \cup Permutations(ResultIds)
=============================================================================
