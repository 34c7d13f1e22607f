-------------------------- MODULE IncidentsProofs ---------------------------
(***************************************************************************)
(* Proofs about Incidents and the guard of Capacity, for any number of     *)
(* requests, operators and incidents, any retention and any quota: no byte *)
(* escapes the account, lost evidence is counted and leaves by rule, a     *)
(* change is of what was read, one incident per idempotency key.           *)
(***************************************************************************)
EXTENDS Incidents, FiniteSetTheorems, TLAPS

-----------------------------------------------------------------------------
(* The account of the bytes.                                               *)

(* The guard's variables; a grant that was used is still active.           *)
Account ==
  /\ written \in [Classes -> Int] /\ current \in [Classes -> Int]
  /\ charges \in [Writers -> Nat]
  /\ grant \in [active : BOOLEAN, used : BOOLEAN]
  /\ grant.used => grant.active
  /\ EveryByteIsCharged

(* Charged(Writers, c) as a sum over all writers, of any charges.          *)
Envelopes(f, c) ==
  f["bulk"] * Need["bulk"][c] + f["recovery"] * Need["recovery"][c]
  + f["firing"] * Need["firing"][c] + f["resolution"] * Need["resolution"][c]
  + f["manual"] * Need["manual"][c]

(* Envelopes are numbers of bytes.                                         *)
LEMMA NeedIsANumber == \A w \in Writers, c \in Classes : Need[w][c] \in Nat
  BY CapacityAssumption

(* The charges of all writers are the sum of their envelopes.              *)
LEMMA AllAreCharged ==
    ASSUME NEW c \in Classes
    PROVE  /\ Charged(Writers, c) = Envelopes(charges, c)
           /\ Charged(Writers, c)' = Envelopes(charges', c)
  BY DEF Charged, Writers, Envelopes

(* One charge more of a writer adds its envelope.                          *)
LEMMA EnvelopesGrow ==
    ASSUME NEW f \in [Writers -> Nat], NEW w \in Writers, NEW c \in Classes
    PROVE  /\ Envelopes(f, c) \in Nat
           /\ Envelopes([f EXCEPT ![w] = f[w] + 1], c) = Envelopes(f, c) + Need[w][c]
<1> DEFINE g == [f EXCEPT ![w] = f[w] + 1]
<1>0. /\ g \in [Writers -> Nat] /\ g[w] = f[w] + 1
      /\ \A v \in Writers : v # w => g[v] = f[v]
  OBVIOUS
<1> HIDE DEF g
<1>1. \A m, n \in Nat : m * n \in Nat /\ (m + 1) * n = m * n + n
  OBVIOUS
<1>2. \A v \in Writers : /\ f[v] * Need[v][c] \in Nat /\ g[v] * Need[v][c] \in Nat
                         /\ v # w => g[v] = f[v]
                         /\ v = w => g[v] * Need[v][c] = f[v] * Need[v][c] + Need[w][c]
  BY <1>0, <1>1, NeedIsANumber
<1> DEFINE F(v) == f[v] * Need[v][c]
           G(v) == g[v] * Need[v][c]
<1>3. \A v \in Writers : /\ F(v) \in Nat
                         /\ G(v) = F(v) + (IF v = w THEN Need[w][c] ELSE 0)
  BY <1>2
<1>4. /\ Envelopes(f, c) = F("bulk") + F("recovery") + F("firing") + F("resolution") + F("manual")
      /\ Envelopes(g, c) = G("bulk") + G("recovery") + G("firing") + G("resolution") + G("manual")
  BY DEF Envelopes
<1>5. Need[w][c] \in Nat /\ Writers = {"bulk", "recovery", "firing", "resolution", "manual"}
  BY NeedIsANumber DEF Writers
<1> HIDE DEF F, G
<1>6. Envelopes(f, c) \in Nat /\ Envelopes(g, c) = Envelopes(f, c) + Need[w][c]
  BY <1>3, <1>4, <1>5
<1> QED
  BY <1>6 DEF g

(* What is charged is a number of bytes.                                   *)
LEMMA EnvelopesAreNumbers ==
    ASSUME NEW f \in [Writers -> Nat], NEW c \in Classes PROVE Envelopes(f, c) \in Nat
<1>1. "bulk" \in Writers
  BY DEF Writers
<1> QED
  BY <1>1, EnvelopesGrow

(* Without charges nothing is charged.                                     *)
LEMMA NoEnvelopes ==
    ASSUME NEW f, \A w \in Writers : f[w] = 0, NEW c \in Classes PROVE Envelopes(f, c) = 0
<1>1. \A n \in Nat : 0 * n = 0
  OBVIOUS
<1>2. \A w \in Writers : f[w] * Need[w][c] = 0
  BY <1>1, NeedIsANumber
<1> QED
  BY <1>2 DEF Envelopes, Writers

(* A writer that leaves its charge may grow every class by its envelope.   *)
LEMMA ChargedWrite ==
    ASSUME Account, NEW w \in Writers, Charge(w), UNCHANGED <<current, grant>>,
           written' \in [Classes -> Int],
           \A c \in Classes : written'[c] <= written[c] + Need[w][c]
    PROVE  Account'
<1>1. /\ charges' = [charges EXCEPT ![w] = charges[w] + 1]
      /\ charges \in [Writers -> Nat] /\ charges' \in [Writers -> Nat]
  BY DEF Account, Charge
<1>2. EveryByteIsCharged'
  <2> SUFFICES ASSUME NEW c \in Classes
               PROVE  written'[c] <= current'[c] + (IF grant'.used THEN Need["recovery"][c] ELSE 0)
                                       + Charged(Writers, c)'
    BY DEF EveryByteIsCharged
  <2>1. /\ Envelopes(charges, c) \in Nat
        /\ Charged(Writers, c)' = Envelopes(charges, c) + Need[w][c]
    <3>1. Envelopes([charges EXCEPT ![w] = charges[w] + 1], c) = Envelopes(charges, c) + Need[w][c]
      BY EnvelopesGrow DEF Account
    <3> QED
      BY <1>1, <3>1, EnvelopesAreNumbers, AllAreCharged
  <2>2. written[c] <= current[c] + (IF grant.used THEN Need["recovery"][c] ELSE 0)
                        + Envelopes(charges, c)
    BY AllAreCharged DEF Account, EveryByteIsCharged
  <2>3. written[c] \in Int /\ written'[c] \in Int /\ current[c] \in Int
        /\ Need[w][c] \in Nat /\ Need["recovery"][c] \in Nat
    BY NeedIsANumber DEF Account, Writers
  <2> QED
    BY <2>1, <2>2, <2>3
<1> QED
  BY <1>1, <1>2 DEF Account

(* Nothing is written, or bytes are freed.                                 *)
LEMMA NothingWritten ==
    ASSUME Account, UNCHANGED <<current, charges, grant>>, written' \in [Classes -> Int],
           \A c \in Classes : written'[c] <= written[c]
    PROVE  Account'
<1>1. EveryByteIsCharged'
  <2> SUFFICES ASSUME NEW c \in Classes
               PROVE  written'[c] <= current'[c] + (IF grant'.used THEN Need["recovery"][c] ELSE 0)
                                       + Charged(Writers, c)'
    BY DEF EveryByteIsCharged
  <2>1. Charged(Writers, c)' = Envelopes(charges, c) /\ Charged(Writers, c) = Envelopes(charges, c)
    BY AllAreCharged
  <2>2. Envelopes(charges, c) \in Int
    BY EnvelopesAreNumbers DEF Account
  <2>3. written[c] <= current[c] + (IF grant.used THEN Need["recovery"][c] ELSE 0)
                        + Envelopes(charges, c)
    BY <2>1 DEF Account, EveryByteIsCharged
  <2>4. written[c] \in Int /\ written'[c] \in Int /\ current[c] \in Int
        /\ Need["recovery"][c] \in Nat
    BY NeedIsANumber DEF Account, Writers
  <2> QED
    BY <2>1, <2>2, <2>3, <2>4
<1> QED
  BY <1>1 DEF Account

(* The steps of the guard itself.                                          *)
LEMMA GuardKeepsAccount ==
    ASSUME Account, CapacityNext PROVE Account'
<1> USE NeedIsANumber
<1>1. \A w \in Writers : Grown(w) \in [Classes -> Int]
        /\ \A c \in Classes : Grown(w)[c] = written[c] + Need[w][c]
  BY DEF Grown, Account
<1>2. CASE BulkWrite
  BY <1>1, <1>2, ChargedWrite DEF BulkWrite, Writers
<1>3. CASE GrantRecovery
  <2>1. UNCHANGED <<written, current, charges>> /\ ~grant.active /\ ~grant'.used
        /\ grant' \in [active : BOOLEAN, used : BOOLEAN] /\ grant'.active
    BY <1>3 DEF GrantRecovery
  <2>2. EveryByteIsCharged'
    BY <2>1, AllAreCharged DEF Account, EveryByteIsCharged
  <2> QED
    BY <2>1, <2>2 DEF Account
<1>4. CASE RecoveryWrite
  <2>1. UNCHANGED <<current, charges>> /\ written' = Grown("recovery") /\ grant.active /\ ~grant.used
        /\ grant' = [active |-> TRUE, used |-> TRUE]
    BY <1>4 DEF RecoveryWrite, Account
  <2>2. EveryByteIsCharged'
    <3> SUFFICES ASSUME NEW c \in Classes
                 PROVE  written'[c] <= current'[c] + (IF grant'.used THEN Need["recovery"][c] ELSE 0)
                                         + Charged(Writers, c)'
      BY DEF EveryByteIsCharged
    <3>1. Charged(Writers, c)' = Envelopes(charges, c) /\ Charged(Writers, c) = Envelopes(charges, c)
      BY <2>1, AllAreCharged
    <3>2. Envelopes(charges, c) \in Int
      BY EnvelopesAreNumbers DEF Account
    <3>3. written[c] <= current[c] + Envelopes(charges, c)
      BY <2>1, <3>1, <3>2 DEF Account, EveryByteIsCharged
    <3>4. written[c] \in Int /\ current[c] \in Int /\ Need["recovery"][c] \in Nat
          /\ written'[c] = written[c] + Need["recovery"][c]
      BY <1>1, <2>1 DEF Account, Writers
    <3> QED
      BY <2>1, <3>1, <3>2, <3>3, <3>4
  <2> QED
    BY <1>1, <2>1, <2>2 DEF Account, Writers
<1>5. CASE ReleaseGrant
  <2>1. UNCHANGED <<written, current>> /\ Charge("recovery") /\ grant' = [active |-> FALSE, used |-> FALSE]
    BY <1>5 DEF ReleaseGrant
  <2>2. /\ charges' = [charges EXCEPT !["recovery"] = charges["recovery"] + 1]
        /\ charges \in [Writers -> Nat] /\ charges' \in [Writers -> Nat] /\ "recovery" \in Writers
    BY <2>1 DEF Account, Charge, Writers
  <2>3. EveryByteIsCharged'
    <3> SUFFICES ASSUME NEW c \in Classes
                 PROVE  written'[c] <= current'[c] + (IF grant'.used THEN Need["recovery"][c] ELSE 0)
                                         + Charged(Writers, c)'
      BY DEF EveryByteIsCharged
    <3>1. /\ Envelopes(charges, c) \in Nat
          /\ Charged(Writers, c)' = Envelopes(charges, c) + Need["recovery"][c]
      <4>1. Envelopes([charges EXCEPT !["recovery"] = charges["recovery"] + 1], c)
              = Envelopes(charges, c) + Need["recovery"][c]
        BY <2>2, EnvelopesGrow
      <4> QED
        BY <2>2, <4>1, EnvelopesAreNumbers, AllAreCharged
    <3>2. written[c] <= current[c] + (IF grant.used THEN Need["recovery"][c] ELSE 0)
                          + Envelopes(charges, c)
      BY AllAreCharged DEF Account, EveryByteIsCharged
    <3>3. written[c] \in Int /\ current[c] \in Int /\ Need["recovery"][c] \in Nat
      BY DEF Account, Writers
    <3> QED
      BY <2>1, <3>1, <3>2, <3>3
  <2> QED
    BY <2>1, <2>2, <2>3 DEF Account
<1>6. CASE Measure
  <2>1. current' = written /\ UNCHANGED <<written, grant>> /\ charges' = [w \in Writers |-> 0]
    BY <1>6 DEF Measure, Record, Measured
  <2>2. EveryByteIsCharged'
    <3> SUFFICES ASSUME NEW c \in Classes
                 PROVE  written'[c] <= current'[c] + (IF grant'.used THEN Need["recovery"][c] ELSE 0)
                                         + Charged(Writers, c)'
      BY DEF EveryByteIsCharged
    <3>1. Charged(Writers, c)' = 0
      BY <2>1, NoEnvelopes, AllAreCharged
    <3>2. written[c] \in Int /\ Need["recovery"][c] \in Nat
      BY DEF Account, Writers
    <3> QED
      BY <2>1, <3>1, <3>2
  <2> QED
    BY <2>1, <2>2 DEF Account
<1>7. CASE CapacityTick
  <2>1. UNCHANGED <<written, current, charges, grant>>
    BY <1>7 DEF CapacityTick
  <2>2. \A c \in Classes : written'[c] <= written[c]
    BY <2>1 DEF Account
  <2> QED
    BY <2>1, <2>2, NothingWritten DEF Account
<1> QED
  BY <1>2, <1>3, <1>4, <1>5, <1>6, <1>7 DEF CapacityNext

-----------------------------------------------------------------------------
(* The incidents.  An open one has its evidence, one without evidence says *)
(* why, a closed one expires Retention after it was resolved.              *)
Fields == [origin : Origins, state : {"open", "closed"}, revision : Nat, kept : BOOLEAN,
           reason : Reasons \cup {"none"}, resolved : Int, expires : Int, born : Int]

Case == {case \in Fields :
           /\ case.kept <=> case.reason = "none"
           /\ case.state = "open" => case.kept
           /\ case.state = "closed" =>
                case.resolved \in Nat /\ case.expires = case.resolved + Retention}

(* A later state of an incident: every change raises its revision.         *)
Later(case, new) ==
  /\ new \in Case /\ new.origin = case.origin /\ new.born = case.born
  /\ new = case \/ new.revision > case.revision

(* cs2 has the incidents of cs1 in a later state.                          *)
SameIncidents(cs1, cs2) ==
  /\ cs2 \in Seq(Case) /\ DOMAIN cs2 = DOMAIN cs1 /\ Len(cs2) = Len(cs1)
  /\ \A i \in DOMAIN cs1 : Later(cs1[i], cs2[i])

(* None of them has lost or regained its evidence.                         *)
SameEvidence(cs1, cs2) ==
  \A i \in DOMAIN cs1 : cs2[i].kept = cs1[i].kept /\ cs2[i].reason = cs1[i].reason

(* What an operator has read is an incident there is, as it was when it    *)
(* had that revision.                                                      *)
ReadOf(read, cs) ==
  /\ read.case \in DOMAIN cs /\ read.copy \in Case
  /\ read.copy.revision <= cs[read.case].revision
  /\ read.copy.revision = cs[read.case].revision => read.copy = cs[read.case]

ReadIsOld == \A o \in Operators : seen[o] # None => ReadOf(seen[o], cases)

(* The receipt of the key ends no earlier than that of any incident that   *)
(* was created under it would have.                                        *)
KeyIsHeld ==
  /\ receipt # None => receipt.expires \in Int
  /\ \A i \in All : cases[i].origin = "manual" =>
       receipt # None /\ cases[i].born + ReceiptFor <= receipt.expires

RequestInv ==
  /\ now \in Nat /\ cases \in Seq(Case)
  /\ DOMAIN seen = Operators /\ ReadIsOld
  /\ KeyIsHeld /\ RetryCreatesOnce

(* The inductive invariant.                                                *)
IncidentInv == RequestInv /\ LossIsTold /\ Account

(* The lives of receipts and of evidence are numbers.                      *)
LEMMA ConstantsAreNumbers == ReceiptFor \in Nat /\ Retention \in Nat /\ Retention > 0
  BY IncidentsAssumption

(* A new incident has its evidence.                                        *)
LEMMA OpenedIsACase ==
    ASSUME now \in Nat, NEW origin \in Origins
    PROVE  Opened(origin) \in Case /\ Opened(origin).reason = "none"
  BY DEF Opened, Case, Fields, Never

(* A closed incident, and what its reopening leaves.                       *)
LEMMA ResolvedIsLater ==
    ASSUME now \in Nat, NEW case \in Case, case.state = "open"
    PROVE  /\ Later(case, Resolved(case))
           /\ Resolved(case).kept = case.kept /\ Resolved(case).reason = case.reason
           /\ Resolved(case).state = "closed" /\ Resolved(case).resolved = now
<1>1. /\ case \in Fields /\ case.revision + 1 \in Nat /\ case.revision + 1 > case.revision
      /\ now + Retention \in Int /\ now \in Int
  BY ConstantsAreNumbers DEF Case, Fields
<1> DEFINE next == case.revision + 1
           until == now + Retention
<1>2. Resolved(case) = [case EXCEPT !.state = "closed", !.revision = next, !.resolved = now,
                                    !.expires = until]
  BY DEF Resolved
<1>3. next \in Nat /\ next > case.revision /\ until \in Int /\ until = now + Retention
  BY <1>1
<1> HIDE DEF next, until
<1>4. /\ Resolved(case) \in Fields /\ Resolved(case).kept = case.kept
      /\ Resolved(case).reason = case.reason /\ Resolved(case).state = "closed"
      /\ Resolved(case).resolved = now /\ Resolved(case).expires = until
      /\ Resolved(case).revision = next
      /\ Resolved(case).origin = case.origin /\ Resolved(case).born = case.born
  BY <1>1, <1>2, <1>3 DEF Fields
<1> QED
  BY <1>3, <1>4 DEF Case, Later

(* Reopening an incident that has its evidence.                            *)
LEMMA ReopenedIsLater ==
    ASSUME NEW case \in Case, case.kept
    PROVE  /\ Later(case, Reopened(case))
           /\ Reopened(case).kept = case.kept /\ Reopened(case).reason = case.reason
<1>1. case \in Fields /\ case.revision + 1 \in Nat /\ case.revision + 1 > case.revision
  BY DEF Case, Fields
<1> DEFINE next == case.revision + 1
<1>2. Reopened(case) = [case EXCEPT !.state = "open", !.revision = next, !.resolved = Never,
                                    !.expires = Never]
  BY DEF Reopened
<1>3. next \in Nat /\ next > case.revision /\ Never \in Int
  BY <1>1 DEF Never
<1> HIDE DEF next
<1>4. /\ Reopened(case) \in Fields /\ Reopened(case).kept = case.kept
      /\ Reopened(case).reason = case.reason /\ Reopened(case).state = "open"
      /\ Reopened(case).revision = next
      /\ Reopened(case).origin = case.origin /\ Reopened(case).born = case.born
  BY <1>1, <1>2, <1>3 DEF Fields
<1> QED
  BY <1>3, <1>4 DEF Case, Later

(* A change of the title.                                                  *)
Titled(case) == [case EXCEPT !.revision = case.revision + 1]

(* Only the title changes, and the revision.                               *)
LEMMA TitledIsLater ==
    ASSUME NEW case \in Case
    PROVE  /\ Later(case, Titled(case))
           /\ Titled(case).kept = case.kept /\ Titled(case).reason = case.reason
<1>1. case \in Fields /\ case.revision + 1 \in Nat /\ case.revision + 1 > case.revision
  BY DEF Case, Fields
<1> DEFINE next == case.revision + 1
<1>2. Titled(case) = [case EXCEPT !.revision = next]
  BY DEF Titled
<1>3. next \in Nat /\ next > case.revision
  BY <1>1
<1> HIDE DEF next
<1>4. /\ Titled(case) \in Fields /\ Titled(case).kept = case.kept
      /\ Titled(case).reason = case.reason /\ Titled(case).state = case.state
      /\ Titled(case).resolved = case.resolved /\ Titled(case).expires = case.expires
      /\ Titled(case).revision = next
      /\ Titled(case).origin = case.origin /\ Titled(case).born = case.born
  BY <1>1, <1>2, <1>3 DEF Fields
<1> QED
  BY <1>3, <1>4 DEF Case, Later

(* A closed incident loses its evidence.                                   *)
Evicted(case, reason) == [case EXCEPT !.kept = FALSE, !.revision = case.revision + 1, !.reason = reason]

LEMMA EvictedIsLater ==
    ASSUME NEW case \in Case, case.state = "closed", NEW reason \in Reasons
    PROVE  /\ Later(case, Evicted(case, reason))
           /\ ~Evicted(case, reason).kept /\ Evicted(case, reason).reason = reason
           /\ Evicted(case, reason).state = case.state
           /\ Evicted(case, reason).resolved = case.resolved
<1>1. case \in Fields /\ case.revision + 1 \in Nat /\ case.revision + 1 > case.revision
  BY DEF Case, Fields
<1> DEFINE next == case.revision + 1
<1>2. Evicted(case, reason) = [case EXCEPT !.kept = FALSE, !.revision = next, !.reason = reason]
  BY DEF Evicted
<1>3. next \in Nat /\ next > case.revision /\ reason # "none" /\ reason \in Reasons \cup {"none"}
  BY <1>1 DEF Reasons
<1> HIDE DEF next
<1>4. /\ Evicted(case, reason) \in Fields /\ Evicted(case, reason).kept = FALSE
      /\ Evicted(case, reason).reason = reason /\ Evicted(case, reason).state = case.state
      /\ Evicted(case, reason).resolved = case.resolved
      /\ Evicted(case, reason).expires = case.expires /\ Evicted(case, reason).revision = next
      /\ Evicted(case, reason).origin = case.origin /\ Evicted(case, reason).born = case.born
  BY <1>1, <1>2, <1>3 DEF Fields
<1> QED
  BY <1>3, <1>4 DEF Case, Later

-----------------------------------------------------------------------------
(* The incidents as a sequence.                                            *)
(* A step may leave the incidents as they are.                             *)
LEMMA NothingChanges == ASSUME NEW cs \in Seq(Case) PROVE SameIncidents(cs, cs) /\ SameEvidence(cs, cs)
  BY DEF SameIncidents, SameEvidence, Later

(* One incident changes.                                                   *)
LEMMA OneChanges ==
    ASSUME NEW cs \in Seq(Case), NEW i \in DOMAIN cs, NEW case, Later(cs[i], case)
    PROVE  SameIncidents(cs, [cs EXCEPT ![i] = case])
<1> DEFINE new == [cs EXCEPT ![i] = case]
<1>1. new \in Seq(Case) /\ Len(new) = Len(cs) /\ DOMAIN new = DOMAIN cs
  BY DEF Later
<1>2. \A j \in DOMAIN cs : new[j] = IF j = i THEN case ELSE cs[j]
  OBVIOUS
<1>3. \A j \in DOMAIN cs : cs[j] \in Case
  OBVIOUS
<1> HIDE DEF new
<1>4. \A j \in DOMAIN cs : Later(cs[j], new[j])
  BY <1>2, <1>3 DEF Later
<1> QED
  BY <1>1, <1>4 DEF new, SameIncidents

(* A later state of a later state.                                         *)
LEMMA SameTwice ==
    ASSUME NEW cs1 \in Seq(Case), NEW cs2, NEW cs3, SameIncidents(cs1, cs2), SameIncidents(cs2, cs3)
    PROVE  SameIncidents(cs1, cs3)
<1>1. \A i \in DOMAIN cs1 : cs1[i] \in Case /\ Later(cs1[i], cs2[i]) /\ Later(cs2[i], cs3[i])
  BY DEF SameIncidents
<1>2. \A case \in Case : case.revision \in Nat
  BY DEF Case, Fields
<1>3. \A i \in DOMAIN cs1 : Later(cs1[i], cs3[i])
  BY <1>1, <1>2 DEF Later
<1> QED
  BY <1>3 DEF SameIncidents

(* What was read of an incident stays a state it had.                      *)
LEMMA ReadStays ==
    ASSUME NEW cs1 \in Seq(Case), NEW cs2, SameIncidents(cs1, cs2), NEW read, ReadOf(read, cs1)
    PROVE  ReadOf(read, cs2)
<1> DEFINE i == read.case
<1>1. i \in DOMAIN cs1 /\ i \in DOMAIN cs2 /\ Later(cs1[i], cs2[i]) /\ cs1[i] \in Case /\ cs2[i] \in Case
  BY DEF ReadOf, SameIncidents, Later
<1>2. \A case \in Case : case.revision \in Nat
  BY DEF Case, Fields
<1>3. /\ read.copy \in Case /\ read.copy.revision <= cs1[i].revision
      /\ read.copy.revision = cs1[i].revision => read.copy = cs1[i]
  BY DEF ReadOf
<1>4. read.copy.revision \in Nat /\ cs1[i].revision \in Nat /\ cs2[i].revision \in Nat
  BY <1>1, <1>2, <1>3
<1> QED
  BY <1>1, <1>3, <1>4 DEF ReadOf, Later

-----------------------------------------------------------------------------
(* Retention.  Induction over the numbers, by the pigeonhole principle: if *)
(* a number were missing, so would be its predecessor, and k |-> k - 1     *)
(* would map the missing ones up to it into a smaller set.                 *)
LEMMA SetInduction ==
    ASSUME NEW S, 0 \in S, \A n \in Nat : n \in S => n + 1 \in S
    PROVE  Nat \subseteq S
<1> SUFFICES ASSUME NEW n \in Nat, n \notin S PROVE FALSE
  OBVIOUS
<1> DEFINE T == {k \in 0..n : k \notin S}
           f == [k \in T |-> k - 1]
<1>1. n \in T /\ T \subseteq 0..n
  OBVIOUS
<1>2. \A k \in T : k - 1 \in T \ {n}
  OBVIOUS
<1>3. f \in [T -> T \ {n}] /\ \A x, y \in T : x # y => f[x] # f[y]
  BY <1>2
<1> HIDE DEF T, f
<1>4. IsFiniteSet(T)
  <2>1. IsFiniteSet(0..n)
    BY FS_Interval
  <2> QED
    BY <1>1, <2>1, FS_Subset
<1>5. Cardinality(T) \in Nat /\ IsFiniteSet(T \ {n}) /\ Cardinality(T \ {n}) = Cardinality(T) - 1
  BY <1>1, <1>4, FS_CardinalityType, FS_RemoveElement
<1>6. Cardinality(T \ {n}) < Cardinality(T)
  BY <1>5
<1>7. \E x, y \in T : x # y /\ f[x] = f[y]
  BY <1>3, <1>4, <1>5, <1>6, FS_PigeonHole
<1> QED
  BY <1>3, <1>7

(* Hence a set of numbers has a least one.                                 *)
LEMMA LeastIsThere ==
    ASSUME NEW S \in SUBSET Nat, S # {} PROVE Min(S) \in S
<1> DEFINE Least(T) == \E x \in T : \A y \in T : x <= y
           Good == {m \in Nat : \A T \in SUBSET Nat : (\E x \in T : x <= m) => Least(T)}
<1>1. 0 \in Good
  OBVIOUS
<1>2. ASSUME NEW m \in Nat, m \in Good PROVE m + 1 \in Good
  <2> SUFFICES ASSUME NEW T \in SUBSET Nat, \E x \in T : x <= m + 1 PROVE Least(T)
    OBVIOUS
  <2>1. CASE \E x \in T : x <= m
    BY <1>2, <2>1
  <2>2. CASE ~\E x \in T : x <= m
    <3>1. m + 1 \in T /\ \A y \in T : m + 1 <= y
      BY <2>2
    <3> QED
      BY <3>1
  <2> QED
    BY <2>1, <2>2
<1> HIDE DEF Good
<1>3. Nat \subseteq Good
  BY <1>1, <1>2, SetInduction
<1> USE DEF Good
<1>4. PICK x \in S : TRUE
  OBVIOUS
<1>5. x \in Good /\ x \in Nat /\ x <= x
  BY <1>3, <1>4
<1>6. Least(S)
  BY <1>4, <1>5
<1> QED
  BY <1>6, Zenon DEF Min

(* The state of the incidents after a prune, and by which rule evidence    *)
(* went.                                                                   *)
ByRule(cs, after) ==
  \A i \in DOMAIN cs :
    /\ after[i].state = cs[i].state /\ after[i].resolved = cs[i].resolved
    /\ after[i].kept # cs[i].kept =>
         /\ cs[i].state = "closed"
         /\ IF after[i].reason = "evidence_expired_age" THEN cs[i].expires <= now
            ELSE \A j \in DOMAIN cs : (after[j].kept /\ cs[j].state = "closed")
                   => cs[i].resolved <= cs[j].resolved

(* Which incidents a prune takes the evidence of.                          *)
LEMMA GoneAreClosed ==
    ASSUME NEW cs, NEW n PROVE Gone(cs, n) \subseteq ClosedKept(cs)
  BY DEF Gone, Aged, Longest

(* Those it takes for the quota were resolved before those it leaves.      *)
LEMMA LongestFirst ==
    ASSUME NEW cs \in Seq(Case), NEW n \in Nat, NEW i \in Longest(cs, n, Aged(cs)),
           NEW j \in ClosedKept(cs), j \notin Gone(cs, n)
    PROVE  cs[i].resolved <= cs[j].resolved
<1> DEFINE open == ClosedKept(cs) \ Aged(cs)
           before(k) == {l \in open : cs[l].resolved < cs[k].resolved
                                        \/ (cs[l].resolved = cs[k].resolved /\ l < k)}
<1>1. /\ i \in open /\ Cardinality(before(i)) < n
      /\ j \in open /\ ~(Cardinality(before(j)) < n)
  BY DEF Longest, Gone
<1>2. open \subseteq 1..Len(cs) /\ Len(cs) \in Nat
  BY DEF ClosedKept, KeptIn
<1>3. IsFiniteSet(open)
  <2>1. IsFiniteSet(1..Len(cs))
    BY <1>2, FS_Interval
  <2> QED
    BY <1>2, <2>1, FS_Subset
<1>4. before(i) \subseteq open /\ before(j) \subseteq open
  OBVIOUS
<1>5. IsFiniteSet(before(i)) /\ IsFiniteSet(before(j))
  BY <1>3, <1>4, FS_Subset
<1>6. Cardinality(before(i)) \in Nat /\ Cardinality(before(j)) \in Nat
  BY <1>5, FS_CardinalityType
<1>7. \A l \in open : cs[l].resolved \in Int /\ l \in Int
  <2> SUFFICES ASSUME NEW l \in open PROVE cs[l].resolved \in Int /\ l \in Int
    OBVIOUS
  <2>1. cs[l] \in Case /\ l \in Int
    BY <1>2
  <2> QED
    BY <2>1 DEF Case, Fields
<1>8. SUFFICES ASSUME cs[j].resolved < cs[i].resolved PROVE FALSE
  BY <1>1, <1>7
<1>9. before(j) \subseteq before(i)
  BY <1>1, <1>7, <1>8
<1> HIDE DEF before
<1>10. Cardinality(before(j)) <= Cardinality(before(i))
  BY <1>5, <1>9, FS_Subset
<1> QED
  BY <1>1, <1>6, <1>10

(* A prune takes evidence by rule, and never an incident.                  *)
LEMMA PruneByRule ==
    ASSUME NEW cs \in Seq(Case), NEW n \in Nat
    PROVE  /\ SameIncidents(cs, Expired(cs, Gone(cs, n)))
           /\ ByRule(cs, Expired(cs, Gone(cs, n)))
<1> DEFINE gone == Gone(cs, n)
           after == Expired(cs, gone)
           reason(i) == IF i \in Aged(cs) THEN "evidence_expired_age" ELSE "evidence_expired_quota"
<1>1. \A i \in gone : i \in DOMAIN cs /\ cs[i].state = "closed" /\ cs[i].kept
  BY GoneAreClosed DEF ClosedKept, KeptIn
<1>2. \A i \in DOMAIN cs : cs[i] \in Case /\ reason(i) \in Reasons
  BY DEF Reasons
<1>3. ASSUME NEW i \in DOMAIN cs
      PROVE  after[i] = IF i \in gone THEN Evicted(cs[i], reason(i)) ELSE cs[i]
  BY DEF Expired, Evicted
<1>4. DOMAIN after = DOMAIN cs /\ after = [i \in DOMAIN cs |-> after[i]]
  BY DEF Expired
<1> HIDE DEF after, gone, reason
<1>5. ASSUME NEW i \in DOMAIN cs
      PROVE  /\ Later(cs[i], after[i])
             /\ after[i].state = cs[i].state /\ after[i].resolved = cs[i].resolved
             /\ i \in gone => ~after[i].kept /\ after[i].reason = reason(i)
             /\ i \notin gone => after[i] = cs[i]
  <2>1. CASE i \in gone
    BY <1>1, <1>2, <1>3, <2>1, EvictedIsLater
  <2>2. CASE i \notin gone
    BY <1>2, <1>3, <2>2 DEF Later
  <2> QED
    BY <2>1, <2>2
<1>6. Len(cs) \in Nat /\ DOMAIN cs = 1..Len(cs)
  OBVIOUS
<1>7. after \in [1..Len(cs) -> Case]
  BY <1>4, <1>5, <1>6 DEF Later
<1>8. after \in Seq(Case) /\ Len(after) = Len(cs)
  BY <1>6, <1>7
<1>9. SameIncidents(cs, after)
  BY <1>4, <1>5, <1>8 DEF SameIncidents
<1>10. ByRule(cs, after)
  <2> SUFFICES ASSUME NEW i \in DOMAIN cs, after[i].kept # cs[i].kept
               PROVE  /\ cs[i].state = "closed"
                      /\ IF after[i].reason = "evidence_expired_age" THEN cs[i].expires <= now
                         ELSE \A j \in DOMAIN cs : (after[j].kept /\ cs[j].state = "closed")
                                => cs[i].resolved <= cs[j].resolved
    BY <1>5 DEF ByRule
  <2>1. i \in gone
    BY <1>5
  <2>2. CASE i \in Aged(cs)
    BY <1>1, <1>5, <2>1, <2>2 DEF reason, Aged
  <2>3. CASE i \notin Aged(cs)
    <3>1. after[i].reason # "evidence_expired_age" /\ i \in Longest(cs, n, Aged(cs))
      BY <1>5, <2>1, <2>3 DEF reason, gone, Gone
    <3>2. ASSUME NEW j \in DOMAIN cs, after[j].kept, cs[j].state = "closed"
          PROVE  cs[i].resolved <= cs[j].resolved
      <4>1. j \notin gone
        BY <1>5, <3>2
      <4>2. j \in ClosedKept(cs)
        BY <1>5, <3>2, <4>1 DEF ClosedKept, KeptIn
      <4> QED
        BY <3>1, <4>1, <4>2, LongestFirst DEF gone
    <3> QED
      BY <1>1, <2>1, <3>1, <3>2
  <2> QED
    BY <2>2, <2>3
<1> QED
  BY <1>9, <1>10 DEF after, gone

(* The ledger of losses counts the incidents by their reason.              *)
Accounted(cs, losses) ==
  \A r \in Reasons : losses[r] = Cardinality({i \in DOMAIN cs : cs[i].reason = r})

(* A prune counts what it takes, under the reason its incident shows.      *)
LEMMA PruneIsTold ==
    ASSUME NEW cs \in Seq(Case), NEW n, Accounted(cs, lost)
    PROVE  Accounted(Expired(cs, Gone(cs, n)), Told(cs, Gone(cs, n)))
<1> DEFINE gone == Gone(cs, n)
           after == Expired(cs, gone)
           Lost(s, r) == {i \in DOMAIN s : s[i].reason = r}
           More(r) == {i \in gone : (i \in Aged(cs)) <=> r = "evidence_expired_age"}
<1> SUFFICES ASSUME NEW r \in Reasons PROVE Told(cs, gone)[r] = Cardinality(Lost(after, r))
  BY DEF Accounted
<1>1. lost[r] = Cardinality(Lost(cs, r))
  BY DEF Accounted
<1>2. Told(cs, gone)[r] = lost[r] + Cardinality(More(r))
  BY DEF Told
<1>3. \A i \in gone : i \in DOMAIN cs /\ cs[i].kept /\ cs[i] \in Case
  BY GoneAreClosed DEF ClosedKept, KeptIn
<1>4. \A i \in gone : cs[i].reason = "none"
  BY <1>3 DEF Case
<1>5. /\ DOMAIN after = DOMAIN cs
      /\ \A i \in DOMAIN cs :
           after[i].reason = IF i \in gone
                             THEN IF i \in Aged(cs) THEN "evidence_expired_age" ELSE "evidence_expired_quota"
                             ELSE cs[i].reason
  <2>1. DOMAIN after = DOMAIN cs
    BY DEF Expired
  <2>2. ASSUME NEW i \in DOMAIN cs, i \in gone
        PROVE  after[i].reason = IF i \in Aged(cs) THEN "evidence_expired_age" ELSE "evidence_expired_quota"
    <3>1. after[i] = Evicted(cs[i], IF i \in Aged(cs) THEN "evidence_expired_age" ELSE "evidence_expired_quota")
      BY <2>2 DEF Expired, Evicted
    <3>2. (IF i \in Aged(cs) THEN "evidence_expired_age" ELSE "evidence_expired_quota") \in Reasons
      BY DEF Reasons
    <3>3. cs[i] \in Case /\ cs[i].state = "closed"
      BY <2>2, GoneAreClosed DEF ClosedKept
    <3> QED
      BY <3>1, <3>2, <3>3, EvictedIsLater
  <2>3. ASSUME NEW i \in DOMAIN cs, i \notin gone PROVE after[i].reason = cs[i].reason
    BY <2>3 DEF Expired
  <2> QED
    BY <2>1, <2>2, <2>3
<1>6. r \in {"evidence_expired_age", "evidence_expired_quota"} /\ r # "none"
  BY DEF Reasons
<1> HIDE DEF after, gone
<1>7. Lost(after, r) = Lost(cs, r) \cup More(r) /\ Lost(cs, r) \cap More(r) = {}
  BY <1>3, <1>4, <1>5, <1>6
<1>8. IsFiniteSet(Lost(cs, r)) /\ IsFiniteSet(More(r))
  <2>1. DOMAIN cs = 1..Len(cs) /\ Len(cs) \in Nat
    OBVIOUS
  <2>2. IsFiniteSet(1..Len(cs))
    BY <2>1, FS_Interval
  <2>3. Lost(cs, r) \subseteq 1..Len(cs) /\ More(r) \subseteq 1..Len(cs)
    BY <1>3, <2>1
  <2> QED
    BY <2>2, <2>3, FS_Subset
<1> HIDE DEF Lost, More
<1>9. Cardinality(Lost(after, r)) = Cardinality(Lost(cs, r)) + Cardinality(More(r)) - Cardinality({})
  BY <1>7, <1>8, FS_Union
<1>10. Cardinality(Lost(cs, r)) \in Nat /\ Cardinality(More(r)) \in Nat /\ Cardinality({}) = 0
  BY <1>8, FS_CardinalityType, FS_EmptySet
<1> QED
  BY <1>1, <1>2, <1>9, <1>10

(* No evidence is lost: the books stay as they are.                        *)
LEMMA EvidenceStays ==
    ASSUME NEW cs1, NEW cs2, DOMAIN cs1 = DOMAIN cs2, SameEvidence(cs1, cs2), NEW losses,
           Accounted(cs1, losses)
    PROVE  Accounted(cs2, losses)
<1> SUFFICES ASSUME NEW r \in Reasons
             PROVE  losses[r] = Cardinality({i \in DOMAIN cs2 : cs2[i].reason = r})
  BY DEF Accounted
<1>1. {i \in DOMAIN cs1 : cs1[i].reason = r} = {i \in DOMAIN cs2 : cs2[i].reason = r}
  BY DEF SameEvidence
<1> QED
  BY <1>1 DEF Accounted

(* A new incident has lost nothing.                                        *)
LEMMA JoiningIsNoLoss ==
    ASSUME NEW cs \in Seq(Case), NEW case \in Case, case.reason = "none", NEW losses,
           Accounted(cs, losses)
    PROVE  Accounted(Append(cs, case), losses)
<1> DEFINE new == Append(cs, case)
<1> SUFFICES ASSUME NEW r \in Reasons
             PROVE  losses[r] = Cardinality({i \in DOMAIN new : new[i].reason = r})
  BY DEF Accounted
<1>1. r # "none"
  BY DEF Reasons
<1>2. /\ DOMAIN new = 1..(Len(cs) + 1) /\ DOMAIN cs = 1..Len(cs) /\ Len(cs) \in Nat
      /\ new[Len(cs) + 1] = case /\ \A i \in 1..Len(cs) : new[i] = cs[i]
  OBVIOUS
<1> HIDE DEF new
<1>3. \A i \in DOMAIN new : i \in DOMAIN cs \/ i = Len(cs) + 1
  BY <1>2
<1>4. \A i \in DOMAIN cs : i \in DOMAIN new /\ new[i] = cs[i]
  BY <1>2
<1>5. {i \in DOMAIN new : new[i].reason = r} = {i \in DOMAIN cs : cs[i].reason = r}
  BY <1>1, <1>2, <1>3, <1>4
<1> QED
  BY <1>5 DEF Accounted

(* What a transaction that prunes leaves, when it finds room.              *)
LEMMA PruneLeaves ==
    ASSUME NEW cs \in Seq(Case), NEW admitting, Enough(cs, admitting) # {}
    PROVE  LET after == Pruned(cs, admitting)
           IN  /\ SameIncidents(cs, after.cases) /\ ByRule(cs, after.cases)
               /\ Accounted(cs, lost) => Accounted(after.cases, after.lost)
               /\ after.freed \in Nat
<1> DEFINE n == Min(Enough(cs, admitting))
           gone == Gone(cs, n)
<1>1. /\ Pruned(cs, admitting).cases = Expired(cs, gone)
      /\ Pruned(cs, admitting).lost = Told(cs, gone)
      /\ Pruned(cs, admitting).freed = LedgerBytes(cs, gone)
  BY DEF Pruned
<1>2. DOMAIN cs = 1..Len(cs) /\ Len(cs) \in Nat /\ IsFiniteSet(1..Len(cs))
  BY FS_Interval
<1>3. \A S \in SUBSET (1..Len(cs)) : Cardinality(S) \in Nat
  BY <1>2, FS_Subset, FS_CardinalityType
<1>4. n \in Nat
  <2>1. ClosedKept(cs) \ Aged(cs) \in SUBSET (1..Len(cs))
    BY <1>2 DEF ClosedKept, KeptIn
  <2>2. Cardinality(ClosedKept(cs) \ Aged(cs)) \in Nat
    BY <1>3, <2>1
  <2>3. Enough(cs, admitting) \subseteq Nat
    BY <2>2 DEF Enough
  <2> QED
    BY <2>3, LeastIsThere
<1>5. LedgerBytes(cs, gone) \in Nat
  <2>1. gone \subseteq 1..Len(cs)
    BY <1>2, GoneAreClosed DEF ClosedKept, KeptIn
  <2>2. \A o \in Origins : Cardinality({i \in gone : cs[i].origin = o}) \in Nat
    BY <1>3, <2>1
  <2>3. \A o \in Origins : Payload[o] \in Nat
    <3>1. \A o \in Origins : Need[o]["incident_ledger"] \in Nat
      BY NeedIsANumber DEF Origins, Writers, Classes
    <3> QED
      BY <3>1, IncidentsAssumption
  <2>4. \A a, b \in Nat : a * b \in Nat
    OBVIOUS
  <2>5. /\ Cardinality({i \in gone : cs[i].origin = "firing"}) * Payload["firing"] \in Nat
        /\ Cardinality({i \in gone : cs[i].origin = "manual"}) * Payload["manual"] \in Nat
    BY <2>2, <2>3, <2>4 DEF Origins
  <2> QED
    BY <2>5 DEF LedgerBytes, BytesOf
<1> HIDE DEF n
<1> QED
  BY <1>1, <1>4, <1>5, PruneByRule, PruneIsTold

-----------------------------------------------------------------------------
(* What a step does to the incidents: it changes some without taking       *)
(* evidence, adds that of an alert, adds one after making room for it, or  *)
(* closes one and prunes.                                                  *)
Quiet == SameIncidents(cases, cases') /\ SameEvidence(cases, cases') /\ lost' = lost

Fires == cases' = Append(cases, Opened("firing")) /\ lost' = lost

Creates ==
  /\ Enough(cases, TRUE) # {} /\ lost' = Pruned(cases, TRUE).lost
  /\ cases' = Append(Pruned(cases, TRUE).cases, Opened("manual"))

(* The incidents with i closed, before retention runs.                     *)
Closed(i) == [cases EXCEPT ![i] = Resolved(cases[i])]

Closes(i) ==
  /\ i \in All /\ cases[i].state = "open" /\ Enough(Closed(i), FALSE) # {}
  /\ cases' = Pruned(Closed(i), FALSE).cases /\ lost' = Pruned(Closed(i), FALSE).lost

(* The incidents when one of them is closed, before retention.             *)
LEMMA ClosedIsLater ==
    ASSUME RequestInv, NEW i \in All, cases[i].state = "open"
    PROVE  /\ SameIncidents(cases, Closed(i)) /\ SameEvidence(cases, Closed(i))
           /\ \A j \in All : j # i => Closed(i)[j] = cases[j]
           /\ Closed(i)[i].state = "closed" /\ Closed(i)[i].resolved = now
<1>1. cases \in Seq(Case) /\ i \in DOMAIN cases /\ cases[i] \in Case /\ now \in Nat
  BY DEF RequestInv, All
<1>2. /\ Later(cases[i], Resolved(cases[i]))
      /\ Resolved(cases[i]).kept = cases[i].kept /\ Resolved(cases[i]).reason = cases[i].reason
      /\ Resolved(cases[i]).state = "closed" /\ Resolved(cases[i]).resolved = now
  BY <1>1, ResolvedIsLater
<1>3. SameIncidents(cases, Closed(i))
  BY <1>1, <1>2, OneChanges DEF Closed
<1>4. \A j \in DOMAIN cases : Closed(i)[j] = IF j = i THEN Resolved(cases[i]) ELSE cases[j]
  BY DEF Closed
<1> QED
  BY <1>1, <1>2, <1>3, <1>4 DEF SameEvidence, All

(* What an operator's change is made of.                                   *)
LEMMA ChangeIsOfOne ==
    ASSUME RequestInv, NEW o \in Operators, Changeable(o)
    PROVE  /\ seen[o] # None /\ seen[o].case \in All /\ cases[seen[o].case] \in Case
           /\ seen[o].copy = cases[seen[o].case]
<1>1. seen[o] # None /\ cases[seen[o].case].revision = seen[o].copy.revision
  BY DEF Changeable
<1>2. ReadOf(seen[o], cases)
  BY <1>1 DEF RequestInv, ReadIsOld
<1> QED
  BY <1>1, <1>2 DEF ReadOf, All, RequestInv

(* Every step does one of these to the incidents.                          *)
LEMMA WhatHappens ==
    ASSUME RequestInv, [Next]_vars
    PROVE  Quiet \/ Fires \/ Creates \/ \E i \in All : Closes(i)
<1>1. cases \in Seq(Case) /\ All = DOMAIN cases /\ now \in Nat /\ \A i \in All : cases[i] \in Case
  BY DEF RequestInv, All
<1>2. ASSUME UNCHANGED <<cases, lost>> PROVE Quiet
  BY <1>1, <1>2, NothingChanges DEF Quiet
<1>3. ASSUME NEW i \in All, NEW case, Later(cases[i], case), case.kept = cases[i].kept,
             case.reason = cases[i].reason, cases' = [cases EXCEPT ![i] = case], lost' = lost
      PROVE  Quiet
  <2>1. SameIncidents(cases, cases')
    BY <1>1, <1>3, OneChanges
  <2>2. \A j \in DOMAIN cases : cases'[j] = IF j = i THEN case ELSE cases[j]
    BY <1>3
  <2> QED
    BY <1>3, <2>1, <2>2 DEF Quiet, SameEvidence
<1>4. CASE AlertFires
  BY <1>4 DEF AlertFires, Fires
<1>5. ASSUME NEW i \in All, AlertResolves(i) PROVE Quiet
  <2>1. cases' = [cases EXCEPT ![i] = Resolved(cases[i])] /\ lost' = lost /\ cases[i].state = "open"
    BY <1>5 DEF AlertResolves
  <2> QED
    BY <1>1, <1>3, <2>1, ResolvedIsLater
<1>6. ASSUME NEW h \in Handlers, CreateManualIncident(h) PROVE Creates
  BY <1>6 DEF CreateManualIncident, StoreIncident, Admitted, Creates
<1>7. ASSUME NEW o \in Operators, Close(o) PROVE \E i \in All : Closes(i)
  <2>1. seen[o].case \in All
    BY <1>7, ChangeIsOfOne DEF Close
  <2>2. Closes(seen[o].case)
    BY <1>7, <2>1 DEF Close, Closes, Closed
  <2> QED
    BY <2>1, <2>2
<1>8. ASSUME NEW o \in Operators, Reopen(o) PROVE Quiet
  <2> DEFINE i == seen[o].case
  <2>1. i \in All
    BY <1>8, ChangeIsOfOne DEF Reopen
  <2>2. cases' = [cases EXCEPT ![i] = Reopened(cases[i])] /\ lost' = lost /\ cases[i].kept
    BY <1>8 DEF Reopen, Reopenable
  <2> QED
    BY <1>1, <1>3, <2>1, <2>2, ReopenedIsLater
<1>9. ASSUME NEW o \in Operators, Retitle(o) PROVE Quiet
  <2> DEFINE i == seen[o].case
  <2>1. i \in All /\ cases[i] \in Case
    BY <1>9, ChangeIsOfOne DEF Retitle
  <2>2. cases' = [cases EXCEPT ![i] = Titled(cases[i])] /\ lost' = lost
    BY <1>9 DEF Retitle, Titled
  <2> QED
    BY <1>3, <2>1, <2>2, TitledIsLater
<1>10. ASSUME NEW h \in Handlers, BeginCreate(h) \/ CreateAnswered(h) PROVE Quiet
  BY <1>2, <1>10 DEF BeginCreate, CreateAnswered
<1>11. ASSUME NEW o \in Operators, NEW i \in All, ReadIncident(o, i) PROVE Quiet
  BY <1>2, <1>11 DEF ReadIncident
<1>12. CASE UNCHANGED vars
  BY <1>2, <1>12 DEF vars
<1> QED
  BY <1>2, <1>4, <1>5, <1>6, <1>7, <1>8, <1>9, <1>10, <1>11, <1>12 DEF Next

(* Whatever happens, every incident stays, in a later state.               *)
LEMMA IncidentsStay ==
    ASSUME RequestInv, [Next]_vars
    PROVE  /\ cases' \in Seq(Case) /\ All \subseteq All' /\ Len(cases) <= Len(cases')
           /\ \A i \in All : Later(cases[i], cases'[i])
<1>1. cases \in Seq(Case) /\ now \in Nat /\ All = 1..Len(cases) /\ Len(cases) \in Nat
  BY DEF RequestInv, All
<1>2. ASSUME SameIncidents(cases, cases')
      PROVE  /\ cases' \in Seq(Case) /\ All \subseteq All' /\ Len(cases) <= Len(cases')
             /\ \A i \in All : Later(cases[i], cases'[i])
  BY <1>1, <1>2 DEF SameIncidents, All
<1>3. ASSUME NEW cs, SameIncidents(cases, cs), NEW origin \in Origins, cases' = Append(cs, Opened(origin))
      PROVE  /\ cases' \in Seq(Case) /\ All \subseteq All' /\ Len(cases) <= Len(cases')
             /\ \A i \in All : Later(cases[i], cases'[i])
  <2>1. /\ cs \in Seq(Case) /\ DOMAIN cs = DOMAIN cases /\ Len(cs) = Len(cases)
        /\ \A i \in DOMAIN cases : Later(cases[i], cs[i])
    BY <1>3 DEF SameIncidents
  <2>2. Opened(origin) \in Case
    BY <1>1, OpenedIsACase
  <2>3. /\ cases' \in Seq(Case) /\ Len(cases') = Len(cs) + 1 /\ DOMAIN cases' = 1..(Len(cs) + 1)
        /\ \A i \in 1..Len(cs) : cases'[i] = cs[i]
    BY <1>3, <2>1, <2>2
  <2> QED
    BY <1>1, <2>1, <2>3 DEF All
<1>4. CASE Quiet
  BY <1>2, <1>4 DEF Quiet
<1>5. CASE Fires
  BY <1>1, <1>3, <1>5, NothingChanges DEF Fires, Origins
<1>6. CASE Creates
  BY <1>1, <1>3, <1>6, PruneLeaves DEF Creates, Origins
<1>7. ASSUME NEW i \in All, Closes(i) PROVE SameIncidents(cases, cases')
  <2>1. SameIncidents(cases, Closed(i)) /\ Closed(i) \in Seq(Case)
    BY <1>7, ClosedIsLater DEF Closes, SameIncidents
  <2>2. SameIncidents(Closed(i), cases')
    BY <1>7, <2>1, PruneLeaves DEF Closes
  <2> QED
    BY <1>1, <2>1, <2>2, SameTwice
<1> QED
  BY <1>2, <1>4, <1>5, <1>6, <1>7, WhatHappens

-----------------------------------------------------------------------------
(* The key.                                                                *)

(* An incident joins the others.                                           *)
LEMMA Joins ==
    ASSUME RequestInv, NEW cs, SameIncidents(cases, cs), NEW origin \in Origins,
           cases' = Append(cs, Opened(origin))
    PROVE  /\ All' = All \cup {Len(cases) + 1} /\ \A i \in All : i \in Int /\ i < Len(cases) + 1
           /\ cases'[Len(cases) + 1] = Opened(origin)
<1>1. now \in Nat /\ All = 1..Len(cases) /\ Len(cases) \in Nat
  BY DEF RequestInv, All
<1>2. cs \in Seq(Case) /\ Len(cs) = Len(cases) /\ Opened(origin) \in Case
  BY <1>1, OpenedIsACase DEF SameIncidents
<1>3. DOMAIN cases' = 1..(Len(cases) + 1) /\ cases'[Len(cases) + 1] = Opened(origin)
  BY <1>2
<1> QED
  BY <1>1, <1>3 DEF All

(* No manual incident is created and the receipt stays.                    *)
LEMMA KeyStays ==
    ASSUME RequestInv, [Next]_vars, receipt' = receipt,
           \A i \in All' : i \in All \/ cases'[i].origin # "manual"
    PROVE  KeyIsHeld' /\ RetryCreatesOnce'
<1>1. \A i \in All : cases'[i].origin = cases[i].origin /\ cases'[i].born = cases[i].born
  BY IncidentsStay DEF Later
<1>2. KeyIsHeld'
  BY <1>1 DEF RequestInv, KeyIsHeld
<1>3. RetryCreatesOnce'
  BY <1>1 DEF RequestInv, RetryCreatesOnce
<1> QED
  BY <1>2, <1>3

(* A manual incident is created with its receipt when none is alive.       *)
LEMMA KeyIsTaken ==
    ASSUME RequestInv, [Next]_vars, ~ReceiptLives,
           receipt' = [kind |-> "created", case |-> Len(cases) + 1, expires |-> now + ReceiptFor],
           All' = All \cup {Len(cases) + 1}, \A i \in All : i \in Int /\ i < Len(cases) + 1,
           cases'[Len(cases) + 1] = Opened("manual")
    PROVE  KeyIsHeld' /\ RetryCreatesOnce'
<1> DEFINE n == Len(cases) + 1
<1>1. \A i \in All : cases'[i].origin = cases[i].origin /\ cases'[i].born = cases[i].born
  BY IncidentsStay DEF Later
<1>2. \A i \in All : cases[i].born \in Int
  <2> SUFFICES ASSUME NEW i \in All PROVE cases[i].born \in Int
    OBVIOUS
  <2>1. cases[i] \in Case
    BY DEF RequestInv, All
  <2> QED
    BY <2>1 DEF Case, Fields
<1>3. receipt' # None /\ receipt'.expires = now + ReceiptFor /\ now \in Nat /\ ReceiptFor \in Nat
  BY ConstantsAreNumbers DEF None, RequestInv
<1>4. \A i \in All : cases[i].origin = "manual" => cases[i].born + ReceiptFor <= now
  BY <1>2, <1>3 DEF RequestInv, KeyIsHeld, ReceiptLives
<1>5. cases'[n].born = now
  BY DEF Opened
<1>6. KeyIsHeld'
  <2> SUFFICES ASSUME NEW i \in All', cases'[i].origin = "manual"
               PROVE  cases'[i].born + ReceiptFor <= receipt'.expires
    BY <1>3 DEF KeyIsHeld
  <2>1. CASE i = n
    BY <1>3, <1>5, <2>1
  <2>2. CASE i \in All
    BY <1>1, <1>2, <1>3, <1>4, <2>2
  <2> QED
    BY <2>1, <2>2
<1>7. RetryCreatesOnce'
  <2> SUFFICES ASSUME NEW i \in All', NEW j \in All', i < j,
                      cases'[i].origin = "manual", cases'[j].origin = "manual"
               PROVE  cases'[j].born >= cases'[i].born + ReceiptFor
    BY DEF RetryCreatesOnce
  <2>1. i \in All
    <3>1. Len(cases) + 1 \in Int
      BY DEF RequestInv
    <3> QED
      BY <3>1
  <2>2. CASE j = n
    BY <1>1, <1>2, <1>3, <1>4, <1>5, <2>1, <2>2
  <2>3. CASE j \in All
    BY <1>1, <2>1, <2>3 DEF RequestInv, RetryCreatesOnce
  <2> QED
    BY <2>2, <2>3
<1> QED
  BY <1>6, <1>7

(* What an operator has read: this step reads an incident as it is.        *)
LEMMA SeenStep ==
    ASSUME RequestInv, [Next]_vars
    PROVE  /\ DOMAIN seen' = Operators
           /\ \A o \in Operators :
                \/ seen'[o] = seen[o]
                \/ seen'[o] # None /\ ReadOf(seen'[o], cases)
                \/ seen'[o] = None /\ Changeable(o)
<1>1. DOMAIN seen = Operators /\ cases \in Seq(Case)
  BY DEF RequestInv
<1>2. ASSUME seen' = seen PROVE DOMAIN seen' = Operators /\ \A o \in Operators : seen'[o] = seen[o]
  BY <1>1, <1>2
<1>3. CASE CapacityNext /\ UNCHANGED <<cases, lost, receipt, building, seen>>
  BY <1>2, <1>3
<1>4. CASE AlertFires
  BY <1>2, <1>4 DEF AlertFires
<1>5. ASSUME NEW i \in All, AlertResolves(i) PROVE seen' = seen
  BY <1>5 DEF AlertResolves
<1>6. ASSUME NEW h \in Handlers, BeginCreate(h) \/ CreateManualIncident(h) \/ CreateAnswered(h)
      PROVE  seen' = seen
  BY <1>6 DEF BeginCreate, CreateManualIncident, CreateAnswered
<1>7. ASSUME NEW o \in Operators, NEW i \in All, ReadIncident(o, i)
      PROVE  /\ DOMAIN seen' = Operators
             /\ \A p \in Operators : \/ seen'[p] = seen[p]
                                     \/ seen'[p] # None /\ ReadOf(seen'[p], cases)
  <2> DEFINE read == [kind |-> "read", case |-> i, copy |-> cases[i]]
  <2>1. seen' = [seen EXCEPT ![o] = read]
    BY <1>7 DEF ReadIncident
  <2>2. read # None
    <3>1. read.kind = "read" /\ None.kind = "none"
      BY DEF None
    <3> QED
      BY <3>1
  <2>3. cases[i] \in Case /\ i \in DOMAIN cases
    BY <1>1 DEF All
  <2>4. cases[i].revision \in Nat
    BY <2>3 DEF Case, Fields
  <2>5. ReadOf(read, cases)
    BY <2>3, <2>4 DEF ReadOf
  <2> HIDE DEF read
  <2> QED
    BY <1>1, <2>1, <2>2, <2>5
<1>8. ASSUME NEW o \in Operators, Close(o) \/ Reopen(o) \/ Retitle(o)
      PROVE  /\ DOMAIN seen' = Operators
             /\ \A p \in Operators : \/ seen'[p] = seen[p]
                                     \/ seen'[p] = None /\ Changeable(p)
  <2>1. Changeable(o) /\ seen' = [seen EXCEPT ![o] = None]
    BY <1>8 DEF Close, Reopen, Retitle
  <2> QED
    BY <1>1, <2>1
<1>9. CASE UNCHANGED vars
  BY <1>2, <1>9 DEF vars
<1> QED
  BY <1>2, <1>3, <1>4, <1>5, <1>6, <1>7, <1>8, <1>9 DEF Next

(* Every step keeps the key, and what was read, as they should be.         *)
LEMMA StepHoldsKey ==
    ASSUME RequestInv, [Next]_vars PROVE RequestInv'
<1>1. cases \in Seq(Case) /\ cases' \in Seq(Case)
  BY IncidentsStay DEF RequestInv
<1>2. now' \in Nat
  <2>1. now \in Nat
    BY DEF RequestInv
  <2>2. CASE CapacityNext
    BY <2>1, <2>2 DEF CapacityNext, BulkWrite, GrantRecovery, RecoveryWrite, ReleaseGrant,
                      Measure, CapacityTick
  <2>3. CASE ~CapacityNext
    BY <2>1, <2>3 DEF Next, vars, capacityVars, AlertFires, AlertResolves, BeginCreate,
       CreateManualIncident, StoreIncident, CreateAnswered, ReadIncident, Close, Reopen, Retitle
  <2> QED
    BY <2>2, <2>3
<1>3. DOMAIN seen' = Operators /\ ReadIsOld'
  <2>1. ASSUME NEW read, ReadOf(read, cases) PROVE ReadOf(read, cases')
    <3>1. read.case \in All /\ Later(cases[read.case], cases'[read.case]) /\ read.case \in DOMAIN cases'
      BY <2>1, IncidentsStay DEF ReadOf, All
    <3>2. \A case \in Case : case.revision \in Nat
      BY DEF Case, Fields
    <3>3. cases[read.case] \in Case /\ cases'[read.case] \in Case /\ read.copy \in Case
      BY <1>1, <2>1, <3>1 DEF ReadOf, Later
    <3> QED
      BY <2>1, <3>1, <3>2, <3>3 DEF ReadOf, Later
  <2>2. \A o \in Operators : seen[o] # None => ReadOf(seen[o], cases)
    BY DEF RequestInv, ReadIsOld
  <2> QED
    BY <2>1, <2>2, SeenStep DEF ReadIsOld
<1>4. KeyIsHeld' /\ RetryCreatesOnce'
  <2>1. ASSUME NEW h \in Handlers, CreateManualIncident(h) PROVE KeyIsHeld' /\ RetryCreatesOnce'
    <3>1. Creates
      BY <2>1 DEF CreateManualIncident, StoreIncident, Admitted, Creates
    <3>2. SameIncidents(cases, Pruned(cases, TRUE).cases) /\ "manual" \in Origins
      BY <3>1, PruneLeaves DEF Creates, RequestInv, Origins
    <3>3. /\ All' = All \cup {Len(cases) + 1} /\ \A i \in All : i \in Int /\ i < Len(cases) + 1
          /\ cases'[Len(cases) + 1] = Opened("manual")
      BY <3>1, <3>2, Joins DEF Creates
    <3>4. /\ ~ReceiptLives
          /\ receipt' = [kind |-> "created", case |-> Len(cases) + 1, expires |-> now + ReceiptFor]
      BY <2>1 DEF CreateManualIncident, StoreIncident
    <3> QED
      BY <3>3, <3>4, KeyIsTaken
  <2>2. ASSUME ~\E h \in Handlers : CreateManualIncident(h) PROVE KeyIsHeld' /\ RetryCreatesOnce'
    <3>1. receipt' = receipt
      BY <2>2 DEF Next, vars, AlertFires, AlertResolves, BeginCreate, CreateAnswered,
                  ReadIncident, Close, Reopen, Retitle
    <3>2. \A i \in All' : i \in All \/ cases'[i].origin # "manual"
      <4>1. CASE AlertFires
        <5>1. Opened("firing").origin # "manual" /\ cases' = Append(cases, Opened("firing"))
          BY <4>1 DEF Opened, AlertFires
        <5>2. SameIncidents(cases, cases) /\ "firing" \in Origins
          BY <1>1, NothingChanges DEF Origins
        <5> QED
          BY <5>1, <5>2, Joins
      <4>2. CASE ~AlertFires
        <5>1. CASE \E o \in Operators : Close(o)
          <6>1. PICK o \in Operators : Close(o)
            BY <5>1
          <6> DEFINE i == seen[o].case
          <6>2. i \in All /\ cases[i].state = "open" /\ Enough(Closed(i), FALSE) # {}
                /\ cases' = Pruned(Closed(i), FALSE).cases
            BY <6>1, ChangeIsOfOne DEF Close, Closed
          <6>3. SameIncidents(cases, Closed(i)) /\ Closed(i) \in Seq(Case)
            BY <6>2, ClosedIsLater DEF SameIncidents
          <6>4. SameIncidents(Closed(i), cases')
            BY <6>2, <6>3, PruneLeaves
          <6> QED
            BY <6>3, <6>4 DEF SameIncidents, All
        <5>2. CASE ~\E o \in Operators : Close(o)
          <6>1. DOMAIN cases' = DOMAIN cases
            BY <2>2, <4>2, <5>2 DEF Next, vars, AlertResolves, BeginCreate, CreateAnswered,
                                    ReadIncident, Reopen, Retitle
          <6> QED
            BY <6>1 DEF All
        <5> QED
          BY <5>1, <5>2
      <4> QED
        BY <4>1, <4>2
    <3> QED
      BY <3>1, <3>2, KeyStays
  <2> QED
    BY <2>1, <2>2
<1> QED
  BY <1>1, <1>2, <1>3, <1>4 DEF RequestInv

-----------------------------------------------------------------------------
(* The ledger of losses, and the account of the bytes.                     *)
(* Every step that takes evidence counts it.                               *)
LEMMA StepTellsLosses ==
    ASSUME RequestInv, RequestInv', LossIsTold, [Next]_vars PROVE LossIsTold'
<1>1. cases \in Seq(Case) /\ now \in Nat /\ Accounted(cases, lost)
  BY DEF RequestInv, LossIsTold, Accounted, All
<1>2. Accounted(cases', lost')
  <2>1. CASE Quiet
    BY <1>1, <2>1, EvidenceStays DEF Quiet, SameIncidents
  <2>2. CASE Fires
    BY <1>1, <2>2, OpenedIsACase, JoiningIsNoLoss DEF Fires, Origins
  <2>3. CASE Creates
    <3> DEFINE after == Pruned(cases, TRUE)
    <3>1. /\ SameIncidents(cases, after.cases) /\ Accounted(after.cases, after.lost)
          /\ cases' = Append(after.cases, Opened("manual")) /\ lost' = after.lost
      BY <1>1, <2>3, PruneLeaves DEF Creates
    <3>2. after.cases \in Seq(Case)
      BY <3>1 DEF SameIncidents
    <3>3. Opened("manual") \in Case /\ Opened("manual").reason = "none"
      BY <1>1, OpenedIsACase DEF Origins
    <3> HIDE DEF after
    <3> QED
      BY <3>1, <3>2, <3>3, JoiningIsNoLoss
  <2>4. ASSUME NEW i \in All, Closes(i) PROVE Accounted(cases', lost')
    <3>1. SameIncidents(cases, Closed(i)) /\ SameEvidence(cases, Closed(i))
      BY <2>4, ClosedIsLater DEF Closes
    <3>2. Accounted(Closed(i), lost) /\ Closed(i) \in Seq(Case)
      BY <1>1, <3>1, EvidenceStays DEF SameIncidents
    <3> QED
      BY <2>4, <3>2, PruneLeaves DEF Closes
  <2> QED
    BY <2>1, <2>2, <2>3, <2>4, WhatHappens
<1>3. ASSUME NEW i \in All' PROVE cases'[i].kept <=> cases'[i].reason = "none"
  <2>1. cases'[i] \in Case
    BY DEF RequestInv, All
  <2> QED
    BY <2>1 DEF Case
<1> QED
  BY <1>2, <1>3 DEF LossIsTold, Accounted, All

(* Every step charges what it writes.                                      *)
LEMMA StepKeepsAccount ==
    ASSUME RequestInv, Account, [Next]_vars PROVE Account'
<1>1. \A w \in Writers : Grown(w) \in [Classes -> Int]
        /\ \A c \in Classes : Grown(w)[c] = written[c] + Need[w][c] /\ Grown(w)[c] \in Int
  BY NeedIsANumber DEF Grown, Account
<1>2. /\ written \in [Classes -> Int] /\ "incident_ledger" \in Classes
      /\ "firing" \in Writers /\ "resolution" \in Writers /\ "manual" \in Writers
  BY DEF Account, Classes, Writers
<1>3. ASSUME NEW w \in Writers, Charge(w), written' = Grown(w), UNCHANGED <<current, grant>>
      PROVE  Account'
  BY <1>1, <1>3, ChargedWrite
<1>4. ASSUME NEW f \in [Classes -> Int], NEW freed \in Nat
      PROVE  /\ [f EXCEPT !["incident_ledger"] = @ - freed] \in [Classes -> Int]
             /\ \A c \in Classes : [f EXCEPT !["incident_ledger"] = @ - freed][c] <= f[c]
  BY <1>2
<1>5. ASSUME UNCHANGED capacityVars PROVE Account'
  BY <1>2, <1>5, NothingWritten DEF capacityVars
<1>6. CASE CapacityNext
  BY <1>6, GuardKeepsAccount
<1>7. CASE AlertFires
  BY <1>2, <1>3, <1>7 DEF AlertFires
<1>8. ASSUME NEW i \in All, AlertResolves(i) PROVE Account'
  BY <1>2, <1>3, <1>8 DEF AlertResolves
<1>9. ASSUME NEW h \in Handlers, CreateManualIncident(h) PROVE Account'
  <2> DEFINE freed == Pruned(cases, TRUE).freed
             grown == Grown("manual")
  <2>1. /\ written' = [grown EXCEPT !["incident_ledger"] = @ - freed]
        /\ Charge("manual") /\ UNCHANGED <<current, grant>> /\ Enough(cases, TRUE) # {}
    BY <1>9 DEF CreateManualIncident, StoreIncident, Admitted
  <2>2. freed \in Nat /\ grown \in [Classes -> Int]
    BY <1>1, <1>2, <2>1, PruneLeaves DEF RequestInv
  <2> HIDE DEF freed, grown
  <2>3. written' \in [Classes -> Int] /\ \A c \in Classes : written'[c] <= grown[c]
    BY <1>4, <2>1, <2>2
  <2>4. \A c \in Classes : written'[c] <= written[c] + Need["manual"][c]
    BY <1>1, <1>2, <2>3 DEF grown
  <2> QED
    BY <1>2, <2>1, <2>3, <2>4, ChargedWrite
<1>10. ASSUME NEW h \in Handlers, BeginCreate(h) \/ CreateAnswered(h) PROVE Account'
  BY <1>5, <1>10 DEF BeginCreate, CreateAnswered
<1>11. ASSUME NEW o \in Operators, NEW i \in All, ReadIncident(o, i) PROVE Account'
  BY <1>5, <1>11 DEF ReadIncident
<1>12. ASSUME NEW o \in Operators, Close(o) PROVE Account'
  <2> DEFINE i == seen[o].case
             freed == Pruned(Closed(i), FALSE).freed
  <2>1. i \in All /\ cases[i].state = "open" /\ Enough(Closed(i), FALSE) # {}
        /\ written' = [written EXCEPT !["incident_ledger"] = @ + (-freed)]
        /\ UNCHANGED <<current, charges, grant>>
    BY <1>12, ChangeIsOfOne DEF Close, Closed, Ledger
  <2>2. freed \in Nat
    <3>1. Closed(i) \in Seq(Case)
      BY <2>1, ClosedIsLater DEF SameIncidents
    <3> QED
      BY <2>1, <3>1, PruneLeaves
  <2> HIDE DEF freed
  <2>3. written' = [written EXCEPT !["incident_ledger"] = @ - freed]
    BY <1>2, <2>1, <2>2
  <2>4. written' \in [Classes -> Int] /\ \A c \in Classes : written'[c] <= written[c]
    BY <1>2, <1>4, <2>2, <2>3
  <2> QED
    BY <2>1, <2>4, NothingWritten
<1>13. ASSUME NEW o \in Operators, Reopen(o) \/ Retitle(o) PROVE Account'
  BY <1>5, <1>13 DEF Reopen, Retitle
<1>14. CASE UNCHANGED vars
  BY <1>5, <1>14 DEF vars
<1> QED
  BY <1>6, <1>7, <1>8, <1>9, <1>10, <1>11, <1>12, <1>13, <1>14 DEF Next

(* The first state.                                                        *)
LEMMA InitInv == Init => IncidentInv
<1> SUFFICES ASSUME Init PROVE IncidentInv
  OBVIOUS
<1>1. All = {} /\ cases = <<>> /\ cases \in Seq(Case) /\ now \in Nat
  BY DEF Init, CapacityInit, All
<1>2. DOMAIN seen = Operators /\ ReadIsOld
  BY DEF Init, ReadIsOld
<1>3. RequestInv
  BY <1>1, <1>2 DEF Init, RequestInv, KeyIsHeld, RetryCreatesOnce
<1>4. LossIsTold
  <2>1. \A r \in Reasons : {i \in All : cases[i].reason = r} = {} /\ lost[r] = 0
    BY <1>1 DEF Init
  <2>2. Cardinality({}) = 0
    BY FS_EmptySet
  <2> QED
    BY <1>1, <2>1, <2>2 DEF LossIsTold
<1>5. /\ written \in [Classes -> Int] /\ current \in [Classes -> Int] /\ charges \in [Writers -> Nat]
      /\ grant \in [active : BOOLEAN, used : BOOLEAN] /\ ~grant.used
      /\ \A c \in Classes : written[c] = 0 /\ current[c] = 0
      /\ \A w \in Writers : charges[w] = 0
  BY DEF Init, CapacityInit
<1>6. \A c \in Classes : Charged(Writers, c) = 0
  BY <1>5, NoEnvelopes, AllAreCharged
<1>7. Account
  BY <1>5, <1>6 DEF Account, EveryByteIsCharged
<1> QED
  BY <1>3, <1>4, <1>7 DEF IncidentInv

(* The inductive invariant holds in every reachable state.                 *)
THEOREM IncidentsAreConsistent == Spec => []IncidentInv
<1>1. IncidentInv /\ [Next]_vars => IncidentInv'
  BY StepHoldsKey, StepTellsLosses, StepKeepsAccount DEF IncidentInv
<1> QED
  BY <1>1, InitInv, PTL DEF Spec

(* However requests with one key overlap, and whatever retention, alerts   *)
(* and operators do meanwhile, no second incident is created before the    *)
(* receipt of the first has run out (CreateManualIncident).                *)
THEOREM KeyCreatesOnce == Spec => []RetryCreatesOnce
<1>1. IncidentInv => RetryCreatesOnce
  BY DEF IncidentInv, RequestInv
<1> QED
  BY <1>1, IncidentsAreConsistent, PTL

(* The ledger of losses has every capsule that lost its payload, under the *)
(* reason its incident shows (expireIncidentCapsuleTx,                     *)
(* recordIncidentLossesTx).                                                *)
THEOREM EveryLossIsTold == Spec => []LossIsTold
<1>1. IncidentInv => LossIsTold
  BY DEF IncidentInv
<1> QED
  BY <1>1, IncidentsAreConsistent, PTL

(* Between two measurements no byte is written without a charge or a       *)
(* reservation, whoever writes it and in whatever order (capacity.go       *)
(* MeasureAndRecordCapacity and the admissions).                           *)
THEOREM NoByteEscapes == Spec => []EveryByteIsCharged
<1>1. IncidentInv => EveryByteIsCharged
  BY DEF IncidentInv, Account
<1> QED
  BY <1>1, IncidentsAreConsistent, PTL

-----------------------------------------------------------------------------
(* What a step takes evidence for.                                         *)
LEMMA EvidenceLeaves ==
    ASSUME RequestInv, [Next]_vars, NEW i, LosesItsEvidence(i)
    PROVE  /\ IF cases'[i].reason = "evidence_expired_age"
              THEN cases[i].resolved # Never /\ now >= cases[i].resolved + Retention
              ELSE \A j \in All :
                     (cases'[j].kept /\ cases[j].state = "closed" /\ cases'[j].state = "closed")
                       => cases'[i].resolved <= cases[j].resolved
           /\ \/ Len(cases') > Len(cases)
              \/ \E j \in All : cases[j].state = "open" /\ cases'[j].state = "closed"
<1>1. /\ cases \in Seq(Case) /\ now \in Nat /\ All = DOMAIN cases /\ All = 1..Len(cases)
      /\ Len(cases) \in Nat /\ i \in All /\ cases[i].kept /\ ~cases'[i].kept
  BY DEF RequestInv, All, LosesItsEvidence
<1>2. ASSUME NEW cs \in Seq(Case), DOMAIN cs = DOMAIN cases, ByRule(cs, cases'),
             cases'[i].kept # cs[i].kept,
             cs[i] = cases[i] \/ cs[i].resolved = now,
             \A j \in All : cases[j].state = "closed" => cs[j] = cases[j]
      PROVE  IF cases'[i].reason = "evidence_expired_age"
             THEN cases[i].resolved # Never /\ now >= cases[i].resolved + Retention
             ELSE \A j \in All :
                    (cases'[j].kept /\ cases[j].state = "closed" /\ cases'[j].state = "closed")
                      => cases'[i].resolved <= cases[j].resolved
  <2>1. cs[i] \in Case /\ i \in DOMAIN cs
    BY <1>1, <1>2
  <2>2. cs[i].state = "closed" /\ cases'[i].resolved = cs[i].resolved
    BY <1>2, <2>1 DEF ByRule
  <2>3. cs[i].resolved \in Nat /\ cs[i].expires = cs[i].resolved + Retention
    BY <2>1, <2>2 DEF Case
  <2>4. CASE cases'[i].reason = "evidence_expired_age"
    <3>1. cs[i].expires <= now
      BY <1>2, <2>1, <2>4 DEF ByRule
    <3>2. cs[i].resolved # now
      BY <1>1, <2>3, <3>1, ConstantsAreNumbers
    <3> QED
      BY <1>1, <1>2, <2>3, <2>4, <3>1, <3>2, ConstantsAreNumbers DEF Never
  <2>5. CASE cases'[i].reason # "evidence_expired_age"
    BY <1>1, <1>2, <2>1, <2>2, <2>5 DEF ByRule
  <2> QED
    BY <2>4, <2>5
<1>3. ~Quiet
  BY <1>1 DEF Quiet, SameEvidence
<1>4. ~Fires
  <2> SUFFICES ASSUME Fires PROVE FALSE
    OBVIOUS
  <2>1. cases'[i] = cases[i]
    BY <1>1 DEF Fires
  <2> QED
    BY <1>1, <2>1
<1>5. CASE Creates
  <2> DEFINE cs == Pruned(cases, TRUE).cases
  <2>1. SameIncidents(cases, cs) /\ ByRule(cases, cs) /\ cases' = Append(cs, Opened("manual"))
    BY <1>1, <1>5, PruneLeaves DEF Creates
  <2> HIDE DEF cs
  <2>2. cs \in Seq(Case) /\ Len(cs) = Len(cases) /\ Opened("manual") \in Case
    BY <1>1, <2>1, OpenedIsACase DEF SameIncidents, Origins
  <2>3. Len(cases') = Len(cases) + 1 /\ \A j \in All : cases'[j] = cs[j]
    BY <1>1, <2>1, <2>2
  <2>4. ByRule(cases, cases')
    BY <1>1, <2>1, <2>3 DEF ByRule
  <2> QED
    BY <1>1, <1>2, <2>3, <2>4
<1>6. ASSUME NEW k \in All, Closes(k)
      PROVE  /\ IF cases'[i].reason = "evidence_expired_age"
                THEN cases[i].resolved # Never /\ now >= cases[i].resolved + Retention
                ELSE \A j \in All :
                       (cases'[j].kept /\ cases[j].state = "closed" /\ cases'[j].state = "closed")
                         => cases'[i].resolved <= cases[j].resolved
             /\ cases[k].state = "open" /\ cases'[k].state = "closed"
  <2>1. /\ cases[k].state = "open" /\ cases' = Pruned(Closed(k), FALSE).cases
        /\ Enough(Closed(k), FALSE) # {}
    BY <1>6 DEF Closes
  <2>2. /\ Closed(k) \in Seq(Case) /\ DOMAIN Closed(k) = DOMAIN cases
        /\ \A j \in All : j # k => Closed(k)[j] = cases[j]
        /\ Closed(k)[k].state = "closed" /\ Closed(k)[k].resolved = now
        /\ Closed(k)[i].kept = cases[i].kept
    BY <1>1, <2>1, ClosedIsLater DEF SameIncidents, SameEvidence
  <2>3. ByRule(Closed(k), cases')
    BY <2>1, <2>2, PruneLeaves
  <2>4. cases'[k].state = "closed"
    BY <1>1, <2>2, <2>3 DEF ByRule
  <2>5. \A j \in All : cases[j].state = "closed" => Closed(k)[j] = cases[j]
    <3>1. cases[k].state # "closed"
      BY <2>1
    <3> QED
      BY <2>2, <3>1
  <2> QED
    BY <1>1, <1>2, <2>1, <2>2, <2>3, <2>4, <2>5
<1> QED
  BY <1>3, <1>4, <1>5, <1>6, WhatHappens

(* Evidence is there while its incident is open, and leaves for its age or *)
(* for the quota, the longest resolved first, only when an incident is     *)
(* opened or closed (incidents.go pruneResolvedIncidentCapsulesTx,         *)
(* CreateManualIncident, validateIncidentReopenTx).                        *)
THEOREM EvidenceLeavesOnlyByRule == Spec => EvidenceLeavesByRule
<1>1. IncidentInv => OpenKeepsEvidence
  <2> SUFFICES ASSUME IncidentInv, NEW i \in All, cases[i].state = "open" PROVE cases[i].kept
    BY DEF OpenKeepsEvidence
  <2>1. cases[i] \in Case
    BY DEF IncidentInv, RequestInv, All
  <2> QED
    BY <2>1 DEF Case
<1>2. IncidentInv /\ [Next]_vars =>
        [\A i \in All : LosesItsEvidence(i) =>
           IF cases'[i].reason = "evidence_expired_age"
           THEN cases[i].resolved # Never /\ now >= cases[i].resolved + Retention
           ELSE \A j \in All : (cases'[j].kept /\ cases[j].state = "closed" /\ cases'[j].state = "closed")
                  => cases'[i].resolved <= cases[j].resolved]_vars
  BY EvidenceLeaves DEF IncidentInv
<1>3. IncidentInv /\ [Next]_vars =>
        [(\E i \in All : LosesItsEvidence(i)) =>
           \/ Len(cases') > Len(cases)
           \/ \E i \in All : cases[i].state = "open" /\ cases'[i].state = "closed"]_vars
  BY EvidenceLeaves DEF IncidentInv
<1> QED
  BY <1>1, <1>2, <1>3, IncidentsAreConsistent, PTL
     DEF Spec, EvidenceLeavesByRule, RetentionIsHonoured, RefusalKeepsEvidence

(* An operator changes an incident only as they have read it, whatever     *)
(* alerts, retention and other operators did since (incidents.go           *)
(* UpdateManualIncident).                                                  *)
THEOREM ChangesAreOfWhatWasRead == Spec => ChangeIsOfWhatWasRead
<1>1. IncidentInv /\ [Next]_vars =>
        [\A o \in Operators :
           (seen[o] # None /\ seen'[o] = None) => seen[o].copy = cases[seen[o].case]]_vars
  BY SeenStep, ChangeIsOfOne DEF IncidentInv
<1> QED
  BY <1>1, IncidentsAreConsistent, PTL DEF Spec, ChangeIsOfWhatWasRead
=============================================================================
