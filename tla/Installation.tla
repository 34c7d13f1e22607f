---------------------------- MODULE Installation ----------------------------
(***************************************************************************)
(* What backup and restore promise of one installation: whoever looks at   *)
(* it through a running hub sees one deployment generation and its rows,   *)
(* rows are only added while the hub runs, and a restore replaces the      *)
(* generation and the rows in one step while it does not.  Restore.tla is  *)
(* shown to implement this.                                                *)
(***************************************************************************)
EXTENDS Naturals

CONSTANTS Gens,  \* deployment generations
          Row    \* <<generation, rowid>>

VARIABLES gen,   \* the installed generation, 0 while the database is lost
          rows,  \* the rows of the installed database
          up,    \* is the hub running
          ever   \* the rows ever admitted

avars == <<gen, rows, up, ever>>

Init == gen = 1 /\ rows = {} /\ up = FALSE /\ ever = {}

Start == ~up /\ gen # 0 /\ up' = TRUE /\ UNCHANGED <<gen, rows, ever>>
Stop  == up /\ up' = FALSE /\ UNCHANGED <<gen, rows, ever>>

Admit ==
  /\ up
  /\ \E r \in Row : r[1] = gen /\ r \notin ever /\ rows' = rows \cup {r} /\ ever' = ever \cup {r}
  /\ UNCHANGED <<gen, up>>

Replace ==
  /\ ~up
  /\ \E g \in Gens \ {gen}, s \in SUBSET ever : gen' = g /\ rows' = s
  /\ UNCHANGED <<up, ever>>

Lose == ~up /\ gen' = 0 /\ rows' = {} /\ UNCHANGED <<up, ever>>

Next == Start \/ Stop \/ Admit \/ Replace \/ Lose

Spec == Init /\ [][Next]_avars
=============================================================================
