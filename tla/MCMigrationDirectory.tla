------------------------ MODULE MCMigrationDirectory -------------------------
(***************************************************************************)
(* A small migration directory for TLC: up to three states of the tables,  *)
(* two of which expose the same columns to a graph (an index or a          *)
(* constraint is all they differ in), with one or two graph definitions    *)
(* over each.                                                              *)
(***************************************************************************)
EXTENDS MigrationDirectory, TLC

CONSTANTS t1, t2, t3, m1, m2

MCTables == {t1, t2, t3}
MCTwoTables == {t1, t3}
\* t2 adds nothing to t1 that a graph exposes.
MCShape == (t1 :> "narrow") @@ (t2 :> "narrow") @@ (t3 :> "wide")
MCShapeOfTwo == (t1 :> "narrow") @@ (t3 :> "wide")
MCDefs == {"g1", "g2"}
MCOneDef == {"g1"}
MCMigrators == {m1, m2}

Symmetry == Permutations(MCMigrators)
==============================================================================
