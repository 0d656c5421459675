---------------------------- MODULE MCMigrator ----------------------------
(* Three migrations, numbered from 2 as if one name had come first, with  *)
(* and without a Down in the middle, beside two names.                    *)
EXTENDS Migrator

M(v, n, d) == [version |-> v, name |-> n, down |-> d]
MCTargets == {-1, 0, 2, 4}
MCLists == {<<M(2, "a", TRUE), M(3, "b", d), M(5, "c", TRUE)>> : d \in BOOLEAN}
=============================================================================
