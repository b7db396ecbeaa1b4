--------------------------- MODULE MCStateStore ---------------------------
(* Instances of StateStore for TLC.                                         *)
EXTENDS StateStore, TLC

CONSTANTS o1, o2, o3

ThreeOpeners == {o1, o2, o3}

(* No file yet, the first schema with and without a version, migrations    *)
(* that stopped after a column, and a file of version 2.                   *)
AnyStore ==
  {[table |-> FALSE, columns |-> {}, user_version |-> 0]}
    \cup [table : {TRUE}, user_version : {0, 1},
          columns : {{ColumnOrder[n] : n \in 1..k} : k \in 0..3}]
    \cup {[table |-> TRUE, columns |-> NewColumns, user_version |-> 2]}

Symmetry == Permutations(ThreeOpeners)

=============================================================================
