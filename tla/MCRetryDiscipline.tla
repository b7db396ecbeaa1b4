------------------------- MODULE MCRetryDiscipline -------------------------
(* Instances of RetryDiscipline for TLC.                                    *)
EXTENDS RetryDiscipline, TLC

CONSTANTS t1, t2, t3

(* Three tasks race for the permits of one kind that admits a single task  *)
(* and of one that admits two.                                             *)
ThreeTasks == {t1, t2, t3}
TwoKinds   == {"Registration", "ExitProbe"}
TwoLimits  == [k \in TwoKinds |-> IF k = "Registration" THEN 1 ELSE 2]

AllFailures == Reasons \cup {"transient"}

=============================================================================
