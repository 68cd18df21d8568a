--------------------------- MODULE MCTaskPipeline ---------------------------
(* Small instances of the pipeline for TLC. *)
EXTENDS TaskPipeline, TLC

CONSTANTS t1, t2, t3, r1, r2

\* All tasks in one run; or the first in one run and the others in a second.
OneRun == [t \in Tasks |-> r1]
TwoRuns == [t \in Tasks |-> IF t = t1 THEN r1 ELSE r2]

\* Independent requests; or a chain: all but the first use the first one's
\* variables.
Unchained == [t \in Tasks |-> {}]
Chained == [t \in Tasks |-> IF t = t1 THEN {} ELSE {t1}]

\* t1 before t2 before t3.
InOrder == [t \in Tasks |-> IF t = t1 THEN 0 ELSE IF t = t2 THEN 1 ELSE 2]

WorkerSymmetry == Permutations(Workers)
=============================================================================
