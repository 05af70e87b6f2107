--------------------------- MODULE MCCoordinator ---------------------------
(* Values for the constants of Coordinator in the model checking runs. *)
EXTENDS Coordinator

CONSTANTS w1, w2, j1, j2

CapacityOne == [w \in Worker |-> 1]
SlotsFor == [w \in Worker |-> IF w = w1 THEN 2 ELSE 1]
KeyHigh == [j \in Job |-> IF j = j1 THEN 1 ELSE 10]

\* Workers of the same capacity are interchangeable.
WorkerSymmetry == Permutations(Worker)
=============================================================================
