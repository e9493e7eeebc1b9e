------------------------------ MODULE MCOutbox ------------------------------
EXTENDS Outbox, TLC

CONSTANT Delayed   \* rows whose first publication has failed already

(* Rows are interchangeable, and so are dispatcher invocations. *)
Symmetry == Permutations(Messages) \cup Permutations(Dispatchers)

(* The outbox at a later moment: a delayed row was claimed once, its         *)
(* publication was rejected, and its next attempt is due.                    *)
LaterInit ==
  /\ row = [m \in Messages |->
       IF m \in Delayed THEN [status |-> "pending", attempts |-> 1,
                              claim |-> NoClaim, elapsed |-> TRUE]
                        ELSE AbsentRow]
  /\ claims = [m \in Messages |-> IF m \in Delayed THEN 1 ELSE 0]
  /\ receipt = [m \in Messages |-> FALSE]
  /\ queue = [m \in Messages |-> FALSE]
  /\ task = [d \in Dispatchers |-> Idle]
  /\ newestSent = [m \in Messages |-> 0]
  /\ recoveries = [m \in Messages |-> 0]

LaterFairSpec == LaterInit /\ [][Next]_vars /\ Fairness
=============================================================================
