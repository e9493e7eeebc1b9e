----------------------------- MODULE BudgetLedger -----------------------------
(***************************************************************************)
(* What monthly budgets promise, however many operations share them.  A    *)
(* cost is known only when it has been charged, and may be more than was   *)
(* reserved for it: the promise is that nothing is reserved that does not  *)
(* fit the limit together with all that is held and spent, that each       *)
(* threshold a reservation reaches has been told, that a scope that closes *)
(* takes no reservation once one has reached its limit, and that nothing   *)
(* is spent but out of a reservation.                                      *)
(***************************************************************************)
EXTENDS Integers

CONSTANTS Scopes, Months,
          Limit,        \* Limit[s] of each month
          Thresholds,   \* percentages
          Closing       \* scopes whose month is closed by reaching the limit

VARIABLES held,   \* held[s][m]: amounts reserved
          spent,  \* spent[s][m]: amounts settled
          told    \* told[s][m]: thresholds announced

Reaches(s, sum) == {t \in Thresholds : sum * 100 >= Limit[s] * t}

LedgerInit ==
  /\ held = [s \in Scopes |-> [m \in Months |-> 0]]
  /\ spent = [s \in Scopes |-> [m \in Months |-> 0]]
  /\ told = [s \in Scopes |-> [m \in Months |-> {}]]

(* A reservation that the month has room for. *)
Hold(s, m) ==
  LET sum == held'[s][m] + spent[s][m] IN
    /\ ~(s \in Closing /\ 100 \in told[s][m])
    /\ held[s][m] < held'[s][m] /\ sum <= Limit[s]
    /\ spent'[s][m] = spent[s][m]
    /\ told'[s][m] = told[s][m] \cup Reaches(s, sum)

(* A reservation given back, or settled at what its call did cost. *)
Settle(s, m) ==
  /\ \/ held'[s][m] = held[s][m] /\ spent'[s][m] = spent[s][m]
     \/ held'[s][m] < held[s][m] /\ spent'[s][m] >= spent[s][m]
  /\ told'[s][m] = told[s][m]

(* A step may move several scopes at once. *)
Move == \A s \in Scopes, m \in Months : Hold(s, m) \/ Settle(s, m)

LedgerSpec == LedgerInit /\ [][Move]_<<held, spent, told>>
===============================================================================
