-------------------------- MODULE MCQuantRecovery --------------------------
(* Instances of QuantRecovery: a task with two jobs and one with one, of     *)
(* their own, and two tasks that share a job.                                *)
EXTENDS QuantRecovery, TLC

CONSTANTS t1, t2, a, b, c, c1, c2

MCCustomerOf == t1 :> c1 @@ t2 :> c2

TwoStocksAndOne == t1 :> {a, b} @@ t2 :> {c}
SameStock == t1 :> {a, b} @@ t2 :> {b}
============================================================================
