---------------------------- MODULE StratumCuts -----------------------------
(***************************************************************************)
(* Where split_rows() cuts a stratum of n rows, in the arithmetic of       *)
(* doubles: ends of the training and of the validation rows.               *)
(***************************************************************************)
EXTENDS Integers, FiniteSetsExt

\* int(n * 0.7): the double 0.7 is less than 7/10, and n * 0.7 falls below a whole
\* 7n/10 when the error n/5 units is more than half of the spacing there.
TopBit(k) == Max({2^i : i \in {j \in 0..20 : 2^j <= k}})
TrainEnd(n) ==
  LET whole == (7 * n) \div 10 IN
  IF n > 0 /\ n % 10 = 0 /\ 2 * n > 5 * TopBit(whole) THEN whole - 1 ELSE whole

\* Fault: the last cut is rounded up.
ValidationEndUp(n) == (17 * n + 19) \div 20

\* int(n * 0.85), which has no such n up to 3000.
ValidationEnd(n) == (17 * n) \div 20
=============================================================================
