------------------------------- MODULE Powers -------------------------------
(***************************************************************************)
(* Powers of ten, which the code looks up in a table.                      *)
(***************************************************************************)
EXTENDS Integers

PowerOfTen(n) ==
    LET power[i \in 0 .. n] == IF i = 0 THEN 1 ELSE 10 * power[i - 1]
    IN  power[n]
=============================================================================
