-------------------------------- MODULE Totals --------------------------------
(* The total of numbers that come one after the other. *)
EXTENDS Naturals

\* f[0] + ... + f[n]
Total(f, n) == LET upTo[d \in 0 .. n] == IF d = 0 THEN f[0] ELSE upTo[d - 1] + f[d]
               IN  upTo[n]
===============================================================================
