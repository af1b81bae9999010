----------------------------- MODULE PrefixSums -----------------------------
(***************************************************************************)
(* The running totals the contract's loops keep: PrefixSum(num)[i] is the  *)
(* value of an accumulator that starts at 0 after i rounds of a loop whose *)
(* round j adds num[j].  It is a recursive function, not a RECURSIVE       *)
(* operator, so that modules with proofs may use it.                       *)
(***************************************************************************)
EXTENDS Naturals, Sequences

PrefixSum(num) ==
    LET sum[i \in 0 .. Len(num)] == IF i = 0 THEN 0 ELSE sum[i - 1] + num[i]
    IN  sum

\* The accumulator after the last round.
Total(num) == PrefixSum(num)[Len(num)]

\* The same loop over lists: each round appends the elements of parts[i].
PrefixJoin(parts) ==
    LET join[i \in 0 .. Len(parts)] == IF i = 0 THEN << >> ELSE join[i - 1] \o parts[i]
    IN  join

Joined(parts) == PrefixJoin(parts)[Len(parts)]
=============================================================================
