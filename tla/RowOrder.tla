------------------------------ MODULE RowOrder ------------------------------
(***************************************************************************)
(* The rows a query returns in the order of their ids: what find() of the  *)
(* repositories gives with order: { ...: 'ASC' }.  A recursive function    *)
(* and not a RECURSIVE operator, so that modules with proofs may use it.   *)
(***************************************************************************)
EXTENDS Naturals, Sequences

\* The members of S among 1 .. n, in ascending order.
InOrder(S, n) ==
    LET rows[i \in 0 .. n] ==
            IF i = 0 THEN <<>> ELSE IF i \in S THEN Append(rows[i - 1], i) ELSE rows[i - 1]
    IN  rows[n]
=============================================================================
