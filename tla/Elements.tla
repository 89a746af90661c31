------------------------------- MODULE Elements -------------------------------
(***************************************************************************)
(* What lies on the stack of a script, and what a witness consists of.  An *)
(* element is a pair: <<0, n>> is the script number n, <<k, d>> with k > 0 *)
(* is the 20-byte value reached from secret k by hashing it d times.  The  *)
(* hash is taken to be injective and without cycles.                       *)
(***************************************************************************)
EXTENDS Integers

Num(n) == <<0, n>>
Digest(k, d) == <<k, d>>
IsNum(v) == v[1] = 0
Element == Nat \X Int

Hash160(v) == <<v[1], v[2] + 1>>
=============================================================================
