---- MODULE MCTransfer ----
(***************************************************************************)
(* A small instance of Transfer: an honest source and a liar, which names  *)
(* in one reply a size of one piece and in another one a piece too large.  *)
(***************************************************************************)
EXTENDS Transfer

CONSTANTS h, l, u, v

MCClaim == [s \in Source |-> IF s = l THEN {1, Size + 1} ELSE {Size}]
====
