------------------------------ MODULE MCServer ------------------------------
(***************************************************************************)
(* Server for TLC: a client that writes, and one that only connects.       *)
(***************************************************************************)
EXTENDS Server

CONSTANTS c1, c2

MCClient == {c1, c2}

MCMaxRequests == [c \in MCClient |-> IF c = c1 THEN 2 ELSE 0]
=============================================================================
