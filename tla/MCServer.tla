------------------------------ MODULE MCServer ------------------------------
(* Server with two clients.                                                *)
EXTENDS Server

CONSTANTS c1, c2

MCClients == {c1, c2}
MCMaxRequests == [c \in Clients |-> IF c = c1 THEN 2 ELSE 1]
=============================================================================
