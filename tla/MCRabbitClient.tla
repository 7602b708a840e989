-------------------------- MODULE MCRabbitClient --------------------------
(* A small instance of RabbitClient. *)
EXTENDS RabbitClient

CONSTANTS p1, p2

GoodThenPoison == <<1, 2>>
=============================================================================
