------------------------------- MODULE MCDelivery -------------------------------
(* Small instances of Delivery: all jobs are of the one project. *)
EXTENDS Delivery

MCProjectOf == [j \in Jobs |-> "p"]
=============================================================================
