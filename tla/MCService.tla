------------------------------ MODULE MCService ------------------------------
(***************************************************************************)
(* The small instance of CustomerService: two messages, to two sessions or  *)
(* to one whose connection was lost, with an order that is delivered and   *)
(* one that is not yet shipped.                                            *)
(***************************************************************************)
EXTENDS CustomerService

MCOwner == [o \in Orders |-> "u1"]
MCAmount == [o \in Orders |-> IF o = "o1" THEN 2 ELSE 1]
MCStatus0 == [o \in Orders |-> IF o = "o1" THEN "delivered" ELSE "pending_shipment"]
=============================================================================
