-------------------------- MODULE MCBlockRequests --------------------------
EXTENDS BlockRequests, TLC

(* Every source has every part. *)
MCOffers == [c \in Clients |-> Parts]
=============================================================================
