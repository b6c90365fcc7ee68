--------------------- MODULE MCUploadBandwidthThrottler ---------------------
(* The send loop with one upload slot and one UDP socket of each kind. *)
EXTENDS UploadBandwidthThrottler

CONSTANTS f1, u1, v1
=============================================================================
