---------------------------- MODULE MCMbp131Stream ----------------------------
(* Streams for TLC: one amp to a channel, and the steps of two callers at     *)
(* most under way beside a volume control.                                    *)
EXTENDS Mbp131Stream
=============================================================================
