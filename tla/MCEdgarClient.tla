--------------------------- MODULE MCEdgarClient ----------------------------
(* Three threads that make a call each, of at most two attempts; a bucket  *)
(* of two tokens of two units; spans in which the burst and two refills    *)
(* fit.                                                                    *)
EXTENDS EdgarClient, TLC

Short_backoff == [a \in 0..MaxRetries |-> a + 1]
=============================================================================
