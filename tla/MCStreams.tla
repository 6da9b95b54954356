----------------------------- MODULE MCStreams -----------------------------
(* Instance of Streams.                                                    *)
EXTENDS Streams

CONSTANTS i1, c1, t1, t2
============================================================================
