--------------------------- MODULE MCEmbeddingQueue ---------------------------
(* Instances of EmbeddingQueue for TLC. *)
EXTENDS EmbeddingQueue

CONSTANTS o1, o2, a, b, w1, w2
=============================================================================
