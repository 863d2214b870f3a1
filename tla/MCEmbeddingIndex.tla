--------------------------- MODULE MCEmbeddingIndex ---------------------------
(* Two vectors, of which either may be the nearer one, or too far away. *)
EXTENDS EmbeddingReads

AnyQueries == UNION {SetToSeqs(near) : near \in SUBSET Vecs}
=============================================================================
