---------------------------- MODULE MCVectorSync ----------------------------
(* Two reconcilers (the second runs after a lease was swept) share batches   *)
(* of up to two rows: a document and a message embedding, in the vector      *)
(* store's two kinds of namespace, with embeddings kept in the store only.   *)
EXTENDS VectorSync

CONSTANTS doc, msg, w1, w2

MCNamespaceOf == [r \in Record |-> r]
=============================================================================
