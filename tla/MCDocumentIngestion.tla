------------------------ MODULE MCDocumentIngestion ------------------------
(* Instances of DocumentIngestion for TLC. *)
EXTENDS DocumentIngestion

CONSTANTS d1, d2, w1, w2, r1, r2, own, pinecone
=============================================================================
