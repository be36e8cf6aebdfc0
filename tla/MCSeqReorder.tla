----------------------------- MODULE MCSeqReorder -----------------------------
(* Small instances of SeqReorder for TLC; the numbers wrap after packet 2. *)
EXTENDS SeqReorder
=============================================================================
