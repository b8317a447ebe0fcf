------------------------- MODULE MCDispositionBatch -------------------------
(* A batch of two emails for the model and one for the rules.               *)
EXTENDS DispositionBatch
=============================================================================
