------------------------- MODULE MCIngestionRunner -------------------------
(* Instances of IngestionRunner. *)
EXTENDS IngestionRunner

TwoAdapters == <<"fake_store", "best_buy">>
=============================================================================
