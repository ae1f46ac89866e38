----------------------- MODULE MCProcessorPipeline -------------------------
(* Instances of ProcessorPipeline: event ids and payloads are model values. *)
EXTENDS ProcessorPipeline, TLC

CONSTANTS i1, i2

MCSymmetry == Permutations({i1, i2})
=============================================================================
