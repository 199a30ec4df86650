------------------------- MODULE MCTrainingPipeline -------------------------
(* The training pipeline with two jobs, two ticks that may overlap, cancels *)
(* and one fault.                                                           *)
EXTENDS TrainingPipeline

MCJobs == 1..2
=============================================================================
