---- MODULE MCPipeline ----
(***************************************************************************)
(* Instances of Pipeline for TLC.                                          *)
(***************************************************************************)
EXTENDS PipelineInv, TLC

\* Four chunks for two or three slots, so that slots are reused; a blank segment, a
\* chunk handed straight back in the middle, an empty last chunk, a chunk
\* that decodes to nothing.
PlansMixed == { << <<"data", "blank">>, <<>>, <<"data", "data">>, <<"data">> >>,
                << <<"blank">>, <<"data", "data">>, <<"data", "data">>, <<>> >>,
                << <<"data">>, <<"data">>, <<"data">>, <<"data">> >> }

PlansThree == { << <<"data", "data">>, <<"data">>, <<"data">> >>,
                << <<"blank">>, <<"data", "data">>, <<>> >> }
====
