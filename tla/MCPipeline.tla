----------------------------- MODULE MCPipeline -----------------------------
(* Model values for Pipeline.tla: ImageMagick 6 and 7 among the versions.    *)
EXTENDS Pipeline, TLC

CONSTANTS v6, v7

MCVersions  == {v6, v7}
MCIM7       == {v7}
MCDocuments ==
    {[format |-> "svg", ocr |-> FALSE], [format |-> "office", ocr |-> TRUE]}
=============================================================================
