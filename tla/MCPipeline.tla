----------------------------- MODULE MCPipeline -----------------------------
(* Instances of the stage driver for TLC. "a" stands for a synchronous stage  *)
(* (convert, diarize, embed), "b" for one that submits a task (transcribe,    *)
(* merge).                                                                    *)
EXTENDS Pipeline

BothStages == {<<"a", "b">>}
TaskFirst  == {<<"b", "a">>}

\* A resolver whose answer changes between deliveries: a stage removed, the
\* order swapped, nothing at all.
EditedPipelines == {<<"a", "b">>, <<"b", "a">>, <<"b">>, <<>>}
=============================================================================
