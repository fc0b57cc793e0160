---------------------------- MODULE MCWebPipeline ----------------------------
EXTENDS WebPipeline, TLC

CONSTANTS t1, t2

MCTask == {t1, t2}

(* One task is a single question, the other is split in two. *)
MCParts == (t1 :> 1) @@ (t2 :> 2)
=============================================================================
