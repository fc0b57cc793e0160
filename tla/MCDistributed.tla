--------------------------- MODULE MCDistributed ---------------------------
(* Model-checking instance of Distributed: sizes that divide evenly and not, *)
(* more miners than layers, no layers at all, a search over two checkpoints, *)
(* and every shape of pipeline DefaultParallelismConfig gives up to four     *)
(* miners, with fewer micro-batches than its four and eight.                 *)
EXTENDS Distributed

MCConfigs ==
    {[miners |-> 1, layers |-> 5, heads |-> 1, batches |-> 3],
     [miners |-> 2, layers |-> 3, heads |-> 4, batches |-> 2],
     [miners |-> 3, layers |-> 1, heads |-> 8, batches |-> 2],
     [miners |-> 4, layers |-> 0, heads |-> 7, batches |-> 1]}
=============================================================================
