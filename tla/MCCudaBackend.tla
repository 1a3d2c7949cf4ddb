--------------------------- MODULE MCCudaBackend ----------------------------
(* Two streams; one op chain with two parameter values, and one job of     *)
(* every other kind that launch() tells apart.                             *)
EXTENDS CudaBackend

Kernel(param) == [kind |-> "kernel", ops |-> "blur", param |-> param]

MCJobs ==
    {Kernel(1), Kernel(2), [kind |-> "identity", ops |-> "none", param |-> 1],
     [kind |-> "uncompilable", ops |-> "odd", param |-> 1]}
=============================================================================
