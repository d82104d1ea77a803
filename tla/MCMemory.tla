------------------------------ MODULE MCMemory ------------------------------
(* Values for the constants of Memory that a configuration cannot write.     *)
EXTENDS Memory

SomeImages == {{2}, {1, 2}}

(* All processes, which never give memory back, with frames for them and for  *)
(* what one more lost when it was reaped before; or one process, which does,  *)
(* with frames for two starts.                                                *)
SomeScenarios ==
  {[procs |-> Procs, frames |-> 28, shrinks |-> FALSE],
   [procs |-> {CHOOSE p \in Procs : TRUE}, frames |-> 17, shrinks |-> TRUE]}
=============================================================================
