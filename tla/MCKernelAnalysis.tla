--------------------------- MODULE MCKernelAnalysis ---------------------------
(* An instance of KernelAnalysis for TLC.                                  *)
EXTENDS KernelAnalysis, TLC

CONSTANTS f, g, h

(* Code objects 1 and 3 have the same kernels, in another order.           *)
(* f and g differ only in characters that a directory name cannot hold.    *)
FunctionsOfCode == <<<<f, g>>, <<h>>, <<g, f>>>>
Itself == [n \in {f, g, h} |-> n]
SafeNames == (f :> "f" @@ g :> "f" @@ h :> "h")
Parts == {<<f, g>>}
=============================================================================
