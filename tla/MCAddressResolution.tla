------------------------- MODULE MCAddressResolution -------------------------
(***************************************************************************)
(* A process with two threads and its child with one, or a CPU of both.    *)
(* The parent compiles code: two functions, the first of them twice. A     *)
(* file has a symbol whose addresses the debug information knows by name   *)
(* in part only, so that points and the range of the symbol overlap in     *)
(* cache_, one without debug information, and addresses without a symbol.  *)
(***************************************************************************)
EXTENDS AddressResolution

CONSTANTS t1, t2, t3

MCHome == [t \in {t1, t2, t3} |-> IF t = t3 THEN 2 ELSE 1]
Symmetry == Permutations({t1, t2})

MCFiles == {ToString(n) : n \in 0..MaxMmaps}
Symbol(start, end, name) == [start |-> start, end |-> end, name |-> name]

MCKernelSymbols == <<[address |-> 5, name |-> "do_fork"], [address |-> 4, name |-> "_text"], [address |-> 4, name |-> "startup"]>>
MCPerfMapFile ==
    1 :> <<[start |-> 1, size |-> 2, name |-> "f", dso |-> "<jit>"], [start |-> 3, size |-> 1, name |-> "g", dso |-> "m.py"],
           [start |-> 1, size |-> 2, name |-> "f", dso |-> "<jit>"]>> @@
    2 :> <<>>
MCDebugInfo == [f \in MCFiles |-> <<<<Symbol(0, 1, "main")>>, <<Symbol(1, 2, "")>>>>]
MCSymbolTable == [f \in MCFiles |-> <<Symbol(2, 3, "tail"), Symbol(0, 2, "main")>>]
============================================================================
