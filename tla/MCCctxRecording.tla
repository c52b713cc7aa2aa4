-------------------------- MODULE MCCctxRecording --------------------------
(* Small instances of CctxRecording.                                       *)
EXTENDS CctxRecording

(* Two threads of one process, one of another; the GPU and the OpenMP       *)
(* locations belong to the first process.                                  *)
MCProcessOf ==
  [t1 |-> "p", t2 |-> "p", u1 |-> "q", gpu |-> "p", omp |-> "p", omp2 |-> "p"]

MCMarkers == {"USER", "KERNEL"}

(* f called from main; g called from main; an interrupt in f, where the    *)
(* kernel's frame k comes before the marker of the user's part; nothing.   *)
MCChains == {<<"USER", "f", "main">>, <<"USER", "g", "main">>,
             <<"KERNEL", "k", "USER", "f", "main">>, <<"USER">>}
=============================================================================
