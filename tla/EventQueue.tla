----------------------------- MODULE EventQueue -----------------------------
(***************************************************************************)
(* What the ring buffer promises the monitors that read it: the events the *)
(* library committed, each exactly once, in the order of their commits.    *)
(* An event for which there is no room is dropped before it is committed   *)
(* and does not appear here.                                               *)
(***************************************************************************)
EXTENDS Naturals, Sequences

VARIABLES
  put,  (* the events committed so far       *)
  got   (* the events delivered so far       *)

Init == put = <<>> /\ got = <<>>

Put ==
  /\ Len(put') = Len(put) + 1
  /\ \A i \in 1 .. Len(put) : put'[i] = put[i]
  /\ UNCHANGED got

Take ==
  /\ Len(got) < Len(put)
  /\ got' = Append(got, put[Len(got) + 1])
  /\ UNCHANGED put

Next == Put \/ Take

Spec == Init /\ [][Next]_<<put, got>>
=============================================================================
