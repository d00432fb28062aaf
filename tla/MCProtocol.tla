----------------------------- MODULE MCProtocol -----------------------------
(***************************************************************************)
(* Instances of Protocol for TLC.                                          *)
(***************************************************************************)
EXTENDS Protocol

Entries(a, b, c) == [i \in 0..2 |-> IF i = 0 THEN a ELSE IF i = 1 THEN b ELSE c]

(* Of the first, the second differs in the entry of graph 0 and in a walk  *)
(* that coalesces, the third in mask 1 only, the fourth in mask 2 only;    *)
(* the masks of the last are the same in every epoch.                      *)
FiveStarts ==
  {Entries(0, 1, 1), Entries(1, 2, 1), Entries(0, 3, 1), Entries(0, 1, 3), Entries(0, 0, 0)}

(* Walks that coalesce: those from 1 and 2, but not under the secret of    *)
(* the first encapsulation; and from 0 all graphs look alike.              *)
CoalescingMask(ss, i, graph, node) ==
  IF node = 0 THEN << i, "any" >>
  ELSE << i, graph, IF node = 2 /\ ss # Secret(1, 1) THEN 1 ELSE node >>

(* A truncated MAC: the tags of the two bundles differ, and that of any    *)
(* secret of an implicit rejection is the one of the second bundle.        *)
RejectionsCollide(ss, ct) == IF ss[1] = "reject" THEN 2 ELSE ss[3]

=============================================================================
