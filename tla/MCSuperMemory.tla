----------------------------- MODULE MCSuperMemory -----------------------------
(***************************************************************************)
(* Two videos that overlap, the second made two ticks after the first one  *)
(* began. The rows: a question to the second one about the first; the same *)
(* with other evidence; a question on one video; evidence that runs past   *)
(* its query; a row that gives another start, so that none is known.       *)
(***************************************************************************)
EXTENDS SuperMemory, TLC

Evidence(v, s, a, b) == [video |-> v, stamp |-> s, from |-> a, to |-> b]
Row(p, s, cuts, listed, ev) ==
    [valid |-> TRUE, answerable |-> TRUE, visual |-> TRUE, primary |-> p, stamp |-> s,
     queried |-> {p}, cuts |-> cuts, listed |-> listed, evidence |-> ev]

Both == Row(2, 2, {3, 4}, {1, 2}, {Evidence(1, 0, 1, 4), Evidence(2, 2, 0, 1)})
Later == Row(2, 2, {3}, {1, 2}, {Evidence(2, 2, 1, 3)})
One == Row(1, 0, {3}, {1}, {Evidence(1, 0, 1, 3)})
Past == Row(1, 0, {2}, {1}, {Evidence(1, 0, 1, 3)})
Other == Row(1, 1, {2}, {1}, {Evidence(1, 1, 0, 1)})

TheAnnotations == {<<Both, Later>>, <<Past, One>>, <<Other, Both>>}
=============================================================================
