----------------------------- MODULE MCPushReady -----------------------------
(* Two commits, c1 before c2: going back from c2 to c1 is a non-fast-forward *)
(* update.  c2 changes the check policy against the first base commit.       *)
EXTENDS PushReady, TLC

CONSTANTS r1, r2, h1, b1, b2, c1, c2

MCAncestor == {<<c1, c1>>, <<c2, c2>>, <<c1, c2>>}
MCTrusted == (Bases \X Commits) \ {<<0, c2>>}
MCFirstTips == {[b \in Branches |-> IF b = b1 THEN c1 ELSE c2]}

\* The runs execute the same program and are never compared.
MCRunSymmetry == Permutations(Runs)
=============================================================================
