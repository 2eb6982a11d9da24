----------------------------- MODULE BranchFlow -----------------------------
(***************************************************************************)
(* What the workflows assume of, and promise to, each other about the two  *)
(* branches (RELEASE.md, "Branch Flow"): main moves by the merge of a      *)
(* promotion, which needs the ancestry of main in develop, or by a         *)
(* security release; develop moves by features and by backmerges, which    *)
(* keep its tree but for .lit/main-ancestry.json.                          *)
(*                                                                         *)
(* DevelopPromotion and MainBackmerge both implement it, each with its own *)
(* account of the commits.                                                 *)
(*                                                                         *)
(* delta says how the tree of develop differs from the one of main:        *)
(*   none      not at all, and develop has no commit that main lacks       *)
(*   behind    in what only main has; develop has no commit of its own     *)
(*   neutral   not at all, but develop has commits of its own              *)
(*   ancestry  in the evidence, as the promotion demands it of a backmerge *)
(*   unbound   in the evidence, but not as the promotion demands it        *)
(*   content   in more than the evidence, through commits of develop       *)
(***************************************************************************)
EXTENDS Naturals

VARIABLES
    develop, main,  \* the number of commits of each branch
    synced,         \* develop contains the commits of main
    delta

vars == <<develop, main, synced, delta>>

Init == develop = 0 /\ main = 0 /\ synced = TRUE /\ delta = "content"

\* What commits of people leave: they may also undo what differed.
OwnDeltas == {"content", "neutral", "unbound"}

Feature == develop' = develop + 1 /\ delta' \in OwnDeltas /\ UNCHANGED <<main, synced>>

\* What differs after a backmerge.  Only develop's own tree is left: what only main has is
\* offered for removal.  Right after a promotion nothing but the bound evidence differs;
\* after other commits, or for an earlier main, the evidence may name older tips.
AfterBackmerge(d, s) ==
    CASE d \in {"content", "behind"} -> {"content"}
      [] d = "none" /\ s -> {"ancestry"}
      [] d \notin {"content", "behind", "none"} /\ s -> {"ancestry", "unbound"}
      [] OTHER -> {"unbound"}

\* The backmerge of the current main, or of an earlier one that was still open.
Backmerge ==
    /\ ~synced /\ develop' = develop + 1 /\ synced' \in BOOLEAN
    /\ delta' \in AfterBackmerge(delta, synced')
    /\ UNCHANGED main

\* A backmerge to which people added commits.
AmendedBackmerge ==
    /\ ~synced /\ develop' = develop + 1 /\ synced' \in BOOLEAN /\ delta' \in OwnDeltas
    /\ UNCHANGED main

\* main takes develop's tree and gets a merge commit that develop lacks.
Promote ==
    /\ synced /\ delta \notin {"none", "behind"}
    /\ main' = main + 1 /\ synced' = FALSE /\ delta' = "none"
    /\ UNCHANGED develop

\* What differs after a security release, which may also undo what differed.
AfterSecurityRelease(d) ==
    CASE d = "none" -> {"behind"}
      [] d = "behind" -> {"behind", "none"}
      [] d = "content" -> OwnDeltas
      [] OTHER -> {"content"}

SecurityRelease ==
    /\ main' = main + 1 /\ synced' = FALSE /\ delta' \in AfterSecurityRelease(delta)
    /\ UNCHANGED develop

Next == Feature \/ Backmerge \/ AmendedBackmerge \/ Promote \/ SecurityRelease

Spec == Init /\ [][Next]_vars
=============================================================================
