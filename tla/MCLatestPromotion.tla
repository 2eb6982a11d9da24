-------------------------- MODULE MCLatestPromotion --------------------------
(* A small registry for LatestPromotion: two releases that share the digest *)
(* of the last variant; the other release's digests are foreign to a run.   *)
EXTENDS LatestPromotion

CONSTANTS old, d1, d2

MCDigests == {old, d1, d2}
MCDigestOf == <<[i \in Variants |-> d1],
                [i \in Variants |-> IF i = VariantCount THEN d1 ELSE d2]>>
(* The release before; whoever moves or deletes one of its tags is foreign. *)
MCInitialTags == {[i \in Variants |-> old]}
=============================================================================
