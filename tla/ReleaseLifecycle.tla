-------------------------- MODULE ReleaseLifecycle --------------------------
(***************************************************************************)
(* What the workflow promises to everybody who downloads from a release.   *)
(* The assets of a draft come and go.  It is published once, as one whole  *)
(* signed set; from then on only a person can change an asset, until       *)
(* GitHub makes the release immutable; from then on nobody can.  Only then *)
(* is it delivered: latest is promoted, or the final acceptance started.   *)
(* How often runs fail, and which evidence they bring along, is left open. *)
(*                                                                         *)
(* GitHub cannot make the publication depend on the assets it was decided  *)
(* on, so a person may win the race against it.                            *)
(***************************************************************************)
EXTENDS Naturals

VARIABLES
    release,    \* "draft", "published" or "immutable"
    assets,
    whole,      \* the assets are one complete set with valid signatures
    edits,      \* how many changes people have made
    raced,      \* somebody changed an asset after the workflow last looked
    delivered

vars == <<release, assets, whole, edits, raced, delivered>>

Init ==
    /\ release = "draft" /\ ~whole /\ edits = 0 /\ ~raced /\ ~delivered

\* The workflow brings a draft to a set, or takes it apart again, or looks at it.
Prepare ==
    /\ release = "draft"
    /\ raced' => raced
    /\ whole' \in BOOLEAN
    /\ UNCHANGED <<release, edits, delivered>>

Publish ==
    /\ release = "draft" /\ release' = "published"
    /\ whole \/ raced
    /\ UNCHANGED <<assets, whole, edits, raced, delivered>>

Harden ==
    /\ release = "published" /\ release' = "immutable"
    /\ UNCHANGED <<assets, whole, edits, raced, delivered>>

Deliver ==
    /\ release = "immutable" /\ whole
    /\ delivered' = TRUE
    /\ UNCHANGED <<release, assets, whole, edits, raced>>

\* A person changes an asset; a published one is not looked at before that again.
Edit ==
    /\ release # "immutable"
    /\ assets' # assets /\ whole' \in BOOLEAN /\ edits' = edits + 1
    /\ raced' \in BOOLEAN /\ (raced \/ release = "published" => raced')
    /\ UNCHANGED <<release, delivered>>

Next == Prepare \/ Publish \/ Harden \/ Deliver \/ Edit

Spec == Init /\ [][Next]_vars
=============================================================================
