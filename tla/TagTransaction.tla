--------------------------- MODULE TagTransaction ---------------------------
(***************************************************************************)
(* What a promotion of the latest tags promises to everybody who reads or  *)
(* writes them: a transaction over all variants, without isolation.  Tags  *)
(* are moved forward only, until the one change of direction; from then on *)
(* only moved tags are put back.  A commit and a roll-back claim the whole *)
(* set, whatever else the end claims nothing.  How the program goes over   *)
(* the variants, how often it tries and what it asks GitHub is left open.  *)
(*                                                                         *)
(* Each claim holds but for the tags somebody else has written since the   *)
(* run last looked: the registry offers nothing better.                    *)
(***************************************************************************)
CONSTANTS Variants, TagValues

VARIABLES
    tag,
    before, after,  \* the snapshot and the set to be promoted
    phase,          \* "reading", "moving", "undoing", or how the last run ended
    raced,          \* variants somebody else wrote since the run last looked
    touched         \* variants somebody else wrote since the snapshot

vars == <<tag, before, after, phase, raced, touched>>

Tags == [Variants -> TagValues]
Running == {"reading", "moving", "undoing"}
Committed == {"success", "exitedLate"}

Init ==
    /\ tag \in Tags /\ before \in Tags /\ after \in Tags
    /\ phase = "none" /\ raced = {} /\ touched = {}

Goes(from, to) == phase = from /\ phase' \in to
Looks == raced' \subseteq raced

Begin ==
    /\ phase \notin Running /\ phase' = "reading"
    /\ before' \in Tags /\ after' \in Tags /\ raced' = {} /\ touched' = {}
    /\ UNCHANGED tag

Read ==
    /\ Goes("reading", {"reading", "refused"})
    /\ before' \in Tags /\ touched' \subseteq touched /\ Looks
    /\ UNCHANGED <<tag, after>>

\* The snapshot is complete: no write precedes it.
Snapshot ==
    /\ Goes("reading", {"moving"})
    /\ before' \in Tags /\ touched' \subseteq touched /\ Looks
    /\ \A i \in Variants \ touched' : before'[i] = tag[i]
    /\ UNCHANGED <<tag, after>>

\* Only the value of the snapshot is overwritten; the write may be the one that fails.
Move(i) ==
    /\ Goes("moving", {"moving", "undoing"})
    /\ tag[i] = before[i] \/ i \in raced
    /\ tag' = [tag EXCEPT ![i] = after[i]]
    /\ UNCHANGED <<before, after, raced, touched>>

Turn == Goes("moving", {"moving", "undoing"}) /\ Looks /\ UNCHANGED <<tag, before, after, touched>>

Commit ==
    /\ Goes("moving", Committed) /\ Looks
    /\ \A i \in Variants \ raced' : tag[i] = after[i]
    /\ UNCHANGED <<tag, before, after, touched>>

\* Only a value of this run is taken back.
Undo(i) ==
    /\ Goes("undoing", {"undoing", "stranded"})
    /\ tag[i] = after[i] \/ i \in raced
    /\ tag' = [tag EXCEPT ![i] = before[i]]
    /\ UNCHANGED <<before, after, raced, touched>>

\* Given up for some variant, or interrupted.
Abandon ==
    /\ Goes("undoing", {"undoing", "stranded", "aborted"}) /\ Looks
    /\ UNCHANGED <<tag, before, after, touched>>

RollBack ==
    /\ Goes("undoing", {"restored"}) /\ Looks
    /\ \A i \in Variants \ raced' : tag[i] = before[i]
    /\ UNCHANGED <<tag, before, after, touched>>

Kill ==
    /\ phase \in Running /\ phase' = "killed"
    /\ UNCHANGED <<tag, before, after, raced, touched>>

Foreign(i, d) ==
    /\ tag' = [tag EXCEPT ![i] = d]
    /\ raced' = raced \union {i} /\ touched' = touched \union {i}
    /\ UNCHANGED <<before, after, phase>>

Next ==
    \/ Begin \/ Read \/ Snapshot \/ Turn \/ Commit \/ Abandon \/ RollBack \/ Kill
    \/ \E i \in Variants : Move(i) \/ Undo(i) \/ \E d \in TagValues : Foreign(i, d)

Spec == Init /\ [][Next]_vars
=============================================================================
