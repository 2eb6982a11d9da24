-------------------------- MODULE DevelopPromotion --------------------------
(***************************************************************************)
(* .github/workflows/promote-develop-to-main.yml: a run offers the head of *)
(* develop for promotion to main in a pull request and dispatches its one  *)
(* exact-revision review.                                                  *)
(*                                                                         *)
(* Runs are serialised by their concurrency group, but each is a sequence  *)
(* of API calls: develop and main move, and people close, reopen, retarget *)
(* and edit the pull requests, between any two of them.  What a run did is *)
(* only remembered by markers in the bodies of the pull requests.          *)
(***************************************************************************)
EXTENDS Naturals, Sequences

CONSTANTS
    None,        \* no head marker in the body
    Malformed,   \* a head marker that names no commit
    MaxDevelop,  \* bound: develop advances this often
    MaxMain,     \* bound: main advances this often
    MaxFaults,   \* bound: failing calls and killed runs
    MaxEdits     \* bound: what people do to pull requests

ASSUME BoundAssumption ==
    MaxDevelop \in Nat /\ MaxMain \in Nat /\ MaxFaults \in Nat /\ MaxEdits \in Nat
ASSUME MarkAssumption == None # Malformed /\ {None, Malformed} \intersect Nat = {}

Heads == 0 .. MaxDevelop   \* the commits of develop, in order
Mains == 0 .. MaxMain      \* the commits of main, in order

\* The markers in a body: head marker; state and base of the dispatch marker.
Bodies == [mark : Heads \union {None, Malformed},
           state : {"pending", "failed", "succeeded", "absent"}, base : Mains]

\* A pull request of the release app from develop; born is the head marker it
\* was created with, which only the properties read.
PullRequests == [status : {"open", "closed", "merged"}, toMain : BOOLEAN,
                 base : Mains, head : Heads, body : Bodies, born : Heads]

VARIABLES
    (* the branches *)
    develop, main,
    synced,    \* develop contains the commits of main
    delta,     \* how the tree of develop differs from the one of main
    (* GitHub *)
    prs,
    reviews,   \* the exact-revision reviews dispatched for a head
    (* the run *)
    pc,
    plan,      \* expected_base and expected_head
    pr,        \* pr_number, 0 when it is empty
    seen,      \* the body a PATCH is computed from
    made,      \* the pull request with this run's marker, 0 if there is none
    cleanup,   \* the output cleanup_required
    captured,  \* the output cleanup_pr_number was written
    (* history, read by the properties only *)
    dodged,    \* heads whose pull request was reopened between the two inventories
    spoiled,   \* heads of whose pull request a person made the marker malformed
    (* bounds *)
    faults, edits

branches == <<develop, main, synced, delta>>
outputs == <<made, cleanup, captured>>
history == <<dodged, spoiled>>
bounds == <<history, faults, edits>>
vars == <<branches, prs, reviews, pc, plan, pr, seen, outputs, bounds>>

\* BranchFlow says what they mean.
Deltas == {"none", "behind", "neutral", "ancestry", "unbound", "content"}
CleanupSteps == {"cleanup", "cleanTombstone", "cleanClose"}
Steps == {"fetch", "listOpen", "existing", "closeAndList", "closeAndFail", "tombstone",
          "listClosed", "create", "view", "dispatch", "finalize", "persist"}
         \union CleanupSteps

NoBody == [mark |-> None, state |-> "absent", base |-> 0]

Init ==
    /\ develop = 0 /\ main = 0 /\ synced = TRUE /\ delta = "content"
    /\ prs = <<>> /\ reviews = [h \in Heads |-> 0]
    /\ pc = "idle" /\ plan = [base |-> 0, head |-> 0] /\ pr = 0 /\ seen = NoBody
    /\ made = 0 /\ cleanup = FALSE /\ captured = FALSE
    /\ dodged = {} /\ spoiled = {} /\ faults = 0 /\ edits = 0

-----------------------------------------------------------------------------
(* What the filters of the workflow select. *)

Numbers == 1 .. Len(prs)
Open(i) == prs[i].status = "open"

\* Mutant of Candidate: only an open promotion to main is looked at.
CandidateToMain(i) == Open(i) /\ prs[i].toMain

\* An open pull request that may be the promotion of the planned head.
Candidate(i) ==
    /\ Open(i)
    /\ \/ prs[i].toMain
       \/ prs[i].body.mark = plan.head
       \/ prs[i].body.mark = None /\ prs[i].head = plan.head

\* Mutant of Consumes: a body without marker consumes nothing.
ConsumesByMarker(i) == ~Open(i) /\ prs[i].body.mark = plan.head

\* A closed pull request that consumed the planned head, or whose malformed
\* marker blocks it.
Consumes(i) ==
    /\ ~Open(i)
    /\ \/ prs[i].body.mark = plan.head
       \/ prs[i].body.mark \in {None, Malformed} /\ prs[i].head = plan.head

\* The live bindings of pull request i are the planned ones.
BoundTo(i, p) == prs[i].toMain /\ prs[i].base = p.base /\ prs[i].head = p.head

\* GitHub opens no second pull request for the same pair of branches, and none
\* without a commit between them.
Acceptable == delta \notin {"none", "behind"} /\ \A i \in Numbers : Open(i) => ~prs[i].toMain

Marked(state) == [mark |-> plan.head, state |-> state, base |-> plan.base]

-----------------------------------------------------------------------------
(* The calls that change something. *)

\* Mutant of Close: the pull request is only commented on.
CommentOn(i) == UNCHANGED prs

Close(i) == prs' = [prs EXCEPT ![i].status = IF @ = "merged" THEN @ ELSE "closed"]
Patch(i, b) == prs' = [prs EXCEPT ![i].body = b]

Post ==
    IF Acceptable
    THEN /\ prs' = Append(prs, [status |-> "open", toMain |-> TRUE, base |-> main,
                                head |-> develop, body |-> Marked("pending"),
                                born |-> plan.head])
         /\ made' = Len(prs) + 1
    ELSE UNCHANGED <<prs, made>>

\* The call of the step at hand.
Call ==
    \/ /\ pc \in {"closeAndList", "closeAndFail"} /\ Close(pr)
       /\ UNCHANGED <<reviews, made>>
    \/ /\ pc = "tombstone" /\ Patch(pr, [seen EXCEPT !.state = "failed"])
       /\ UNCHANGED <<reviews, made>>
    \/ pc = "create" /\ Post /\ UNCHANGED reviews
    \/ /\ pc = "dispatch" /\ reviews' = [reviews EXCEPT ![plan.head] = @ + 1]
       /\ UNCHANGED <<prs, made>>
    \/ /\ pc = "persist" /\ Patch(pr, [seen EXCEPT !.state = "succeeded"])
       /\ UNCHANGED <<reviews, made>>
    \/ /\ pc = "cleanTombstone"
       /\ Patch(made, [seen EXCEPT !.state = "failed", !.base = plan.base])
       /\ UNCHANGED <<reviews, made>>
    \/ pc = "cleanClose" /\ Close(made) /\ UNCHANGED <<reviews, made>>

\* The job ends, or the step fails and the cleanup step runs.
Done == pc' = "idle"
\* Mutants of Failed: the cleanup step always runs; a dispatch that failed is taken
\* for one that was accepted.
FailedAlwaysCleans == pc' = IF pc \notin CleanupSteps THEN "cleanup" ELSE "idle"
FailedDispatchIgnored ==
    pc' = IF pc = "dispatch" THEN "finalize"
          ELSE IF cleanup /\ pc \notin CleanupSteps THEN "cleanup" ELSE "idle"

Failed == pc' = IF cleanup /\ pc \notin CleanupSteps THEN "cleanup" ELSE "idle"

Unless(ok, next) == IF ok THEN pc' = next ELSE Failed

-----------------------------------------------------------------------------
(* The run. *)

Start ==
    /\ pc = "idle" /\ pc' = "fetch"
    /\ pr' = 0 /\ made' = 0 /\ cleanup' = FALSE /\ captured' = FALSE /\ seen' = NoBody
    /\ plan' = [base |-> 0, head |-> 0]
    /\ UNCHANGED <<branches, prs, reviews, bounds>>

\* Without main's ancestry, or with evidence that is not bound as a backmerge binds it, the
\* run fails; with nothing but the bound evidence, or nothing at all, to promote it ends.
Fetch ==
    /\ pc = "fetch" /\ plan' = [base |-> main, head |-> develop]
    /\ \/ (~synced \/ delta = "unbound") /\ Failed
       \/ synced /\ delta \notin {"unbound", "content"} /\ Done
       \/ synced /\ delta = "content" /\ pc' = "listOpen"
    /\ UNCHANGED <<branches, prs, reviews, pr, seen, outputs, bounds>>

ListOpen ==
    /\ pc = "listOpen"
    /\ LET found == {i \in Numbers : Candidate(i)} IN
       \/ found = {} /\ pc' = "listClosed" /\ UNCHANGED pr
       \/ \E i \in found : found = {i} /\ pr' = i /\ pc' = "existing"
       \/ (\E i, j \in found : i # j) /\ Failed /\ UNCHANGED pr
    /\ UNCHANGED <<branches, prs, reviews, plan, seen, outputs, bounds>>

\* The candidate is read again: a detached or stale one is replaced, a finished
\* one is kept, an unfinished one becomes a tombstone.
Existing ==
    /\ pc = "existing" /\ seen' = prs[pr].body
    /\ LET p == prs[pr] IN
       \/ ~(Open(pr) /\ p.toMain /\ p.body.mark = plan.head) /\ pc' = "closeAndList"
       \/ /\ Open(pr) /\ p.toMain /\ p.body.mark = plan.head
          /\ \/ p.body.state = "absent" /\ pc' = "closeAndFail"
             \/ /\ p.body.state = "succeeded"
                /\ Unless(p.head = plan.head /\ p.base = p.body.base, "view")
             \/ /\ p.body.state \in {"pending", "failed"}
                /\ Unless(p.head = plan.head, "tombstone")
    /\ UNCHANGED <<branches, prs, reviews, plan, pr, outputs, bounds>>

CloseAndList ==
    /\ pc = "closeAndList" /\ Call
    /\ \/ prs[pr].status = "merged" /\ Failed /\ UNCHANGED pr
       \/ prs[pr].status # "merged" /\ pc' = "listClosed" /\ pr' = 0
    /\ UNCHANGED <<branches, plan, seen, cleanup, captured, bounds>>

CloseAndFail ==
    /\ pc = "closeAndFail" /\ Call /\ Failed
    /\ UNCHANGED <<branches, plan, pr, seen, cleanup, captured, bounds>>

Tombstone ==
    /\ pc = "tombstone" /\ Call /\ pc' = "closeAndFail"
    /\ UNCHANGED <<branches, plan, pr, seen, cleanup, captured, bounds>>

\* A head that some closed pull request consumed is not offered again.
ListClosed ==
    /\ pc = "listClosed"
    /\ \/ (\E i \in Numbers : Consumes(i)) /\ Failed /\ UNCHANGED cleanup
       \/ /\ ~\E i \in Numbers : Consumes(i)
          /\ cleanup' = TRUE /\ pc' = "create"
    /\ UNCHANGED <<branches, prs, reviews, plan, pr, seen, made, captured, bounds>>

\* The answer must name the planned revisions.
Create ==
    /\ pc = "create" /\ Call
    /\ LET planned == Acceptable /\ main = plan.base /\ develop = plan.head IN
       /\ captured' = planned
       /\ pr' = IF planned THEN made' ELSE pr
       /\ Unless(planned, "view")
    /\ UNCHANGED <<branches, plan, seen, cleanup, bounds>>

\* Only a pull request that this run created is reviewed.
View ==
    /\ pc = "view"
    /\ Unless(BoundTo(pr, plan), IF captured THEN "dispatch" ELSE "idle")
    /\ UNCHANGED <<branches, prs, reviews, plan, pr, seen, outputs, bounds>>

Dispatch ==
    /\ pc = "dispatch" /\ Call /\ pc' = "finalize"
    /\ UNCHANGED <<branches, plan, pr, seen, cleanup, captured, bounds>>

Finalize ==
    /\ pc = "finalize" /\ seen' = prs[pr].body
    /\ Unless(Open(pr) /\ BoundTo(pr, plan) /\ prs[pr].body = Marked("pending"), "persist")
    /\ UNCHANGED <<branches, prs, reviews, plan, pr, outputs, bounds>>

Persist ==
    /\ pc = "persist" /\ Call /\ Done
    /\ UNCHANGED <<branches, plan, pr, seen, cleanup, captured, bounds>>

-----------------------------------------------------------------------------
(* The step that closes an unusable promotion after a failure. *)

\* The pull request is found by its run marker, or by the captured number.
Cleanup ==
    /\ pc = "cleanup"
    /\ \/ /\ made # 0 /\ Open(made) /\ BoundTo(made, plan)
          /\ captured \/ prs[made].body.mark = plan.head
          /\ seen' = prs[made].body /\ pc' = "cleanTombstone"
       \/ /\ ~ /\ made # 0 /\ Open(made) /\ BoundTo(made, plan)
               /\ captured \/ prs[made].body.mark = plan.head
          /\ Failed /\ UNCHANGED seen
    /\ UNCHANGED <<branches, prs, reviews, plan, pr, outputs, bounds>>

CleanTombstone ==
    /\ pc = "cleanTombstone" /\ Call /\ pc' = "cleanClose"
    /\ UNCHANGED <<branches, plan, pr, seen, cleanup, captured, bounds>>

CleanClose ==
    /\ pc = "cleanClose" /\ Call /\ Failed
    /\ UNCHANGED <<branches, plan, pr, seen, cleanup, captured, bounds>>

RunStep ==
    \/ Fetch \/ ListOpen \/ Existing \/ CloseAndList \/ CloseAndFail \/ Tombstone
    \/ ListClosed \/ Create \/ View \/ Dispatch \/ Finalize \/ Persist
    \/ Cleanup \/ CleanTombstone \/ CleanClose

-----------------------------------------------------------------------------
(* Failures. *)

\* A call fails for good; a write may have been applied all the same.
CallFails ==
    /\ pc # "idle" /\ faults < MaxFaults /\ faults' = faults + 1
    /\ Call \/ UNCHANGED <<prs, reviews, made>>
    /\ Failed
    /\ UNCHANGED <<branches, plan, pr, seen, cleanup, captured, history, edits>>

\* The job is cancelled or times out: no step runs after that.
Kill ==
    /\ pc # "idle" /\ faults < MaxFaults /\ faults' = faults + 1
    /\ Done
    /\ UNCHANGED <<branches, prs, reviews, plan, pr, seen, outputs, history, edits>>

-----------------------------------------------------------------------------
(* The branches. *)

\* An open pull request follows develop; its recorded base may follow main.
Follow(h, b) ==
    \E fresh \in BOOLEAN :
       prs' = [i \in Numbers |->
                 [prs[i] EXCEPT !.head = IF Open(i) THEN h ELSE @,
                                !.base = IF Open(i) /\ @ # b /\ fresh THEN b ELSE @]]

DevelopAdvances(d, s) ==
    /\ develop < MaxDevelop /\ develop' = develop + 1
    /\ delta' \in d /\ synced' = s /\ Follow(develop + 1, main)
    /\ UNCHANGED <<main, reviews, pc, plan, pr, seen, outputs, bounds>>

\* What commits of people leave: they may also undo what differed.
OwnDeltas == {"content", "neutral", "unbound"}

Feature == DevelopAdvances(OwnDeltas, synced)

\* What differs after a backmerge: the tree of develop is kept but for the evidence, which
\* is bound to the tips unless other commits came in between.
AfterBackmerge(s) ==
    IF delta \in {"content", "behind"} THEN {"content"}
    ELSE IF ~s THEN {"unbound"}
    ELSE {"ancestry"} \union IF delta = "none" THEN {} ELSE {"unbound"}

\* sync-main-to-develop.yml: the merged backmerge may be one of an earlier main, and
\* people may have added commits to it.
Backmerge ==
    /\ ~synced
    /\ \E s \in BOOLEAN : DevelopAdvances(AfterBackmerge(s) \union OwnDeltas, s)

MergePromotion(i) ==
    /\ Open(i) /\ prs[i].toMain /\ synced /\ delta \notin {"none", "behind"}
    /\ main < MaxMain /\ main' = main + 1 /\ synced' = FALSE /\ delta' = "none"
    /\ prs' = [prs EXCEPT ![i].status = "merged"]
    /\ UNCHANGED <<develop, reviews, pc, plan, pr, seen, outputs, bounds>>

\* What differs after a security release, which may undo what differed.
AfterSecurityRelease ==
    CASE delta = "none" -> {"behind"}
      [] delta = "behind" -> {"behind", "none"}
      [] delta = "content" -> OwnDeltas
      [] OTHER -> {"content"}

\* A security release changes main without develop.
SecurityRelease ==
    /\ main < MaxMain /\ main' = main + 1 /\ synced' = FALSE
    /\ delta' \in AfterSecurityRelease
    /\ Follow(develop, main + 1)
    /\ UNCHANGED <<develop, reviews, pc, plan, pr, seen, outputs, bounds>>

-----------------------------------------------------------------------------
(* People. *)

Only(i) == \A j \in Numbers \ {i} : Open(j) => ~prs[j].toMain

Edit(i) ==
    /\ edits < MaxEdits /\ edits' = edits + 1
    /\ \/ Open(i) /\ Close(i) /\ UNCHANGED spoiled
       \/ /\ Open(i) /\ prs[i].toMain /\ UNCHANGED spoiled
          /\ prs' = [prs EXCEPT ![i].toMain = FALSE]
       \/ /\ Open(i) /\ ~prs[i].toMain /\ Only(i) /\ UNCHANGED spoiled
          /\ prs' = [prs EXCEPT ![i].toMain = TRUE, ![i].base = main]
       \/ /\ prs[i].body.mark \in Heads /\ UNCHANGED spoiled
          /\ prs' = [prs EXCEPT ![i].body.mark = None]
       \/ /\ prs[i].body.mark \in Heads /\ spoiled' = spoiled \union {prs[i].born}
          /\ prs' = [prs EXCEPT ![i].body.mark = Malformed]
       \/ prs' = [prs EXCEPT ![i].body.state = "absent"] /\ UNCHANGED spoiled
    /\ UNCHANGED <<branches, reviews, pc, plan, pr, seen, outputs, dodged, faults>>

\* A reopened pull request is neither in an inventory of open ones made before
\* nor in one of closed ones made after.
Reopen(i) ==
    /\ edits < MaxEdits /\ edits' = edits + 1
    /\ prs[i].status = "closed" /\ (prs[i].toMain => Only(i))
    /\ prs' = [prs EXCEPT ![i].status = "open", ![i].head = develop]
    /\ dodged' = IF pc \in {"existing", "closeAndList", "listClosed"} THEN dodged \union {prs[i].born}
                 ELSE dodged
    /\ UNCHANGED <<branches, reviews, pc, plan, pr, seen, outputs, spoiled, faults>>

Next ==
    \/ Start \/ RunStep \/ CallFails \/ Kill
    \/ Feature \/ Backmerge \/ SecurityRelease
    \/ \E i \in Numbers : MergePromotion(i) \/ Edit(i) \/ Reopen(i)

Spec == Init /\ [][Next]_vars

\* The workflow is started every hour and a job runs until it ends.
FairSpec == Spec /\ WF_vars(Start) /\ WF_vars(RunStep)

-----------------------------------------------------------------------------
(* Properties. *)

\* Every variable keeps its type, and the run refers to pull requests that exist.
TypeOK ==
    /\ develop \in Heads /\ main \in Mains /\ synced \in BOOLEAN /\ delta \in Deltas
    /\ prs \in Seq(PullRequests) /\ reviews \in [Heads -> Nat]
    /\ pc \in {"idle"} \union Steps /\ plan \in [base : Mains, head : Heads]
    /\ pr \in 0 .. Len(prs) /\ seen \in Bodies /\ made \in 0 .. Len(prs)
    /\ cleanup \in BOOLEAN /\ captured \in BOOLEAN
    /\ dodged \subseteq Heads /\ spoiled \subseteq Heads /\ faults \in 0 .. MaxFaults /\ edits \in 0 .. MaxEdits
    /\ pc \in {"existing", "closeAndList", "closeAndFail", "tombstone", "view",
               "dispatch", "finalize", "persist"} => pr # 0
    /\ pc \in {"cleanTombstone", "cleanClose"} => made # 0
    /\ pc \in {"create"} \union CleanupSteps \/ captured => cleanup

\* What people can do to a head to make the markers of its pull request fail: the
\* marker is malformed, or the pull request in neither inventory of a run.
Tampered(h) == h \in spoiled \union dodged

\* A head of develop is reviewed at most once, however often the workflow is
\* started and whatever fails, unless people tampered with its pull request.
OneReviewPerHead == \A h \in Heads : reviews[h] <= 1 \/ Tampered(h)

\* "the same develop head remains consumed and cannot be retried"
ConsumedForGood == \A h \in Heads : reviews[h] <= 1 \/ h \in spoiled

\* The branches move as BranchFlow says, on which MainBackmerge agrees.
Flow == INSTANCE BranchFlow
BranchesFlow == Flow!Spec

\* A pull request is only marked as successfully dispatched if its own head was
\* sent to review.
SucceededWasReviewed ==
    \A i \in Numbers : prs[i].body.state = "succeeded" => reviews[prs[i].born] > 0

\* A tombstone is final: no run marks it otherwise, and its head is never sent to
\* review again.
TombstonesAreFinal ==
    [][\A i \in Numbers : prs[i].body.state = "failed" =>
          /\ prs'[i].body.state \in {"failed", "absent"}
          /\ \/ reviews'[prs[i].born] = reviews[prs[i].born]
             \/ Tampered(prs[i].born)]_vars

Offered(h) ==
    \E i \in Numbers : /\ Open(i) /\ prs[i].toMain /\ prs[i].body.mark = h
                       /\ prs[i].body.state = "succeeded"
Blocked(h) ==
    \/ \E i \in Numbers : /\ ~Open(i)
                          /\ \/ prs[i].body.mark = h
                             \/ prs[i].body.mark \in {None, Malformed} /\ prs[i].head = h
    \/ \E i, j \in Numbers : i # j /\ Open(i) /\ Open(j)

\* New content of develop does not wait in silence: unless the branches move on,
\* it is offered and reviewed, or its head is consumed (or two pull requests are
\* open), which every later run reports as an error.
ContentIsOffered ==
    \A h \in Heads :
       (develop = h /\ synced /\ delta = "content")
         ~> (develop # h \/ ~synced \/ delta # "content" \/ Offered(h) \/ Blocked(h))
=============================================================================
