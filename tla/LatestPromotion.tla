--------------------------- MODULE LatestPromotion ---------------------------
(***************************************************************************)
(* scripts/promote-container-latest.py: move the `latest` tag of the image *)
(* variants of one release, one registry call at a time, and put back the  *)
(* snapshot when anything goes wrong.                                      *)
(*                                                                         *)
(* The registry has no compare-and-swap: a swap is an inspect, then a      *)
(* write, and somebody else may write in between.  A call may fail, a      *)
(* failed write may have taken effect all the same, and a signal may be    *)
(* raised between any two calls, in the rollback too.  Runs are serialised *)
(* by the concurrency group of container-build-publish.yml, so one set of  *)
(* variables holds the run in progress.                                    *)
(***************************************************************************)
EXTENDS Naturals, FiniteSets

CONSTANTS
    VariantCount,      \* VARIANT_COUNT: how many images a release has
    RollbackAttempts,  \* ROLLBACK_ATTEMPTS
    Releases,          \* the stable releases, ordered by version
    Digests,           \* the manifest digests of the registry
    DigestOf,          \* the accepted digest of each release's variants
    Absent,            \* what inspect_latest returns for a missing tag (None)
    InitialTags,       \* the tag assignments the registry may start with
    MaxRuns,           \* bound: promotion runs
    MaxForeign,        \* bound: tag writes by anybody else
    MaxFaults          \* bound: calls that raise and signals that are delivered

Variants == 1 .. VariantCount
TagValues == Digests \union {Absent}

ASSUME BoundsAssumption ==
    /\ VariantCount \in Nat \ {0}
    /\ RollbackAttempts \in Nat \ {0}
    /\ MaxRuns \in Nat /\ MaxForeign \in Nat /\ MaxFaults \in Nat
ASSUME ReleaseAssumption == Releases \subseteq Nat \ {0}
ASSUME DigestAssumption ==
    /\ Absent \notin Digests
    /\ DigestOf \in [Releases -> [Variants -> Digests]]
    /\ InitialTags \subseteq [Variants -> TagValues]

VARIABLES
    (* the world outside the run *)
    tag,        \* the registry: what `latest` of each variant points to
    published,  \* releases listed as published and stable at the moment
    withdrawn,  \* the listed ones whose tag commit or producer evidence does not hold
    (* the run in progress *)
    pc, rel,
    prev,       \* the snapshot taken before the first write
    cursor,     \* the variant the loop is at
    attempt,    \* the rollback attempt on that variant
    agree,      \* no variant of the final inspection differed so far
    errors,     \* variants whose rollback was given up
    outcome,    \* how the last run ended; "running" while one is in progress
    (* history, read by the properties only *)
    raced,        \* variants somebody else wrote since this run last inspected them
    touched,      \* variants somebody else wrote since this run's snapshot of them
    stale,        \* a forward write or a final inspection while not Promotable, never so since
    rbFaults,     \* failed calls during this run's rollback
    holder,       \* the release whose whole set runs have left at latest, 0: none they know of
    (* bounds *)
    runs, foreign, faults

world == <<published, withdrawn>>
history == <<raced, touched, stale, rbFaults, holder>>
bounds == <<runs, foreign, faults>>
vars == <<tag, world, pc, rel, prev, cursor, attempt, agree, errors, outcome,
          history, bounds>>

Checking   == {"policyFirst", "snapshot"}
Swapping   == {"policyBefore", "inspect", "write", "verify",
               "policyAfter", "final", "policyLast"}
RollingBack == {"rbInspect", "rbWrite", "rbVerify"}
Outcomes == {"none", "running", "success", "refused", "restored", "stranded",
             "aborted", "exitedLate", "killed"}

Init ==
    /\ tag \in InitialTags
    /\ published = {} /\ withdrawn = {}
    /\ pc = "idle" /\ outcome = "none" /\ rel = 0
    /\ prev = [i \in Variants |-> Absent]
    /\ cursor = 1 /\ attempt = 1 /\ agree = TRUE /\ errors = {}
    /\ raced = {} /\ touched = {} /\ stale = FALSE /\ rbFaults = 0
    /\ holder = 0
    /\ runs = 0 /\ foreign = 0 /\ faults = 0

Target(i) == DigestOf[rel][i]

\* The release is the highest one listed and nothing of it is withdrawn.
Promotable ==
    /\ rel \in published /\ rel \notin withdrawn
    /\ ~\E s \in published : s > rel

-----------------------------------------------------------------------------
(* The checks of the source, by name. *)

\* Mutant of PolicyHolds: only the release itself is looked at.
PolicyIgnoresNewerReleases(r) == r \in published \ withdrawn

\* policy_check: the release is listed, no release listed now is higher, and its
\* tag commit and its producer's evidence hold.  A release that was deleted, or turned
\* back into a draft or a prerelease, is not counted.
PolicyHolds(r) ==
    /\ r \in published \ withdrawn
    /\ \A s \in published : s <= r

\* Mutant of SwapAllowed: the tag is overwritten whatever it holds.
SwapAnything(i) == TRUE

\* The compare-and-swap test of the forward loop.
SwapAllowed(i) == tag[i] \in {prev[i], Target(i)}

\* Mutant of IsRestored: a divergent tag is passed over in silence.
RestoredIfNotOurs(i) == tag[i] # Target(i)

\* What counts as restored when the rollback inspects a tag.
IsRestored(i) == tag[i] = prev[i]

\* Mutant of FinalSetComplete: the result of the final inspection is dropped.
FinalSetIgnored(ok) == TRUE

\* `final != expected`, after every variant was inspected once more.
FinalSetComplete(ok) == ok

-----------------------------------------------------------------------------
(* Control flow shared by the steps. *)

Inspected(i) == raced' = raced \ {i}

Finish(result) ==
    /\ pc' = "idle" /\ outcome' = result
    /\ cursor' = 1 /\ attempt' = 1 /\ agree' = TRUE

BeginRollback ==
    /\ pc' = "rbInspect" /\ cursor' = 1 /\ attempt' = 1
    /\ errors' = {} /\ rbFaults' = 0
    /\ UNCHANGED <<agree, outcome>>

\* The next variant of the forward loop, or the checks that follow the loop.
NextSwap ==
    IF cursor < VariantCount
    THEN pc' = "policyBefore" /\ cursor' = cursor + 1
    ELSE pc' = "policyAfter" /\ cursor' = 1

\* The rollback loop is done with a variant; e holds the ones given up.
NextRollback(e) ==
    /\ errors' = e
    /\ \/ /\ cursor < VariantCount
          /\ pc' = "rbInspect" /\ cursor' = cursor + 1 /\ attempt' = 1
          /\ UNCHANGED <<agree, outcome>>
       \/ /\ cursor = VariantCount
          /\ Finish(IF e = {} THEN "restored" ELSE "stranded")

\* Mutants of AttemptFailed: the attempts are not counted, or one too few is made.
AttemptNeverCounted ==
    /\ pc' = "rbInspect" /\ UNCHANGED <<cursor, attempt, agree, errors, outcome>>
GiveUpOneAttemptEarly ==
    \/ /\ attempt + 1 < RollbackAttempts
       /\ pc' = "rbInspect" /\ attempt' = attempt + 1
       /\ UNCHANGED <<cursor, agree, errors, outcome>>
    \/ /\ attempt + 1 >= RollbackAttempts
       /\ NextRollback(errors \union {cursor})

\* The attempt failed or was refused: `last_error`, then the next attempt.
AttemptFailed ==
    \/ /\ attempt < RollbackAttempts
       /\ pc' = "rbInspect" /\ attempt' = attempt + 1
       /\ UNCHANGED <<cursor, agree, errors, outcome>>
    \/ /\ attempt = RollbackAttempts
       /\ NextRollback(errors \union {cursor})

-----------------------------------------------------------------------------
(* The run. *)

\* The ways a run can end that leave the tags as the run before left them, or complete.
Tidy == {"none", "success", "refused", "restored"}

Start(r) ==
    /\ pc = "idle" /\ runs < MaxRuns
    /\ runs' = runs + 1
    /\ rel' = r /\ pc' = "policyFirst" /\ outcome' = "running"
    /\ prev' = [i \in Variants |-> Absent] /\ errors' = {}
    /\ raced' = {} /\ touched' = {} /\ stale' = FALSE /\ rbFaults' = 0
    /\ holder' = IF outcome \in Tidy THEN holder ELSE 0
    /\ UNCHANGED <<tag, world, cursor, attempt, agree, foreign, faults>>

PolicyFirst ==
    /\ pc = "policyFirst"
    /\ \/ /\ PolicyHolds(rel)
          /\ pc' = "snapshot" /\ UNCHANGED <<cursor, attempt, agree, outcome>>
       \/ ~PolicyHolds(rel) /\ Finish("refused")
    /\ UNCHANGED <<tag, world, rel, prev, errors, history, bounds>>

\* A missing tag is refused once all of them have been read.
Snapshot ==
    /\ pc = "snapshot"
    /\ prev' = [prev EXCEPT ![cursor] = tag[cursor]]
    /\ Inspected(cursor) /\ touched' = touched \ {cursor}
    /\ \/ /\ cursor < VariantCount
          /\ cursor' = cursor + 1 /\ UNCHANGED <<pc, attempt, agree, outcome>>
       \/ /\ cursor = VariantCount /\ \A i \in Variants : prev'[i] # Absent
          /\ pc' = "policyBefore" /\ cursor' = 1
          /\ UNCHANGED <<attempt, agree, outcome>>
       \/ /\ cursor = VariantCount /\ \E i \in Variants : prev'[i] = Absent
          /\ Finish("refused")
    /\ UNCHANGED <<tag, world, rel, errors, stale, rbFaults, holder, bounds>>

PolicyBefore ==
    /\ pc = "policyBefore"
    /\ \/ /\ PolicyHolds(rel)
          /\ pc' = "inspect"
          /\ UNCHANGED <<cursor, attempt, agree, errors, outcome, rbFaults>>
       \/ ~PolicyHolds(rel) /\ BeginRollback
    /\ UNCHANGED <<tag, world, rel, prev, raced, touched, stale, holder, bounds>>

InspectForSwap ==
    /\ pc = "inspect"
    /\ Inspected(cursor)
    /\ \/ ~SwapAllowed(cursor) /\ BeginRollback
       \/ /\ SwapAllowed(cursor) /\ tag[cursor] = Target(cursor)
          /\ NextSwap
          /\ UNCHANGED <<attempt, agree, errors, outcome, rbFaults>>
       \/ /\ SwapAllowed(cursor) /\ tag[cursor] # Target(cursor)
          /\ pc' = "write"
          /\ UNCHANGED <<cursor, attempt, agree, errors, outcome, rbFaults>>
    /\ UNCHANGED <<tag, world, rel, prev, touched, stale, holder, bounds>>

\* The registry takes the forward write, whatever the client is told.
ApplySwap ==
    /\ tag' = [tag EXCEPT ![cursor] = Target(cursor)]
    /\ stale' = (stale \/ ~Promotable)

Write ==
    /\ pc = "write"
    /\ ApplySwap /\ pc' = "verify"
    /\ UNCHANGED <<world, rel, prev, cursor, attempt, agree, errors, outcome,
                   raced, touched, rbFaults, holder, bounds>>

Verify ==
    /\ pc = "verify"
    /\ Inspected(cursor)
    /\ \/ tag[cursor] # Target(cursor) /\ BeginRollback
       \/ /\ tag[cursor] = Target(cursor) /\ NextSwap
          /\ UNCHANGED <<attempt, agree, errors, outcome, rbFaults>>
    /\ UNCHANGED <<tag, world, rel, prev, touched, stale, holder, bounds>>

\* Mutant of PolicyAfter: the check after the loop is outside of the try block.
PolicyOutsideTry ==
    /\ pc = "policyAfter"
    /\ \/ /\ PolicyHolds(rel)
          /\ pc' = "final" /\ UNCHANGED <<cursor, attempt, agree, outcome>>
       \/ ~PolicyHolds(rel) /\ Finish("refused")
    /\ UNCHANGED <<tag, world, rel, prev, errors, history, bounds>>

PolicyAfter ==
    /\ pc = "policyAfter"
    /\ \/ /\ PolicyHolds(rel)
          /\ pc' = "final"
          /\ UNCHANGED <<cursor, attempt, agree, errors, outcome, rbFaults>>
       \/ ~PolicyHolds(rel) /\ BeginRollback
    /\ UNCHANGED <<tag, world, rel, prev, raced, touched, stale, holder, bounds>>

FinalInspect ==
    /\ pc = "final"
    /\ Inspected(cursor) /\ stale' = (stale \/ ~Promotable)
    /\ LET ok == agree /\ tag[cursor] = Target(cursor) IN
       \/ /\ cursor < VariantCount
          /\ cursor' = cursor + 1 /\ agree' = ok
          /\ UNCHANGED <<pc, attempt, errors, outcome, rbFaults>>
       \/ /\ cursor = VariantCount /\ FinalSetComplete(ok)
          /\ pc' = "policyLast" /\ cursor' = 1 /\ agree' = TRUE
          /\ UNCHANGED <<attempt, errors, outcome, rbFaults>>
       \/ /\ cursor = VariantCount /\ ~FinalSetComplete(ok)
          /\ BeginRollback
    /\ UNCHANGED <<tag, world, rel, prev, touched, holder, bounds>>

\* main reports success; the set is known to be complete unless somebody else wrote it.
Succeed == Finish("success") /\ holder' = IF raced = {} THEN rel ELSE 0

\* Mutant of PolicyLast: the check after the final inspection is left out.
LastPolicyDropped ==
    /\ pc = "policyLast"
    /\ Succeed
    /\ UNCHANGED <<errors, rbFaults>>
    /\ UNCHANGED <<tag, world, rel, prev, raced, touched, stale, bounds>>

PolicyLast ==
    /\ pc = "policyLast"
    /\ \/ /\ PolicyHolds(rel)
          /\ Succeed
          /\ UNCHANGED <<errors, rbFaults>>
       \/ ~PolicyHolds(rel) /\ BeginRollback /\ UNCHANGED holder
    /\ UNCHANGED <<tag, world, rel, prev, raced, touched, stale, bounds>>

RollbackInspect ==
    /\ pc = "rbInspect"
    /\ Inspected(cursor)
    /\ \/ IsRestored(cursor) /\ NextRollback(errors)
       \/ /\ ~IsRestored(cursor) /\ tag[cursor] # Target(cursor)
          /\ AttemptFailed
       \/ /\ ~IsRestored(cursor) /\ tag[cursor] = Target(cursor)
          /\ pc' = "rbWrite" /\ UNCHANGED <<cursor, attempt, agree, errors, outcome>>
    /\ UNCHANGED <<tag, world, rel, prev, touched, stale, rbFaults, holder, bounds>>

RollbackWrite ==
    /\ pc = "rbWrite"
    /\ tag' = [tag EXCEPT ![cursor] = prev[cursor]]
    /\ pc' = "rbVerify"
    /\ UNCHANGED <<world, rel, prev, cursor, attempt, agree, errors, outcome, history, bounds>>

RollbackVerify ==
    /\ pc = "rbVerify"
    /\ Inspected(cursor)
    /\ \/ tag[cursor] = prev[cursor] /\ NextRollback(errors)
       \/ tag[cursor] # prev[cursor] /\ AttemptFailed
    /\ UNCHANGED <<tag, world, rel, prev, touched, stale, rbFaults, holder, bounds>>

RunStep ==
    \/ PolicyFirst \/ Snapshot \/ PolicyBefore \/ InspectForSwap \/ Write \/ Verify
    \/ PolicyAfter \/ FinalInspect \/ PolicyLast
    \/ RollbackInspect \/ RollbackWrite \/ RollbackVerify

-----------------------------------------------------------------------------
(* Failures.  Raised is what an exception does at each place of the run.   *)

Raised ==
    \/ /\ pc \in Checking /\ Finish("refused")
       /\ UNCHANGED <<errors, rbFaults>>
    \/ pc \in Swapping /\ BeginRollback
    \/ /\ pc \in RollingBack /\ AttemptFailed
       /\ rbFaults' = rbFaults + 1

\* A write that raises may still have reached the registry.
MaybeApplied ==
    \/ UNCHANGED <<tag, stale>>
    \/ pc = "write" /\ ApplySwap
    \/ /\ pc = "rbWrite" /\ tag' = [tag EXCEPT ![cursor] = prev[cursor]]
       /\ UNCHANGED stale

\* A registry or GitHub call fails, or the signal handler raises in the middle
\* of it (subprocess.run then kills the client and re-raises).
CallFails ==
    /\ faults < MaxFaults /\ faults' = faults + 1
    /\ MaybeApplied /\ Raised
    /\ UNCHANGED <<world, rel, prev, raced, touched, holder, runs, foreign>>

\* The signal handler raises between two attempts of the rollback: nothing in
\* restore_snapshot catches it, and the remaining variants are not restored.
SignalBetweenAttempts ==
    /\ faults < MaxFaults /\ faults' = faults + 1
    /\ pc = "rbInspect" /\ Finish("aborted")
    /\ UNCHANGED <<tag, world, rel, prev, errors, history, runs, foreign>>

\* The signal handler raises after promote returned: main reports a failure although
\* the tags were moved and nothing rolls them back.
SignalAfterPromotion ==
    /\ faults < MaxFaults /\ faults' = faults + 1
    /\ pc = "policyLast" /\ PolicyHolds(rel) /\ Finish("exitedLate")
    /\ UNCHANGED <<tag, world, rel, prev, errors, history, runs, foreign>>

\* The runner kills the process (a cancelled or timed-out job).
Kill ==
    /\ pc # "idle" /\ Finish("killed")
    /\ UNCHANGED <<tag, world, rel, prev, errors, history, bounds>>

-----------------------------------------------------------------------------
(* The world. *)

ForeignWrite(i, d) ==
    /\ foreign < MaxForeign /\ foreign' = foreign + 1
    /\ d # tag[i] /\ tag' = [tag EXCEPT ![i] = d]
    /\ raced' = raced \union {i} /\ touched' = touched \union {i}
    /\ holder' = 0
    /\ UNCHANGED <<world, pc, rel, prev, cursor, attempt, agree, errors, outcome,
                   stale, rbFaults, runs, faults>>

\* What a change of the releases leaves alone; a release that may be promoted again
\* is no longer stale.
ReleasesChange ==
    /\ UNCHANGED <<tag, pc, rel, prev, cursor, attempt, agree, errors, outcome,
                   raced, touched, rbFaults, holder, bounds>>
    /\ stale' = (stale /\ ~Promotable')

\* A release is listed, for the first time or again; its tag commit and evidence hold
\* or not.
Publish(r) ==
    /\ r \notin published /\ published' = published \union {r}
    /\ withdrawn' \in {withdrawn, withdrawn \union {r}}
    /\ ReleasesChange

\* A release is deleted, or made a draft or a prerelease again.
Unlist(r) ==
    /\ r \in published /\ published' = published \ {r}
    /\ withdrawn' = withdrawn \ {r}
    /\ ReleasesChange

\* Its tag is moved, or its producer revokes the evidence.
Revoke(r) ==
    /\ r \in published \ withdrawn /\ withdrawn' = withdrawn \union {r}
    /\ UNCHANGED published /\ ReleasesChange

\* The tag is moved back.
Reinstate(r) ==
    /\ r \in withdrawn /\ withdrawn' = withdrawn \ {r}
    /\ UNCHANGED published /\ ReleasesChange

World(r) == Publish(r) \/ Unlist(r) \/ Revoke(r) \/ Reinstate(r)

Next ==
    \/ \E r \in Releases : Start(r) \/ World(r)
    \/ RunStep
    \/ CallFails \/ SignalBetweenAttempts \/ SignalAfterPromotion
    \/ Kill
    \/ \E i \in Variants, d \in TagValues : ForeignWrite(i, d)

Spec == Init /\ [][Next]_vars

\* The interpreter runs until the process ends: no call of the run waits for
\* another run.  Nothing outside the run is fair.
FairSpec == Spec /\ WF_vars(RunStep)

-----------------------------------------------------------------------------
(* Properties. *)

DataOK ==
    /\ tag \in [Variants -> TagValues] /\ prev \in [Variants -> TagValues]
    /\ published \subseteq Releases /\ withdrawn \subseteq published
    /\ raced \subseteq Variants /\ touched \subseteq Variants /\ errors \subseteq Variants
    /\ agree \in BOOLEAN /\ stale \in BOOLEAN
    /\ holder \in Releases \union {0}
    /\ rbFaults \in Nat /\ runs \in Nat /\ foreign \in Nat /\ faults \in Nat

LoopOK == cursor \in Variants /\ attempt \in 1 .. RollbackAttempts

ControlOK ==
    /\ pc \in {"idle"} \union Checking \union Swapping \union RollingBack
    /\ outcome \in Outcomes /\ (pc # "idle" <=> outcome = "running")
    /\ rel \in Releases \union {0} /\ (outcome # "none" => rel \in Releases)

\* Every variable keeps its type and the loops their range, and an outcome is
\* pending exactly while a run is in progress.
TypeOK == DataOK /\ LoopOK /\ ControlOK

\* A run that reports success leaves the complete set: a variant that does not
\* carry the release's digest was overwritten by somebody else after the run's
\* last look at it.  (The final inspection of promote.)
SuccessMeansCompleteSet ==
    outcome = "success" => \A i \in Variants \ raced : tag[i] = Target(i)

\* No release is reported as promoted if it was superseded, unlisted or withdrawn when
\* one of its tags was written or finally inspected, and has been so ever since: a change
\* that raced with these steps is caught by the check after them, unless it was taken
\* back before the check.  (policy_check, six times.)
NoStaleSuccess == outcome = "success" => ~stale

\* A run that failed and says nothing of its rollback left the snapshot: a
\* variant that differs was overwritten after the rollback's last look at it.
\* (restore_snapshot, writes that fail after taking effect included.)
RestoredMeansSnapshot ==
    outcome = "restored" => \A i \in Variants \ raced : tag[i] = prev[i]

\* Unless somebody else wrote the tags, a rollback is only given up after
\* RollbackAttempts failed calls.
RollbackOutlastsFaults ==
    outcome = "stranded" => touched # {} \/ rbFaults >= RollbackAttempts

\* A tag value that is neither the snapshot's nor the release's is destroyed
\* only in the window between inspect and write, in either direction.
ForeignValuesSurvive ==
    [][\A i \in Variants :
          tag'[i] # tag[i] /\ foreign' = foreign
            => tag[i] \in {prev[i], Target(i)} \/ i \in raced]_vars

\* Latest is what the last successful run made it, through any later runs that were
\* refused or restored, until somebody else writes a tag; and it goes back to an older
\* release only while the newer one is not listed.  (promote, restore_snapshot and
\* require_highest_stable_release, over all runs.)
LatestFollowsSuccesses ==
    /\ [](outcome \in Tidy /\ holder # 0 => \A i \in Variants : tag[i] = DigestOf[holder][i])
    /\ [][holder' < holder => holder' = 0 \/ holder \notin published]_vars

\* The run as others see it: which loop it is in or how it ended, and the two sets.
Phase ==
    CASE pc = "idle" -> outcome [] pc \in Checking -> "reading"
      [] pc \in Swapping -> "moving" [] pc \in RollingBack -> "undoing"
Promoted == IF rel = 0 THEN prev ELSE DigestOf[rel]
Transaction == INSTANCE TagTransaction WITH before <- prev, after <- Promoted, phase <- Phase

\* The loops, the retries and the failing calls amount to a transaction over the tags.
TagsTransact == Transaction!Spec

\* Every run comes to an end, divergent tags and failing calls included.
RunsEnd == pc # "idle" ~> pc = "idle"
=============================================================================
