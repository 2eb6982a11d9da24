-------------------------- MODULE ContainerRelease --------------------------
(***************************************************************************)
(* container-build-publish.yml: one release from its draft to the          *)
(* promotion of its images.  The build job makes and signs the evidence    *)
(* (ReleaseEvidence); the attach job brings the assets of the draft to the *)
(* signed set, one call at a time, publishes the draft, waits until GitHub *)
(* has made it immutable, and hands it on.                                 *)
(*                                                                         *)
(* Runs are serialised by the concurrency group of the workflow.  Any call *)
(* may fail, with or without its effect, a job may be cancelled anywhere,  *)
(* failed jobs are started again with the evidence of their run, and a     *)
(* person with write access may change the assets of a release that is not *)
(* immutable yet.                                                          *)
(***************************************************************************)
EXTENDS ReleaseEvidence

CONSTANTS
    Starter,     \* an asset whose upload broke off (state "starter")
    Foreign,     \* an asset that the release App has not uploaded
    MaxPolls,    \* how often the published release is polled
    MaxRuns,     \* bound: jobs that are started again
    MaxForeign   \* bound: changes of assets by somebody else

ASSUME ReleaseAssumption ==
    /\ MaxPolls \in Nat \ {0} /\ MaxRuns \in Nat /\ MaxForeign \in Nat
    /\ {Missing, Starter, Foreign} \cap Contents = {}
    /\ Missing # Starter /\ Missing # Foreign /\ Starter # Foreign

VARIABLES
    release,    \* "draft", "published" (immutability pending) or "immutable"
    assets,     \* the assets of the release
    revoked,    \* the producer revoked its evidence
    artifact,   \* the build whose evidence the attach job works with
    mode,       \* what the attach job found the release to be
    seen,       \* the asset listing that the loops of the attach job use
    inventory,  \* the assets as the attach job left them
    final,      \* the poll found the release immutable
    polls,
    outcome,    \* how the last run ended
    delivered,  \* latest was promoted, or the final acceptance dispatched
    disturbed,  \* history: something happened to the run in progress
    raced,      \* history: somebody changed an asset after the last look at the draft
    runs, foreign

releaseVars == <<release, assets, revoked, artifact, mode, seen, inventory, final,
                 polls, outcome, delivered>>
history == <<disturbed, raced>>
vars == <<evidenceVars, pc, cursor, faults, releaseVars, history, runs, foreign>>

Attaching == {"attach", "list", "probe", "delete", "emptied", "upload", "final", "check",
              "state", "recheck", "patch", "poll", "compare", "confirm", "deliver"}

Init ==
    /\ EvidenceInit
    /\ release = "draft" /\ revoked = FALSE
    /\ assets = [n \in AllNames |-> Missing]
    /\ seen = assets /\ inventory = assets
    /\ artifact = 0 /\ mode = "draft" /\ final = FALSE /\ polls = 1
    /\ outcome = "none" /\ delivered = FALSE
    /\ disturbed = FALSE /\ raced = FALSE
    /\ runs = 0 /\ foreign = 0

-----------------------------------------------------------------------------
(* The build job. *)

\* A dispatch, or all jobs again: the draft is validated, images and evidence are made.
StartBuild ==
    /\ pc = "idle" /\ build < MaxBuilds /\ release = "draft"
    /\ build' = build + 1
    /\ dist' = Generated(build + 1) /\ before' = Generated(build + 1)
    /\ result' = "none" /\ pc' = "read" /\ cursor' = 1
    /\ outcome' = "running" /\ disturbed' = FALSE
    /\ UNCHANGED <<security, original, staged, committed, broken, signed, faults,
                   release, assets, revoked, artifact, mode, seen, inventory, final,
                   polls, delivered, raced, runs, foreign>>

\* The enrichment alone is started again in the directory it left.
EnrichAgain ==
    /\ pc = "idle" /\ runs < MaxRuns
    /\ result \in {"restored", "incomplete", "error", "killed"}
    /\ runs' = runs + 1
    /\ pc' = "read" /\ cursor' = 1 /\ outcome' = "running" /\ disturbed' = FALSE
    /\ UNCHANGED <<evidenceVars, faults, release, assets, revoked, artifact, mode,
                   seen, inventory, final, polls, delivered, raced, foreign>>

Ended == IF pc' = "idle" THEN "failed" ELSE "running"

BuildStep ==
    /\ \/ EnrichStep
       \/ SignAssets("attach")
    /\ artifact' = IF pc' = "attach" THEN build ELSE artifact
    /\ outcome' = Ended
    /\ disturbed' = (disturbed \/ faults' # faults)
    /\ UNCHANGED <<release, assets, revoked, mode, seen, inventory, final, polls,
                   delivered, raced, runs, foreign>>

BuildRaises ==
    /\ \/ EnrichRaises
       \/ /\ pc = "sign" /\ faults < MaxFaults /\ faults' = faults + 1
          /\ pc' = "idle" /\ UNCHANGED <<evidenceVars, cursor>>
    /\ outcome' = Ended /\ disturbed' = TRUE
    /\ UNCHANGED <<release, assets, revoked, artifact, mode, seen, inventory, final, polls,
                   delivered, raced, runs, foreign>>

\* The job is cancelled, or the process killed: what was replaced stays replaced.
BuildKilled ==
    /\ pc \in Enriching /\ faults < MaxFaults /\ faults' = faults + 1
    /\ result' = "killed" /\ pc' = "idle" /\ cursor' = 1
    /\ outcome' = "failed" /\ disturbed' = TRUE
    /\ UNCHANGED <<security, build, dist, original, staged, committed, broken, signed,
                   before, release, assets, revoked, artifact, mode, seen, inventory,
                   final, polls, delivered, raced, runs, foreign>>

-----------------------------------------------------------------------------
(* Attach signed release evidence. *)

\* The failed job again, with the evidence that its run has signed.
AttachAgain(b) ==
    /\ pc = "idle" /\ runs < MaxRuns /\ IsSigned(b)
    /\ runs' = runs + 1
    /\ pc' = "attach" /\ artifact' = b /\ cursor' = 1
    /\ outcome' = "running" /\ disturbed' = FALSE
    /\ UNCHANGED <<evidenceVars, faults, release, assets, revoked, mode, seen, inventory,
                   final, polls, delivered, raced, foreign>>

unchangedByAttach == <<evidenceVars, faults, revoked, artifact, delivered, disturbed,
                       runs, foreign>>

Wanted(n) == Artifact(artifact)[n]
Name == Names[cursor]

\* The job goes on with step, or ends with an error.
Continue(step) == pc' = step /\ UNCHANGED <<cursor, outcome>>
Refuse == pc' = "idle" /\ outcome' = "failed" /\ UNCHANGED cursor

\* The next asset, or the step after the loop.
NextAsset(step, after) ==
    /\ UNCHANGED outcome
    /\ \/ cursor < Len(Names) /\ cursor' = cursor + 1 /\ pc' = step
       \/ cursor = Len(Names) /\ cursor' = 1 /\ pc' = after

\* A draft, or a release that is published and immutable; nothing else is accepted.
ReadMode ==
    /\ pc = "attach"
    /\ \/ /\ release = "draft" /\ Continue("list")
          /\ mode' = "draft" /\ raced' = FALSE
       \/ /\ release = "immutable" /\ Continue("list")
          /\ mode' = "published" /\ UNCHANGED raced
       \/ release = "published" /\ Refuse /\ UNCHANGED <<mode, raced>>
    /\ UNCHANGED <<unchangedByAttach, release, assets, seen, inventory, final, polls>>

\* Every asset has an expected name and was uploaded completely, by the App.
Acceptable(listing) ==
    \A n \in AllNames : listing[n] # Missing =>
        n \in Expected /\ listing[n] \notin {Starter, Foreign}

Complete(listing) == \A n \in Expected : listing[n] # Missing

ListAssets ==
    /\ pc = "list"
    /\ seen' = assets
    /\ IF Acceptable(assets) /\ (mode = "published" => Complete(assets))
       THEN Continue("probe") ELSE Refuse
    /\ UNCHANGED <<unchangedByAttach, release, assets, mode, inventory, final, polls, raced>>

\* Mutant of Probe: an asset that differs resets the release, whatever its state.
ProbeResetsAnyRelease ==
    /\ pc = "probe"
    /\ LET differs == \E n \in Expected : seen[n] \notin {Missing, Wanted(n)}
           gone == \E n \in Expected : seen[n] = Wanted(n) /\ assets[n] # seen[n]
       IN  \/ differs /\ Continue("delete")
           \/ ~differs /\ ~gone /\ Continue("upload")
           \/ gone /\ Refuse
    /\ UNCHANGED <<unchangedByAttach, release, assets, mode, seen, inventory, final, polls,
                   raced>>

\* One asset that differs from the signed one resets the draft, never a published
\* release; an asset that is gone when it is downloaded ends the run.
Probe ==
    /\ pc = "probe"
    /\ LET differs == \E n \in Expected : seen[n] \notin {Missing, Wanted(n)}
           gone == \E n \in Expected : seen[n] = Wanted(n) /\ assets[n] # seen[n]
       IN  \/ differs /\ mode = "draft" /\ Continue("delete")
           \/ differs /\ mode = "published" /\ Refuse
           \/ ~differs /\ ~gone /\ Continue("upload")
           \/ gone /\ Refuse
    /\ UNCHANGED <<unchangedByAttach, release, assets, mode, seen, inventory, final, polls,
                   raced>>

\* The assets of the listing are deleted by their id.
Delete ==
    /\ pc = "delete"
    /\ \/ seen[Name] = Missing /\ NextAsset("delete", "emptied") /\ UNCHANGED assets
       \/ /\ seen[Name] # Missing /\ assets[Name] = seen[Name]
          /\ assets' = [assets EXCEPT ![Name] = Missing]
          /\ NextAsset("delete", "emptied")
       \/ seen[Name] # Missing /\ assets[Name] # seen[Name] /\ Refuse /\ UNCHANGED assets
    /\ UNCHANGED <<unchangedByAttach, release, mode, seen, inventory, final, polls, raced>>

\* Mutant of Emptied: the loop that follows goes on with the old listing.
EmptiedWithOldListing ==
    /\ pc = "emptied"
    /\ IF \A n \in AllNames : assets[n] = Missing THEN Continue("upload") ELSE Refuse
    /\ UNCHANGED <<unchangedByAttach, release, assets, mode, seen, inventory, final, polls,
                   raced>>

\* The draft is listed again, and has to be empty.
Emptied ==
    /\ pc = "emptied"
    /\ seen' = assets
    /\ IF \A n \in AllNames : assets[n] = Missing THEN Continue("upload") ELSE Refuse
    /\ UNCHANGED <<unchangedByAttach, release, assets, mode, inventory, final, polls, raced>>

\* An asset of the listing is compared once more, a missing one is uploaded.
Upload ==
    /\ pc = "upload"
    /\ \/ /\ seen[Name] = Wanted(Name) /\ assets[Name] = seen[Name]
          /\ NextAsset("upload", "final") /\ UNCHANGED assets
       \/ /\ seen[Name] = Missing /\ assets[Name] = Missing /\ mode = "draft"
          /\ assets' = [assets EXCEPT ![Name] = Wanted(Name)]
          /\ NextAsset("upload", "final")
       \/ /\ IF seen[Name] = Missing THEN mode # "draft" \/ assets[Name] # Missing
             ELSE seen[Name] # Wanted(Name) \/ assets[Name] # seen[Name]
          /\ Refuse /\ UNCHANGED assets
    /\ UNCHANGED <<unchangedByAttach, release, mode, seen, inventory, final, polls, raced>>

\* The release holds exactly the signed set; its listing is what is published.
FinalListing ==
    /\ pc = "final"
    /\ \/ assets = Artifact(artifact) /\ inventory' = assets /\ Continue("check")
       \/ assets # Artifact(artifact) /\ Refuse /\ UNCHANGED inventory
    /\ UNCHANGED <<unchangedByAttach, release, assets, mode, seen, final, polls, raced>>

-----------------------------------------------------------------------------
(* Publish verified draft and require immutable release. *)

publishing == <<release, assets, mode, seen, inventory, raced>>

\* The producer has not revoked, and the assets are the listed ones and verify.
Check ==
    /\ pc = "check"
    /\ IF ~(security /\ revoked) /\ assets = inventory THEN Continue("state") ELSE Refuse
    /\ UNCHANGED <<unchangedByAttach, publishing, final, polls>>

\* A draft has to be one still; a published release goes on to the poll.
State ==
    /\ pc = "state"
    /\ polls' = 1
    /\ IF mode = "published" THEN Continue("poll")
       ELSE IF release = "draft" THEN Continue("recheck") ELSE Refuse
    /\ UNCHANGED <<unchangedByAttach, publishing, final>>

\* Mutant of StillListed: the listing before the PATCH is not compared.
NotComparedAgain == TRUE

\* The assets as they are listed again right before the PATCH.
StillListed == assets = inventory

Recheck ==
    /\ pc = "recheck"
    /\ IF StillListed THEN Continue("patch") ELSE Refuse
    /\ UNCHANGED <<unchangedByAttach, publishing, final, polls>>

Patch ==
    /\ pc = "patch"
    /\ release' = "published" /\ Continue("poll")
    /\ UNCHANGED <<unchangedByAttach, assets, mode, seen, inventory, raced, final, polls>>

\* The release is read before its assets are listed.
Poll ==
    /\ pc = "poll"
    /\ final' = (release = "immutable")
    /\ Continue("compare")
    /\ UNCHANGED <<unchangedByAttach, publishing, polls>>

\* Mutant of CandidateFits: the assets of the published release are not compared.
CandidateUncompared == TRUE

CandidateFits == assets = inventory

Compare ==
    /\ pc = "compare"
    /\ \/ ~CandidateFits /\ Refuse /\ UNCHANGED polls
       \/ CandidateFits /\ final /\ Continue("confirm") /\ UNCHANGED polls
       \/ CandidateFits /\ ~final /\ polls < MaxPolls
          /\ polls' = polls + 1 /\ Continue("poll")
       \/ CandidateFits /\ ~final /\ polls = MaxPolls /\ Refuse /\ UNCHANGED polls
    /\ UNCHANGED <<unchangedByAttach, publishing, final>>

\* The assets are downloaded a last time, each by its id.
Confirm ==
    /\ pc = "confirm"
    /\ IF \A n \in Expected : assets[n] = inventory[n] THEN Continue("deliver") ELSE Refuse
    /\ UNCHANGED <<unchangedByAttach, publishing, final, polls>>

\* The latest tags are promoted, or the final acceptance is dispatched.
Deliver ==
    /\ pc = "deliver"
    /\ delivered' = TRUE
    /\ pc' = "idle" /\ outcome' = "success"
    /\ UNCHANGED <<evidenceVars, cursor, faults, release, assets, revoked, artifact, mode,
                   seen, inventory, final, polls, disturbed, raced, runs, foreign>>

AttachStep ==
    \/ ReadMode \/ ListAssets \/ Probe \/ Delete \/ Emptied \/ Upload \/ FinalListing
    \/ Check \/ State \/ Recheck \/ Patch \/ Poll \/ Compare \/ Confirm

\* What the assets may be after the call at which the job ended: a deletion or an
\* upload may have happened, an upload may have left a starter.
AssetsAfterFailure ==
    IF pc = "delete" /\ seen[Name] # Missing /\ assets[Name] = seen[Name]
    THEN {assets, [assets EXCEPT ![Name] = Missing]}
    ELSE IF /\ pc = "upload" /\ mode = "draft"
            /\ seen[Name] = Missing /\ assets[Name] = Missing
    THEN {[assets EXCEPT ![Name] = v] : v \in {Missing, Starter, Wanted(Name)}}
    ELSE {assets}

\* A call fails, or the job is cancelled, before or after the effect of the call.
AttachFails ==
    /\ pc \in Attaching /\ faults < MaxFaults /\ faults' = faults + 1
    /\ assets' \in AssetsAfterFailure
    /\ release' \in {release} \cup IF pc = "patch" THEN {"published"} ELSE {}
    /\ delivered' \in {delivered} \cup IF pc = "deliver" THEN {TRUE} ELSE {}
    /\ Refuse /\ disturbed' = TRUE
    /\ UNCHANGED <<evidenceVars, revoked, artifact, mode, seen, inventory, final, polls,
                   raced, runs, foreign>>

-----------------------------------------------------------------------------
(* The world. *)

unchangedByWorld == <<evidenceVars, pc, cursor, faults, artifact, mode, seen, inventory,
                      final, polls, outcome, delivered, runs>>

\* GitHub makes a published release immutable some time after its publication.
MakeImmutable ==
    /\ release = "published" /\ release' = "immutable"
    /\ UNCHANGED <<unchangedByWorld, assets, revoked, history, foreign>>

\* Somebody deletes, replaces or adds an asset.
ForeignChange(n, value) ==
    /\ release # "immutable" /\ foreign < MaxForeign /\ foreign' = foreign + 1
    /\ assets[n] # value /\ assets' = [assets EXCEPT ![n] = value]
    /\ disturbed' = TRUE
    /\ raced' = (raced \/ pc = "patch" \/ release = "published")
    /\ UNCHANGED <<unchangedByWorld, release, revoked>>

Revoke ==
    /\ security /\ ~revoked /\ revoked' = TRUE
    /\ disturbed' = TRUE
    /\ UNCHANGED <<unchangedByWorld, release, assets, raced, foreign>>

Next ==
    \/ StartBuild \/ EnrichAgain \/ BuildStep \/ BuildRaises \/ BuildKilled
    \/ \E b \in Builds : AttachAgain(b)
    \/ AttachStep \/ Deliver \/ AttachFails
    \/ MakeImmutable \/ Revoke
    \/ \E n \in AllNames, value \in {Missing, Foreign} : ForeignChange(n, value)

Spec == Init /\ [][Next]_vars

-----------------------------------------------------------------------------
(* Properties. *)

File == Contents \cup {Missing}
Asset == File \cup {Starter, Foreign}

\* Every variable has its type, and no loop leaves its list.
TypeOK ==
    /\ security \in BOOLEAN /\ pc \in {"idle", "sign"} \cup Enriching \cup Attaching
    /\ build \in 0 .. MaxBuilds /\ artifact \in 0 .. MaxBuilds
    /\ dist \in [Files -> File] /\ original \in [Files -> File]
    /\ before \in [Files -> File] /\ signed \in [Builds -> [Files -> File]]
    /\ staged \subseteq Files /\ committed \in Seq(Files)
    /\ cursor \in 1 .. Len(Names) /\ broken \in BOOLEAN /\ result \in Results
    /\ release \in {"draft", "published", "immutable"}
    /\ mode \in {"draft", "published"}
    /\ assets \in [AllNames -> Asset] /\ seen \in [AllNames -> Asset]
    /\ inventory \in [AllNames -> Asset]
    /\ revoked \in BOOLEAN /\ final \in BOOLEAN /\ delivered \in BOOLEAN
    /\ disturbed \in BOOLEAN /\ raced \in BOOLEAN
    /\ polls \in 1 .. MaxPolls
    /\ outcome \in {"none", "running", "failed", "success"}
    /\ faults \in 0 .. MaxFaults /\ runs \in 0 .. MaxRuns /\ foreign \in 0 .. MaxForeign

\* A published release holds one complete signed set, whatever failed, raced or was
\* started again before; only a change after the last listing of the draft can spoil it,
\* as GitHub offers no conditional PATCH.  (Publish verified draft)
PublishedIsWhole == release # "draft" /\ ~raced => VerifySigned(assets)

\* What is promoted or handed to the final acceptance is immutable and verifies, even
\* when assets were changed between the last listing and the immutability.
DeliveredIsWhole == delivered => release = "immutable" /\ VerifySigned(assets)

\* The producer's evidence is revoked, an asset needs a person, GitHub has not made the
\* release immutable in time, or another build's evidence is immutable already.
Hindered ==
    \/ revoked
    \/ \E n \in AllNames : assets[n] \in {Starter, Foreign}
    \/ release = "published"
    \/ pc = "compare" /\ ~final
    \/ release = "immutable" /\ assets # Artifact(artifact)

\* A run that nothing disturbed fails only for such a reason: whatever an earlier run
\* left of a draft, the next one completes it.  (the reset of the draft)
UndisturbedRunSucceeds ==
    [][outcome = "running" /\ outcome' = "failed" /\ ~disturbed' => Hindered]_vars

\* The release goes forward only, its assets are the workflow's while it is a draft, and
\* only a person's between publication and immutability; what is delivered stays.
Lifecycle == INSTANCE ReleaseLifecycle WITH whole <- VerifySigned(assets), edits <- foreign
ReleaseGoesForward == Lifecycle!Spec
=============================================================================
