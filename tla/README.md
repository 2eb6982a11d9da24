# Verification of the release automation of container-ee-wunder-ansible-ubi9

This directory holds TLA+ models of the programs in this repository that decide
what is pushed, promoted, merged and tagged, the TLC configurations that check
them on small instances, and proofs, checked by TLAPS, that the most important
properties hold for every value of the parameters. `PROJECT.json` relates every
definition to the lines it models, and lists the runs, mutants, hazards,
findings and theorems.

To check a model: `tlc -config RenovateAutomerge.cfg MCRenovateAutomerge`.
To check a proof: `tlapm RenovateAutomerge_proofs.tla`.

## 1. Inventory

The image itself is built by sequential jobs. What is hard about this
repository is the automation around it: GitHub workflows and scripts that share
branches, pull requests, tags and files with each other, with people and with
GitHub, and that may fail or be killed at every call.

| Component | Source | State it keeps | Operations | Hard because of |
|---|---|---|---|---|
| Promotion of the latest tags | `scripts/promote-container-latest.py` | three tags in the registry, their snapshot | snapshot, swap and verify each tag, policy check, rollback | no compare-and-swap, failing calls that took effect, signals, foreign writers |
| Local push gate | `scripts/lit-push-ready.py` | evidence file, tracking ref, worktree | run the checks on a synthetic merge, write evidence, verify it in the pre-push hook | nothing is locked: runs, hook, developer and remote interleave |
| Promotion of develop to main | `promote-develop-to-main.yml` | pull requests, markers in their bodies | inventories, create, dispatch one review, finalise, clean up | the markers are the only memory; killed jobs; people edit pull requests |
| Backmerge of main to develop | `sync-main-to-develop.yml` | branch, temporary ref, pull request, evidence file | upload, create, arm auto-merge, trap | two moving branches, replaced queued runs, cleanup |
| Guarded auto-merge (Renovate) | `renovate-guarded-automerge.yml` | auto-merge of the pull request | guard, revoke, verify, enable | cancel-in-progress; three reads that are not atomic |
| Guarded auto-merge (managed sync) | `shared-assets-guarded-automerge.yml` | the same, and the merge itself | classify, verify, wait and merge | two kinds of events in different concurrency groups |
| Review gate | `copilot-review*.yml`, `codex-copilot-remediation.yml` | reviews and checks of a revision | request, verify, refresh, remediate | late, duplicate and quota-limited reviews; pushes meanwhile |
| Exact-Revision review | `release-bot-exact-head-review.yml`, `current-revision-rerun.yml`, `materialize-exact-revision-review.py` | a frozen revision and its check | review, re-evaluate | dispatched by a job that may be killed |
| Authorization of main | `main-promotion-authorization.yml` and `.py` | none (per event) | classify a pull request as normal or security, authorize | a moving base |
| Semantic release | `semantic-release.yml`, `semantic-release-plan.mjs` | tag, draft release | plan, draft, dispatch | one queue for all; unfinished earlier releases |
| Container release | `container-build-publish.yml` | assets and state of the release, images | build, attach, publish, wait for immutability, promote | a draft is changed asset by asset and published without a condition; people may change it; jobs are repeated |
| Release evidence | `enrich-mlx90-release-evidence.py`, `mlx90_sign_release_assets.py` | a set of files, signatures | stage all, replace each, roll back, check, sign | one of several steps failing, files of two builds |
| Security update | `security-release-consumer.py` | requirements and receipt | prepare, validate, verify assets | inputs that change between two reads, outputs that have to fit together |
| Security release chain | `security-release-*.yml`, the other `mlx90_*.py` | receipt on main, evidence, final acceptance | guard, finalize, reconcile, retire | a protocol over several repositories |
| Files by descriptor | `mlx90_secure_files.py` | snapshot and identity of files | snapshot, create, replace, remove | another process changes the entry |
| Build, scan and developer scripts | the rest of `scripts/`, `container-*.yml` | none | wrap other tools | sequential |

How they interact: a merge into develop starts the *promotion*, whose pull
request is judged by the *authorization* and the *Exact-Revision review* and merged by
a person. The merge starts *semantic release*, which dispatches the *container
release*, which calls the *promotion of the latest tags*; and it starts the
*backmerge*, without which the next promotion refuses to work. A *security
release* changes main directly, so both the promotion and the backmerge have to
live with it. Renovate and managed synchronisation bring changes into develop
through the *guarded auto-merges*. The *push gate* works on a developer's
checkout before any of this.

What makes each component correct: see the properties in section 3, and the plan
for those that are not modelled yet.

## 2. Plan

Written, in the order of importance to what gets released:

1. `LatestPromotion` - what `latest` points to, with all failures; implements
   `TagTransaction`.
2. `PushReady` - what can be pushed; implements `PushGate`.
3. `DevelopPromotion` - what is offered for main, and its one review.
4. `BranchFlow` - the abstract flow of the two branches.
5. `MainBackmerge` - how main's ancestry gets back; implements `BranchFlow`.
6. `RenovateAutomerge` - what merges into develop unattended.
7. `SecureFiles` - reading and replacing a file while another process edits it.
8. `SecurityUpdate` - the commands of the security release consumer, built from the
   operations of `SecureFiles`.
9. `ReleaseEvidence` - the evidence of one build: enriched as one transaction, checked, signed.
10. `ContainerRelease` - the release from its draft to its promotion, composed with
    `ReleaseEvidence`; implements `ReleaseLifecycle`.

Next, in this order:

11. `SharedAssetsMerge` - the finalizer that waits for checks and merges itself, against
    the events that revoke. Abstract specification worth stating: *a merged head was safe
    at the time of the last check, and the base did not move*. It shares the shape of
    `RenovateAutomerge` (events, cancellation, reads that are not atomic).
12. `SecurityRelease` - the receipt from the update to its retirement. Its effect on the
    branches is the action `SecurityRelease` of `BranchFlow`, its first step is `prepare`
    of `SecurityUpdate`, its evidence that of `ContainerRelease`.
13. `SemanticRelease` - plan, draft and dispatch, and the recovery of a release that an
    earlier run left unfinished; it starts `ContainerRelease`.
14. `ReviewGate` - Copilot and Exact-Revision review; composes with `DevelopPromotion`,
    whose dispatch starts it.
15. `MainAuthorization` - `classify` as an operator, checked against a reference
    definition over bounded inputs.

Theorems worth proving next: that the enrichment in `ReleaseEvidence` implements an
atomic replacement of three files; a bound on the loops of `ContainerRelease` like the one
of `LatestPromotion`; that the pull requests of `DevelopPromotion` implement a ledger with
one entry for each head; type correctness and the central safety property of each new
module.

## 3. The models

Conventions. An action is one call of the program and the local computation up to
the next call, so every interleaving at a call is explored; a check that only refuses is part of a
failing call. `pc` names the next call. Variables are grouped as *the world* (registry,
GitHub, checkout), *the run* (locals of the program), *history* (read by properties
only) and *bounds*. `CallFails` is a call that raises or exits non-zero, whether or not it
took effect; `Kill` is the end of a job or process without cleanup. A definition that says
"Mutant of X" is a plausible mistake in X; replacing X by it makes the property that
`PROJECT.json` names fail.

Four modules have an abstract specification of what they promise to those who only see
their effects: `TagTransaction`, `PushGate`, `ReleaseLifecycle` and `BranchFlow`. Each is
instantiated with a refinement mapping, checked as a property of a run and proved to be
implemented for all parameters. Where a run checks such a refinement, it leaves the type
invariant to the proof (`TypeCorrect`).

### LatestPromotion - `scripts/promote-container-latest.py`

`promote` and `restore_snapshot`, statement by statement: the policy check before the
snapshot, before and after each swap and after the final inspection; inspect, compare,
write, verify for each variant; a rollback over all variants with a bounded number of
attempts each. Runs are serialised by the concurrency group of
`container-build-publish.yml`, which calls the script for releases that are no security
releases. `ForeignWrite` is another client of the registry. What the policy check sees is
`published`, the releases that are listed as stable *at that moment*, and `withdrawn`, those
of them whose tag commit or evidence no longer holds: `Publish` lists a release, `Unlist`
takes it off the list (deleted, or a draft or prerelease again), `Revoke` and `Reinstate`
change whether it holds. `PolicyHolds` counts the listed ones only, as
`require_highest_stable_release` does: once a higher release is unlisted, an older one may be
promoted.

`policy_check` is one step at its first read. A signal during the rollback aborts it
(`aborted`); a signal after `promote` has returned makes the exit status 1 although the
tags are promoted (`exitedLate`). There are no timeouts in the code: a hanging call is
ended by the job timeout, which is `Kill`. Writes that arrive in the registry after the
client gave up, later than the next call, are not modelled. `--verify-digests-only`,
which the security release uses, only reads and is not modelled.

- `SuccessMeansCompleteSet`, `RestoredMeansSnapshot`: what the two outcomes promise.
- `NoStaleSuccess`: no release succeeds that was superseded, unlisted or withdrawn when its
  tags were written or finally inspected, and ever since.
- `LatestFollowsSuccesses`, over all runs: `latest` is the set of the last success (`holder`)
  through any later runs that were refused or restored, until somebody else writes a tag or
  a run ends untidily; and it goes back to an older release only while the newer one is not
  listed. That successes never go back at all is *not* true of the code, since the policy
  forgets a release that is unlisted.
- `RollbackOutlastsFaults`: how much failing the rollback survives.
- `ForeignValuesSurvive`: what the tool may never overwrite.
- `TagsTransact`: the loops, retries and failing calls amount to `TagTransaction`. A run
  reads, moves tags forward and takes them back, with one change of direction; a write
  overwrites a value of the snapshot (forward) or one of its own (back), and an end that
  claims a set has it. `Phase` is the mapping of the program counter.
- `RunsEnd`: a run ends, because the attempts are bounded (weak fairness of the steps
  of the run: a Python process that is not killed goes on).

Run `latest`: two variants where the source has three, three rollback attempts, as in the
source, two queued runs, two releases, one foreign write, three calls that raise, so that the
faults can be a failed swap and failed attempts, or exhaust the attempts of one variant. Two
variants make every loop have a first and a last round; the proofs hold for any number of
variants, attempts and faults. One run of TLC checks safety and liveness.

### PushReady - `scripts/lit-push-ready.py`

`RunSteps` is `push-ready`, `HookSteps` the `pre-push` hook, `VerifySteps` the
`verify_evidence` both end with. Several runs and hooks share the checkout (`cur`, `tip`,
`dirty`, `scratch`), the tracking ref (`baseRef`), the evidence file (`evidence`, which is
truncated and rewritten in place, hence `Torn`), and the remote (`develop`, `remote`).
`planned_change` is one step because a fingerprint taken before and after it is compared.
The directory `.lit-integration-*` under the root is not ignored by git, so that it makes
the fingerprints of *other* processes fail: `scratch`. A refusal for any other reason
(policy, expiry, conflict, timeout) is `Fail`. Not modelled: the subcommands `validate`,
`verify`, `review`, `sync-instructions` and `instructions`, and secret fixtures.

- `CheckedPush`: a commit gets through the hook only if all checks passed on its merge
  with the hook's base.
- `FreshBase`: that base is no older than the base branch when the push began.
- `ReadyMeansChecked`: no mixture of two runs is reported as ready.
- `RemoteOnlyGrows`: no push through the hook drops commits.
- `PushesPassTheGate`: all processes together are a `PushGate`, in which there are no
  checkouts, plans or evidence files: pairs of base and commit get checked, a hook is asked,
  and accepts only a pair that was checked with a base no older than the question, a
  descendant of what it was told the remote has, under the same branch name.

Runs `push_safety` (one run, one hook, two branches, everybody interferes once),
`push_race` (two runs and a hook, which have to keep their evidence apart; the runs are
interchangeable, so they are a symmetry set) and `push_clean`, which finds evidence of a dirty checkout reported as ready, see
section 5.

### BranchFlow

The contract between the promotion and the backmerge: `develop` and `main` as numbers
of commits, `synced` (main's ancestry is in develop) and `delta`, how the trees differ:

- `none`: not at all, and develop has no commit of its own; `neutral`: not at all, although
  it has some (a feature that reverts what was not promoted, or ports a security release);
- `behind`: only because main is ahead;
- `ancestry`: in the evidence only, and bound to the tips as the promotion demands;
- `unbound`: in the evidence only, but not so bound;
- `content`: in more than the evidence, through commits of develop.

Commits of people to develop, the ones they add to a backmerge included
(`AmendedBackmerge`), leave any of `OwnDeltas`; a backmerge as the workflow made it leaves
what `AfterBackmerge` says. `DevelopPromotion` uses these variables as its own; `MainBackmerge`
maps its commits to them (`Delta`, `HasMain`). One consequence worth knowing: the backmerge
keeps develop's tree, so what a security release added to main alone is offered for removal by
the next promotion (`behind` becomes `content`).

### DevelopPromotion - `.github/workflows/promote-develop-to-main.yml`

One run at a time (concurrency group); its steps are `fetch`, `listOpen`, `existing`,
`closeAndList`, `closeAndFail`, `tombstone`, `listClosed`, `create`, `view`, `dispatch`,
`finalize`, `persist`, and after a failure `cleanup`, `cleanTombstone`, `cleanClose`.
`Call` is what the write of the step changes; `CallFails` may have applied it. A pull
request carries a head marker and a dispatch marker in its body; people may close,
reopen and retarget it and drop or malform the markers at any time. A run ends without a
pull request when nothing of develop's own differs, and fails at the ancestry contract when
`delta` is `unbound`. The repeated PATCH
is one call; the checks of identity, title and draft state are part of a failing call.
`spoiled` and `dodged` are history: heads of which a person malformed the marker, or reopened
the pull request while a run was between its two inventories.

- `OneReviewPerHead`: a head is reviewed at most once - unless tampered with.
- `SucceededWasReviewed`: the marker that says so tells the truth.
- `TombstonesAreFinal`: a failed head is never dispatched again.
- `ContentIsOffered`: new content is offered and reviewed or blocked with an error by
  later runs. Fairness: the hourly schedule (`Start`) and a job that runs until it ends.

Run `promotion`: one advance of each branch, two faults (a fault may hit the cleanup
after a fault) and one act of people, safety and liveness at once. Run
`promotion_consumed`: section 5.

### MainBackmerge - `.github/workflows/sync-main-to-develop.yml`

The merge commit is deterministic, so the pair of tips names the commit, its branch and
its evidence. Steps: `fetch`, `checkRef`, `push` (temporary ref), `visible`, `createRef`,
`verify`, `delete`, `inventory`, `create`, `view`, `arm`, `enable`, and `cleanup`, the EXIT
trap, which is only set after the push. GitHub keeps one waiting run (`queued`). A killed job may
or may not run the trap. `Merge` is not strict on develop's tip, and conflicts exactly if
develop's evidence file changed since the fetch. People start runs, close, reopen and
retarget pull requests (`Retarget`, to another branch and back), push to their branches and
merge what they pushed (`MergeMoved`, which resolves a conflict in the evidence to either
side). The inventory lists the pull requests *into develop*, whatever their state, so that one
that was retargeted is invisible to a run until it is retargeted back.

After a feature, a commit that people added to a backmerge, or a security release, the
trees may differ or be equal (`differs' \in BOOLEAN`): features may revert what was not
promoted or port a security release.

- `OnePullRequestPerHead`: a merge commit has a second pull request only if people
  retargeted the earlier one (`astray`), whatever else failed or was closed, reopened or
  repeated.
- `ArmedIsExact`: auto-merge is enabled for another head or another target only if that
  changed after the last view (the mutation names neither; `raced` is the window that is
  left). `UploadRefIsCleaned`: the temporary ref.
- `ContractHolds`: whenever only the evidence differs, evidence and parents are what the
  promotion demands (`Contract`), over all orders of promotions, security releases, features
  and backmerges - *unless* commits of people that came to develop after the backmerge was made
  undid what differed (`others > develop.inner.dev`). In that case the promotion
  fails; see section 5.
- `ConflictsAreOvertaken`: a backmerge that is as it was made and cannot be merged has
  been overtaken by another one, merged after it was fetched; features and promotions
  never make one conflict.
- `BranchesFlow`: refinement of `BranchFlow`.
- `MainIsOffered`: every main that stays is offered in an armed pull request or a run
  failed, or a person closed or retargeted the pull request. Fairness `FairRuns`: a queued run starts, a job runs until it ends.

Run `backmerge`: two advances of each branch (two backmerges open at once) and any two
mishaps (`MaxMishaps` bounds failing calls, killed jobs and acts of people together), which is
what a second pull request takes: retarget the first and repeat the run. Run
`backmerge_waits` adds the fairness of GitHub's auto-merge and shows that waiting is not
always enough (section 5).

Left out: merging a pull request into the branch to which people retargeted it, people who
take main into develop by hand, and people who edit the evidence other than by resolving a
conflict to one of its two sides.

### RenovateAutomerge - `.github/workflows/renovate-guarded-automerge.yml`

One pull request of `renovate[bot]`. Heads are of the bot alone or contain a commit of somebody
else, and may come back (a force push to an older commit). `queued` is the at most one
waiting event, `event` the one of the running job; an event carries its actor, head and
whether its labels were fit. The guard makes its three reads without early return and
gathers `trusted`; the live check and the assertion stop at the first failure. A later
event replaces the waiting one and allows `Cancel` at any step, also in the middle of a
call (`Lost`). Base, draft state and the labels `renovate` and `dependencies` are one
Boolean, since all are tested alike. External: GitHub keeps auto-merge when somebody with write
access pushes, drops it on close and merges when it likes; events are delivered in order.

- `UnsafeIsRevoked`: once the runs are through, auto-merge is off, or the pull request is
  safe, or the last run failed. `RevokedInTime` is the promise that the runs get through;
  fairness: a waiting run starts, a job runs until it ends.
- `EnabledForExactHead`: auto-merge is only switched on for the bot's head of the bot's
  event.
- `ForcedRunRevokes`: the run of a push by somebody else revokes whatever its checks would
  say: if it was the last run, auto-merge is off or the run failed.
- `BotIsEnough`: if only the bot acts, whatever order it pushes and labels in, auto-merge
  is on in the end.

Run `renovate`: three acts of the bot (label, push, and one that takes it back), two of
people, one fault, heads `b1`, `b2` of the bot and `h1` with a foreign commit: two bot heads
are needed for a push of a person to a head that is fit. Run `renovate_push`: section 5.

### SecureFiles - `scripts/mlx90_secure_files.py`

The file operations of the release tools, as one process runs them while another edits,
replaces or removes the same directory entries. An entry holds an identity and bytes;
device, inode, mode, size and the two times of `stat` are one number that every change
renews. `snapshot_regular_file` is `OpenSource` and `TakeSnapshot` with room for edits between them;
`write_exclusive_regular` is `CreateExclusive` and `FillCreated`, which writes to the
created inode whatever the entry names by then (then the entry stays as another process left
it); `replace_regular_from_snapshot` is
`StageReplacement`, `CompareSource`, `RenameOver` and `ConfirmReplacement`. `RemoveOwn` and
`RemoveMade` are the clean-up after an exception: it unlinks *by name* what the operation and the
earlier ones have created, without a look at what the entry holds by then. Any
operation may raise and the process may be killed anywhere. The module has no next-state
relation of its own: it is the library of the next one.

### SecurityUpdate - `scripts/security-release-consumer.py`

One invocation of one of the five commands. A command is the sequence of its file
operations and decisions (`Program`), and every decision is made on private snapshots
(`snap`), never on the entries. Signed evidence, manifests, bundles, receipts,
requirements and assets are records that say what binds them: a manifest binds one
evidence file, a bundle signs one manifest, a receipt is for one evidence file and one
base. The strict JSON checks and the policy fields are the set `Approved`.

- `SnapshotsAreWhole`: nothing that is accepted mixes the bytes before and after an edit.
- `KeepsOthersFiles`: somebody else's file is replaced or removed in two windows and in no
  other. The rename of the replacement goes over the authenticated file, or over one edited
  after the last comparison. The clean-up after a failure unlinks by name, so it removes
  what another process has put into an output of the command *after* the process created
  that output and wrote to it (`PutThereSince`). What was there before the process created
  anything, an edit that the comparison saw, and a new edit of the replaced
  requirements survive.
- `OutcomeIsWhole`: receipt and requirements of a run that passed are those that
  `validate-receipt` accepts for the dispatched evidence, downloaded assets are of one
  evidence file, and a run that failed leaves nothing that it created and could remove,
  unless the requirements were replaced already.

Run `security_update`: two releases for the same update, of which one has assets that do
not verify, two versions, one edit between any two steps, two faults (an exception and
a failing removal). Every command is an initial state. There is no liveness to check: a
command has no loop.

### ReleaseEvidence - `enrich-mlx90-release-evidence.py`, `mlx90_sign_release_assets.py`

A file is the build it was made in and a mark (how many MLX-90 sections it has); digests
and cross references compare builds. `EnrichRead` is `main` up to the transaction,
`Originals`, `Stage`, `Replace`, `Sync`, `Rollback`, `RollbackSync` and `Cleanup` are
`atomic_write_outputs`, one file at a time. `EnrichRaises` is an `OSError` in any of these
calls; in the rollback a call may raise before or after its effect, and the rollback goes
on. `SemanticsHold` is what the signer checks, `Artifact` what it writes, `VerifySigned`
what its `verify` command accepts.

- `AllOrNothing`: the exit status tells the state of the three outputs. The clean-up of
  the temporary directory is in a `finally`, and an error there hides *rollback was
  incomplete* behind another one: `result = "error"` therefore promises less.

### ContainerRelease - `.github/workflows/container-build-publish.yml`

Composed with `ReleaseEvidence` by EXTENDS: `StartBuild`, `BuildStep` and `BuildRaises` are
the build job, in a fresh directory for each build. The attach job goes `attach` (draft or
immutable?), `list`, `probe` (an asset that differs resets the draft), `delete`,
`emptied`, `upload`, `final`, and then the step *Publish verified draft and require
immutable release*: `check`, `state`, `recheck`, `patch`, `poll`, `compare`, `confirm`,
`deliver`. Each is one call, or one asset of a loop. `AttachFails` is a call that fails or
a job that is cancelled, with or without the effect of the call; an upload that broke off
leaves a `Starter`, which only a person removes. `AttachAgain` repeats the failed job
with the evidence of its own run, `StartBuild` makes other evidence and needs a draft.
`ForeignChange` is a person with write access, `MakeImmutable` GitHub. Runs are serialised by the
concurrency group of the workflow. The live checks of images and tags in the registry
compare builds; tags, building and scanning before the evidence are not modelled. Two
simplifications that no property depends on: the assets are deleted in the order of their names
(in the source, in that of the listing), and `check` reads the revocations and lists the assets
in one step.

- `PublishedIsWhole`: what is published is one complete set signed in one build, unless
  an asset was changed after the listing right before the PATCH, which GitHub cannot make
  conditional.
- `DeliveredIsWhole`: what is promoted or handed on is immutable and verifies, also when
  an asset was changed in that window: then nothing is delivered.
- `UndisturbedRunSucceeds`: whatever an earlier run left in the draft, a run that nothing
  disturbs completes it, or fails for a reason that a person or GitHub has to remove
  (`Hindered`). This is a step property; it needs no fairness.
- `ReleaseGoesForward`: job, files and signatures implement `ReleaseLifecycle`, the release
  as a reader sees it: a draft is published once, as a whole set or after a lost race;
  then only a person changes an asset, and nobody once it is immutable; only an immutable
  whole release is delivered, and stays so.

Run `container_release`: two builds (evidence of an earlier build in the draft), two
faults, one repeated job, one change by a person, two polls; both kinds of releases are
initial states. With one build the reset of the draft would never take place, with one
fault no rollback could fail.

## 4. What is proved

All proofs hold for every value of the constants under the named assumptions in the
modules (bounds are naturals, sets of heads are disjoint, and the like).

| Module | Theorems | Inductive invariant |
|---|---|---|
| `LatestPromotion_proofs` | `TypeCorrect`, `CompleteSet`, `SnapshotRestored`, `StaleNeverSucceeds`, `RollbackIsRobust`, `ForeignSurvives`, `SuccessesAreFollowed`, `PromotionIsTransaction`, `RunsAreBounded` | `TransactionInv`: what is known of the tags a loop has passed: target or snapshot, or raced; for `SuccessesAreFollowed`, `HeldInv`: `holder` is the set of the snapshot wherever nobody else has written |
| `PushReady_proofs` | `TypeCorrect`, `SoundHolds`, `OnlyCheckedCommitsArePushed`, `OnlyCheckedEvidenceIsReady`, `BaseIsFresh`, `PushesAreFastForwards`, `ImplementsGate` | `Sound`: every payload, in the file, in a local or verified, names a pair the checks passed on - for any number of processes; `Bound`: what a hook has compared when it lets a push through; `PlansExist`: no plan is ahead of the base branch |
| `DevelopPromotion_proofs` | `TypeCorrect`, `ReviewedOnce`, `SucceededReviewed`, `TombstonesStay`, `PromotionImplementsFlow` | `ReviewInvariant`: what markers say, what the two inventories have seen and what the cleanup has captured agree with the reviews dispatched |
| `MainBackmerge_proofs` | `TypeCorrect`, `BackmergeOnce`, `ArmedExactly`, `UploadCleaned`, `ContractAlways`, `ConflictsOvertaken`, `BackmergeImplementsFlow` | `OneEach`: between the inventory and the creation, every pull request of the plan was retargeted; `HeadsSound`: heads, targets and branches of the open ones; `BranchesSound`: evidence and parents at the tips against the backmerges merged, and which commits of people came later; `AllDated`: evidence that replaced what a backmerge was made from is of a merge after its fetch |
| `RenovateAutomerge_proofs` | `TypeCorrect`, `UnsafeRevoked`, `EnabledExactly`, `ForcedRevocation`, `BotAloneSuffices` | `RevokeInvariant`: as long as no event waits, nothing a check has read has changed; `ForcedInvariant`: a forced run gets to no step but those of its guard and its revocation, and has revoked or failed when it ends; `BotHolds`: with only the bot acting, the waiting event, or else the last run's, reports the pull request as it is |
| `SecurityUpdate_proofs` | `TypeCorrect`, `WholeSnapshots`, `WholeOutcome`, `OthersFilesSurvive` | `Inv`: for each command and step, what was read, decided and made so far, that an identity names one content, that an entry holds what the process put there or something newer (`Owned`), and what the clean-up has left |
| `ContainerRelease_proofs` | `TypeCorrect`, `EnrichmentIsAtomic`, `PublishedSetIsWhole`, `DeliveredSetIsWhole`, `RunsComplete`, `ReleaseImplementsLifecycle` | `EvidenceInv`: which outputs are replaced at each step; `SignedInv`: a signed build is complete and never touched again; `JobInv`: what the attach job knows of the release; `RunInv`: how far an undisturbed run has brought the assets; `SumsAreSigned`: no asset claims the checksums of an unsigned build |

Why strengthening is needed: the properties speak of the end of a run, so the invariant
has to say, for each step, what the steps before it have established and which change by
somebody else can have undone it. In `RenovateAutomerge`, for instance, `UnsafeIsRevoked`
says nothing of a run in progress; `ReadsHold` says that at `enable` the pull request is
fit *unless an event waits*, and an event that waits starts another run.

Each inductive invariant was model-checked before it was proved.

A refinement theorem shows that the initial states of a module are initial states of the
abstract one and that every step is a step of it or leaves its variables alone. Most of
them need an invariant, since the abstract step has a guard that the code does not test
where it acts:

- `PromotionIsTransaction`: `TagTransaction` commits only the complete set. The code does not
  look at the set when it returns; `FinalInv` says what its final loop has seen.
- `ImplementsGate`: `PushGate` accepts only checked pairs. The hook compares its plan with
  the payload of a file; that such a payload stands for checks that passed is `Sound`.
- `ReleaseImplementsLifecycle`: in `ReleaseLifecycle` nothing but a change of an asset
  changes whether the set verifies. The builds, however, go on signing while a release is published,
  and a signature could make a set verify that did not before. It cannot, since no asset
  is the checksum file of a build before that is signed (`SumsAreSigned`).
- `BackmergeImplementsFlow`: `BranchFlow` merges a backmerge only while develop lacks main,
  and says that right after a promotion nothing but bound evidence differs; both follow from
  what `BranchesSound` says of the evidence.
- `PromotionImplementsFlow` needs none: the module has the variables of `BranchFlow`.

`RunsAreBounded` is the part of `RunsEnd` that can be proved: `StepsLeft`, a number that every
call, failure, signal or kill lowers and nobody else raises, starts at 3 calls for each
attempt on each variant, 6 for each variant and 3 more (48 for three variants and
three attempts). With the fairness of `RunStep`, `RunsEnd` follows; that last step is out of
the prover's reach, because it needs ENABLED, and stays with TLC.

`ContainerRelease_proofs` goes from the files to the release: every file is the build's own
(`FilesInv`), so the checks before signing hold (`ChecksHold`), so a signed set verifies
(`ArtifactVerifies`), and later signatures do not change it (`SigningSame`). A release is
then the set of *some* signed build (`HoldsSet`), which only a change of its assets can
end, and the job changes assets of a draft only. The loops over the assets are proved with what
holds below and above `cursor`, since the names differ pairwise (`NamesDiffer`).

Only model-checked: the liveness properties (`RunsEnd`, `ContentIsOffered`,
`MainIsOffered`, `RevokedInTime`), since fairness and ENABLED are out of the prover's
reach. What they rest on is proved where it is a safety property: `RunsAreBounded` for
`RunsEnd`, `ConflictsOvertaken` for the waiting of `MainIsOffered`, `UnsafeRevoked` and
`ForcedRevocation` for `RevokedInTime`. No proof needs induction over data; recursion is not
used. The findings of section 5 are model-checked: each is a behaviour, which TLC prints.

## 5. Where the code and the documents disagree

- `promotion_consumed`: a head whose pull request was closed "remains consumed", but a
  pull request that is retargeted before and reopened after the run closed it is in neither
  of the two inventories; the head is reviewed again.
- `backmerge_waits`: the backmerge is said to be "created or updated automatically" and
  worth waiting for, but two backmerges that are open at once write the same line; the one
  that merges first makes the other conflict for ever, and no run reports it. What is
  true, and proved, is that nothing else makes it conflict (`ConflictsOvertaken`).
- `push_clean`: evidence says `clean-head`, but the last plan is made after the last test for
  a clean checkout, so that the evidence may name the fingerprint of an edited checkout. The
  hook asks for a clean checkout when it starts, and then finds another fingerprint, unless the
  same edit is made again while it runs. What is pushed is a commit in any case, and all
  checks passed on its merge (`OnlyCheckedCommitsArePushed`, `ImplementsGate`).
- `renovate_push`: a push of a person is said to revoke auto-merge unconditionally, but the
  run that forces it is cancelled by the next event, whose run only looks at the live
  state. If the person pushed another commit of the bot, auto-merge stays on. A run that
  is not cancelled does revoke (`ForcedRevocation`), and a pull request that is not safe keeps
  its auto-merge only if the last run failed (`UnsafeRevoked`).

Each of these is a run with the expected verdict "violation"; TLC prints the behaviour.

Three more limits are stated as exceptions in properties that hold:

- The job refuses to "attach that commit to a second PR" (`sync-main-to-develop.yml:338`), but
  its inventory is of pull requests with base `develop` (307). After a person retargets the
  first, a repeated run with the same tips attaches the commit to a second one
  (`OnePullRequestPerHead`, `astray`).
- Develop can get into a state in which every promotion exits 1
  (`promote-develop-to-main.yml:127-153`) until content or main changes again: with main's
  ancestry in it, a feature makes the trees equal but for the evidence, by reverting what was not
  promoted or porting a security release, and is not the backmerge merge that the contract
  asks for at the tip. `ContractHolds` says that nothing else leads there; `DevelopPromotion`
  models the failing runs (`unbound`).
- The clean-up of the release tools removes files by name (`KeepsOthersFiles`).

## 6. Bounds

Every counter is bounded in a guard: `MaxRuns`, `MaxForeign`, `MaxFaults` (LatestPromotion);
`MaxBase`, `MaxEdits`, `MaxOthers` (PushReady); `MaxDevelop`, `MaxMain` (promotion and
backmerge), `MaxFaults`, `MaxEdits` (promotion), `MaxMishaps` (backmerge); `MaxActs`, `MaxFaults` (RenovateAutomerge); `MaxEdits`,
`MaxFaults` (SecurityUpdate); `MaxBuilds`, `MaxFaults`, `MaxRuns`, `MaxForeign` (ContainerRelease). They bound
the environment only. Of the program's own bounds `RollbackAttempts` has the value of the source;
`VariantCount` is 2 instead of 3, enough for a variant that is not the last, and `MaxPolls` 2
instead of 20, enough for an attempt that is not the last.
Deadlock is not checked (`CHECK_DEADLOCK FALSE`): when the environment has used up its acts
and no run is due, the system rests. The action coverage of the passing runs shows that
every action and disjunct takes place within the bounds; the proofs do without them.

## 7. Not modelled

The components marked `not_modelled` in `PROJECT.json`: those of the plan, numbers 11 to 15,
for now, and build, scan and developer scripts for good, because they are sequential and keep
no state. Of the container release, the jobs before the evidence (building, scanning, pushing the
images) are left out, because they only add to the registry what the release names by digest. Left out everywhere: the contents of JSON documents and signatures, whose
validation only refuses; wording, logging and layout; GitHub's and the registry's own
consistency beyond what is said above.
