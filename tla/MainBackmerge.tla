---------------------------- MODULE MainBackmerge ----------------------------
(***************************************************************************)
(* .github/workflows/sync-main-to-develop.yml: after a push to main a run  *)
(* records main's ancestry in develop.  It makes one deterministic merge   *)
(* commit of the two tips, which keeps develop's tree and writes           *)
(* .lit/main-ancestry.json, uploads it under a temporary ref, creates the  *)
(* branch named after the two tips, opens one pull request and enables its *)
(* auto-merge.                                                             *)
(*                                                                         *)
(* A run starts only after a push to main or by hand; runs are serialised, *)
(* and a push that finds one waiting replaces it.  Both branches move, and *)
(* people handle the pull requests, between any two calls.                 *)
(***************************************************************************)
EXTENDS Naturals, Sequences

CONSTANTS
    MaxDevelop,  \* bound: develop advances this often
    MaxMain,     \* bound: main advances this often
    MaxMishaps   \* bound: failing calls and killed runs, and what people do (start a run,
                 \* close, reopen, retarget, push), together

ASSUME BoundAssumption ==
    MaxDevelop \in Nat /\ MaxMain \in Nat /\ MaxMishaps \in Nat

Heads == 0 .. MaxDevelop
Mains == 0 .. MaxMain

\* A backmerge, its branch and its evidence are named by the two tips.
Pairs == [main : Mains, dev : Heads]
NoPair == [main |-> 0, dev |-> 0]

\* toDevelop: the pull request is into develop, whose recorded commit is base; exact: the
\* head is the deterministic merge commit; auto: whether both held when auto-merge was
\* enabled, and "dropped" for one that a person reopened.
PullRequests == [pair : Pairs, from : Pairs, base : Heads, toDevelop : BOOLEAN, exact : BOOLEAN,
                 status : {"open", "closed", "merged"}, auto : {"off", "exact", "moved", "dropped"}]

VARIABLES
    (* the branches *)
    develop,  \* tip: rev, newest main it has, whether it has commits main lacks,
              \* evidence, and the parents of the merge that brought the evidence
    main,     \* tip: rev and evidence
    differs,  \* the trees differ in more than the evidence
    (* GitHub *)
    ref,      \* the branch of a backmerge
    upload,   \* the temporary ref of the run exists
    prs,
    queued,   \* a run waits for the push of main
    (* the run *)
    pc, plan,
    from,     \* the evidence in the fetched develop
    pr, created,
    trapped,  \* the EXIT trap is set
    (* history, read by the properties only *)
    broken,   \* the steps of this run in which something failed
    red,      \* a run did not succeed since main is what it is
    raced,    \* pull requests moved or retargeted between the last view and the mutation
    astray,   \* pull requests that people retargeted to another branch
    others,   \* develop at its last commit that is no backmerge as the workflow made it
    (* bounds *)
    faults, edits

tips == <<develop, main, differs>>
github == <<ref, upload, prs>>
run == <<plan, from, pr, created, trapped>>
bounds == <<faults, edits>>
vars == <<tips, github, queued, pc, run, broken, red, raced, astray, others, bounds>>

Fault == faults + edits < MaxMishaps /\ faults' = faults + 1 /\ UNCHANGED edits
Edit == faults + edits < MaxMishaps /\ edits' = edits + 1 /\ UNCHANGED faults

Steps == {"fetch", "checkRef", "push", "visible", "createRef", "verify", "delete",
          "inventory", "create", "view", "arm", "enable", "cleanup"}

Init ==
    /\ develop = [rev |-> 0, has |-> 0, own |-> TRUE, note |-> NoPair,
                  outer |-> 0, inner |-> NoPair]
    /\ main = [rev |-> 0, note |-> NoPair] /\ differs = TRUE
    /\ ref = [p \in Pairs |-> "absent"] /\ upload = FALSE /\ prs = <<>> /\ queued = FALSE
    /\ pc = "idle" /\ plan = NoPair /\ from = NoPair /\ pr = 0
    /\ created = FALSE /\ trapped = FALSE
    /\ broken = {} /\ red = FALSE /\ raced = {} /\ astray = {} /\ others = 0
    /\ faults = 0 /\ edits = 0

-----------------------------------------------------------------------------
(* What the workflow looks at. *)

Numbers == 1 .. Len(prs)
Open(i) == prs[i].status = "open"
AutoMerge(i) == prs[i].auto \in {"exact", "moved"}

\* main is an ancestor of develop.
HasMain == develop.has >= main.rev

\* Mutant of Inventory: only open pull requests are listed.
OpenInventory == {i \in Numbers : prs[i].pair = plan /\ prs[i].toDevelop /\ Open(i)}

\* The pull requests of the branch into develop, whatever their state.
Inventory == {i \in Numbers : prs[i].pair = plan /\ prs[i].toDevelop}

\* Every listed pull request is of the fetched develop and the exact head.
Consistent(i) == prs[i].base = plan.dev /\ prs[i].exact

\* Mutant of Usable: the head is not compared.
UsableAnyHead(i) == Open(i) /\ prs[i].toDevelop /\ prs[i].base = plan.dev

\* The live pull request is still the planned one.
Usable(i) == Open(i) /\ prs[i].toDevelop /\ prs[i].base = plan.dev /\ prs[i].exact

\* Mutant of Arms: auto-merge is left to the run that finds the pull request.
ArmsWhatItFinds == ~created

\* Only the run that created the pull request goes on to auto-merge.
Arms == created

\* Mutant of Evidence: the evidence names the develop parent of the evidence before it.
EvidenceOfBefore(m, d) == [main |-> m, dev |-> develop.note.dev]

\* The content of .lit/main-ancestry.json.
Evidence(m, d) == [main |-> m, dev |-> d]

InDevelop(p) == \E i \in Numbers : prs[i].status = "merged" /\ prs[i].pair = p

\* GitHub has one open pull request for a branch and its target, and none without a
\* commit between them.
Offerable(p) ==
    /\ \A i \in Numbers : prs[i].pair = p /\ prs[i].toDevelop => ~Open(i)
    /\ ref[p] = "exact" => ~InDevelop(p)

-----------------------------------------------------------------------------
(* The run. *)

\* Mutant of Fail: the EXIT trap is not set.
FailWithoutTrap == pc' = "idle" /\ red' = TRUE

\* The step fails: the EXIT trap, once it is set, cleans the temporary ref.
Fail == pc' = (IF trapped THEN "cleanup" ELSE "idle") /\ red' = TRUE

Succeed == pc' = "idle" /\ UNCHANGED red
Go(next) == pc' = next /\ UNCHANGED red

\* A step without a call that changes something.
Reads == UNCHANGED <<tips, github, queued, broken, raced, astray, others, bounds>>

Begin ==
    /\ pc = "idle" /\ pc' = "fetch"
    /\ plan' = NoPair /\ from' = NoPair /\ pr' = 0 /\ created' = FALSE /\ trapped' = FALSE
    /\ upload' = FALSE /\ broken' = {}
    /\ UNCHANGED <<tips, ref, prs, red, raced, astray, others>>

\* The run of the last push to main.
StartQueued == queued /\ queued' = FALSE /\ Begin /\ UNCHANGED bounds

\* workflow_dispatch, or a job that is run again.
StartByHand == Edit /\ Begin /\ UNCHANGED queued

\* The deterministic merge commit of the two fetched tips.
Fetch ==
    /\ pc = "fetch"
    /\ plan' = [main |-> main.rev, dev |-> develop.rev] /\ from' = develop.note
    /\ IF HasMain THEN Succeed ELSE Go("checkRef")
    /\ UNCHANGED <<pr, created, trapped>> /\ Reads

\* An existing branch is used as it is, or refused.
CheckRef ==
    /\ pc = "checkRef"
    /\ \/ ref[plan] = "exact" /\ Go("inventory")
       \/ ref[plan] = "moved" /\ Fail
       \/ ref[plan] = "absent" /\ Go("push")
    /\ UNCHANGED run /\ Reads

\* The call of the step at hand.
Call ==
    \/ pc = "push" /\ upload' = TRUE /\ UNCHANGED <<ref, prs>>
    \/ /\ pc = "createRef"
       /\ ref' = [ref EXCEPT ![plan] = IF @ = "absent" THEN "exact" ELSE @]
       /\ UNCHANGED <<upload, prs>>
    \/ pc \in {"delete", "cleanup"} /\ upload' = FALSE /\ UNCHANGED <<ref, prs>>
    \/ /\ pc = "create"
       /\ prs' = IF Offerable(plan)
                 THEN Append(prs, [pair |-> plan, from |-> from, base |-> develop.rev,
                                   toDevelop |-> TRUE, exact |-> ref[plan] = "exact",
                                   status |-> "open", auto |-> "off"])
                 ELSE prs
       /\ UNCHANGED <<ref, upload>>
    \/ /\ pc = "enable"
       /\ prs' = [prs EXCEPT ![pr].auto = IF ~Open(pr) THEN @
                                          ELSE IF prs[pr].exact /\ prs[pr].toDevelop
                                               THEN "exact" ELSE "moved"]
       /\ UNCHANGED <<ref, upload>>

Push ==
    /\ pc = "push" /\ Call /\ trapped' = TRUE /\ Go("visible")
    /\ UNCHANGED <<tips, queued, plan, from, pr, created, broken, raced, astray, others, bounds>>

\* Up to five reads until the temporary ref is visible.
Visible ==
    /\ pc = "visible" /\ Go("createRef") /\ UNCHANGED run /\ Reads

\* Up to five times: POST, then read the ref.
CreateRef ==
    /\ pc = "createRef" /\ Call
    /\ IF ref'[plan] = "exact" THEN Go("verify") ELSE Fail
    /\ UNCHANGED <<tips, queued, run, broken, raced, astray, others, bounds>>

Verify ==
    /\ pc = "verify"
    /\ IF ref[plan] = "exact" THEN Go("delete") ELSE Fail
    /\ UNCHANGED run /\ Reads

Delete ==
    /\ pc = "delete" /\ Call /\ trapped' = FALSE /\ Go("inventory")
    /\ UNCHANGED <<tips, queued, plan, from, pr, created, broken, raced, astray, others, bounds>>

\* create, existing-open, closed-history or ambiguous.
ListPullRequests ==
    /\ pc = "inventory"
    /\ \/ Inventory = {} /\ Go("create") /\ UNCHANGED pr
       \/ \E i \in Inventory :
             /\ Inventory = {i} /\ Consistent(i) /\ Open(i)
             /\ pr' = i /\ Go("view")
       \/ /\ \/ \E i \in Inventory : ~Consistent(i) \/ ~Open(i)
             \/ \E i, j \in Inventory : i # j
          /\ Fail /\ UNCHANGED pr
    /\ UNCHANGED <<plan, from, created, trapped>> /\ Reads

Create ==
    /\ pc = "create" /\ Call
    /\ \/ Offerable(plan) /\ pr' = Len(prs) + 1 /\ created' = TRUE /\ Go("view")
       \/ ~Offerable(plan) /\ Fail /\ UNCHANGED <<pr, created>>
    /\ UNCHANGED <<tips, queued, plan, from, trapped, broken, raced, astray, others, bounds>>

\* A pull request of an earlier run is left as that run left it.
View ==
    /\ pc = "view"
    /\ \/ ~Usable(pr) /\ Fail
       \/ Usable(pr) /\ Arms /\ Go("arm")
       \/ Usable(pr) /\ ~Arms /\ Succeed
    /\ UNCHANGED run /\ Reads

Arm ==
    /\ pc = "arm"
    /\ \/ ~Usable(pr) /\ Fail
       \/ Usable(pr) /\ ~AutoMerge(pr) /\ Go("enable")
       \/ Usable(pr) /\ AutoMerge(pr) /\ Succeed
    /\ UNCHANGED run /\ Reads

\* The mutation names the pull request, neither its head nor its target.
Enable ==
    /\ pc = "enable" /\ Call
    /\ IF Open(pr) THEN Succeed ELSE Fail
    /\ UNCHANGED <<tips, queued, run, broken, raced, astray, others, bounds>>

\* cleanup_upload_ref_best_effort, from the EXIT trap.
Cleanup ==
    /\ pc = "cleanup" /\ Call /\ Succeed
    /\ UNCHANGED <<tips, queued, run, broken, raced, astray, others, bounds>>

RunStep ==
    \/ Fetch \/ CheckRef \/ Push \/ Visible \/ CreateRef \/ Verify \/ Delete
    \/ ListPullRequests \/ Create \/ View \/ Arm \/ Enable \/ Cleanup

-----------------------------------------------------------------------------
(* Failures. *)

\* A call fails for good; a write may have been applied all the same.  The first
\* read of the branch takes a failure for an absent branch.
CallFails ==
    /\ pc # "idle" /\ Fault
    /\ broken' = broken \union {pc}
    /\ Call \/ UNCHANGED github
    /\ \/ pc = "checkRef" /\ Go("push")
       \/ pc = "cleanup" /\ Succeed
       \/ pc \notin {"checkRef", "cleanup"} /\ Fail
    /\ UNCHANGED <<tips, queued, run, raced, astray, others>>

\* The job is cancelled or times out; bash may or may not get to its trap.
Kill ==
    /\ pc # "idle" /\ Fault
    /\ broken' = broken \union {"killed"}
    /\ red' = TRUE /\ pc' = "idle"
    /\ UNCHANGED <<tips, github, queued, run, raced, astray, others>>

-----------------------------------------------------------------------------
(* The branches. *)

\* The recorded base of an open pull request may follow develop; the pull requests
\* of `done` are merged.
Rebased(p, fresh) ==
    IF p.status = "open" /\ p.toDevelop /\ fresh THEN [p EXCEPT !.base = develop.rev + 1] ELSE p
Follow(done) ==
    \E fresh \in BOOLEAN :
       prs' = [j \in Numbers |-> IF j \in done THEN [prs[j] EXCEPT !.status = "merged"]
                                 ELSE Rebased(prs[j], fresh)]

Elsewhere == UNCHANGED <<main, ref, upload, queued, pc, run, broken, red, raced, astray, bounds>>
DevelopAdvances(done) == develop.rev < MaxDevelop /\ Follow(done) /\ Elsewhere
MainAdvances ==
    /\ main.rev < MaxMain /\ queued' = TRUE /\ red' = FALSE
    /\ UNCHANGED <<github, pc, run, broken, raced, astray, others, bounds>>

\* A feature may revert what was not promoted, or port a security release: then the trees
\* are equal afterwards.
Feature ==
    /\ DevelopAdvances({}) /\ others' = develop.rev + 1
    /\ develop' = [develop EXCEPT !.rev = @ + 1, !.own = TRUE]
    /\ differs' \in BOOLEAN

\* The evidence of develop is no longer the one the backmerge was made from: both
\* changed the same lines.
Conflicts(i) == develop.note # prs[i].from

Mergeable(i) ==
    Open(i) /\ prs[i].toDevelop /\ prs[i].exact /\ ~InDevelop(prs[i].pair) /\ ~Conflicts(i)

\* Mutant of TreeAfterMerge: without --strategy=ours develop takes what only main has.
TreeOfBoth == differs /\ develop.own

\* The merge commit keeps develop's tree.
TreeAfterMerge == differs

NewestMain(m) == IF m > develop.has THEN m ELSE develop.has

\* The protected merge of a backmerge into the tip of develop.
Merge(i) ==
    /\ Mergeable(i) /\ DevelopAdvances({i}) /\ UNCHANGED others
    /\ LET p == prs[i].pair IN
       develop' = [rev |-> develop.rev + 1, has |-> NewestMain(p.main), own |-> TRUE,
                   note |-> Evidence(p.main, p.dev), outer |-> develop.rev, inner |-> p]
    /\ differs' = TreeAfterMerge

\* A backmerge to which people pushed commits is merged: they may change anything, and
\* solve a conflict in the evidence for either side.  The second parent of the merge is
\* their commit.
MergeMoved(i) ==
    /\ Open(i) /\ prs[i].toDevelop /\ ~prs[i].exact /\ DevelopAdvances({i})
    /\ others' = develop.rev + 1 /\ differs' \in BOOLEAN
    /\ LET p == prs[i].pair
           mine == [develop EXCEPT !.rev = @ + 1, !.has = NewestMain(p.main), !.own = TRUE]
       IN \/ develop' = mine
          \/ /\ ~InDevelop(p)
             /\ develop' = [mine EXCEPT !.note = p, !.outer = develop.rev, !.inner = NoPair]

\* The merge of a promotion: its pull request needs the ancestry of main.
Promote ==
    /\ MainAdvances /\ HasMain /\ develop.own
    /\ main' = [rev |-> main.rev + 1, note |-> develop.note] /\ differs' = FALSE
    /\ develop' = [develop EXCEPT !.own = FALSE]

\* It changes main; when the trees differed it may make them equal.
SecurityRelease ==
    /\ MainAdvances
    /\ main' = [main EXCEPT !.rev = @ + 1] /\ differs' \in {TRUE, ~differs}
    /\ UNCHANGED develop

-----------------------------------------------------------------------------
(* People. *)

EditOnly == Edit /\ UNCHANGED <<tips, upload, queued, pc, run, broken, red, others>>

Close(i) ==
    /\ Open(i) /\ prs' = [prs EXCEPT ![i].status = "closed"]
    /\ UNCHANGED <<ref, raced, astray>> /\ EditOnly

Reopen(i) ==
    /\ prs[i].status = "closed" /\ (prs[i].toDevelop => Offerable(prs[i].pair))
    /\ prs' = [prs EXCEPT ![i].status = "open", ![i].auto = "dropped",
                          ![i].exact = ref[prs[i].pair] = "exact"]
    /\ UNCHANGED <<ref, raced, astray>> /\ EditOnly

\* An open pull request gets another target, or develop again.
Retarget(i) ==
    /\ Open(i) /\ (prs[i].toDevelop \/ Offerable(prs[i].pair))
    /\ prs' = [prs EXCEPT ![i].toDevelop = ~@, ![i].base = develop.rev]
    /\ astray' = astray \union {i}
    /\ raced' = IF pc = "enable" /\ pr = i THEN raced \union {i} ELSE raced
    /\ UNCHANGED ref /\ EditOnly

\* A commit is pushed to the branch of a backmerge.
Move(p) ==
    /\ ref[p] # "absent" /\ ref' = [ref EXCEPT ![p] = "moved"]
    /\ prs' = [i \in Numbers |-> IF prs[i].pair = p /\ Open(i)
                                 THEN [prs[i] EXCEPT !.exact = FALSE] ELSE prs[i]]
    /\ raced' = IF pc = "enable" /\ plan = p THEN raced \union {pr} ELSE raced
    /\ UNCHANGED astray /\ EditOnly

Next ==
    \/ StartQueued \/ StartByHand \/ RunStep \/ CallFails \/ Kill
    \/ Feature \/ Promote \/ SecurityRelease
    \/ \E i \in Numbers : Merge(i) \/ MergeMoved(i) \/ Close(i) \/ Reopen(i) \/ Retarget(i)
    \/ \E p \in Pairs : Move(p)

Spec == Init /\ [][Next]_vars

Armed(i) == Open(i) /\ AutoMerge(i)

\* A waiting run starts and a job runs until it ends.
FairRuns == Spec /\ WF_vars(StartQueued) /\ WF_vars(RunStep)

\* GitHub merges what has auto-merge and no conflict: the checks pass in the end.
FairSpec == FairRuns /\ WF_vars(\E i \in Numbers : Armed(i) /\ Merge(i))

-----------------------------------------------------------------------------
(* Properties. *)

\* Every variable keeps its type, and the run refers to pull requests that exist.
TypeOK ==
    /\ develop \in [rev : Heads, has : Mains, own : BOOLEAN, note : Pairs,
                    outer : Heads, inner : Pairs]
    /\ main \in [rev : Mains, note : Pairs] /\ differs \in BOOLEAN
    /\ ref \in [Pairs -> {"absent", "exact", "moved"}]
    /\ upload \in BOOLEAN /\ prs \in Seq(PullRequests) /\ queued \in BOOLEAN
    /\ pc \in {"idle"} \union Steps /\ plan \in Pairs /\ from \in Pairs
    /\ pr \in 0 .. Len(prs) /\ created \in BOOLEAN /\ trapped \in BOOLEAN
    /\ broken \subseteq Steps \union {"killed"} /\ red \in BOOLEAN
    /\ raced \subseteq Numbers /\ astray \subseteq Numbers /\ others \in Heads
    /\ faults \in 0 .. MaxMishaps /\ edits \in 0 .. MaxMishaps
    /\ pc \in {"view", "arm", "enable"} => pr # 0
    /\ pc \in {"visible", "createRef", "verify", "delete", "cleanup"} => trapped

\* "Never attach that commit to a second PR": whatever failed and whoever closed or
\* reopened one, a backmerge gets a second pull request only after people retargeted
\* the first, which hides it from the inventory of base=develop.
OnePullRequestPerHead ==
    \A i, j \in Numbers : prs[i].pair = prs[j].pair /\ i < j => i \in astray

\* The branch and the pull request of the merge commit are only used while they hold
\* that commit for develop: auto-merge is enabled for another head or target only if it
\* changed between the last view and the mutation, which names neither.
ArmedIsExact == \A i \in Numbers : prs[i].auto = "moved" => i \in raced

\* The temporary ref outlives a run only if the push or the clean-up itself failed,
\* or the job was killed.
UploadRefIsCleaned ==
    pc = "idle" /\ upload => broken \intersect {"push", "cleanup", "killed"} # {}

\* What the promotion workflow demands of an ancestry-only difference: the tip of develop
\* merges a backmerge of the two tips, and the evidence names them.
Contract ==
    /\ develop.outer + 1 = develop.rev
    /\ develop.inner = [main |-> main.rev, dev |-> develop.outer]
    /\ develop.note = develop.inner

\* The promotion does not fail for good on the work of the two workflows: when only the
\* evidence differs the contract holds, whatever the order of promotions, security
\* releases and backmerges, unless people's own commits to develop undid what differed
\* after the backmerge was made.
ContractHolds ==
    HasMain /\ ~differs /\ develop.note # main.note => Contract \/ others > develop.inner.dev

\* A backmerge that conflicts has been overtaken: develop's evidence is that of another
\* backmerge, merged after this one was fetched.  Neither commits of develop nor
\* promotions do that: one that is made and open alone can always be merged.
ConflictsAreOvertaken ==
    \A i \in Numbers : Open(i) /\ prs[i].exact /\ Conflicts(i) =>
       prs[i].pair.dev <= develop.outer /\ InDevelop(develop.note)

\* The branches move as the promotion workflow assumes.
Delta ==
    IF differs THEN (IF develop.own THEN "content" ELSE "behind")
    ELSE IF ~develop.own THEN "none"
    ELSE IF develop.note = main.note THEN "neutral"
    ELSE IF Contract THEN "ancestry" ELSE "unbound"
Flow == INSTANCE BranchFlow WITH develop <- develop.rev, main <- main.rev,
                                 synced <- HasMain, delta <- Delta
BranchesFlow == Flow!Spec

\* After main changes its backmerge is merged, or waits in an open pull request with
\* auto-merge, or a run says why not - unless main changes again or a person closed or
\* retargeted that pull request, whether or not it was undone.
MainIsOffered ==
    \A m \in Mains \ {0} :
       main.rev = m ~> \/ main.rev # m \/ develop.has >= m \/ red
                       \/ \E i \in Numbers :
                             /\ prs[i].pair.main = m
                             /\ \/ Armed(i) \/ ~Open(i)
                                \/ prs[i].auto = "dropped" \/ i \in astray

\* "wait for the protected backmerge": waiting is enough - a main that changes no
\* more reaches develop, unless a run fails or a person interferes.
BackmergeArrives ==
    \A m \in Mains \ {0} :
       main.rev = m ~> \/ main.rev # m \/ develop.has >= m \/ red \/ edits > 0
                       \/ develop.rev = MaxDevelop
=============================================================================
