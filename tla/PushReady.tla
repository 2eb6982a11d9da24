------------------------------ MODULE PushReady ------------------------------
(***************************************************************************)
(* scripts/lit-push-ready.py: `push-ready` runs the checks on the merge of *)
(* the local head with a freshly fetched base and writes an evidence file; *)
(* the pre-push hook lets a push through when that file still describes    *)
(* the checkout.                                                           *)
(*                                                                         *)
(* Nothing is locked.  Several runs and a hook share the checkout, the     *)
(* remote-tracking ref and the evidence file, while the developer edits,   *)
(* commits and switches branches and the base advances.  The script only   *)
(* compares fingerprints, so a step works on what an earlier step read.    *)
(***************************************************************************)
EXTENDS Naturals, FiniteSets

CONSTANTS
    Runs,        \* push-ready processes
    Hooks,       \* git pushes, each with its pre-push hook
    Branches,    \* feature branches (current_branch_ref refuses the others)
    Commits,     \* commits of the feature branches
    Ancestor,    \* pairs <<c, d>>: c is an ancestor of d, or d
    Trusted,     \* pairs <<base, commit>> with the same check-policy files
    None,        \* an absent branch or value
    NoEvidence,  \* there is no evidence file
    Torn,        \* the evidence file does not parse
    FirstTips,   \* the branch tips the checkout may start with
    MaxBase,     \* bound: the base branch is advanced this often
    MaxEdits,    \* bound: developer actions
    MaxOthers    \* bound: pushes by anybody else

Actors == Runs \union Hooks
Bases == 0 .. MaxBase   \* the commits of develop, in order
Pairs == Bases \X Commits

Changes == [base : Bases, head : Commits, dirty : BOOLEAN]
Payloads == [base : Bases, head : Commits, dirty : BOOLEAN,
             branch : Branches, integration : Pairs]
Origins == [head : Commits, branch : Branches, dirty : BOOLEAN]
Updates == [local : Branches, remote : Branches, oid : Commits,
            old : Commits \union {None}, since : Bases]

Locals == [orig : Origins \union {None}, chg : Changes \union {None},
           integ : Pairs \union {None}, pay : Payloads \union {None},
           upd : Updates \union {None}]

ASSUME BoundAssumption == MaxBase \in Nat /\ MaxEdits \in Nat /\ MaxOthers \in Nat
ASSUME ActorAssumption == Runs \intersect Hooks = {}
ASSUME CommitAssumption ==
    /\ None \notin Commits
    /\ Ancestor \subseteq Commits \X Commits
    /\ Trusted \subseteq Pairs
    /\ FirstTips \subseteq [Branches -> Commits]
ASSUME EvidenceAssumption ==
    /\ NoEvidence \notin Payloads /\ Torn \notin Payloads /\ NoEvidence # Torn
    /\ None \notin Origins \union Changes \union Pairs \union Payloads \union Updates

VARIABLES
    (* the remote repository *)
    develop,   \* the tip of the base branch
    remote,    \* the tips of the feature branches
    (* the checkout and its git directory *)
    baseRef,   \* refs/remotes/origin/develop
    tip, cur,  \* local branches; the branch HEAD is attached to
    dirty,     \* staged, unstaged or untracked changes
    scratch,   \* actors whose integration directory is below the checkout
    evidence,  \* lit-push-ready-evidence.json
    (* the actors *)
    pc,
    my,        \* an actor's locals, None when they are not read again
    (* history, read by the properties only *)
    passed,    \* the pairs all checks passed on
    (* bounds *)
    edits, others

remoteVars == <<develop, remote>>
treeVars == <<tip, cur, dirty>>
bounds == <<edits, others>>
vars == <<remoteVars, baseRef, treeVars, scratch, evidence,
          pc, my, passed, bounds>>

RunSteps == {"refresh", "plan", "checks", "recheck", "replan", "write", "writing",
             "ready"}
HookSteps == {"clean", "hookRefresh", "updates", "send"}
VerifySteps == {"read", "vplan", "vmerge", "compare"}
Verified == {"ready", "updates", "send"}   \* after verify_evidence

\* orig: original_head, original_branch, original_tree_fingerprint;
\* chg: the PlannedChange at hand; integ: the parents of the integration_commit
\* the checks ran on; pay: the payload written, or read and verified; upd: the
\* ref update git is about to send, and the base branch when the push began.
Nothing == [orig |-> None, chg |-> None, integ |-> None, pay |-> None, upd |-> None]

\* The steps before which a local is set.
LocalsAt(a) ==
    /\ pc[a] \in RunSteps => a \in Runs
    /\ pc[a] \in HookSteps => a \in Hooks
    /\ pc[a] \in HookSteps \union (IF a \in Hooks THEN VerifySteps ELSE {})
          <=> my[a].upd # None
    /\ pc[a] \in {"refresh", "plan", "checks", "recheck"} <=> my[a].orig # None
    /\ pc[a] \in {"checks", "write", "writing", "vmerge", "compare"} \union Verified
          <=> my[a].chg # None
    /\ pc[a] \in {"recheck", "replan", "write", "writing"} <=> my[a].integ # None
    /\ pc[a] \in {"writing", "vplan", "vmerge", "compare"} \union Verified
          <=> my[a].pay # None

HEAD == tip[cur]
Clean == ~dirty /\ scratch = {}

Init ==
    /\ develop = 0 /\ baseRef = 0
    /\ remote = [b \in Branches |-> None]
    /\ tip \in FirstTips /\ cur \in Branches /\ dirty = FALSE
    /\ scratch = {} /\ evidence = NoEvidence
    /\ pc = [a \in Actors |-> "idle"] /\ my = [a \in Actors |-> Nothing]
    /\ passed = {}
    /\ edits = 0 /\ others = 0

-----------------------------------------------------------------------------
(* What the steps compute. *)

\* planned_change: two equal fingerprints enclose the reads, so that they are one
\* snapshot.  An integration directory in the checkout is an untracked entry that
\* is no regular file, and the fingerprint raises.
Planned == [base |-> baseRef, head |-> HEAD, dirty |-> dirty]

\* tree_fingerprint() == change.tree_fingerprint
FingerprintIs(c) == scratch = {} /\ HEAD = c.head /\ dirty = c.dirty

Integration(c) == <<c.base, c.head>>

\* The payload of write_evidence: the branch is read when it is written, the
\* integration is the one the checks ran on, the rest is the second PlannedChange.
Payload(a) ==
    [base |-> my[a].chg.base, head |-> my[a].chg.head, dirty |-> my[a].chg.dirty,
     branch |-> cur, integration |-> my[a].integ]

\* Mutant of Matches: integration_tree and integration_commit are not compared.
MatchesWithoutIntegration(p, c) ==
    p.base = c.base /\ p.head = c.head /\ p.dirty = c.dirty /\ p.branch = cur

\* verify_evidence: every expected field equals the recorded one.
Matches(p, c) ==
    /\ p.base = c.base /\ p.head = c.head /\ p.dirty = c.dirty
    /\ p.branch = cur
    /\ p.integration = Integration(c)

\* Mutant of Authorized: the pushed commit is not compared with the evidence.
AuthorizedAnyCommit(p, u) ==
    /\ u.local = p.branch /\ u.remote = p.branch
    /\ u.old # None => <<u.old, u.oid>> \in Ancestor

\* Mutant of Authorized: a non-fast-forward update is let through.
AuthorizedAnyUpdate(p, u) ==
    u.local = p.branch /\ u.remote = p.branch /\ u.oid = p.head

\* Mutant of Authorized: the branch that is written is not compared.
AuthorizedAnyBranch(p, u) ==
    /\ u.local = p.branch /\ u.oid = p.head
    /\ u.old # None => <<u.old, u.oid>> \in Ancestor

\* verify_pre_push_updates, for the one update line.
Authorized(p, u) ==
    /\ u.local = p.branch /\ u.remote = p.branch
    /\ u.oid = p.head
    /\ u.old # None => <<u.old, u.oid>> \in Ancestor

-----------------------------------------------------------------------------
(* Shared by the steps. *)

At(a, step) == pc[a] = step
Goto(a, step) == pc' = [pc EXCEPT ![a] = step]
Exit(a) == Goto(a, "idle") /\ my' = [my EXCEPT ![a] = Nothing]

\* Mutant of Fetch: the tracking ref is left as it is.
FetchSkipped == UNCHANGED baseRef

\* refresh_authoritative_base
Fetch == baseRef' = develop

\* planned_change
Plan(a) == scratch = {} /\ my' = [my EXCEPT ![a].chg = Planned]

-----------------------------------------------------------------------------
(* A push-ready run. *)

\* require_clean_head, then the original head, branch and fingerprint.
Begin(a) ==
    /\ a \in Runs /\ At(a, "idle") /\ Clean
    /\ my' = [my EXCEPT ![a].orig = [head |-> HEAD, branch |-> cur, dirty |-> dirty]]
    /\ Goto(a, "refresh")
    /\ UNCHANGED <<remoteVars, baseRef, treeVars, scratch, evidence, passed, bounds>>

Refresh(a) ==
    /\ At(a, "refresh") /\ Fetch /\ Goto(a, "plan")
    /\ UNCHANGED <<remoteVars, treeVars, scratch, evidence, my, passed, bounds>>

\* planned_change and require_trusted_check_policy; the integration checkout is
\* then created below the checkout.
PlanChange(a) ==
    /\ At(a, "plan") /\ Plan(a) /\ Integration(Planned) \in Trusted
    /\ scratch' = scratch \union {a} /\ Goto(a, "checks")
    /\ UNCHANGED <<remoteVars, baseRef, treeVars, evidence, passed, bounds>>

\* Every check passes on the synthetic merge commit; its checkout is removed.
ChecksPass(a) ==
    /\ At(a, "checks")
    /\ my' = [my EXCEPT ![a].integ = Integration(my[a].chg), ![a].chg = None]
    /\ passed' = passed \union {Integration(my[a].chg)}
    /\ scratch' = scratch \ {a} /\ Goto(a, "recheck")
    /\ UNCHANGED <<remoteVars, baseRef, treeVars, evidence, bounds>>

Recheck(a) ==
    /\ At(a, "recheck") /\ Clean
    /\ my[a].orig = [head |-> HEAD, branch |-> cur, dirty |-> dirty]
    /\ my' = [my EXCEPT ![a].orig = None] /\ Goto(a, "replan")
    /\ UNCHANGED <<remoteVars, baseRef, treeVars, scratch, evidence, passed, bounds>>

\* The second planned_change reads the base again.  run_agent_reviews compares
\* fingerprints and starts no reviewer.
Replan(a) ==
    /\ At(a, "replan") /\ Plan(a) /\ Goto(a, "write")
    /\ UNCHANGED <<remoteVars, baseRef, treeVars, scratch, evidence, passed, bounds>>

\* write_evidence: the fingerprint is compared, the payload built, the file
\* truncated.
WriteBegin(a) ==
    /\ At(a, "write") /\ FingerprintIs(my[a].chg)
    /\ my' = [my EXCEPT ![a].pay = Payload(a)]
    /\ evidence' = Torn /\ Goto(a, "writing")
    /\ UNCHANGED <<remoteVars, baseRef, treeVars, scratch, passed, bounds>>

\* The text is written.  Over what another run wrote since the truncation, the
\* two texts may also mix.
WriteEnd(a) ==
    /\ At(a, "writing")
    /\ evidence' \in {my[a].pay} \union (IF evidence = Torn THEN {} ELSE {Torn})
    /\ my' = [my EXCEPT ![a] = Nothing] /\ Goto(a, "read")
    /\ UNCHANGED <<remoteVars, baseRef, treeVars, scratch, passed, bounds>>

-----------------------------------------------------------------------------
(* verify_evidence, called by the run and by the hook. *)

ReadEvidence(a) ==
    /\ At(a, "read") /\ evidence \notin {NoEvidence, Torn}
    /\ my' = [my EXCEPT ![a].pay = evidence] /\ Goto(a, "vplan")
    /\ UNCHANGED <<remoteVars, baseRef, treeVars, scratch, evidence, passed, bounds>>

VerifyPlan(a) ==
    /\ At(a, "vplan") /\ Plan(a) /\ Integration(Planned) \in Trusted
    /\ Goto(a, "vmerge")
    /\ UNCHANGED <<remoteVars, baseRef, treeVars, scratch, evidence, passed, bounds>>

\* expected_integration_tree merges again, in a directory below the checkout.
VerifyMerge(a) ==
    /\ At(a, "vmerge")
    /\ scratch' = scratch \union {a} /\ Goto(a, "compare")
    /\ UNCHANGED <<remoteVars, baseRef, treeVars, evidence, my, passed, bounds>>

Compare(a) ==
    /\ At(a, "compare") /\ Matches(my[a].pay, my[a].chg)
    /\ scratch' = scratch \ {a}
    /\ \/ a \in Hooks /\ Goto(a, "updates")
       \/ a \in Runs /\ Goto(a, "ready")
    /\ UNCHANGED <<remoteVars, baseRef, treeVars, evidence, my, passed, bounds>>

\* The run prints the evidence path and returns 0.
Report(a) ==
    /\ At(a, "ready") /\ Exit(a)
    /\ UNCHANGED <<remoteVars, baseRef, treeVars, scratch, evidence, passed, bounds>>

-----------------------------------------------------------------------------
(* git push and its pre-push hook. *)

\* git resolves the local ref and reads the remote's refs, then runs the hook.
Push(a, b, d) ==
    /\ a \in Hooks /\ At(a, "idle")
    /\ my' = [my EXCEPT ![a].upd = [local |-> b, remote |-> d, oid |-> tip[b],
                                    old |-> remote[d], since |-> develop]]
    /\ Goto(a, "clean")
    /\ UNCHANGED <<remoteVars, baseRef, treeVars, scratch, evidence, passed, bounds>>

HookClean(a) ==
    /\ At(a, "clean") /\ Clean /\ Goto(a, "hookRefresh")
    /\ UNCHANGED <<remoteVars, baseRef, treeVars, scratch, evidence, my, passed, bounds>>

HookRefresh(a) ==
    /\ At(a, "hookRefresh") /\ Fetch /\ Goto(a, "read")
    /\ UNCHANGED <<remoteVars, treeVars, scratch, evidence, my, passed, bounds>>

CheckUpdates(a) ==
    /\ At(a, "updates") /\ Authorized(my[a].pay, my[a].upd) /\ Goto(a, "send")
    /\ UNCHANGED <<remoteVars, baseRef, treeVars, scratch, evidence, my, passed, bounds>>

\* The server updates the ref only if it still holds the advertised value.
Send(a) ==
    /\ At(a, "send") /\ Exit(a)
    /\ LET u == my[a].upd IN
       remote' = IF remote[u.remote] = u.old
                 THEN [remote EXCEPT ![u.remote] = u.oid] ELSE remote
    /\ UNCHANGED <<develop, baseRef, treeVars, scratch, evidence, passed, bounds>>

-----------------------------------------------------------------------------
(* Failures.  Every check that does not hold, every failing command and every
   timeout ends the process with status 1 through the finally clauses.        *)

Fail(a) ==
    /\ ~At(a, "idle") /\ Exit(a)
    /\ scratch' = scratch \ {a}
    /\ UNCHANGED <<remoteVars, baseRef, treeVars, evidence, passed, bounds>>

\* A killed process leaves its integration directory behind.
Kill(a) ==
    /\ ~At(a, "idle") /\ Exit(a) /\ a \in scratch
    /\ UNCHANGED <<remoteVars, baseRef, treeVars, scratch, evidence, passed, bounds>>

\* Somebody removes the directories of killed processes.
Tidy ==
    /\ scratch' = {a \in scratch : ~At(a, "idle")}
    /\ UNCHANGED <<remoteVars, baseRef, treeVars, evidence, pc, my, passed, bounds>>

-----------------------------------------------------------------------------
(* The developer and the rest of the world. *)

Developer ==
    /\ edits < MaxEdits /\ edits' = edits + 1
    /\ \/ dirty' = ~dirty /\ UNCHANGED <<tip, cur>>
       \/ /\ \E b \in Branches \ {cur} : cur' = b
          /\ UNCHANGED <<tip, dirty>>
       \/ /\ \E c \in Commits \ {HEAD} : tip' = [tip EXCEPT ![cur] = c]
          /\ dirty' \in {dirty, FALSE} /\ UNCHANGED cur
    /\ UNCHANGED <<remoteVars, baseRef, scratch, evidence, pc, my, passed, others>>

BaseAdvances ==
    /\ develop < MaxBase /\ develop' = develop + 1
    /\ UNCHANGED <<remote, baseRef, treeVars, scratch, evidence, pc, my, passed, bounds>>

OtherPush(b, c) ==
    /\ others < MaxOthers /\ others' = others + 1
    /\ remote' = [remote EXCEPT ![b] = c]
    /\ UNCHANGED <<develop, baseRef, treeVars, scratch, evidence, pc, my, passed, edits>>

Next ==
    \/ \E a \in Actors :
          \/ Begin(a) \/ Refresh(a) \/ PlanChange(a) \/ ChecksPass(a) \/ Recheck(a)
          \/ Replan(a) \/ WriteBegin(a) \/ WriteEnd(a)
          \/ ReadEvidence(a) \/ VerifyPlan(a) \/ VerifyMerge(a) \/ Compare(a) \/ Report(a)
          \/ HookClean(a) \/ HookRefresh(a) \/ CheckUpdates(a) \/ Send(a)
          \/ Fail(a) \/ Kill(a)
          \/ \E b, d \in Branches : Push(a, b, d)
    \/ Tidy \/ Developer \/ BaseAdvances
    \/ \E b \in Branches, c \in Commits : OtherPush(b, c)

Spec == Init /\ [][Next]_vars

-----------------------------------------------------------------------------
(* Properties. *)

WorldOK ==
    /\ develop \in Bases /\ baseRef \in Bases /\ baseRef <= develop
    /\ remote \in [Branches -> Commits \union {None}]
    /\ tip \in [Branches -> Commits] /\ cur \in Branches /\ dirty \in BOOLEAN
    /\ scratch \subseteq Actors /\ passed \subseteq Pairs
    /\ evidence \in Payloads \union {NoEvidence, Torn}
    /\ edits \in 0 .. MaxEdits /\ others \in 0 .. MaxOthers

\* Every variable keeps its type, a process holds exactly the locals its later
\* steps read, and the tracking ref never runs ahead of the base branch.
TypeOK ==
    /\ WorldOK
    /\ pc \in [Actors -> {"idle"} \union RunSteps \union HookSteps \union VerifySteps]
    /\ my \in [Actors -> Locals]
    /\ \A a \in Actors : LocalsAt(a)

\* A hook only lets a commit through if all checks passed on the merge of that
\* very commit with the base the hook planned with, whichever run did it and
\* whatever happened to the checkout, the base and the file meanwhile.
CheckedPush ==
    \A a \in Hooks : At(a, "send") => <<my[a].chg.base, my[a].upd.oid>> \in passed

\* That base is no older than the base branch was when the push began.
FreshBase ==
    \A a \in Hooks : At(a, "send") => my[a].chg.base >= my[a].upd.since

\* A run that reports "ready" verified evidence whose own base and head are the
\* ones the checks passed on, though two runs may write the file at once.
ReadyMeansChecked ==
    \A a \in Runs : At(a, "ready") => <<my[a].pay.base, my[a].pay.head>> \in passed

\* A push through the hook never drops commits of the remote branch, although the
\* remote may move while the hook runs.
RemoteOnlyGrows ==
    [][\A b \in Branches :
          remote'[b] # remote[b] /\ others' = others /\ remote[b] # None
            => <<remote[b], remote'[b]>> \in Ancestor]_vars

\* Everything that runs on the checkout amounts to checks and to pushes of what was
\* checked, each against a base at least as fresh as the push.
Gate == INSTANCE PushGate WITH pushing <- [h \in Hooks |-> my[h].upd]
PushesPassTheGate == Gate!Spec

\* "Require that a push can transfer exactly the state being evaluated": evidence
\* that a run reports as ready describes a clean checkout.
ReadyMeansClean == \A a \in Runs : At(a, "ready") => ~my[a].pay.dirty
=============================================================================
