-------------------------- MODULE PushReady_proofs --------------------------
(***************************************************************************)
(* Proofs about PushReady for any number of runs, hooks, branches, commits *)
(* and disturbances.                                                       *)
(***************************************************************************)
EXTENDS PushReady, TLAPS

MyOK == my \in [Actors -> Locals]

-----------------------------------------------------------------------------
(* Setting a local leaves the other locals, and the other actors, alone. *)

\* The state a run began with is recorded.
LEMMA OrigSet ==
    ASSUME MyOK, NEW a \in Actors, NEW v,
           my' = [my EXCEPT ![a].orig = v]
    PROVE  /\ v \in Origins \union {None} => MyOK'
           /\ my'[a].orig = v
           /\ my'[a].chg = my[a].chg
           /\ my'[a].integ = my[a].integ
           /\ my'[a].pay = my[a].pay
           /\ my'[a].upd = my[a].upd
           /\ \A x \in Actors \ {a} : my'[x] = my[x]
  BY DEF MyOK, Locals

\* A PlannedChange is recorded.
LEMMA ChgSet ==
    ASSUME MyOK, NEW a \in Actors, NEW v,
           my' = [my EXCEPT ![a].chg = v]
    PROVE  /\ v \in Changes \union {None} => MyOK'
           /\ my'[a].orig = my[a].orig
           /\ my'[a].chg = v
           /\ my'[a].integ = my[a].integ
           /\ my'[a].pay = my[a].pay
           /\ my'[a].upd = my[a].upd
           /\ \A x \in Actors \ {a} : my'[x] = my[x]
  BY DEF MyOK, Locals

\* What the checks ran on is recorded.
LEMMA IntegSet ==
    ASSUME MyOK, NEW a \in Actors, NEW v,
           my' = [my EXCEPT ![a].integ = v, ![a].chg = None]
    PROVE  /\ v \in Pairs \union {None} => MyOK'
           /\ my'[a].orig = my[a].orig
           /\ my'[a].chg = None
           /\ my'[a].integ = v
           /\ my'[a].pay = my[a].pay
           /\ my'[a].upd = my[a].upd
           /\ \A x \in Actors \ {a} : my'[x] = my[x]
  BY DEF MyOK, Locals

\* A payload is recorded.
LEMMA PaySet ==
    ASSUME MyOK, NEW a \in Actors, NEW v,
           my' = [my EXCEPT ![a].pay = v]
    PROVE  /\ v \in Payloads \union {None} => MyOK'
           /\ my'[a].orig = my[a].orig
           /\ my'[a].chg = my[a].chg
           /\ my'[a].integ = my[a].integ
           /\ my'[a].pay = v
           /\ my'[a].upd = my[a].upd
           /\ \A x \in Actors \ {a} : my'[x] = my[x]
  BY DEF MyOK, Locals

\* A ref update is recorded.
LEMMA UpdSet ==
    ASSUME MyOK, NEW a \in Actors, NEW v,
           my' = [my EXCEPT ![a].upd = v]
    PROVE  /\ v \in Updates \union {None} => MyOK'
           /\ my'[a].orig = my[a].orig
           /\ my'[a].chg = my[a].chg
           /\ my'[a].integ = my[a].integ
           /\ my'[a].pay = my[a].pay
           /\ my'[a].upd = v
           /\ \A x \in Actors \ {a} : my'[x] = my[x]
  BY DEF MyOK, Locals

\* A process exits, or drops all its locals.
LEMMA Forget ==
    ASSUME MyOK, NEW a \in Actors, my' = [my EXCEPT ![a] = Nothing]
    PROVE  /\ MyOK' /\ my'[a] = Nothing
           /\ my'[a].orig = None /\ my'[a].chg = None /\ my'[a].integ = None
           /\ my'[a].pay = None /\ my'[a].upd = None
           /\ \A x \in Actors \ {a} : my'[x] = my[x]
  BY DEF MyOK, Locals, Nothing

PcOK == pc \in [Actors -> {"idle"} \union RunSteps \union HookSteps \union VerifySteps]

\* A step of the process sets its own program counter only.
LEMMA PcSet ==
    ASSUME PcOK, NEW a \in Actors, NEW s, Goto(a, s),
           s \in {"idle"} \union RunSteps \union HookSteps \union VerifySteps
    PROVE  /\ PcOK' /\ pc'[a] = s
           /\ \A x \in Actors \ {a} : pc'[x] = pc[x]
  BY DEF PcOK, Goto

\* LocalsAt of the other processes is kept.
LEMMA OthersKeep ==
    ASSUME NEW x \in Actors, LocalsAt(x), pc'[x] = pc[x], my'[x] = my[x]
    PROVE  LocalsAt(x)'
  BY DEF LocalsAt

-----------------------------------------------------------------------------
(* Type correctness. *)

\* TypeOK: a process holds exactly the locals its later steps read.
THEOREM TypeCorrect == Spec => []TypeOK
<1>1. Init => TypeOK
  <2> SUFFICES ASSUME Init PROVE TypeOK
    OBVIOUS
  <2> USE DEF Init
  <2>1. WorldOK
    <3>1. 0 \in Bases /\ edits \in 0 .. MaxEdits /\ others \in 0 .. MaxOthers
      BY BoundAssumption DEF Bases
    <3>2. tip \in [Branches -> Commits]
      BY CommitAssumption
    <3>3. remote \in [Branches -> Commits \union {None}]
      OBVIOUS
    <3>4. develop \in Bases /\ baseRef \in Bases /\ baseRef <= develop
      BY <3>1
    <3>5. scratch \subseteq Actors /\ passed \subseteq Pairs
      OBVIOUS
    <3> QED BY <3>1, <3>2, <3>3, <3>4, <3>5 DEF WorldOK
  <2>2. pc \in [Actors -> {"idle"} \union RunSteps \union HookSteps \union VerifySteps]
    OBVIOUS
  <2>3. my \in [Actors -> Locals]
    BY DEF Nothing, Locals
  <2>4. ASSUME NEW a \in Actors PROVE LocalsAt(a)
    BY DEF LocalsAt, Nothing, RunSteps, HookSteps, VerifySteps, Verified
  <2> QED BY <2>1, <2>2, <2>3, <2>4 DEF TypeOK
<1>2. TypeOK /\ [Next]_vars => TypeOK'
  <2> SUFFICES ASSUME TypeOK, [Next]_vars PROVE TypeOK'
    OBVIOUS
  <2> USE DEF TypeOK
  <2>1. ASSUME NEW a \in Actors, Begin(a) PROVE TypeOK'
    <3> USE <2>1 DEF Begin, At, HEAD
    <3>1. WorldOK'
      BY DEF WorldOK, remoteVars, treeVars, bounds
    <3>v. [head |-> HEAD, branch |-> cur, dirty |-> dirty] \in Origins /\ [head |-> HEAD, branch |-> cur, dirty |-> dirty] # None
      BY EvidenceAssumption DEF Origins, WorldOK, HEAD
    <3>2. /\ MyOK' /\ \A x \in Actors \ {a} : my'[x] = my[x]
          /\ my'[a].orig = [head |-> HEAD, branch |-> cur, dirty |-> dirty]
          /\ my'[a].chg = my[a].chg
          /\ my'[a].integ = my[a].integ
          /\ my'[a].pay = my[a].pay
          /\ my'[a].upd = my[a].upd
      BY <3>v, OrigSet DEF MyOK
    <3>3. PcOK' /\ pc'[a] = "refresh" /\ \A x \in Actors \ {a} : pc'[x] = pc[x]
      BY DEF PcOK, Goto, RunSteps, HookSteps, VerifySteps
    <3>5. LocalsAt(a)'
      BY <3>2, <3>3, ActorAssumption, <3>v DEF LocalsAt, Nothing, Actors, RunSteps, HookSteps, VerifySteps, Verified
    <3>6. ASSUME NEW x \in Actors, x # a PROVE LocalsAt(x)'
      BY <3>2, <3>3, <3>6, OthersKeep
    <3> QED BY <3>1, <3>2, <3>3, <3>5, <3>6 DEF MyOK, PcOK
  <2>2. ASSUME NEW a \in Actors, Refresh(a) PROVE TypeOK'
    <3> USE <2>2 DEF Refresh, At, Fetch
    <3>1. WorldOK'
      BY BoundAssumption DEF Bases, WorldOK, remoteVars, treeVars, bounds
    <3>2. MyOK' /\ my' = my
      BY DEF MyOK
    <3>3. PcOK' /\ pc'[a] = "plan" /\ \A x \in Actors \ {a} : pc'[x] = pc[x]
      BY DEF PcOK, Goto, RunSteps, HookSteps, VerifySteps
    <3>5. LocalsAt(a)'
      BY <3>2, <3>3, ActorAssumption DEF LocalsAt, Nothing, Actors, RunSteps, HookSteps, VerifySteps, Verified
    <3>6. ASSUME NEW x \in Actors, x # a PROVE LocalsAt(x)'
      BY <3>2, <3>3, <3>6, OthersKeep
    <3> QED BY <3>1, <3>2, <3>3, <3>5, <3>6 DEF MyOK, PcOK
  <2>3. ASSUME NEW a \in Actors, PlanChange(a) PROVE TypeOK'
    <3> USE <2>3 DEF PlanChange, At, Plan
    <3>1. WorldOK'
      BY DEF WorldOK, remoteVars, treeVars, bounds
    <3>v. Planned \in Changes /\ Planned # None
      BY EvidenceAssumption DEF Changes, WorldOK, HEAD, Planned
    <3>2. /\ MyOK' /\ \A x \in Actors \ {a} : my'[x] = my[x]
          /\ my'[a].orig = my[a].orig
          /\ my'[a].chg = Planned
          /\ my'[a].integ = my[a].integ
          /\ my'[a].pay = my[a].pay
          /\ my'[a].upd = my[a].upd
      BY <3>v, ChgSet DEF MyOK
    <3>3. PcOK' /\ pc'[a] = "checks" /\ \A x \in Actors \ {a} : pc'[x] = pc[x]
      BY DEF PcOK, Goto, RunSteps, HookSteps, VerifySteps
    <3>5. LocalsAt(a)'
      BY <3>2, <3>3, ActorAssumption, <3>v DEF LocalsAt, Nothing, Actors, RunSteps, HookSteps, VerifySteps, Verified
    <3>6. ASSUME NEW x \in Actors, x # a PROVE LocalsAt(x)'
      BY <3>2, <3>3, <3>6, OthersKeep
    <3> QED BY <3>1, <3>2, <3>3, <3>5, <3>6 DEF MyOK, PcOK
  <2>4. ASSUME NEW a \in Actors, ChecksPass(a) PROVE TypeOK'
    <3> USE <2>4 DEF ChecksPass, At, Integration
    <3>v. Integration(my[a].chg) \in Pairs /\ Integration(my[a].chg) # None
      BY EvidenceAssumption DEF Pairs, Changes, Locals, LocalsAt
    <3>2. /\ MyOK' /\ \A x \in Actors \ {a} : my'[x] = my[x]
          /\ my'[a].orig = my[a].orig
          /\ my'[a].chg = None
          /\ my'[a].integ = Integration(my[a].chg)
          /\ my'[a].pay = my[a].pay
          /\ my'[a].upd = my[a].upd
      BY <3>v, IntegSet DEF MyOK
    <3>1. WorldOK'
      BY <3>v DEF WorldOK, remoteVars, treeVars, bounds
    <3>3. PcOK' /\ pc'[a] = "recheck" /\ \A x \in Actors \ {a} : pc'[x] = pc[x]
      BY DEF PcOK, Goto, RunSteps, HookSteps, VerifySteps
    <3>5. LocalsAt(a)'
      BY <3>2, <3>3, ActorAssumption, <3>v DEF LocalsAt, Nothing, Actors, RunSteps, HookSteps, VerifySteps, Verified
    <3>6. ASSUME NEW x \in Actors, x # a PROVE LocalsAt(x)'
      BY <3>2, <3>3, <3>6, OthersKeep
    <3> QED BY <3>1, <3>2, <3>3, <3>5, <3>6 DEF MyOK, PcOK
  <2>5. ASSUME NEW a \in Actors, Recheck(a) PROVE TypeOK'
    <3> USE <2>5 DEF Recheck, At, HEAD
    <3>1. WorldOK'
      BY DEF WorldOK, remoteVars, treeVars, bounds
    <3>v. None \in Origins \union {None}
      OBVIOUS
    <3>2. /\ MyOK' /\ \A x \in Actors \ {a} : my'[x] = my[x]
          /\ my'[a].orig = None
          /\ my'[a].chg = my[a].chg
          /\ my'[a].integ = my[a].integ
          /\ my'[a].pay = my[a].pay
          /\ my'[a].upd = my[a].upd
      BY <3>v, OrigSet DEF MyOK
    <3>3. PcOK' /\ pc'[a] = "replan" /\ \A x \in Actors \ {a} : pc'[x] = pc[x]
      BY DEF PcOK, Goto, RunSteps, HookSteps, VerifySteps
    <3>5. LocalsAt(a)'
      BY <3>2, <3>3, ActorAssumption, <3>v DEF LocalsAt, Nothing, Actors, RunSteps, HookSteps, VerifySteps, Verified
    <3>6. ASSUME NEW x \in Actors, x # a PROVE LocalsAt(x)'
      BY <3>2, <3>3, <3>6, OthersKeep
    <3> QED BY <3>1, <3>2, <3>3, <3>5, <3>6 DEF MyOK, PcOK
  <2>6. ASSUME NEW a \in Actors, Replan(a) PROVE TypeOK'
    <3> USE <2>6 DEF Replan, At, Plan
    <3>1. WorldOK'
      BY DEF WorldOK, remoteVars, treeVars, bounds
    <3>v. Planned \in Changes /\ Planned # None
      BY EvidenceAssumption DEF Changes, WorldOK, HEAD, Planned
    <3>2. /\ MyOK' /\ \A x \in Actors \ {a} : my'[x] = my[x]
          /\ my'[a].orig = my[a].orig
          /\ my'[a].chg = Planned
          /\ my'[a].integ = my[a].integ
          /\ my'[a].pay = my[a].pay
          /\ my'[a].upd = my[a].upd
      BY <3>v, ChgSet DEF MyOK
    <3>3. PcOK' /\ pc'[a] = "write" /\ \A x \in Actors \ {a} : pc'[x] = pc[x]
      BY DEF PcOK, Goto, RunSteps, HookSteps, VerifySteps
    <3>5. LocalsAt(a)'
      BY <3>2, <3>3, ActorAssumption, <3>v DEF LocalsAt, Nothing, Actors, RunSteps, HookSteps, VerifySteps, Verified
    <3>6. ASSUME NEW x \in Actors, x # a PROVE LocalsAt(x)'
      BY <3>2, <3>3, <3>6, OthersKeep
    <3> QED BY <3>1, <3>2, <3>3, <3>5, <3>6 DEF MyOK, PcOK
  <2>7. ASSUME NEW a \in Actors, WriteBegin(a) PROVE TypeOK'
    <3> USE <2>7 DEF WriteBegin, At, FingerprintIs
    <3>1. WorldOK'
      BY DEF WorldOK, remoteVars, treeVars, bounds
    <3>v. Payload(a) \in Payloads /\ Payload(a) # None
      BY EvidenceAssumption DEF Payloads, Payload, LocalsAt, Locals, Changes, WorldOK
    <3>2. /\ MyOK' /\ \A x \in Actors \ {a} : my'[x] = my[x]
          /\ my'[a].orig = my[a].orig
          /\ my'[a].chg = my[a].chg
          /\ my'[a].integ = my[a].integ
          /\ my'[a].pay = Payload(a)
          /\ my'[a].upd = my[a].upd
      BY <3>v, PaySet DEF MyOK
    <3>3. PcOK' /\ pc'[a] = "writing" /\ \A x \in Actors \ {a} : pc'[x] = pc[x]
      BY DEF PcOK, Goto, RunSteps, HookSteps, VerifySteps
    <3>5. LocalsAt(a)'
      BY <3>2, <3>3, ActorAssumption, <3>v DEF LocalsAt, Nothing, Actors, RunSteps, HookSteps, VerifySteps, Verified
    <3>6. ASSUME NEW x \in Actors, x # a PROVE LocalsAt(x)'
      BY <3>2, <3>3, <3>6, OthersKeep
    <3> QED BY <3>1, <3>2, <3>3, <3>5, <3>6 DEF MyOK, PcOK
  <2>8. ASSUME NEW a \in Actors, WriteEnd(a) PROVE TypeOK'
    <3> USE <2>8 DEF WriteEnd, At
    <3>1. WorldOK'
      <4>1. my[a].pay \in Payloads
        BY DEF LocalsAt, Locals
      <4>2. evidence' \in Payloads \union {NoEvidence, Torn}
        BY <4>1
      <4> QED BY <4>2 DEF WorldOK, remoteVars, treeVars, bounds
    <3>2. MyOK' /\ my'[a] = Nothing /\ \A x \in Actors \ {a} : my'[x] = my[x]
      BY Forget DEF MyOK
    <3>3. PcOK' /\ pc'[a] = "read" /\ \A x \in Actors \ {a} : pc'[x] = pc[x]
      BY DEF PcOK, Goto, RunSteps, HookSteps, VerifySteps
    <3>5. LocalsAt(a)'
      BY <3>2, <3>3, ActorAssumption DEF LocalsAt, Nothing, Actors, RunSteps, HookSteps, VerifySteps, Verified
    <3>6. ASSUME NEW x \in Actors, x # a PROVE LocalsAt(x)'
      BY <3>2, <3>3, <3>6, OthersKeep
    <3> QED BY <3>1, <3>2, <3>3, <3>5, <3>6 DEF MyOK, PcOK
  <2>9. ASSUME NEW a \in Actors, ReadEvidence(a) PROVE TypeOK'
    <3> USE <2>9 DEF ReadEvidence, At
    <3>1. WorldOK'
      BY DEF WorldOK, remoteVars, treeVars, bounds
    <3>v. evidence \in Payloads /\ evidence # None
      BY EvidenceAssumption DEF WorldOK
    <3>2. /\ MyOK' /\ \A x \in Actors \ {a} : my'[x] = my[x]
          /\ my'[a].orig = my[a].orig
          /\ my'[a].chg = my[a].chg
          /\ my'[a].integ = my[a].integ
          /\ my'[a].pay = evidence
          /\ my'[a].upd = my[a].upd
      BY <3>v, PaySet DEF MyOK
    <3>3. PcOK' /\ pc'[a] = "vplan" /\ \A x \in Actors \ {a} : pc'[x] = pc[x]
      BY DEF PcOK, Goto, RunSteps, HookSteps, VerifySteps
    <3>5. LocalsAt(a)'
      BY <3>2, <3>3, ActorAssumption, <3>v DEF LocalsAt, Nothing, Actors, RunSteps, HookSteps, VerifySteps, Verified
    <3>6. ASSUME NEW x \in Actors, x # a PROVE LocalsAt(x)'
      BY <3>2, <3>3, <3>6, OthersKeep
    <3> QED BY <3>1, <3>2, <3>3, <3>5, <3>6 DEF MyOK, PcOK
  <2>10. ASSUME NEW a \in Actors, VerifyPlan(a) PROVE TypeOK'
    <3> USE <2>10 DEF VerifyPlan, At, Plan
    <3>1. WorldOK'
      BY DEF WorldOK, remoteVars, treeVars, bounds
    <3>v. Planned \in Changes /\ Planned # None
      BY EvidenceAssumption DEF Changes, WorldOK, HEAD, Planned
    <3>2. /\ MyOK' /\ \A x \in Actors \ {a} : my'[x] = my[x]
          /\ my'[a].orig = my[a].orig
          /\ my'[a].chg = Planned
          /\ my'[a].integ = my[a].integ
          /\ my'[a].pay = my[a].pay
          /\ my'[a].upd = my[a].upd
      BY <3>v, ChgSet DEF MyOK
    <3>3. PcOK' /\ pc'[a] = "vmerge" /\ \A x \in Actors \ {a} : pc'[x] = pc[x]
      BY DEF PcOK, Goto, RunSteps, HookSteps, VerifySteps
    <3>5. LocalsAt(a)'
      BY <3>2, <3>3, ActorAssumption, <3>v DEF LocalsAt, Nothing, Actors, RunSteps, HookSteps, VerifySteps, Verified
    <3>6. ASSUME NEW x \in Actors, x # a PROVE LocalsAt(x)'
      BY <3>2, <3>3, <3>6, OthersKeep
    <3> QED BY <3>1, <3>2, <3>3, <3>5, <3>6 DEF MyOK, PcOK
  <2>11. ASSUME NEW a \in Actors, VerifyMerge(a) PROVE TypeOK'
    <3> USE <2>11 DEF VerifyMerge, At
    <3>1. WorldOK'
      BY DEF WorldOK, remoteVars, treeVars, bounds
    <3>2. MyOK' /\ my' = my
      BY DEF MyOK
    <3>3. PcOK' /\ pc'[a] = "compare" /\ \A x \in Actors \ {a} : pc'[x] = pc[x]
      BY DEF PcOK, Goto, RunSteps, HookSteps, VerifySteps
    <3>5. LocalsAt(a)'
      BY <3>2, <3>3, ActorAssumption DEF LocalsAt, Nothing, Actors, RunSteps, HookSteps, VerifySteps, Verified
    <3>6. ASSUME NEW x \in Actors, x # a PROVE LocalsAt(x)'
      BY <3>2, <3>3, <3>6, OthersKeep
    <3> QED BY <3>1, <3>2, <3>3, <3>5, <3>6 DEF MyOK, PcOK
  <2>12. ASSUME NEW a \in Actors, Compare(a) PROVE TypeOK'
    <3> USE <2>12 DEF Compare, At
    <3>1. WorldOK'
      BY DEF WorldOK, remoteVars, treeVars, bounds
    <3>2. MyOK' /\ my' = my
      BY DEF MyOK
    <3>3. PcOK' /\ \A x \in Actors \ {a} : pc'[x] = pc[x]
      BY DEF PcOK, Goto, RunSteps, HookSteps
    <3>4. \/ pc'[a] = "updates" /\ a \in Hooks
          \/ pc'[a] = "ready" /\ a \in Runs
      BY DEF Goto
    <3>5. LocalsAt(a)'
      BY <3>2, <3>3, <3>4, ActorAssumption DEF LocalsAt, Nothing, Actors, RunSteps, HookSteps, VerifySteps, Verified
    <3>6. ASSUME NEW x \in Actors, x # a PROVE LocalsAt(x)'
      BY <3>2, <3>3, <3>6, OthersKeep
    <3> QED BY <3>1, <3>2, <3>3, <3>5, <3>6 DEF MyOK, PcOK
  <2>13. ASSUME NEW a \in Actors, Report(a) PROVE TypeOK'
    <3> USE <2>13 DEF Report, At, Exit
    <3>1. WorldOK'
      BY DEF WorldOK, remoteVars, treeVars, bounds
    <3>2. MyOK' /\ my'[a] = Nothing /\ \A x \in Actors \ {a} : my'[x] = my[x]
      BY Forget DEF MyOK
    <3>3. PcOK' /\ pc'[a] = "idle" /\ \A x \in Actors \ {a} : pc'[x] = pc[x]
      BY DEF PcOK, Goto, RunSteps, HookSteps, VerifySteps
    <3>5. LocalsAt(a)'
      BY <3>2, <3>3, ActorAssumption DEF LocalsAt, Nothing, Actors, RunSteps, HookSteps, VerifySteps, Verified
    <3>6. ASSUME NEW x \in Actors, x # a PROVE LocalsAt(x)'
      BY <3>2, <3>3, <3>6, OthersKeep
    <3> QED BY <3>1, <3>2, <3>3, <3>5, <3>6 DEF MyOK, PcOK
  <2>14. ASSUME NEW a \in Actors, HookClean(a) PROVE TypeOK'
    <3> USE <2>14 DEF HookClean, At
    <3>1. WorldOK'
      BY DEF WorldOK, remoteVars, treeVars, bounds
    <3>2. MyOK' /\ my' = my
      BY DEF MyOK
    <3>3. PcOK' /\ pc'[a] = "hookRefresh" /\ \A x \in Actors \ {a} : pc'[x] = pc[x]
      BY DEF PcOK, Goto, RunSteps, HookSteps, VerifySteps
    <3>5. LocalsAt(a)'
      BY <3>2, <3>3, ActorAssumption DEF LocalsAt, Nothing, Actors, RunSteps, HookSteps, VerifySteps, Verified
    <3>6. ASSUME NEW x \in Actors, x # a PROVE LocalsAt(x)'
      BY <3>2, <3>3, <3>6, OthersKeep
    <3> QED BY <3>1, <3>2, <3>3, <3>5, <3>6 DEF MyOK, PcOK
  <2>15. ASSUME NEW a \in Actors, HookRefresh(a) PROVE TypeOK'
    <3> USE <2>15 DEF HookRefresh, At, Fetch
    <3>1. WorldOK'
      BY BoundAssumption DEF Bases, WorldOK, remoteVars, treeVars, bounds
    <3>2. MyOK' /\ my' = my
      BY DEF MyOK
    <3>3. PcOK' /\ pc'[a] = "read" /\ \A x \in Actors \ {a} : pc'[x] = pc[x]
      BY DEF PcOK, Goto, RunSteps, HookSteps, VerifySteps
    <3>5. LocalsAt(a)'
      BY <3>2, <3>3, ActorAssumption DEF LocalsAt, Nothing, Actors, RunSteps, HookSteps, VerifySteps, Verified
    <3>6. ASSUME NEW x \in Actors, x # a PROVE LocalsAt(x)'
      BY <3>2, <3>3, <3>6, OthersKeep
    <3> QED BY <3>1, <3>2, <3>3, <3>5, <3>6 DEF MyOK, PcOK
  <2>16. ASSUME NEW a \in Actors, CheckUpdates(a) PROVE TypeOK'
    <3> USE <2>16 DEF CheckUpdates, At
    <3>1. WorldOK'
      BY DEF WorldOK, remoteVars, treeVars, bounds
    <3>2. MyOK' /\ my' = my
      BY DEF MyOK
    <3>3. PcOK' /\ pc'[a] = "send" /\ \A x \in Actors \ {a} : pc'[x] = pc[x]
      BY DEF PcOK, Goto, RunSteps, HookSteps, VerifySteps
    <3>5. LocalsAt(a)'
      BY <3>2, <3>3, ActorAssumption DEF LocalsAt, Nothing, Actors, RunSteps, HookSteps, VerifySteps, Verified
    <3>6. ASSUME NEW x \in Actors, x # a PROVE LocalsAt(x)'
      BY <3>2, <3>3, <3>6, OthersKeep
    <3> QED BY <3>1, <3>2, <3>3, <3>5, <3>6 DEF MyOK, PcOK
  <2>17. ASSUME NEW a \in Actors, Send(a) PROVE TypeOK'
    <3> USE <2>17 DEF Send, At, Exit
    <3>1. WorldOK'
      <4>1. my[a].upd \in Updates
        BY DEF LocalsAt, Locals, HookSteps
      <4>2. remote' \in [Branches -> Commits \union {None}]
        BY <4>1 DEF WorldOK, Updates
      <4> QED BY <4>2 DEF WorldOK, treeVars, bounds
    <3>2. MyOK' /\ my'[a] = Nothing /\ \A x \in Actors \ {a} : my'[x] = my[x]
      BY Forget DEF MyOK
    <3>3. PcOK' /\ pc'[a] = "idle" /\ \A x \in Actors \ {a} : pc'[x] = pc[x]
      BY DEF PcOK, Goto, RunSteps, HookSteps, VerifySteps
    <3>5. LocalsAt(a)'
      BY <3>2, <3>3, ActorAssumption DEF LocalsAt, Nothing, Actors, RunSteps, HookSteps, VerifySteps, Verified
    <3>6. ASSUME NEW x \in Actors, x # a PROVE LocalsAt(x)'
      BY <3>2, <3>3, <3>6, OthersKeep
    <3> QED BY <3>1, <3>2, <3>3, <3>5, <3>6 DEF MyOK, PcOK
  <2>18. ASSUME NEW a \in Actors, Fail(a) PROVE TypeOK'
    <3> USE <2>18 DEF Fail, At, Exit
    <3>1. WorldOK'
      BY DEF WorldOK, remoteVars, treeVars, bounds
    <3>2. MyOK' /\ my'[a] = Nothing /\ \A x \in Actors \ {a} : my'[x] = my[x]
      BY Forget DEF MyOK
    <3>3. PcOK' /\ pc'[a] = "idle" /\ \A x \in Actors \ {a} : pc'[x] = pc[x]
      BY DEF PcOK, Goto, RunSteps, HookSteps, VerifySteps
    <3>5. LocalsAt(a)'
      BY <3>2, <3>3, ActorAssumption DEF LocalsAt, Nothing, Actors, RunSteps, HookSteps, VerifySteps, Verified
    <3>6. ASSUME NEW x \in Actors, x # a PROVE LocalsAt(x)'
      BY <3>2, <3>3, <3>6, OthersKeep
    <3> QED BY <3>1, <3>2, <3>3, <3>5, <3>6 DEF MyOK, PcOK
  <2>19. ASSUME NEW a \in Actors, Kill(a) PROVE TypeOK'
    <3> USE <2>19 DEF Kill, At, Exit
    <3>1. WorldOK'
      BY DEF WorldOK, remoteVars, treeVars, bounds
    <3>2. MyOK' /\ my'[a] = Nothing /\ \A x \in Actors \ {a} : my'[x] = my[x]
      BY Forget DEF MyOK
    <3>3. PcOK' /\ pc'[a] = "idle" /\ \A x \in Actors \ {a} : pc'[x] = pc[x]
      BY DEF PcOK, Goto, RunSteps, HookSteps, VerifySteps
    <3>5. LocalsAt(a)'
      BY <3>2, <3>3, ActorAssumption DEF LocalsAt, Nothing, Actors, RunSteps, HookSteps, VerifySteps, Verified
    <3>6. ASSUME NEW x \in Actors, x # a PROVE LocalsAt(x)'
      BY <3>2, <3>3, <3>6, OthersKeep
    <3> QED BY <3>1, <3>2, <3>3, <3>5, <3>6 DEF MyOK, PcOK
  <2>20. ASSUME NEW a \in Actors, NEW b \in Branches, NEW d \in Branches, Push(a, b, d) PROVE TypeOK'
    <3> USE <2>20 DEF Push, At
    <3>1. WorldOK'
      BY DEF WorldOK, remoteVars, treeVars, bounds
    <3>v. [local |-> b, remote |-> d, oid |-> tip[b],
                 old |-> remote[d], since |-> develop] \in Updates /\ [local |-> b, remote |-> d, oid |-> tip[b],
                 old |-> remote[d], since |-> develop] # None
      BY EvidenceAssumption DEF Updates, WorldOK
    <3>2. /\ MyOK' /\ \A x \in Actors \ {a} : my'[x] = my[x]
          /\ my'[a].orig = my[a].orig
          /\ my'[a].chg = my[a].chg
          /\ my'[a].integ = my[a].integ
          /\ my'[a].pay = my[a].pay
          /\ my'[a].upd = [local |-> b, remote |-> d, oid |-> tip[b],
                 old |-> remote[d], since |-> develop]
      BY <3>v, UpdSet DEF MyOK
    <3>3. PcOK' /\ pc'[a] = "clean" /\ \A x \in Actors \ {a} : pc'[x] = pc[x]
      BY DEF PcOK, Goto, RunSteps, HookSteps, VerifySteps
    <3>5. LocalsAt(a)'
      BY <3>2, <3>3, ActorAssumption, <3>v DEF LocalsAt, Nothing, Actors, RunSteps, HookSteps, VerifySteps, Verified
    <3>6. ASSUME NEW x \in Actors, x # a PROVE LocalsAt(x)'
      BY <3>2, <3>3, <3>6, OthersKeep
    <3> QED BY <3>1, <3>2, <3>3, <3>5, <3>6 DEF MyOK, PcOK
  <2>21. CASE Tidy \/ Developer \/ BaseAdvances
    <3> USE <2>21 DEF Tidy, Developer, BaseAdvances, remoteVars, treeVars, bounds, HEAD
    <3>1. WorldOK'
      <4>1. CASE Tidy
        BY <4>1 DEF WorldOK
      <4>2. CASE Developer
        <5>1. tip' \in [Branches -> Commits] /\ cur' \in Branches /\ dirty' \in BOOLEAN
          BY <4>2 DEF WorldOK
        <5>2. edits' \in 0 .. MaxEdits
          BY <4>2, BoundAssumption DEF WorldOK
        <5> QED BY <4>2, <5>1, <5>2 DEF WorldOK
      <4>3. CASE BaseAdvances
        BY <4>3, BoundAssumption DEF WorldOK, Bases
      <4> QED BY <4>1, <4>2, <4>3
    <3> QED BY <3>1 DEF LocalsAt
  <2>22. ASSUME NEW b \in Branches, NEW c \in Commits, OtherPush(b, c) PROVE TypeOK'
    <3> USE <2>22 DEF OtherPush, treeVars
    <3>1. WorldOK'
      BY BoundAssumption DEF WorldOK
    <3> QED BY <3>1 DEF LocalsAt
  <2>23. CASE UNCHANGED vars
    BY <2>23 DEF vars, remoteVars, treeVars, bounds, WorldOK, LocalsAt
  <2> QED BY <2>1, <2>2, <2>3, <2>4, <2>5, <2>6, <2>7, <2>8, <2>9, <2>10, <2>11, <2>12, <2>13, <2>14, <2>15, <2>16, <2>17, <2>18, <2>19, <2>20, <2>21, <2>22, <2>23 DEF Next
<1> QED BY <1>1, <1>2, PTL DEF Spec

-----------------------------------------------------------------------------
(* What a run or a hook holds was checked, and is fresh. *)

\* The inductive invariant.  Evidence, and every payload and integration at hand,
\* names a pair the checks passed on; behind verify_evidence that pair is the
\* process's own plan; the plan of a hook is no older than its push.
EvidenceChecked == evidence \in Payloads => evidence.integration \in passed

Checked(a) ==
    /\ my[a].integ # None => my[a].integ \in passed
    /\ my[a].pay # None => my[a].pay.integration \in passed
    /\ pc[a] \in Verified =>
          /\ my[a].pay.base = my[a].chg.base /\ my[a].pay.head = my[a].chg.head
          /\ my[a].pay.integration = <<my[a].chg.base, my[a].chg.head>>

Bound(a) ==
    pc[a] = "send" =>
       LET u == my[a].upd IN
       /\ u.oid = my[a].pay.head /\ u.remote = u.local
       /\ u.old # None => <<u.old, u.oid>> \in Ancestor

Fresh(a) ==
    a \in Hooks =>
       /\ my[a].upd # None => my[a].upd.since <= develop
       /\ pc[a] \in {"read", "vplan"} => my[a].upd.since <= baseRef
       /\ pc[a] \in {"vmerge", "compare", "updates", "send"}
             => my[a].upd.since <= my[a].chg.base

Sound == EvidenceChecked /\ \A a \in Actors : Checked(a) /\ Bound(a) /\ Fresh(a)

\* The other processes' facts survive a step: what passed stays passed, and the
\* base branch and the tracking ref only advance.
LEMMA OthersStaySound ==
    ASSUME TypeOK, TypeOK', Sound, NEW x \in Actors, pc'[x] = pc[x], my'[x] = my[x],
           passed \subseteq passed', develop <= develop', baseRef <= baseRef'
    PROVE  Checked(x)' /\ Bound(x)' /\ Fresh(x)'
<1>1. Checked(x)' /\ Bound(x)'
  BY DEF Sound, Checked, Bound
<1>2. my[x].upd # None => my[x].upd.since \in Nat
  BY BoundAssumption DEF TypeOK, Locals, Updates, Bases
<1>3. develop \in Nat /\ develop' \in Nat /\ baseRef \in Nat /\ baseRef' \in Nat
  BY BoundAssumption DEF TypeOK, WorldOK, Bases
<1>4. x \in Hooks /\ pc[x] \in {"read", "vplan"} => my[x].upd # None
  BY DEF TypeOK, LocalsAt, VerifySteps
<1>5. Fresh(x)'
  BY <1>1, <1>2, <1>3, <1>4 DEF Sound, Fresh
<1> QED BY <1>1, <1>5

\* Sound is inductive.
THEOREM SoundHolds == Spec => []Sound
<1>1. Init => Sound
  BY EvidenceAssumption DEF Init, Sound, EvidenceChecked, Checked, Bound, Fresh, Nothing, Verified
<1>2. TypeOK /\ TypeOK' /\ Sound /\ [Next]_vars => Sound'
  <2> SUFFICES ASSUME TypeOK, TypeOK', Sound, [Next]_vars PROVE Sound'
    OBVIOUS
  <2>w. /\ baseRef \in Nat /\ develop \in Nat /\ baseRef <= develop
        /\ MyOK /\ PcOK /\ \A x \in Actors : LocalsAt(x)
    BY BoundAssumption DEF TypeOK, WorldOK, Bases, MyOK, PcOK
  <2>1. ASSUME NEW a \in Actors, Begin(a) PROVE Sound'
    <3> USE <2>w, <2>1 DEF Begin, At, HEAD, remoteVars
    <3>1. passed \subseteq passed' /\ develop <= develop' /\ baseRef <= baseRef'
      OBVIOUS
    <3>2. /\ \A x \in Actors \ {a} : my'[x] = my[x]
          /\ my'[a].orig = [head |-> HEAD, branch |-> cur, dirty |-> dirty]
          /\ my'[a].chg = my[a].chg
          /\ my'[a].integ = my[a].integ
          /\ my'[a].pay = my[a].pay
          /\ my'[a].upd = my[a].upd
      BY OrigSet
    <3>3. pc'[a] = "refresh" /\ \A x \in Actors \ {a} : pc'[x] = pc[x]
      BY DEF PcOK, Goto
    <3>5. EvidenceChecked'
      BY EvidenceAssumption DEF Sound, EvidenceChecked
    <3>6. Checked(a)'
      BY <3>2, <3>3 DEF Sound, Checked, Verified
    <3>7. Bound(a)'
      BY <3>2, <3>3 DEF Sound, Bound
    <3>8. Fresh(a)'
      BY <3>2, <3>3, ActorAssumption DEF Fresh
    <3> QED BY <3>1, <3>2, <3>3, <3>5, <3>6, <3>7, <3>8, OthersStaySound DEF Sound
  <2>2. ASSUME NEW a \in Actors, Refresh(a) PROVE Sound'
    <3> USE <2>w, <2>2 DEF Refresh, At, Fetch, remoteVars
    <3>1. passed \subseteq passed' /\ develop <= develop' /\ baseRef <= baseRef'
      OBVIOUS
    <3>2. my' = my
      OBVIOUS
    <3>3. pc'[a] = "plan" /\ \A x \in Actors \ {a} : pc'[x] = pc[x]
      BY DEF PcOK, Goto
    <3>5. EvidenceChecked'
      BY EvidenceAssumption DEF Sound, EvidenceChecked
    <3>6. Checked(a)'
      BY <3>2, <3>3 DEF Sound, Checked, Verified
    <3>7. Bound(a)'
      BY <3>2, <3>3 DEF Sound, Bound
    <3>8. Fresh(a)'
      BY <3>2, <3>3, ActorAssumption DEF LocalsAt, RunSteps, Fresh
    <3> QED BY <3>1, <3>2, <3>3, <3>5, <3>6, <3>7, <3>8, OthersStaySound DEF Sound
  <2>3. ASSUME NEW a \in Actors, PlanChange(a) PROVE Sound'
    <3> USE <2>w, <2>3 DEF PlanChange, At, Plan, remoteVars
    <3>1. passed \subseteq passed' /\ develop <= develop' /\ baseRef <= baseRef'
      OBVIOUS
    <3>2. /\ \A x \in Actors \ {a} : my'[x] = my[x]
          /\ my'[a].orig = my[a].orig
          /\ my'[a].chg = Planned
          /\ my'[a].integ = my[a].integ
          /\ my'[a].pay = my[a].pay
          /\ my'[a].upd = my[a].upd
      BY ChgSet
    <3>3. pc'[a] = "checks" /\ \A x \in Actors \ {a} : pc'[x] = pc[x]
      BY DEF PcOK, Goto
    <3>5. EvidenceChecked'
      BY EvidenceAssumption DEF Sound, EvidenceChecked
    <3>6. Checked(a)'
      BY <3>2, <3>3 DEF Sound, Checked, Verified
    <3>7. Bound(a)'
      BY <3>2, <3>3 DEF Sound, Bound
    <3>8. Fresh(a)'
      BY <3>2, <3>3, ActorAssumption DEF LocalsAt, RunSteps, Fresh
    <3> QED BY <3>1, <3>2, <3>3, <3>5, <3>6, <3>7, <3>8, OthersStaySound DEF Sound
  <2>4. ASSUME NEW a \in Actors, ChecksPass(a) PROVE Sound'
    <3> USE <2>w, <2>4 DEF ChecksPass, At, Integration, remoteVars
    <3>1. passed \subseteq passed' /\ develop <= develop' /\ baseRef <= baseRef'
      OBVIOUS
    <3>2. /\ \A x \in Actors \ {a} : my'[x] = my[x]
          /\ my'[a].orig = my[a].orig
          /\ my'[a].chg = None
          /\ my'[a].integ = Integration(my[a].chg)
          /\ my'[a].pay = my[a].pay
          /\ my'[a].upd = my[a].upd
      BY IntegSet
    <3>3. pc'[a] = "recheck" /\ \A x \in Actors \ {a} : pc'[x] = pc[x]
      BY DEF PcOK, Goto
    <3>5. EvidenceChecked'
      BY EvidenceAssumption DEF Sound, EvidenceChecked
    <3>6. Checked(a)'
      <4>0. passed' = passed \union {Integration(my[a].chg)}
        OBVIOUS
      <4>1. my'[a].integ \in passed'
        BY ONLY <3>2, <4>0
      <4>2. my'[a].pay # None => my'[a].pay.integration \in passed'
        BY ONLY <3>1, <3>2, Sound, a \in Actors DEF Sound, Checked
      <4> QED BY <3>3, <4>1, <4>2 DEF Checked, Verified
    <3>7. Bound(a)'
      BY <3>2, <3>3 DEF Sound, Bound
    <3>8. Fresh(a)'
      BY <3>2, <3>3, ActorAssumption DEF LocalsAt, RunSteps, Fresh
    <3> QED BY <3>1, <3>2, <3>3, <3>5, <3>6, <3>7, <3>8, OthersStaySound DEF Sound
  <2>5. ASSUME NEW a \in Actors, Recheck(a) PROVE Sound'
    <3> USE <2>w, <2>5 DEF Recheck, At, HEAD, remoteVars
    <3>1. passed \subseteq passed' /\ develop <= develop' /\ baseRef <= baseRef'
      OBVIOUS
    <3>2. /\ \A x \in Actors \ {a} : my'[x] = my[x]
          /\ my'[a].orig = None
          /\ my'[a].chg = my[a].chg
          /\ my'[a].integ = my[a].integ
          /\ my'[a].pay = my[a].pay
          /\ my'[a].upd = my[a].upd
      BY OrigSet
    <3>3. pc'[a] = "replan" /\ \A x \in Actors \ {a} : pc'[x] = pc[x]
      BY DEF PcOK, Goto
    <3>5. EvidenceChecked'
      BY EvidenceAssumption DEF Sound, EvidenceChecked
    <3>6. Checked(a)'
      BY <3>2, <3>3 DEF Sound, Checked, Verified
    <3>7. Bound(a)'
      BY <3>2, <3>3 DEF Sound, Bound
    <3>8. Fresh(a)'
      BY <3>2, <3>3, ActorAssumption DEF LocalsAt, RunSteps, Fresh
    <3> QED BY <3>1, <3>2, <3>3, <3>5, <3>6, <3>7, <3>8, OthersStaySound DEF Sound
  <2>6. ASSUME NEW a \in Actors, Replan(a) PROVE Sound'
    <3> USE <2>w, <2>6 DEF Replan, At, Plan, remoteVars
    <3>1. passed \subseteq passed' /\ develop <= develop' /\ baseRef <= baseRef'
      OBVIOUS
    <3>2. /\ \A x \in Actors \ {a} : my'[x] = my[x]
          /\ my'[a].orig = my[a].orig
          /\ my'[a].chg = Planned
          /\ my'[a].integ = my[a].integ
          /\ my'[a].pay = my[a].pay
          /\ my'[a].upd = my[a].upd
      BY ChgSet
    <3>3. pc'[a] = "write" /\ \A x \in Actors \ {a} : pc'[x] = pc[x]
      BY DEF PcOK, Goto
    <3>5. EvidenceChecked'
      BY EvidenceAssumption DEF Sound, EvidenceChecked
    <3>6. Checked(a)'
      BY <3>2, <3>3 DEF Sound, Checked, Verified
    <3>7. Bound(a)'
      BY <3>2, <3>3 DEF Sound, Bound
    <3>8. Fresh(a)'
      BY <3>2, <3>3, ActorAssumption DEF LocalsAt, RunSteps, Fresh
    <3> QED BY <3>1, <3>2, <3>3, <3>5, <3>6, <3>7, <3>8, OthersStaySound DEF Sound
  <2>7. ASSUME NEW a \in Actors, WriteBegin(a) PROVE Sound'
    <3> USE <2>w, <2>7 DEF WriteBegin, At, FingerprintIs, remoteVars
    <3>1. passed \subseteq passed' /\ develop <= develop' /\ baseRef <= baseRef'
      OBVIOUS
    <3>2. /\ \A x \in Actors \ {a} : my'[x] = my[x]
          /\ my'[a].orig = my[a].orig
          /\ my'[a].chg = my[a].chg
          /\ my'[a].integ = my[a].integ
          /\ my'[a].pay = Payload(a)
          /\ my'[a].upd = my[a].upd
      BY PaySet
    <3>3. pc'[a] = "writing" /\ \A x \in Actors \ {a} : pc'[x] = pc[x]
      BY DEF PcOK, Goto
    <3>5. EvidenceChecked'
      BY EvidenceAssumption DEF Sound, EvidenceChecked
    <3>6. Checked(a)'
      <4>1. my[a].integ \in passed
        BY DEF Sound, Checked, LocalsAt
      <4>2. Payload(a).integration = my[a].integ
        BY DEF Payload
      <4> QED BY <3>2, <3>3, <4>1, <4>2 DEF Checked, Verified
    <3>7. Bound(a)'
      BY <3>2, <3>3 DEF Sound, Bound
    <3>8. Fresh(a)'
      BY <3>2, <3>3, ActorAssumption DEF LocalsAt, RunSteps, Fresh
    <3> QED BY <3>1, <3>2, <3>3, <3>5, <3>6, <3>7, <3>8, OthersStaySound DEF Sound
  <2>8. ASSUME NEW a \in Actors, WriteEnd(a) PROVE Sound'
    <3> USE <2>w, <2>8 DEF WriteEnd, At, remoteVars
    <3>1. passed \subseteq passed' /\ develop <= develop' /\ baseRef <= baseRef'
      OBVIOUS
    <3>2. my'[a] = Nothing /\ \A x \in Actors \ {a} : my'[x] = my[x]
      BY Forget
    <3>3. pc'[a] = "read" /\ \A x \in Actors \ {a} : pc'[x] = pc[x]
      BY DEF PcOK, Goto
    <3>5. EvidenceChecked'
      <4>1. my[a].pay.integration \in passed
        BY DEF Sound, Checked, LocalsAt
      <4>2. CASE evidence' = my[a].pay
        BY <4>1, <4>2 DEF EvidenceChecked
      <4>3. CASE evidence' = Torn
        BY <4>3, EvidenceAssumption DEF EvidenceChecked
      <4> QED BY <4>2, <4>3
    <3>6. Checked(a)'
      BY <3>2, <3>3 DEF Sound, Checked, Verified, Nothing
    <3>7. Bound(a)'
      BY <3>2, <3>3 DEF Sound, Bound
    <3>8. Fresh(a)'
      BY <3>2, <3>3, ActorAssumption DEF LocalsAt, RunSteps, Fresh
    <3> QED BY <3>1, <3>2, <3>3, <3>5, <3>6, <3>7, <3>8, OthersStaySound DEF Sound
  <2>9. ASSUME NEW a \in Actors, ReadEvidence(a) PROVE Sound'
    <3> USE <2>w, <2>9 DEF ReadEvidence, At, remoteVars
    <3>1. passed \subseteq passed' /\ develop <= develop' /\ baseRef <= baseRef'
      OBVIOUS
    <3>2. /\ \A x \in Actors \ {a} : my'[x] = my[x]
          /\ my'[a].orig = my[a].orig
          /\ my'[a].chg = my[a].chg
          /\ my'[a].integ = my[a].integ
          /\ my'[a].pay = evidence
          /\ my'[a].upd = my[a].upd
      BY PaySet
    <3>3. pc'[a] = "vplan" /\ \A x \in Actors \ {a} : pc'[x] = pc[x]
      BY DEF PcOK, Goto
    <3>5. EvidenceChecked'
      BY EvidenceAssumption DEF Sound, EvidenceChecked
    <3>6. Checked(a)'
      <4>1. evidence \in Payloads
        BY DEF TypeOK, WorldOK
      <4>2. evidence.integration \in passed
        BY <4>1 DEF Sound, EvidenceChecked
      <4> QED BY <3>2, <3>3, <4>2 DEF Sound, Checked, Verified
    <3>7. Bound(a)'
      BY <3>2, <3>3 DEF Sound, Bound
    <3>8. Fresh(a)'
      BY <3>2, <3>3 DEF Sound, Fresh
    <3> QED BY <3>1, <3>2, <3>3, <3>5, <3>6, <3>7, <3>8, OthersStaySound DEF Sound
  <2>10. ASSUME NEW a \in Actors, VerifyPlan(a) PROVE Sound'
    <3> USE <2>w, <2>10 DEF VerifyPlan, At, Plan, remoteVars
    <3>1. passed \subseteq passed' /\ develop <= develop' /\ baseRef <= baseRef'
      OBVIOUS
    <3>2. /\ \A x \in Actors \ {a} : my'[x] = my[x]
          /\ my'[a].orig = my[a].orig
          /\ my'[a].chg = Planned
          /\ my'[a].integ = my[a].integ
          /\ my'[a].pay = my[a].pay
          /\ my'[a].upd = my[a].upd
      BY ChgSet
    <3>3. pc'[a] = "vmerge" /\ \A x \in Actors \ {a} : pc'[x] = pc[x]
      BY DEF PcOK, Goto
    <3>5. EvidenceChecked'
      BY EvidenceAssumption DEF Sound, EvidenceChecked
    <3>6. Checked(a)'
      BY <3>2, <3>3 DEF Sound, Checked, Verified
    <3>7. Bound(a)'
      BY <3>2, <3>3 DEF Sound, Bound
    <3>8. Fresh(a)'
      BY <3>2, <3>3 DEF Sound, Fresh, Planned
    <3> QED BY <3>1, <3>2, <3>3, <3>5, <3>6, <3>7, <3>8, OthersStaySound DEF Sound
  <2>11. ASSUME NEW a \in Actors, VerifyMerge(a) PROVE Sound'
    <3> USE <2>w, <2>11 DEF VerifyMerge, At, remoteVars
    <3>1. passed \subseteq passed' /\ develop <= develop' /\ baseRef <= baseRef'
      OBVIOUS
    <3>2. my' = my
      OBVIOUS
    <3>3. pc'[a] = "compare" /\ \A x \in Actors \ {a} : pc'[x] = pc[x]
      BY DEF PcOK, Goto
    <3>5. EvidenceChecked'
      BY EvidenceAssumption DEF Sound, EvidenceChecked
    <3>6. Checked(a)'
      BY <3>2, <3>3 DEF Sound, Checked, Verified
    <3>7. Bound(a)'
      BY <3>2, <3>3 DEF Sound, Bound
    <3>8. Fresh(a)'
      BY <3>2, <3>3 DEF Sound, Fresh
    <3> QED BY <3>1, <3>2, <3>3, <3>5, <3>6, <3>7, <3>8, OthersStaySound DEF Sound
  <2>12. ASSUME NEW a \in Actors, Compare(a) PROVE Sound'
    <3> USE <2>w, <2>12 DEF Compare, At, remoteVars
    <3>1. passed \subseteq passed' /\ develop <= develop' /\ baseRef <= baseRef'
      OBVIOUS
    <3>2. my' = my
      OBVIOUS
    <3>3. \A x \in Actors \ {a} : pc'[x] = pc[x]
      BY DEF PcOK, Goto
    <3>4. pc'[a] \in {"updates", "ready"}
      BY DEF PcOK, Goto
    <3>5. EvidenceChecked'
      BY EvidenceAssumption DEF Sound, EvidenceChecked
    <3>6. Checked(a)'
      <4>1. my[a].pay # None => my[a].pay.integration \in passed
        BY DEF Sound, Checked
      <4>2. /\ my[a].pay.base = my[a].chg.base /\ my[a].pay.head = my[a].chg.head
            /\ my[a].pay.integration = <<my[a].chg.base, my[a].chg.head>>
        BY DEF Matches, Integration
      <4>3. my[a].integ = None
        BY DEF LocalsAt
      <4> QED BY <3>2, <4>1, <4>2, <4>3 DEF Checked
    <3>7. Bound(a)'
      BY <3>2, <3>3, <3>4 DEF Sound, Bound
    <3>8. Fresh(a)'
      BY <3>2, <3>3, <3>4 DEF Sound, Fresh
    <3> QED BY <3>1, <3>2, <3>3, <3>5, <3>6, <3>7, <3>8, OthersStaySound DEF Sound
  <2>13. ASSUME NEW a \in Actors, Report(a) PROVE Sound'
    <3> USE <2>w, <2>13 DEF Report, At, Exit, remoteVars
    <3>1. passed \subseteq passed' /\ develop <= develop' /\ baseRef <= baseRef'
      OBVIOUS
    <3>2. my'[a] = Nothing /\ \A x \in Actors \ {a} : my'[x] = my[x]
      BY Forget
    <3>3. pc'[a] = "idle" /\ \A x \in Actors \ {a} : pc'[x] = pc[x]
      BY DEF PcOK, Goto
    <3>5. EvidenceChecked'
      BY EvidenceAssumption DEF Sound, EvidenceChecked
    <3>6. Checked(a)'
      BY <3>2, <3>3 DEF Sound, Checked, Verified, Nothing
    <3>7. Bound(a)'
      BY <3>2, <3>3 DEF Sound, Bound
    <3>8. Fresh(a)'
      BY <3>2, <3>3 DEF Sound, Fresh, Nothing
    <3> QED BY <3>1, <3>2, <3>3, <3>5, <3>6, <3>7, <3>8, OthersStaySound DEF Sound
  <2>14. ASSUME NEW a \in Actors, HookClean(a) PROVE Sound'
    <3> USE <2>w, <2>14 DEF HookClean, At, remoteVars
    <3>1. passed \subseteq passed' /\ develop <= develop' /\ baseRef <= baseRef'
      OBVIOUS
    <3>2. my' = my
      OBVIOUS
    <3>3. pc'[a] = "hookRefresh" /\ \A x \in Actors \ {a} : pc'[x] = pc[x]
      BY DEF PcOK, Goto
    <3>5. EvidenceChecked'
      BY EvidenceAssumption DEF Sound, EvidenceChecked
    <3>6. Checked(a)'
      BY <3>2, <3>3 DEF Sound, Checked, Verified
    <3>7. Bound(a)'
      BY <3>2, <3>3 DEF Sound, Bound
    <3>8. Fresh(a)'
      BY <3>2, <3>3 DEF Sound, Fresh
    <3> QED BY <3>1, <3>2, <3>3, <3>5, <3>6, <3>7, <3>8, OthersStaySound DEF Sound
  <2>15. ASSUME NEW a \in Actors, HookRefresh(a) PROVE Sound'
    <3> USE <2>w, <2>15 DEF HookRefresh, At, Fetch, remoteVars
    <3>1. passed \subseteq passed' /\ develop <= develop' /\ baseRef <= baseRef'
      OBVIOUS
    <3>2. my' = my
      OBVIOUS
    <3>3. pc'[a] = "read" /\ \A x \in Actors \ {a} : pc'[x] = pc[x]
      BY DEF PcOK, Goto
    <3>5. EvidenceChecked'
      BY EvidenceAssumption DEF Sound, EvidenceChecked
    <3>6. Checked(a)'
      BY <3>2, <3>3 DEF Sound, Checked, Verified
    <3>7. Bound(a)'
      BY <3>2, <3>3 DEF Sound, Bound
    <3>8. Fresh(a)'
      BY <3>2, <3>3 DEF Sound, Fresh, LocalsAt, HookSteps
    <3> QED BY <3>1, <3>2, <3>3, <3>5, <3>6, <3>7, <3>8, OthersStaySound DEF Sound
  <2>16. ASSUME NEW a \in Actors, CheckUpdates(a) PROVE Sound'
    <3> USE <2>w, <2>16 DEF CheckUpdates, At, remoteVars
    <3>1. passed \subseteq passed' /\ develop <= develop' /\ baseRef <= baseRef'
      OBVIOUS
    <3>2. my' = my
      OBVIOUS
    <3>3. pc'[a] = "send" /\ \A x \in Actors \ {a} : pc'[x] = pc[x]
      BY DEF PcOK, Goto
    <3>5. EvidenceChecked'
      BY EvidenceAssumption DEF Sound, EvidenceChecked
    <3>6. Checked(a)'
      BY <3>2, <3>3 DEF Sound, Checked, Verified
    <3>7. Bound(a)'
      BY <3>2, <3>3 DEF Authorized, Bound
    <3>8. Fresh(a)'
      BY <3>2, <3>3 DEF Sound, Fresh
    <3> QED BY <3>1, <3>2, <3>3, <3>5, <3>6, <3>7, <3>8, OthersStaySound DEF Sound
  <2>17. ASSUME NEW a \in Actors, Send(a) PROVE Sound'
    <3> USE <2>w, <2>17 DEF Send, At, Exit, remoteVars
    <3>1. passed \subseteq passed' /\ develop <= develop' /\ baseRef <= baseRef'
      OBVIOUS
    <3>2. my'[a] = Nothing /\ \A x \in Actors \ {a} : my'[x] = my[x]
      BY Forget
    <3>3. pc'[a] = "idle" /\ \A x \in Actors \ {a} : pc'[x] = pc[x]
      BY DEF PcOK, Goto
    <3>5. EvidenceChecked'
      BY EvidenceAssumption DEF Sound, EvidenceChecked
    <3>6. Checked(a)'
      BY <3>2, <3>3 DEF Sound, Checked, Verified, Nothing
    <3>7. Bound(a)'
      BY <3>2, <3>3 DEF Sound, Bound
    <3>8. Fresh(a)'
      BY <3>2, <3>3 DEF Sound, Fresh, Nothing
    <3> QED BY <3>1, <3>2, <3>3, <3>5, <3>6, <3>7, <3>8, OthersStaySound DEF Sound
  <2>18. ASSUME NEW a \in Actors, Fail(a) PROVE Sound'
    <3> USE <2>w, <2>18 DEF Fail, At, Exit, remoteVars
    <3>1. passed \subseteq passed' /\ develop <= develop' /\ baseRef <= baseRef'
      OBVIOUS
    <3>2. my'[a] = Nothing /\ \A x \in Actors \ {a} : my'[x] = my[x]
      BY Forget
    <3>3. pc'[a] = "idle" /\ \A x \in Actors \ {a} : pc'[x] = pc[x]
      BY DEF PcOK, Goto
    <3>5. EvidenceChecked'
      BY EvidenceAssumption DEF Sound, EvidenceChecked
    <3>6. Checked(a)'
      BY <3>2, <3>3 DEF Sound, Checked, Verified, Nothing
    <3>7. Bound(a)'
      BY <3>2, <3>3 DEF Sound, Bound
    <3>8. Fresh(a)'
      BY <3>2, <3>3 DEF Sound, Fresh, Nothing
    <3> QED BY <3>1, <3>2, <3>3, <3>5, <3>6, <3>7, <3>8, OthersStaySound DEF Sound
  <2>19. ASSUME NEW a \in Actors, Kill(a) PROVE Sound'
    <3> USE <2>w, <2>19 DEF Kill, At, Exit, remoteVars
    <3>1. passed \subseteq passed' /\ develop <= develop' /\ baseRef <= baseRef'
      OBVIOUS
    <3>2. my'[a] = Nothing /\ \A x \in Actors \ {a} : my'[x] = my[x]
      BY Forget
    <3>3. pc'[a] = "idle" /\ \A x \in Actors \ {a} : pc'[x] = pc[x]
      BY DEF PcOK, Goto
    <3>5. EvidenceChecked'
      BY EvidenceAssumption DEF Sound, EvidenceChecked
    <3>6. Checked(a)'
      BY <3>2, <3>3 DEF Sound, Checked, Verified, Nothing
    <3>7. Bound(a)'
      BY <3>2, <3>3 DEF Sound, Bound
    <3>8. Fresh(a)'
      BY <3>2, <3>3 DEF Sound, Fresh, Nothing
    <3> QED BY <3>1, <3>2, <3>3, <3>5, <3>6, <3>7, <3>8, OthersStaySound DEF Sound
  <2>20. ASSUME NEW a \in Actors, NEW b \in Branches, NEW d \in Branches, Push(a, b, d) PROVE Sound'
    <3> USE <2>w, <2>20 DEF Push, At, remoteVars
    <3>1. passed \subseteq passed' /\ develop <= develop' /\ baseRef <= baseRef'
      OBVIOUS
    <3>2. /\ \A x \in Actors \ {a} : my'[x] = my[x]
          /\ my'[a].orig = my[a].orig
          /\ my'[a].chg = my[a].chg
          /\ my'[a].integ = my[a].integ
          /\ my'[a].pay = my[a].pay
          /\ my'[a].upd = [local |-> b, remote |-> d, oid |-> tip[b],
                 old |-> remote[d], since |-> develop]
      BY UpdSet
    <3>3. pc'[a] = "clean" /\ \A x \in Actors \ {a} : pc'[x] = pc[x]
      BY DEF PcOK, Goto
    <3>5. EvidenceChecked'
      BY EvidenceAssumption DEF Sound, EvidenceChecked
    <3>6. Checked(a)'
      BY <3>2, <3>3 DEF Sound, Checked, Verified
    <3>7. Bound(a)'
      BY <3>2, <3>3 DEF Sound, Bound
    <3>8. Fresh(a)'
      BY <3>2, <3>3 DEF Sound, Fresh
    <3> QED BY <3>1, <3>2, <3>3, <3>5, <3>6, <3>7, <3>8, OthersStaySound DEF Sound
  <2>21. CASE Tidy \/ Developer \/ BaseAdvances \/ UNCHANGED vars
    <3>1. /\ passed' = passed /\ develop <= develop' /\ baseRef' = baseRef
          /\ pc' = pc /\ my' = my /\ evidence' = evidence
      <4>1. CASE BaseAdvances
        BY <2>w, <4>1 DEF BaseAdvances
      <4>2. CASE Tidy
        BY <2>w, <4>2 DEF Tidy, remoteVars
      <4>3. CASE Developer
        BY <2>w, <4>3 DEF Developer, remoteVars
      <4>4. CASE UNCHANGED vars
        BY <2>w, <4>4 DEF vars, remoteVars
      <4> QED BY <2>21, <4>1, <4>2, <4>3, <4>4
    <3> QED BY <2>w, <3>1, OthersStaySound DEF Sound, EvidenceChecked
  <2>22. ASSUME NEW b \in Branches, NEW c \in Commits, OtherPush(b, c) PROVE Sound'
    <3>1. /\ passed' = passed /\ develop <= develop' /\ baseRef' = baseRef
          /\ pc' = pc /\ my' = my /\ evidence' = evidence
      BY <2>w, <2>22 DEF OtherPush
    <3> QED BY <2>w, <3>1, OthersStaySound DEF Sound, EvidenceChecked
  <2> QED BY <2>1, <2>2, <2>3, <2>4, <2>5, <2>6, <2>7, <2>8, <2>9, <2>10, <2>11, <2>12, <2>13, <2>14, <2>15, <2>16, <2>17, <2>18, <2>19, <2>20, <2>21, <2>22 DEF Next
<1> QED BY <1>1, <1>2, TypeCorrect, PTL DEF Spec

-----------------------------------------------------------------------------
(* The properties. *)

\* CheckedPush: what a hook lets through was checked on the base it planned with.
THEOREM OnlyCheckedCommitsArePushed == Spec => []CheckedPush
<1>1. TypeOK /\ Sound => CheckedPush
  <2> SUFFICES ASSUME TypeOK, Sound, NEW a \in Hooks, pc[a] = "send"
               PROVE  <<my[a].chg.base, my[a].upd.oid>> \in passed
    BY DEF CheckedPush, At
  <2>1. my[a].pay # None
    BY DEF TypeOK, LocalsAt, Verified, Actors
  <2>2. Checked(a) /\ Bound(a)
    BY DEF Sound, Actors
  <2> QED BY <2>1, <2>2 DEF Checked, Bound, Verified
<1> QED BY <1>1, TypeCorrect, SoundHolds, PTL

\* ReadyMeansChecked: so was what a run reports as ready.
THEOREM OnlyCheckedEvidenceIsReady == Spec => []ReadyMeansChecked
<1>1. TypeOK /\ Sound => ReadyMeansChecked
  BY DEF Sound, Checked, ReadyMeansChecked, Actors, At, TypeOK, LocalsAt, Verified
<1> QED BY <1>1, TypeCorrect, SoundHolds, PTL

\* FreshBase: the base of a push is no older than the base branch at its start.
THEOREM BaseIsFresh == Spec => []FreshBase
<1>1. TypeOK /\ Sound => FreshBase
  <2> SUFFICES ASSUME TypeOK, Sound, NEW a \in Hooks, pc[a] = "send"
               PROVE  my[a].chg.base >= my[a].upd.since
    BY DEF FreshBase, At
  <2>1. my[a].upd.since <= my[a].chg.base
    BY DEF Sound, Fresh, Actors
  <2>2. my[a].upd \in Updates /\ my[a].chg \in Changes
    BY DEF TypeOK, LocalsAt, Locals, Actors, HookSteps, Verified
  <2> QED BY <2>1, <2>2, BoundAssumption DEF Updates, Changes, Bases
<1> QED BY <1>1, TypeCorrect, SoundHolds, PTL

\* RemoteOnlyGrows: a push through the hook is a fast-forward when it is applied.
THEOREM PushesAreFastForwards == Spec => RemoteOnlyGrows
<1>1. /\ TypeOK /\ Sound /\ [Next]_vars
      => [\A b \in Branches :
             remote'[b] # remote[b] /\ others' = others /\ remote[b] # None
               => <<remote[b], remote'[b]>> \in Ancestor]_vars
  <2> SUFFICES ASSUME TypeOK, Sound, Next, NEW b \in Branches,
                      remote'[b] # remote[b], others' = others, remote[b] # None
               PROVE  <<remote[b], remote'[b]>> \in Ancestor
    OBVIOUS
  <2>1. PICK a \in Actors : Send(a)
    <3>1. ASSUME NEW x \in Branches, NEW c \in Commits, OtherPush(x, c) PROVE FALSE
      BY <3>1 DEF OtherPush, TypeOK, WorldOK
    <3>2. CASE Tidy \/ Developer \/ BaseAdvances
      BY <3>2 DEF Tidy, Developer, BaseAdvances, remoteVars
    <3>3. ASSUME NEW a \in Actors, NEW x \in Branches, NEW d \in Branches, Push(a, x, d)
          PROVE FALSE
      BY <3>3 DEF Push, remoteVars
    <3> QED
      BY <3>1, <3>2, <3>3
         DEF Next, remoteVars, Begin, Refresh, PlanChange, ChecksPass, Recheck, Replan,
             WriteBegin, WriteEnd, ReadEvidence, VerifyPlan, VerifyMerge, Compare, Report,
             HookClean, HookRefresh, CheckUpdates, Fail, Kill
  <2>2. remote[my[a].upd.remote] = my[a].upd.old /\ my[a].upd.remote = b
        /\ remote'[b] = my[a].upd.oid
    BY <2>1 DEF Send, TypeOK, WorldOK
  <2>3. my[a].upd.old # None => <<my[a].upd.old, my[a].upd.oid>> \in Ancestor
    BY <2>1 DEF Send, At, Sound, Bound
  <2> QED BY <2>2, <2>3
<1> QED BY <1>1, TypeCorrect, SoundHolds, PTL DEF Spec, RemoteOnlyGrows

-----------------------------------------------------------------------------
(* The refinement of PushGate: what is planned, and so what is checked, is a commit the *)
(* base branch has; and a hook holds its update from the push to the answer.            *)

PlansExist == \A a \in Actors : my[a].chg # None => my[a].chg.base <= develop

\* The steps of a process that neither check nor answer a push.
Quiet(a) ==
    \/ Begin(a) \/ Refresh(a) \/ PlanChange(a) \/ Recheck(a) \/ Replan(a)
    \/ WriteBegin(a) \/ WriteEnd(a) \/ ReadEvidence(a) \/ VerifyPlan(a) \/ VerifyMerge(a)
    \/ Compare(a) \/ Report(a) \/ HookClean(a) \/ HookRefresh(a) \/ CheckUpdates(a)

LEMMA QuietLocals ==
    ASSUME TypeOK, NEW a \in Actors, Quiet(a) \/ ChecksPass(a)
    PROVE  /\ \A x \in Actors \ {a} : my'[x] = my[x]
           /\ my'[a].chg \in {my[a].chg, None, Planned}
           /\ a \in Hooks => my'[a].upd = my[a].upd
<1>w. MyOK /\ LocalsAt(a)  BY DEF TypeOK, MyOK
<1>r. a \in Runs => a \notin Hooks  BY ActorAssumption
<1>. USE <1>w, <1>r
<1>1. CASE Begin(a)  BY <1>1, OrigSet DEF Begin
<1>2. CASE Recheck(a)  BY <1>2, OrigSet DEF Recheck
<1>3. CASE PlanChange(a)  BY <1>3, ChgSet DEF PlanChange, Plan
<1>4. CASE Replan(a)  BY <1>4, ChgSet DEF Replan, Plan
<1>5. CASE VerifyPlan(a)  BY <1>5, ChgSet DEF VerifyPlan, Plan
<1>6. CASE ChecksPass(a)  BY <1>6, IntegSet DEF ChecksPass
<1>7. CASE WriteBegin(a)  BY <1>7, PaySet DEF WriteBegin
<1>8. CASE ReadEvidence(a)  BY <1>8, PaySet DEF ReadEvidence
<1>9. CASE WriteEnd(a) \/ Report(a)
  <2>1. a \in Runs  BY <1>9 DEF WriteEnd, Report, At, LocalsAt, RunSteps
  <2>2. my' = [my EXCEPT ![a] = Nothing]  BY <1>9 DEF WriteEnd, Report, Exit
  <2>. QED  BY <2>1, <2>2, Forget
<1>10. CASE Refresh(a) \/ VerifyMerge(a) \/ Compare(a) \/ HookClean(a) \/ HookRefresh(a)
            \/ CheckUpdates(a)
  BY <1>10 DEF Refresh, VerifyMerge, Compare, HookClean, HookRefresh, CheckUpdates
<1>. QED  BY <1>1, <1>2, <1>3, <1>4, <1>5, <1>6, <1>7, <1>8, <1>9, <1>10 DEF Quiet

LEMMA PlansStayKnown ==
    ASSUME TypeOK, PlansExist, NEW a \in Actors, develop' = develop,
           \A x \in Actors \ {a} : my'[x] = my[x],
           my'[a].chg \in {my[a].chg, None, Planned}
    PROVE  PlansExist'
<1>1. Planned.base <= develop  BY DEF Planned, TypeOK, WorldOK
<1>. QED  BY <1>1 DEF PlansExist

\* A hook that is asked nothing else: the gate sees no step.
LEMMA SameQuestions ==
    ASSUME NEW a \in Actors, \A x \in Actors \ {a} : my'[x] = my[x],
           a \in Hooks => my'[a].upd = my[a].upd
    PROVE  [h \in Hooks |-> my[h].upd]' = [h \in Hooks |-> my[h].upd]
<1>1. \A h \in Hooks : my'[h].upd = my[h].upd  BY DEF Actors
<1>. QED  BY <1>1

LEMMA OneQuestion ==
    ASSUME NEW a \in Hooks, NEW v, \A x \in Actors \ {a} : my'[x] = my[x], my'[a].upd = v
    PROVE  [h \in Hooks |-> my[h].upd]' = [[h \in Hooks |-> my[h].upd] EXCEPT ![a] = v]
<1>1. \A h \in Hooks \ {a} : my'[h].upd = my[h].upd  BY DEF Actors
<1>. QED  BY <1>1

LEMMA QuietGate ==
    ASSUME TypeOK, PlansExist, NEW a \in Actors, Quiet(a)
    PROVE  PlansExist' /\ UNCHANGED Gate!vars
<1>1. UNCHANGED <<develop, remote, passed, others>>
  BY DEF Quiet, Begin, Refresh, PlanChange, Recheck, Replan, WriteBegin, WriteEnd,
         ReadEvidence, VerifyPlan, VerifyMerge, Compare, Report, HookClean, HookRefresh,
         CheckUpdates, remoteVars, bounds
<1>2. /\ \A x \in Actors \ {a} : my'[x] = my[x]
      /\ my'[a].chg \in {my[a].chg, None, Planned}
      /\ a \in Hooks => my'[a].upd = my[a].upd
  BY QuietLocals
<1>3. PlansExist'  BY <1>1, <1>2, PlansStayKnown
<1>4. [h \in Hooks |-> my[h].upd]' = [h \in Hooks |-> my[h].upd]  BY <1>2, SameQuestions
<1>. QED  BY <1>1, <1>3, <1>4 DEF Gate!vars

\* All checks pass on a commit of the base branch.
LEMMA ChecksGate ==
    ASSUME TypeOK, PlansExist, NEW a \in Actors, ChecksPass(a)
    PROVE  PlansExist' /\ Gate!Check
<1>1. /\ UNCHANGED <<develop, remote, others>> /\ pc[a] = "checks"
      /\ passed' = passed \union {Integration(my[a].chg)}
  BY DEF ChecksPass, remoteVars, bounds, At
<1>2. /\ \A x \in Actors \ {a} : my'[x] = my[x]
      /\ my'[a].chg \in {my[a].chg, None, Planned}
      /\ a \in Hooks => my'[a].upd = my[a].upd
  BY QuietLocals
<1>3. PlansExist'  BY <1>1, <1>2, PlansStayKnown
<1>4. [h \in Hooks |-> my[h].upd]' = [h \in Hooks |-> my[h].upd]  BY <1>2, SameQuestions
<1>5. my[a].chg \in Changes /\ my[a].chg # None
  BY <1>1 DEF TypeOK, LocalsAt, Locals
<1>6. my[a].chg.base \in 0 .. develop /\ my[a].chg.head \in Commits
  BY <1>5, BoundAssumption DEF PlansExist, Changes, Bases, TypeOK, WorldOK
<1>. QED  BY <1>1, <1>3, <1>4, <1>6 DEF Gate!Check, Integration

\* A process ends: a hook refuses, a run was not asked.
LEMMA EndingGate ==
    ASSUME TypeOK, PlansExist, NEW a \in Actors, Fail(a) \/ Kill(a)
    PROVE  PlansExist' /\ (Gate!Next \/ UNCHANGED Gate!vars)
<1>1. /\ UNCHANGED <<develop, remote, passed, others>>
      /\ pc[a] # "idle" /\ my' = [my EXCEPT ![a] = Nothing]
  BY DEF Fail, Kill, Exit, At, remoteVars, bounds
<1>2. /\ \A x \in Actors \ {a} : my'[x] = my[x]
      /\ my'[a].chg = None /\ my'[a].upd = None
  BY <1>1, Forget DEF TypeOK, MyOK
<1>3. PlansExist'  BY <1>1, <1>2, PlansStayKnown
<1>4. CASE a \in Hooks
  <2>1. my[a].upd # None
    <3>1. pc[a] \in HookSteps \union VerifySteps
      BY <1>1, <1>4, ActorAssumption DEF TypeOK, LocalsAt
    <3>. QED  BY <1>4, <3>1 DEF TypeOK, LocalsAt
  <2>2. [h \in Hooks |-> my[h].upd]' = [[h \in Hooks |-> my[h].upd] EXCEPT ![a] = None]
    BY <1>2, <1>4, OneQuestion
  <2>3. Gate!Refuse(a)  BY <1>1, <1>4, <2>1, <2>2 DEF Gate!Refuse, Gate!Done
  <2>. QED  BY <1>3, <1>4, <2>3 DEF Gate!Next
<1>5. CASE a \notin Hooks
  <2>1. [h \in Hooks |-> my[h].upd]' = [h \in Hooks |-> my[h].upd]
    BY <1>2, <1>5, SameQuestions
  <2>. QED  BY <1>1, <1>3, <2>1 DEF Gate!vars
<1>. QED  BY <1>4, <1>5

LEMMA PushGates ==
    ASSUME TypeOK, PlansExist, NEW a \in Actors, NEW b \in Branches, NEW d \in Branches,
           Push(a, b, d)
    PROVE  PlansExist' /\ Gate!Next
<1> DEFINE u == [local |-> b, remote |-> d, oid |-> tip[b], old |-> remote[d],
                 since |-> develop]
<1>1. /\ UNCHANGED <<develop, remote, passed, others>>
      /\ a \in Hooks /\ pc[a] = "idle" /\ my' = [my EXCEPT ![a].upd = u]
  BY DEF Push, At, remoteVars, bounds
<1>2. /\ \A x \in Actors \ {a} : my'[x] = my[x]
      /\ my'[a].chg = my[a].chg /\ my'[a].upd = u
  BY <1>1, UpdSet DEF TypeOK, MyOK
<1>3. PlansExist'  BY <1>1, <1>2, PlansStayKnown
<1>4. my[a].upd = None
  BY <1>1 DEF TypeOK, LocalsAt, HookSteps, VerifySteps
<1>5. [h \in Hooks |-> my[h].upd]' = [[h \in Hooks |-> my[h].upd] EXCEPT ![a] = u]
  BY <1>1, <1>2, OneQuestion
<1>6. tip[b] \in Commits  BY DEF TypeOK, WorldOK
<1>7. Gate!Ask(a)  BY <1>1, <1>4, <1>5, <1>6 DEF Gate!Ask
<1>. QED  BY <1>1, <1>3, <1>7 DEF Gate!Next

\* What a hook lets through passes the gate.
LEMMA SendGates ==
    ASSUME TypeOK, Sound, PlansExist, NEW a \in Actors, Send(a)
    PROVE  PlansExist' /\ Gate!Next
<1> DEFINE u == my[a].upd
<1>1. /\ UNCHANGED <<develop, passed, others>> /\ pc[a] = "send"
      /\ my' = [my EXCEPT ![a] = Nothing]
      /\ remote' = IF remote[u.remote] = u.old
                   THEN [remote EXCEPT ![u.remote] = u.oid] ELSE remote
  BY DEF Send, Exit, At, bounds
<1>2. /\ \A x \in Actors \ {a} : my'[x] = my[x]
      /\ my'[a].chg = None /\ my'[a].upd = None
  BY <1>1, Forget DEF TypeOK, MyOK
<1>3. PlansExist'  BY <1>1, <1>2, PlansStayKnown
<1>4. /\ a \in Hooks /\ u \in Updates /\ u # None
      /\ my[a].chg \in Changes /\ my[a].chg # None /\ my[a].pay # None
  BY <1>1 DEF TypeOK, LocalsAt, Locals, HookSteps, Verified
<1>5. Checked(a) /\ Bound(a) /\ Fresh(a)  BY DEF Sound
<1>6. <<my[a].chg.base, u.oid>> \in passed  BY <1>1, <1>4, <1>5 DEF Checked, Bound, Verified
<1>7. my[a].chg.base \in u.since .. develop
  <2>1. u.since <= my[a].chg.base  BY <1>1, <1>4, <1>5 DEF Fresh
  <2>2. my[a].chg.base <= develop  BY <1>4 DEF PlansExist
  <2>. QED  BY <1>4, <2>1, <2>2, BoundAssumption DEF Updates, Changes, Bases, TypeOK, WorldOK
<1>8. u.remote = u.local /\ (u.old # None => <<u.old, u.oid>> \in Ancestor)
  BY <1>1, <1>4, <1>5 DEF Bound
<1>9. [h \in Hooks |-> my[h].upd]' = [[h \in Hooks |-> my[h].upd] EXCEPT ![a] = None]
  BY <1>2, <1>4, OneQuestion
<1>10. [h \in Hooks |-> my[h].upd][a] = u  BY <1>4
<1>11. Gate!Accept(a)
  BY <1>1, <1>4, <1>6, <1>7, <1>8, <1>9, <1>10 DEF Gate!Accept, Gate!Done
<1>. QED  BY <1>3, <1>4, <1>11 DEF Gate!Next

LEMMA WorldGate ==
    ASSUME TypeOK, PlansExist,
           \/ Tidy \/ Developer \/ BaseAdvances \/ UNCHANGED vars
           \/ \E b \in Branches, c \in Commits : OtherPush(b, c)
    PROVE  PlansExist' /\ (Gate!Next \/ UNCHANGED Gate!vars)
<1>1. my' = my
  BY DEF Tidy, Developer, BaseAdvances, vars, OtherPush
<1>2. [h \in Hooks |-> my[h].upd]' = [h \in Hooks |-> my[h].upd]  BY <1>1
<1>3. develop' = develop => PlansExist'  BY <1>1 DEF PlansExist
<1>4. CASE BaseAdvances
  <2>1. develop' = develop + 1 /\ UNCHANGED <<remote, passed, others>>
    BY <1>4 DEF BaseAdvances, bounds
  <2>2. PlansExist'
    <3>. SUFFICES ASSUME NEW a \in Actors, my[a].chg # None PROVE my[a].chg.base <= develop'
      BY <1>1 DEF PlansExist
    <3>1. my[a].chg.base <= develop  BY DEF PlansExist
    <3>2. my[a].chg \in Changes /\ develop \in Bases  BY DEF TypeOK, Locals, WorldOK
    <3>. QED  BY <2>1, <3>1, <3>2, BoundAssumption DEF Changes, Bases
  <2>3. Gate!Advance  BY <1>2, <2>1 DEF Gate!Advance
  <2>. QED  BY <2>2, <2>3 DEF Gate!Next
<1>5. CASE Tidy \/ Developer \/ UNCHANGED vars
  <2>1. UNCHANGED <<develop, remote, passed, others>>
    BY <1>5 DEF Tidy, Developer, vars, remoteVars, bounds
  <2>. QED  BY <1>2, <1>3, <2>1 DEF Gate!vars
<1>6. ASSUME NEW b \in Branches, NEW c \in Commits, OtherPush(b, c)
      PROVE  PlansExist' /\ (Gate!Next \/ UNCHANGED Gate!vars)
  <2>1. /\ others' = others + 1 /\ remote' = [remote EXCEPT ![b] = c]
        /\ UNCHANGED <<develop, passed>>
    BY <1>6 DEF OtherPush
  <2>2. Gate!OtherPush  BY <1>2, <2>1 DEF Gate!OtherPush
  <2>. QED  BY <1>3, <2>1, <2>2 DEF Gate!Next
<1>. QED  BY <1>4, <1>5, <1>6

\* PushesPassTheGate: every step of the runs, the hooks, the developer and the world is a
\* step of the gate: a branch moves by a hook only to a commit that was checked against a
\* base at least as fresh as the push, and only forward.
THEOREM ImplementsGate == Spec => PushesPassTheGate
<1>1. Init => Gate!Init
  <2>. SUFFICES ASSUME Init PROVE Gate!Init
    OBVIOUS
  <2>1. \A h \in Hooks : my[h].upd = None  BY DEF Init, Nothing, Actors
  <2>. QED  BY <2>1 DEF Init, Gate!Init
<1>2. Init => PlansExist  BY DEF Init, Nothing, PlansExist
<1>3. TypeOK /\ Sound /\ PlansExist /\ [Next]_vars => PlansExist' /\ [Gate!Next]_(Gate!vars)
  <2>. SUFFICES ASSUME TypeOK, Sound, PlansExist, [Next]_vars
                PROVE  PlansExist' /\ (Gate!Next \/ UNCHANGED Gate!vars)
    OBVIOUS
  <2>1. ASSUME NEW a \in Actors, Quiet(a) \/ ChecksPass(a) \/ Fail(a) \/ Kill(a) \/ Send(a)
        PROVE  PlansExist' /\ (Gate!Next \/ UNCHANGED Gate!vars)
    BY <2>1, QuietGate, ChecksGate, EndingGate, SendGates DEF Gate!Next
  <2>2. ASSUME NEW a \in Actors, NEW b \in Branches, NEW d \in Branches, Push(a, b, d)
        PROVE  PlansExist' /\ Gate!Next
    BY <2>2, PushGates
  <2>. QED  BY <2>1, <2>2, WorldGate DEF Next, Quiet
<1>. QED  BY <1>1, <1>2, <1>3, TypeCorrect, SoundHolds, PTL
           DEF Spec, PushesPassTheGate, Gate!Spec
=============================================================================
