------------------------ MODULE MainBackmerge_proofs ------------------------
(***************************************************************************)
(* Proofs about MainBackmerge for any number of commits, failures and      *)
(* interventions.                                                          *)
(***************************************************************************)
EXTENDS MainBackmerge, TLAPS

PrsOK == prs \in Seq(PullRequests)

-----------------------------------------------------------------------------
(* What the steps do to the pull requests. *)

\* A pull request keeps its backmerge, and once merged it stays merged.
Kept(j) ==
    /\ prs'[j].pair = prs[j].pair /\ prs'[j].from = prs[j].from
    /\ prs[j].status = "merged" => prs'[j].status = "merged"

\* A new pull request is the last one.
LEMMA PrsAppended ==
    ASSUME PrsOK, NEW r \in PullRequests, prs' = Append(prs, r)
    PROVE  /\ PrsOK'
           /\ Len(prs') = Len(prs) + 1
           /\ prs'[Len(prs) + 1] = r
           /\ \A j \in Numbers : prs'[j] = prs[j]
  BY DEF PrsOK, Numbers

\* A pull request that changes in place leaves the others alone.
LEMMA PrsReplaced ==
    ASSUME PrsOK, NEW i \in Numbers, NEW r \in PullRequests,
           prs' = [prs EXCEPT ![i] = r]
    PROVE  /\ PrsOK'
           /\ Len(prs') = Len(prs)
           /\ \A j \in Numbers : prs'[j] = IF j = i THEN r ELSE prs[j]
  BY DEF PrsOK, Numbers

\* A function on the numbers of the pull requests is a sequence of that length.
LEMMA PrsMapped ==
    ASSUME PrsOK, NEW f \in [Numbers -> PullRequests], prs' = f
    PROVE  /\ PrsOK'
           /\ Len(prs') = Len(prs)
           /\ \A j \in Numbers : prs'[j] = f[j]
<1>1. Len(prs) \in Nat  BY DEF PrsOK
<1>2. f \in Seq(PullRequests) /\ Len(f) = Len(prs)  BY <1>1 DEF Numbers
<1>. QED  BY <1>2 DEF PrsOK

\* What is known of the auto-merge of a pull request.
AutoStates == {"off", "exact", "moved", "dropped"}

\* Auto-merge of a pull request is enabled.
LEMMA AutoSet ==
    ASSUME PrsOK, NEW i \in Numbers, NEW v \in AutoStates,
           prs' = [prs EXCEPT ![i].auto = v]
    PROVE  /\ PrsOK' /\ Len(prs') = Len(prs)
           /\ \A j \in Numbers : /\ Kept(j) /\ prs'[j].status = prs[j].status
                                 /\ prs'[j].base = prs[j].base
                                 /\ prs'[j].exact = prs[j].exact
                                 /\ prs'[j].toDevelop = prs[j].toDevelop
                                 /\ prs'[j].auto = IF j = i THEN v ELSE prs[j].auto
<1>. DEFINE r == [prs[i] EXCEPT !.auto = v]
<1>1. prs[i] \in PullRequests /\ \A j \in Numbers : prs[j] \in PullRequests
  BY DEF PrsOK, Numbers
<1>2. r \in PullRequests  BY <1>1 DEF PullRequests, AutoStates
<1>3. prs' = [prs EXCEPT ![i] = r]  OBVIOUS
<1>4. /\ PrsOK' /\ Len(prs') = Len(prs)
      /\ \A j \in Numbers : prs'[j] = IF j = i THEN r ELSE prs[j]
  BY <1>2, <1>3, PrsReplaced
<1>. QED  BY <1>1, <1>4 DEF PullRequests, Kept

\* A person closes a pull request.
LEMMA Closed ==
    ASSUME PrsOK, NEW i \in Numbers, Open(i), prs' = [prs EXCEPT ![i].status = "closed"]
    PROVE  /\ PrsOK' /\ Len(prs') = Len(prs)
           /\ \A j \in Numbers : /\ Kept(j)
                                 /\ prs'[j].status = IF j = i THEN "closed" ELSE prs[j].status
                                 /\ prs'[j].exact = prs[j].exact
                                 /\ prs'[j].toDevelop = prs[j].toDevelop
                                 /\ prs'[j].auto = prs[j].auto
<1>. DEFINE r == [prs[i] EXCEPT !.status = "closed"]
<1>1. prs[i] \in PullRequests /\ \A j \in Numbers : prs[j] \in PullRequests
  BY DEF PrsOK, Numbers
<1>2. r \in PullRequests  BY <1>1 DEF PullRequests
<1>3. prs' = [prs EXCEPT ![i] = r]  OBVIOUS
<1>4. /\ PrsOK' /\ Len(prs') = Len(prs)
      /\ \A j \in Numbers : prs'[j] = IF j = i THEN r ELSE prs[j]
  BY <1>2, <1>3, PrsReplaced
<1>. QED  BY <1>1, <1>4 DEF PullRequests, Kept, Open

\* A person reopens one.
LEMMA Reopened ==
    ASSUME PrsOK, NEW i \in Numbers, NEW e \in BOOLEAN, prs[i].status = "closed",
           prs' = [prs EXCEPT ![i].status = "open", ![i].auto = "dropped", ![i].exact = e]
    PROVE  /\ PrsOK' /\ Len(prs') = Len(prs)
           /\ \A j \in Numbers : /\ Kept(j)
                                 /\ prs'[j].status = IF j = i THEN "open" ELSE prs[j].status
                                 /\ prs'[j].exact = IF j = i THEN e ELSE prs[j].exact
                                 /\ prs'[j].toDevelop = prs[j].toDevelop
                                 /\ prs'[j].auto = IF j = i THEN "dropped" ELSE prs[j].auto
<1>. DEFINE r == [prs[i] EXCEPT !.status = "open", !.auto = "dropped", !.exact = e]
<1>1. prs[i] \in PullRequests /\ \A j \in Numbers : prs[j] \in PullRequests
  BY DEF PrsOK, Numbers
<1>2. r \in PullRequests  BY <1>1 DEF PullRequests
<1>3. prs' = [prs EXCEPT ![i] = r]  BY <1>1 DEF PrsOK, Numbers, PullRequests
<1>4. /\ PrsOK' /\ Len(prs') = Len(prs)
      /\ \A j \in Numbers : prs'[j] = IF j = i THEN r ELSE prs[j]
  BY <1>2, <1>3, PrsReplaced
<1>5. /\ r.status = "open" /\ r.auto = "dropped" /\ r.exact = e
      /\ r.pair = prs[i].pair /\ r.from = prs[i].from /\ r.toDevelop = prs[i].toDevelop
  BY <1>1 DEF PullRequests
<1>6. ASSUME NEW j \in Numbers
      PROVE  /\ Kept(j)
             /\ prs'[j].status = IF j = i THEN "open" ELSE prs[j].status
             /\ prs'[j].exact = IF j = i THEN e ELSE prs[j].exact
             /\ prs'[j].toDevelop = prs[j].toDevelop
             /\ prs'[j].auto = IF j = i THEN "dropped" ELSE prs[j].auto
  <2>. HIDE DEF r
  <2>1. CASE j = i
    <3>1. prs'[j] = r  BY <1>4, <2>1
    <3>. QED  BY <1>5, <2>1, <3>1, Zenon DEF Kept
  <2>2. CASE j # i
    <3>1. prs'[j] = prs[j]  BY <1>4, <2>2
    <3>. QED  BY <2>2, <3>1 DEF Kept
  <2>. QED  BY <2>1, <2>2
<1>. QED  BY <1>4, <1>6

\* A person gives one another target.
LEMMA Retargeted ==
    ASSUME PrsOK, NEW i \in Numbers, NEW b \in Heads, Open(i),
           prs' = [prs EXCEPT ![i].toDevelop = ~@, ![i].base = b]
    PROVE  /\ PrsOK' /\ Len(prs') = Len(prs)
           /\ \A j \in Numbers : /\ Kept(j) /\ prs'[j].status = prs[j].status
                                 /\ prs'[j].exact = prs[j].exact
                                 /\ prs'[j].auto = prs[j].auto
                                 /\ j # i => prs'[j].toDevelop = prs[j].toDevelop
<1>. DEFINE r == [prs[i] EXCEPT !.toDevelop = ~@, !.base = b]
<1>1. prs[i] \in PullRequests /\ \A j \in Numbers : prs[j] \in PullRequests
  BY DEF PrsOK, Numbers
<1>2. r \in PullRequests  BY <1>1 DEF PullRequests
<1>3. prs' = [prs EXCEPT ![i] = r]  BY <1>1 DEF PrsOK, Numbers, PullRequests
<1>4. /\ PrsOK' /\ Len(prs') = Len(prs)
      /\ \A j \in Numbers : prs'[j] = IF j = i THEN r ELSE prs[j]
  <2>. HIDE DEF r
  <2>. QED  BY <1>2, <1>3, PrsReplaced
<1>5. /\ r.status = prs[i].status /\ r.auto = prs[i].auto /\ r.exact = prs[i].exact
      /\ r.pair = prs[i].pair /\ r.from = prs[i].from
  BY <1>1 DEF PullRequests
<1>. HIDE DEF r
<1>. QED  BY <1>4, <1>5 DEF Kept, Open

\* The branch of a backmerge moves.
LEMMA Moved ==
    ASSUME PrsOK, NEW p,
           prs' = [i \in Numbers |-> IF prs[i].pair = p /\ Open(i)
                                     THEN [prs[i] EXCEPT !.exact = FALSE] ELSE prs[i]]
    PROVE  /\ PrsOK' /\ Len(prs') = Len(prs)
           /\ \A j \in Numbers : /\ Kept(j) /\ prs'[j].status = prs[j].status
                                 /\ prs'[j].exact =
                                      IF prs[j].pair = p /\ Open(j) THEN FALSE ELSE prs[j].exact
                                 /\ prs'[j].toDevelop = prs[j].toDevelop
                                 /\ prs'[j].auto = prs[j].auto
<1>1. \A j \in Numbers : prs[j] \in PullRequests  BY DEF PrsOK, Numbers
<1>2. [i \in Numbers |-> IF prs[i].pair = p /\ Open(i)
                         THEN [prs[i] EXCEPT !.exact = FALSE] ELSE prs[i]]
        \in [Numbers -> PullRequests]
  BY <1>1 DEF PullRequests
<1>3. /\ PrsOK' /\ Len(prs') = Len(prs)
      /\ \A j \in Numbers : prs'[j] = IF prs[j].pair = p /\ Open(j)
                                      THEN [prs[j] EXCEPT !.exact = FALSE] ELSE prs[j]
  BY <1>2, PrsMapped
<1>4. ASSUME NEW j \in Numbers
      PROVE  /\ Kept(j) /\ prs'[j].status = prs[j].status
             /\ prs'[j].exact = IF prs[j].pair = p /\ Open(j) THEN FALSE ELSE prs[j].exact
             /\ prs'[j].toDevelop = prs[j].toDevelop /\ prs'[j].auto = prs[j].auto
  <2>1. CASE prs[j].pair = p /\ Open(j)
    <3>1. prs'[j] = [prs[j] EXCEPT !.exact = FALSE]  BY <1>3, <2>1
    <3>. QED  BY <1>1, <2>1, <3>1 DEF PullRequests, Kept
  <2>2. CASE ~(prs[j].pair = p /\ Open(j))
    <3>1. prs'[j] = prs[j]  BY <1>3, <2>2
    <3>. QED  BY <2>2, <3>1 DEF Kept
  <2>. QED  BY <2>1, <2>2
<1>. QED  BY <1>3, <1>4

\* develop advances, and a pull request that is merged with it leaves the open ones.
LEMMA Followed ==
    ASSUME PrsOK, develop.rev + 1 \in Heads, NEW done, Follow(done)
    PROVE  /\ PrsOK' /\ Len(prs') = Len(prs)
           /\ \A j \in Numbers : /\ Kept(j)
                                 /\ prs'[j].status = IF j \in done THEN "merged" ELSE prs[j].status
                                 /\ prs'[j].exact = prs[j].exact
                                 /\ prs'[j].toDevelop = prs[j].toDevelop
                                 /\ prs'[j].auto = prs[j].auto
<1>0. PICK fresh \in BOOLEAN :
        prs' = [j \in Numbers |-> IF j \in done THEN [prs[j] EXCEPT !.status = "merged"]
                                  ELSE Rebased(prs[j], fresh)]
  BY DEF Follow
<1>1. \A j \in Numbers : prs[j] \in PullRequests  BY DEF PrsOK, Numbers
<1>2. [j \in Numbers |-> IF j \in done THEN [prs[j] EXCEPT !.status = "merged"]
                         ELSE Rebased(prs[j], fresh)]
        \in [Numbers -> PullRequests]
  BY <1>1 DEF PullRequests, Rebased
<1>3. /\ PrsOK' /\ Len(prs') = Len(prs)
      /\ \A j \in Numbers : prs'[j] = IF j \in done THEN [prs[j] EXCEPT !.status = "merged"]
                                      ELSE Rebased(prs[j], fresh)
  BY <1>0, <1>2, PrsMapped
<1>. QED  BY <1>1, <1>3 DEF PullRequests, Kept, Rebased

\* A call adds at most one pull request, and changes at most the auto-merge of others.
CallKeeps ==
    /\ pc = "create" => ~Offerable(plan)
    /\ Len(prs') = Len(prs)
    /\ \A j \in Numbers :
          /\ Kept(j) /\ prs'[j].status = prs[j].status
          /\ prs'[j].exact = prs[j].exact /\ prs'[j].toDevelop = prs[j].toDevelop
          /\ \/ prs'[j].auto = prs[j].auto
             \/ /\ pc = "enable" /\ j = pr /\ Open(j)
                /\ prs'[j].auto = IF prs[j].exact /\ prs[j].toDevelop THEN "exact" ELSE "moved"
CallAdds ==
    /\ pc = "create" /\ Offerable(plan) /\ ref' = ref /\ Len(prs') = Len(prs) + 1
    /\ \A j \in Numbers : prs'[j] = prs[j]
    /\ prs'[Len(prs) + 1] = [pair |-> plan, from |-> from, base |-> develop.rev,
                             toDevelop |-> TRUE, exact |-> ref[plan] = "exact",
                             status |-> "open", auto |-> "off"]

LEMMA CallEffect ==
    ASSUME TypeOK, Call
    PROVE  /\ PrsOK' /\ ref' \in [Pairs -> {"absent", "exact", "moved"}] /\ upload' \in BOOLEAN
           /\ CallKeeps \/ CallAdds
           /\ \A p \in Pairs : ref[p] # "absent" => ref'[p] = ref[p]
           /\ upload' => upload \/ pc = "push"
<1>. PrsOK  BY DEF TypeOK, PrsOK
<1>1. CASE pc = "enable"
  <2>. DEFINE v == IF ~Open(pr) THEN prs[pr].auto
                   ELSE IF prs[pr].exact /\ prs[pr].toDevelop THEN "exact" ELSE "moved"
  <2>1. pr \in Numbers  BY <1>1 DEF TypeOK, Numbers
  <2>2. v \in AutoStates
    <3>1. prs[pr] \in PullRequests  BY <2>1 DEF PrsOK, Numbers
    <3>2. prs[pr].auto \in AutoStates  BY <3>1 DEF PullRequests, AutoStates
    <3>. QED  BY <3>2 DEF AutoStates
  <2>3. prs' = [prs EXCEPT ![pr].auto = v] /\ UNCHANGED <<ref, upload>>
    BY <1>1 DEF Call
  <2>4. /\ PrsOK' /\ Len(prs') = Len(prs)
        /\ \A j \in Numbers : /\ Kept(j) /\ prs'[j].status = prs[j].status
                              /\ prs'[j].exact = prs[j].exact
                              /\ prs'[j].toDevelop = prs[j].toDevelop
                              /\ prs'[j].auto = IF j = pr THEN v ELSE prs[j].auto
    <3>. HIDE DEF v
    <3>1. prs' = [prs EXCEPT ![pr].auto = v]  BY <2>3
    <3>. QED  BY <2>1, <2>2, <3>1, AutoSet
  <2>. QED  BY <1>1, <2>3, <2>4 DEF CallKeeps, TypeOK
<1>4. CASE pc = "create" /\ ~Offerable(plan)
  <2>1. prs' = prs /\ UNCHANGED <<ref, upload>>  BY <1>4 DEF Call
  <2>. QED  BY <1>4, <2>1 DEF CallKeeps, Kept, PrsOK, TypeOK
<1>2. CASE pc = "create" /\ Offerable(plan)
  <2>. DEFINE r == [pair |-> plan, from |-> from, base |-> develop.rev, toDevelop |-> TRUE,
                    exact |-> ref[plan] = "exact", status |-> "open", auto |-> "off"]
  <2>1. prs' = Append(prs, r) /\ UNCHANGED <<ref, upload>>
    BY <1>2 DEF Call
  <2>2. (ref[plan] = "exact") \in BOOLEAN  OBVIOUS
  <2>3. plan \in Pairs /\ from \in Pairs /\ develop.rev \in Heads
    BY DEF TypeOK
  <2>4. r \in PullRequests  BY <2>2, <2>3 DEF PullRequests
  <2>5. PrsOK' /\ Len(prs') = Len(prs) + 1 /\ prs'[Len(prs) + 1] = r
        /\ \A j \in Numbers : prs'[j] = prs[j]
    <3>. HIDE DEF r
    <3>. QED  BY <2>1, <2>4, PrsAppended
  <2>. QED  BY <1>2, <2>1, <2>5 DEF CallAdds, TypeOK
<1>3. CASE pc \notin {"enable", "create"}
  <2>1. prs' = prs  BY <1>3 DEF Call
  <2>2. ref' \in [Pairs -> {"absent", "exact", "moved"}]
        /\ (\A p \in Pairs : ref[p] # "absent" => ref'[p] = ref[p])
    BY <1>3 DEF Call, TypeOK
  <2>3. upload' \in BOOLEAN /\ (upload' => upload \/ pc = "push")
    <3>1. upload' = upload \/ upload' = FALSE \/ (pc = "push" /\ upload' = TRUE)
      BY <1>3, Zenon DEF Call
    <3>2. upload \in BOOLEAN  BY DEF TypeOK
    <3>3. CASE upload' = upload  BY <3>2, <3>3
    <3>4. CASE upload' = FALSE  BY <3>4
    <3>5. CASE pc = "push" /\ upload' = TRUE  BY <3>5
    <3>. QED  BY <3>1, <3>3, <3>4, <3>5
  <2>. QED  BY <1>3, <2>1, <2>2, <2>3 DEF CallKeeps, Kept, PrsOK
<1>. QED  BY <1>1, <1>2, <1>3, <1>4

-----------------------------------------------------------------------------
(* Type correctness. *)

BranchesOK ==
    /\ develop \in [rev : Heads, has : Mains, own : BOOLEAN, note : Pairs,
                    outer : Heads, inner : Pairs]
    /\ main \in [rev : Mains, note : Pairs] /\ differs \in BOOLEAN
GitHubOK ==
    /\ ref \in [Pairs -> {"absent", "exact", "moved"}]
    /\ upload \in BOOLEAN /\ PrsOK /\ queued \in BOOLEAN
RunOK ==
    /\ pc \in {"idle"} \union Steps /\ plan \in Pairs /\ from \in Pairs
    /\ pr \in 0 .. Len(prs) /\ created \in BOOLEAN /\ trapped \in BOOLEAN
    /\ pc \in {"view", "arm", "enable"} => pr # 0
    /\ pc \in {"visible", "createRef", "verify", "delete", "cleanup"} => trapped
RestOK ==
    /\ broken \subseteq Steps \union {"killed"} /\ red \in BOOLEAN
    /\ raced \subseteq Numbers /\ astray \subseteq Numbers /\ others \in Heads
    /\ faults \in 0 .. MaxMishaps /\ edits \in 0 .. MaxMishaps

\* The type invariant has these four parts.
LEMMA TypeParts ==
    /\ TypeOK <=> BranchesOK /\ GitHubOK /\ RunOK /\ RestOK
    /\ TypeOK' <=> BranchesOK' /\ GitHubOK' /\ RunOK' /\ RestOK'
  BY DEF TypeOK, BranchesOK, GitHubOK, RunOK, RestOK, PrsOK

\* A step that fails, in words of the types.
LEMMA FailTypes ==
    ASSUME TypeOK, Fail
    PROVE  /\ pc' \in {"idle", "cleanup"} /\ (pc' = "cleanup" => trapped)
           /\ red' \in BOOLEAN
  BY DEF Fail, TypeOK

\* A step that only reads keeps the types if its control variables do.
LEMMA ReadTypes ==
    ASSUME TypeOK, Reads, RunOK', red' \in BOOLEAN
    PROVE  TypeOK'
<1>1. BranchesOK /\ GitHubOK /\ RestOK  BY TypeParts
<1>2. BranchesOK'  BY <1>1 DEF Reads, tips, BranchesOK
<1>3. GitHubOK'  BY <1>1 DEF Reads, github, GitHubOK, PrsOK
<1>4. RestOK'  BY <1>1 DEF Reads, github, bounds, RestOK, Numbers
<1>. QED  BY <1>2, <1>3, <1>4, TypeParts

\* So does a step that makes a call.
LEMMA CallTypes ==
    ASSUME TypeOK, Call, RunOK', red' \in BOOLEAN, UNCHANGED <<tips, queued>>,
           broken' \subseteq Steps \union {"killed"}, UNCHANGED <<raced, astray, others>>,
           faults' \in 0 .. MaxMishaps, edits' \in 0 .. MaxMishaps
    PROVE  TypeOK'
<1>1. BranchesOK /\ GitHubOK /\ RestOK  BY TypeParts
<1>2. BranchesOK'  BY <1>1 DEF tips, BranchesOK
<1>3. GitHubOK'  BY <1>1, CallEffect DEF GitHubOK
<1>4. Numbers \subseteq Numbers'
  <2>1. Len(prs') = Len(prs) \/ Len(prs') = Len(prs) + 1
    BY CallEffect DEF CallKeeps, CallAdds
  <2>2. Len(prs) \in Nat  BY <1>1 DEF GitHubOK, PrsOK
  <2>. QED  BY <2>1, <2>2 DEF Numbers
<1>5. RestOK'  BY <1>1, <1>4 DEF RestOK
<1>. QED  BY <1>2, <1>3, <1>5, TypeParts

\* A step of the run keeps the types.
LEMMA RunStepTypes ==
    ASSUME TypeOK, RunStep
    PROVE  TypeOK'
<1>0. BranchesOK /\ GitHubOK /\ RunOK /\ RestOK  BY TypeParts
<1>r. red \in BOOLEAN  BY <1>0 DEF RestOK
<1>1. CASE Fetch
  <2>1. develop.rev \in Heads /\ main.rev \in Mains /\ develop.note \in Pairs
    BY <1>0 DEF BranchesOK
  <2>2. plan' \in Pairs /\ from' \in Pairs  BY <1>1, <2>1 DEF Fetch, Pairs
  <2>3. pc' \in {"idle", "checkRef"} /\ UNCHANGED <<pr, created, trapped, prs, red>>
    BY <1>1 DEF Fetch, Reads, github, Succeed, Go
  <2>4. RunOK'  BY <1>0, <2>2, <2>3 DEF RunOK, Steps
  <2>. QED  BY <1>1, <1>r, <2>3, <2>4, ReadTypes DEF Fetch
<1>2. CASE CheckRef \/ Visible \/ Verify \/ View \/ Arm
  <2>1. Reads /\ UNCHANGED run
    BY <1>2 DEF CheckRef, Visible, Verify, View, Arm
  <2>2. \/ Fail
        \/ Succeed
        \/ pc = "checkRef" /\ Go("inventory")
        \/ pc = "checkRef" /\ Go("push")
        \/ pc = "visible" /\ Go("createRef")
        \/ pc = "verify" /\ Go("delete")
        \/ pc = "view" /\ Go("arm")
        \/ pc = "arm" /\ Go("enable")
    BY <1>2 DEF CheckRef, Visible, Verify, View, Arm
  <2>3. UNCHANGED <<plan, from, pr, created, trapped, prs>>
    BY <2>1 DEF Reads, run, github
  <2>4. RunOK' /\ red' \in BOOLEAN
    BY <1>0, <1>r, <2>2, <2>3, FailTypes DEF RunOK, Succeed, Go, Steps
  <2>. QED  BY <2>1, <2>4, ReadTypes
<1>3. CASE ListPullRequests
  <2>1. Reads /\ UNCHANGED <<plan, from, created, trapped, prs>>
    BY <1>3 DEF ListPullRequests, Reads, github
  <2>2. \/ pr' = pr /\ (Go("create") \/ Fail)
        \/ pr' \in Numbers /\ Go("view")
    BY <1>3 DEF ListPullRequests, Inventory
  <2>3. RunOK' /\ red' \in BOOLEAN
    BY <1>0, <1>r, <2>1, <2>2, FailTypes DEF RunOK, Go, Steps, Numbers
  <2>. QED  BY <2>1, <2>3, ReadTypes
<1>4. CASE Push \/ CreateRef \/ Delete \/ Enable \/ Cleanup
  <2>1. Call /\ UNCHANGED <<tips, queued, plan, from, pr, created, broken, raced, astray, others, bounds>>
    BY <1>4 DEF Push, CreateRef, Delete, Enable, Cleanup, run
  <2>2. pc \in {"push", "createRef", "delete", "enable", "cleanup"}
    BY <1>4 DEF Push, CreateRef, Delete, Enable, Cleanup
  <2>3. \/ trapped' = trapped /\ (Fail \/ Succeed)
        \/ pc = "createRef" /\ trapped' = trapped /\ Go("verify")
        \/ trapped' = TRUE /\ Go("visible")
        \/ trapped' = FALSE /\ Go("inventory")
    BY <1>4 DEF Push, CreateRef, Delete, Enable, Cleanup, run
  <2>4. Len(prs') = Len(prs)  BY <2>1, <2>2, CallEffect DEF CallKeeps, CallAdds
  <2>5. RunOK' /\ red' \in BOOLEAN
    BY <1>0, <1>r, <2>1, <2>2, <2>3, <2>4, FailTypes DEF RunOK, Go, Succeed, Steps
  <2>. QED  BY <1>0, <2>1, <2>5, CallTypes DEF RestOK, bounds
<1>5. CASE Create
  <2>1. /\ Call /\ pc = "create"
        /\ \/ Offerable(plan) /\ pr' = Len(prs) + 1 /\ created' = TRUE /\ Go("view")
           \/ ~Offerable(plan) /\ Fail /\ UNCHANGED <<pr, created>>
        /\ UNCHANGED <<tips, queued, plan, from, trapped, broken, raced, astray, others, bounds>>
    BY <1>5 DEF Create
  <2>2. /\ Len(prs) \in Nat
        /\ IF Offerable(plan) THEN Len(prs') = Len(prs) + 1 ELSE Len(prs') = Len(prs)
    BY <1>0, <2>1, CallEffect DEF CallKeeps, CallAdds, GitHubOK, PrsOK
  <2>3. RunOK' /\ red' \in BOOLEAN
    <3>1. CASE Offerable(plan)
      <4>1. pr' = Len(prs) + 1 /\ created' = TRUE /\ pc' = "view" /\ red' = red
        BY <2>1, <3>1 DEF Go
      <4>. QED  BY <1>0, <1>r, <2>1, <2>2, <3>1, <4>1 DEF RunOK, Steps
    <3>2. CASE ~Offerable(plan)
      <4>1. Fail /\ pr' = pr /\ created' = created  BY <2>1, <3>2
      <4>. QED  BY <1>0, <2>1, <2>2, <3>2, <4>1, FailTypes DEF RunOK, Steps
    <3>. QED  BY <3>1, <3>2
  <2>. QED  BY <1>0, <2>1, <2>3, CallTypes DEF RestOK, bounds
<1>. QED  BY <1>1, <1>2, <1>3, <1>4, <1>5 DEF RunStep

\* A step that moves a branch keeps the types of the rest.
LEMMA BranchTypes ==
    ASSUME TypeOK, BranchesOK', PrsOK', Len(prs') = Len(prs), queued' \in BOOLEAN,
           red' \in BOOLEAN, others' \in Heads,
           UNCHANGED <<ref, upload, pc, run, broken, raced, astray, bounds>>
    PROVE  TypeOK'
<1>1. GitHubOK /\ RunOK /\ RestOK  BY TypeParts
<1>2. GitHubOK'  BY <1>1 DEF GitHubOK
<1>3. RunOK'  BY <1>1 DEF run, RunOK
<1>4. RestOK'  BY <1>1 DEF bounds, RestOK, Numbers
<1>. QED  BY <1>2, <1>3, <1>4, TypeParts

\* A failure, or an act of people, is within the bound.
LEMMA Bounded ==
    ASSUME RestOK, Edit \/ Fault
    PROVE  faults' \in 0 .. MaxMishaps /\ edits' \in 0 .. MaxMishaps
  BY BoundAssumption DEF RestOK, Edit, Fault

\* So does one by which a person handles a pull request.
LEMMA EditTypes ==
    ASSUME TypeOK, EditOnly, PrsOK', Len(prs') = Len(prs),
           ref' \in [Pairs -> {"absent", "exact", "moved"}],
           raced' \subseteq Numbers, astray' \subseteq Numbers
    PROVE  TypeOK'
<1>1. BranchesOK /\ GitHubOK /\ RunOK /\ RestOK  BY TypeParts
<1>2. BranchesOK'  BY <1>1 DEF EditOnly, tips, BranchesOK
<1>3. GitHubOK'  BY <1>1 DEF EditOnly, GitHubOK
<1>4. RunOK'  BY <1>1 DEF EditOnly, run, RunOK
<1>5. faults' \in 0 .. MaxMishaps /\ edits' \in 0 .. MaxMishaps
  BY <1>1, Bounded DEF EditOnly
<1>6. RestOK'  BY <1>1, <1>5 DEF EditOnly, RestOK, Numbers
<1>. QED  BY <1>2, <1>3, <1>4, <1>6, TypeParts

\* Initially the types are right.
LEMMA InitTypes == Init => TypeOK
<1>. SUFFICES ASSUME Init PROVE TypeOK  OBVIOUS
<1>1. 0 \in Heads /\ 0 \in Mains  BY BoundAssumption DEF Heads, Mains
<1>2. NoPair \in Pairs  BY <1>1 DEF NoPair, Pairs
<1>3. BranchesOK  BY <1>1, <1>2 DEF Init, BranchesOK
<1>p. <<>> \in Seq(PullRequests) /\ Len(<<>>) = 0  OBVIOUS
<1>4. GitHubOK
  <2>1. ref \in [Pairs -> {"absent", "exact", "moved"}]  BY DEF Init
  <2>2. upload = FALSE /\ queued = FALSE /\ prs = <<>>  BY DEF Init
  <2>. QED  BY <1>p, <2>1, <2>2 DEF GitHubOK, PrsOK
<1>5. RunOK
  <2>1. pc = "idle" /\ plan = NoPair /\ from = NoPair /\ pr = 0 /\ prs = <<>>  BY DEF Init
  <2>2. created \in BOOLEAN /\ trapped \in BOOLEAN  BY DEF Init
  <2>. QED  BY <1>2, <1>p, <2>1, <2>2 DEF RunOK
<1>6. RestOK
  <2>1. /\ broken = {} /\ red = FALSE /\ raced = {} /\ astray = {} /\ others = 0
        /\ faults = 0 /\ edits = 0
    BY DEF Init
  <2>2. 0 \in 0 .. MaxMishaps /\ FALSE \in BOOLEAN  BY BoundAssumption
  <2>3. raced \subseteq Numbers /\ astray \subseteq Numbers /\ broken \subseteq Steps
    BY <2>1, Zenon
  <2>4. others \in Heads /\ red \in BOOLEAN /\ faults \in 0 .. MaxMishaps /\ edits \in 0 .. MaxMishaps
    BY <1>1, <2>1, <2>2, Zenon
  <2>. QED  BY <2>3, <2>4 DEF RestOK
<1>. QED  BY <1>3, <1>4, <1>5, <1>6, TypeParts

\* Every step keeps the types.
LEMMA NextTypes ==
    ASSUME TypeOK, [Next]_vars
    PROVE  TypeOK'
<1>0. BranchesOK /\ GitHubOK /\ RunOK /\ RestOK  BY TypeParts
<1>p. PrsOK  BY <1>0 DEF GitHubOK
<1>1. CASE StartQueued \/ StartByHand
  <2>1. /\ Begin /\ queued' \in BOOLEAN
        /\ faults' \in 0 .. MaxMishaps /\ edits' \in 0 .. MaxMishaps
    <3>1. Begin /\ (queued' = FALSE \/ queued' = queued) /\ (Edit \/ UNCHANGED bounds)
      BY <1>1 DEF StartQueued, StartByHand
    <3>2. faults' \in 0 .. MaxMishaps /\ edits' \in 0 .. MaxMishaps
      BY <1>0, <3>1, Bounded DEF RestOK, bounds
    <3>3. queued' \in BOOLEAN
      <4>1. queued \in BOOLEAN  BY <1>0 DEF GitHubOK
      <4>. QED  BY <3>1, <4>1, Zenon
    <3>. QED  BY <3>1, <3>2, <3>3
  <2>2. NoPair \in Pairs
    BY BoundAssumption DEF NoPair, Pairs, Heads, Mains
  <2>3. BranchesOK'  BY <1>0, <2>1 DEF Begin, tips, BranchesOK
  <2>4. GitHubOK'  BY <1>0, <2>1 DEF Begin, GitHubOK, PrsOK
  <2>5. RunOK'
    <3>1. /\ pc' = "fetch" /\ plan' = NoPair /\ from' = NoPair /\ pr' = 0 /\ prs' = prs
          /\ created' \in BOOLEAN /\ trapped' \in BOOLEAN
      BY <2>1 DEF Begin
    <3>2. Len(prs) \in Nat  BY <1>p DEF PrsOK
    <3>. QED  BY <2>2, <3>1, <3>2 DEF RunOK, Steps
  <2>6. RestOK'  BY <1>0, <2>1 DEF Begin, RestOK, Numbers
  <2>. QED  BY <2>3, <2>4, <2>5, <2>6, TypeParts
<1>2. CASE RunStep  BY <1>2, RunStepTypes
<1>3. CASE CallFails
  <2>1. /\ pc \in Steps
        /\ faults' \in 0 .. MaxMishaps /\ edits' \in 0 .. MaxMishaps
    BY <1>0, <1>3, Bounded DEF CallFails, RunOK
  <2>2. broken' \subseteq Steps \union {"killed"}  BY <1>0, <1>3, <2>1 DEF CallFails, RestOK
  <2>3. \/ pc = "checkRef" /\ Go("push")
        \/ Succeed
        \/ Fail
    BY <1>3 DEF CallFails
  <2>4. UNCHANGED <<tips, queued, plan, from, pr, created, trapped, raced, astray, others>>
    BY <1>3 DEF CallFails, run
  <2>5. CASE Call
    <3>1. Len(prs) \in Nat /\ (Len(prs') = Len(prs) \/ Len(prs') = Len(prs) + 1)
      BY <1>p, <2>5, CallEffect DEF CallKeeps, CallAdds, PrsOK
    <3>2. RunOK' /\ red' \in BOOLEAN
      BY <1>0, <2>3, <2>4, <3>1, FailTypes DEF RunOK, RestOK, Go, Succeed, Steps
    <3>. QED  BY <1>0, <2>1, <2>2, <2>4, <2>5, <3>2, CallTypes DEF RestOK
  <2>6. CASE UNCHANGED github
    <3>1. RunOK' /\ red' \in BOOLEAN
      BY <1>0, <2>3, <2>4, <2>6, FailTypes DEF RunOK, RestOK, Go, Succeed, Steps, github
    <3>2. BranchesOK'  BY <1>0, <2>4 DEF tips, BranchesOK
    <3>3. GitHubOK'  BY <1>0, <2>4, <2>6 DEF github, GitHubOK, PrsOK
    <3>4. RestOK'  BY <1>0, <2>1, <2>2, <2>4, <2>6, <3>1 DEF github, RestOK, Numbers
    <3>. QED  BY <3>1, <3>2, <3>3, <3>4, TypeParts
  <2>. QED  BY <1>3, <2>5, <2>6 DEF CallFails
<1>4. CASE Kill
  <2>1. BranchesOK' /\ GitHubOK'
    BY <1>0, <1>4 DEF Kill, tips, github, BranchesOK, GitHubOK, PrsOK
  <2>2. RunOK'  BY <1>0, <1>4 DEF Kill, run, github, RunOK
  <2>3. faults' \in 0 .. MaxMishaps /\ edits' \in 0 .. MaxMishaps
    BY <1>0, <1>4, Bounded DEF Kill
  <2>4. RestOK'  BY <1>0, <1>4, <2>3 DEF Kill, github, RestOK, Numbers
  <2>. QED  BY <2>1, <2>2, <2>4, TypeParts
<1>d. ASSUME NEW done, DevelopAdvances(done), BranchesOK', others' \in {others, develop.rev + 1}
      PROVE  TypeOK'
  <2>1. develop.rev + 1 \in Heads
    BY <1>0, <1>d, BoundAssumption DEF DevelopAdvances, BranchesOK, Heads
  <2>2. PrsOK' /\ Len(prs') = Len(prs)
    BY <1>p, <1>d, <2>1, Followed DEF DevelopAdvances
  <2>3. UNCHANGED <<ref, upload, queued, pc, run, broken, red, raced, astray, bounds>>
    BY <1>d DEF DevelopAdvances, Elsewhere
  <2>4. queued' \in BOOLEAN /\ red' \in BOOLEAN /\ others' \in Heads
    BY <1>0, <1>d, <2>1, <2>3 DEF GitHubOK, RestOK
  <2>. QED  BY <1>d, <2>2, <2>3, <2>4, BranchTypes
<1>5. CASE Feature
  <2>1. develop.rev + 1 \in Heads
    BY <1>0, <1>5, BoundAssumption DEF Feature, DevelopAdvances, BranchesOK, Heads
  <2>2. BranchesOK'
    BY <1>0, <1>5, <2>1 DEF Feature, DevelopAdvances, Elsewhere, BranchesOK
  <2>. QED  BY <1>5, <1>d, <2>2 DEF Feature
<1>6. ASSUME NEW i \in Numbers, Merge(i) \/ MergeMoved(i) PROVE TypeOK'
  <2>. DEFINE q == prs[i].pair
  <2>1. develop.rev + 1 \in Heads /\ main' = main
    BY <1>0, <1>6, BoundAssumption
       DEF Merge, MergeMoved, DevelopAdvances, Elsewhere, BranchesOK, Heads
  <2>2. q \in Pairs /\ NewestMain(q.main) \in Mains /\ Evidence(q.main, q.dev) \in Pairs
    <3>1. prs[i] \in PullRequests  BY <1>p DEF PrsOK, Numbers
    <3>2. q \in Pairs  BY <3>1 DEF PullRequests
    <3>. QED  BY <1>0, <3>2 DEF NewestMain, Evidence, Pairs, BranchesOK
  <2>3. NoPair \in Pairs
    BY BoundAssumption DEF NoPair, Pairs, Heads, Mains
  <2>4. BranchesOK'
    <3>1. CASE Merge(i)
      <4>1. develop' = [rev |-> develop.rev + 1, has |-> NewestMain(q.main), own |-> TRUE,
                        note |-> Evidence(q.main, q.dev), outer |-> develop.rev, inner |-> q]
            /\ differs' = differs
        BY <3>1 DEF Merge, TreeAfterMerge
      <4>. QED  BY <1>0, <2>1, <2>2, <4>1 DEF BranchesOK
    <3>2. CASE MergeMoved(i)
      <4>. DEFINE mine == [develop EXCEPT !.rev = @ + 1, !.has = NewestMain(q.main), !.own = TRUE]
      <4>1. /\ differs' \in BOOLEAN
            /\ \/ develop' = mine
               \/ develop' = [mine EXCEPT !.note = q, !.outer = develop.rev, !.inner = NoPair]
        BY <3>2 DEF MergeMoved
      <4>. QED  BY <1>0, <2>1, <2>2, <2>3, <4>1 DEF BranchesOK
    <3>. QED  BY <1>6, <3>1, <3>2
  <2>. QED  BY <1>6, <1>d, <2>4 DEF Merge, MergeMoved
<1>7. CASE Promote \/ SecurityRelease
  <2>1. /\ UNCHANGED <<ref, upload, prs, pc, run, broken, raced, astray, others, bounds>>
        /\ queued' = TRUE /\ red' = FALSE /\ main.rev < MaxMain
    BY <1>7 DEF Promote, SecurityRelease, MainAdvances, github
  <2>2. main.rev + 1 \in Mains  BY <1>0, <2>1, BoundAssumption DEF BranchesOK, Mains
  <2>3. BranchesOK'
    <3>1. CASE Promote
      <4>1. /\ main' = [rev |-> main.rev + 1, note |-> develop.note]
            /\ differs' = FALSE /\ develop' = [develop EXCEPT !.own = FALSE]
        BY <3>1 DEF Promote
      <4>. QED  BY <1>0, <2>2, <4>1 DEF BranchesOK
    <3>2. CASE SecurityRelease
      <4>1. main' = [main EXCEPT !.rev = @ + 1] /\ differs' \in BOOLEAN /\ develop' = develop
        BY <3>2 DEF SecurityRelease
      <4>. QED  BY <1>0, <2>2, <4>1 DEF BranchesOK
    <3>. QED  BY <1>7, <3>1, <3>2
  <2>4. others' \in Heads  BY <1>0, <2>1 DEF RestOK
  <2>. QED  BY <1>p, <2>1, <2>3, <2>4, BranchTypes DEF PrsOK
<1>8. ASSUME NEW i \in Numbers, Close(i) PROVE TypeOK'
  <2>1. PrsOK' /\ Len(prs') = Len(prs)  BY <1>p, <1>8, Closed DEF Close
  <2>. QED  BY <1>0, <1>8, <2>1, EditTypes DEF Close, GitHubOK, RestOK
<1>9. ASSUME NEW i \in Numbers, Reopen(i) PROVE TypeOK'
  <2>1. (ref[prs[i].pair] = "exact") \in BOOLEAN  OBVIOUS
  <2>2. PrsOK' /\ Len(prs') = Len(prs)  BY <1>p, <1>9, <2>1, Reopened DEF Reopen
  <2>. QED  BY <1>0, <1>9, <2>2, EditTypes DEF Reopen, GitHubOK, RestOK
<1>10. ASSUME NEW p \in Pairs, Move(p) PROVE TypeOK'
  <2>1. PrsOK' /\ Len(prs') = Len(prs)  BY <1>p, <1>10, Moved DEF Move
  <2>2. ref' \in [Pairs -> {"absent", "exact", "moved"}]
    BY <1>0, <1>10 DEF Move, GitHubOK
  <2>3. raced' \subseteq Numbers /\ astray' \subseteq Numbers
    BY <1>0, <1>p, <1>10 DEF Move, RestOK, RunOK, Numbers, PrsOK
  <2>. QED  BY <1>10, <2>1, <2>2, <2>3, EditTypes DEF Move
<1>12. ASSUME NEW i \in Numbers, Retarget(i) PROVE TypeOK'
  <2>1. develop.rev \in Heads  BY <1>0 DEF BranchesOK
  <2>2. PrsOK' /\ Len(prs') = Len(prs)  BY <1>p, <1>12, <2>1, Retargeted DEF Retarget
  <2>3. raced' \subseteq Numbers /\ astray' \subseteq Numbers
    BY <1>0, <1>12 DEF Retarget, RestOK
  <2>. QED  BY <1>0, <1>12, <2>2, <2>3, EditTypes DEF Retarget, GitHubOK
<1>11. CASE UNCHANGED vars
  BY <1>0, <1>11 DEF vars, tips, github, run, bounds, TypeOK, Numbers
<1>. QED
  BY <1>1, <1>2, <1>3, <1>4, <1>5, <1>6, <1>7, <1>8, <1>9, <1>10, <1>11, <1>12 DEF Next

\* Every variable keeps its type, however often the branches move, calls fail and
\* people interfere.
THEOREM TypeCorrect == Spec => []TypeOK
<1>1. Init => TypeOK  BY InitTypes
<1>2. TypeOK /\ [Next]_vars => TypeOK'  BY NextTypes
<1>. QED  BY <1>1, <1>2, PTL DEF Spec

-----------------------------------------------------------------------------
(* What every step respects. *)

\* The steps between the fetch and the pull request.
Planned == {"checkRef", "push", "visible", "createRef", "verify", "delete",
            "inventory", "create"}

\* No pull request is lost or made, and only people change the target of one.
Keeps ==
    /\ Len(prs') = Len(prs)
    /\ \A j \in Numbers : /\ Kept(j)
                          /\ prs'[j].toDevelop = prs[j].toDevelop \/ j \in astray'
PlanKept == pc \in Planned /\ UNCHANGED <<plan, from>>
Listed == pc = "inventory" /\ Inventory = {} /\ prs' = prs
BranchStep ==
    Feature \/ (\E i \in Numbers : Merge(i) \/ MergeMoved(i)) \/ Promote \/ SecurityRelease

\* Pull requests are kept, but for the one that is created; a plan is kept until then.
Shape ==
    /\ Keeps \/ (CallAdds /\ UNCHANGED <<tips, others>> /\ pc' \notin Planned)
    /\ astray \subseteq astray'
    /\ pc' \in Planned => Fetch \/ PlanKept
    /\ pc' = "create" => UNCHANGED plan /\ (pc = "create" \/ Listed)
    /\ UNCHANGED <<tips, others>> \/ BranchStep

\* A step that ends or fails leaves the planned steps.
LEMMA EndsPlan ==
    ASSUME Fail \/ Succeed
    PROVE  pc' \notin Planned
  BY DEF Fail, Succeed, Planned

\* Steps that change no pull request keep them.
LEMMA SamePrs == prs' = prs => Keeps
  BY DEF Keeps, Kept

LEMMA RunStepShape ==
    ASSUME TypeOK, RunStep
    PROVE  Shape
<1>1. CASE Fetch
  <2>1. prs' = prs /\ UNCHANGED <<tips, others, astray>> /\ pc' \in {"idle", "checkRef"}
    BY <1>1 DEF Fetch, Reads, github, Succeed, Go
  <2>. QED  BY <1>1, <2>1, SamePrs DEF Shape
<1>2. CASE CheckRef \/ Visible \/ Verify \/ View \/ Arm
  <2>1. prs' = prs /\ UNCHANGED <<tips, others, astray, plan, from>>
    BY <1>2 DEF CheckRef, Visible, Verify, View, Arm, Reads, run, github
  <2>2. \/ Fail \/ Succeed
        \/ pc = "checkRef" /\ Go("inventory")
        \/ pc = "checkRef" /\ Go("push")
        \/ pc = "visible" /\ Go("createRef")
        \/ pc = "verify" /\ Go("delete")
        \/ pc = "view" /\ Go("arm")
        \/ pc = "arm" /\ Go("enable")
    BY <1>2 DEF CheckRef, Visible, Verify, View, Arm
  <2>3. pc' # "create" /\ (pc' \in Planned => pc \in Planned)
    BY <2>2, EndsPlan DEF Go, Planned, Fail, Succeed
  <2>. QED  BY <2>1, <2>3, SamePrs DEF Shape, PlanKept
<1>3. CASE ListPullRequests
  <2>1. prs' = prs /\ UNCHANGED <<tips, others, astray, plan, from>> /\ pc = "inventory"
    BY <1>3 DEF ListPullRequests, Reads, github
  <2>2. (Inventory = {} /\ Go("create")) \/ Go("view") \/ Fail
    BY <1>3 DEF ListPullRequests
  <2>3. pc' = "create" => Inventory = {}
    BY <2>2 DEF Go, Fail
  <2>. QED  BY <2>1, <2>3, SamePrs DEF Shape, PlanKept, Listed, Planned
<1>4. CASE Push \/ CreateRef \/ Delete \/ Enable \/ Cleanup
  <2>1. Call /\ UNCHANGED <<tips, others, astray, plan, from>>
    BY <1>4 DEF Push, CreateRef, Delete, Enable, Cleanup, run
  <2>2. pc # "create"
    BY <1>4 DEF Push, CreateRef, Delete, Enable, Cleanup
  <2>3. Keeps  BY <2>1, <2>2, CallEffect DEF CallKeeps, CallAdds, Keeps
  <2>4. \/ Fail \/ Succeed
        \/ pc = "createRef" /\ Go("verify")
        \/ pc = "push" /\ Go("visible")
        \/ pc = "delete" /\ Go("inventory")
    BY <1>4 DEF Push, CreateRef, Delete, Enable, Cleanup
  <2>5. pc' # "create" /\ (pc' \in Planned => pc \in Planned)
    BY <2>4 DEF Go, Planned, Fail, Succeed
  <2>. QED  BY <2>1, <2>3, <2>5 DEF Shape, PlanKept
<1>5. CASE Create
  <2>1. /\ Call /\ UNCHANGED <<tips, others, astray>> /\ pc = "create"
        /\ \/ Offerable(plan) /\ pc' = "view"
           \/ ~Offerable(plan) /\ Fail
    BY <1>5 DEF Create, Go
  <2>2. pc' \notin Planned /\ pc' # "create"
    BY <2>1, EndsPlan DEF Planned
  <2>3. Keeps \/ CallAdds  BY <2>1, CallEffect DEF CallKeeps, Keeps
  <2>. QED  BY <2>1, <2>2, <2>3 DEF Shape
<1>. QED  BY <1>1, <1>2, <1>3, <1>4, <1>5 DEF RunStep

\* The branches move without the run, or what people did to the pull requests.
LEMMA BranchFrame ==
    ASSUME BranchStep
    PROVE  UNCHANGED <<ref, upload, pc, run, broken, raced, astray, bounds>>
  BY DEF BranchStep, Feature, Merge, MergeMoved, DevelopAdvances, Promote, SecurityRelease,
         Elsewhere, MainAdvances, github

LEMMA NextShape ==
    ASSUME TypeOK, [Next]_vars
    PROVE  Shape
<1>0. BranchesOK /\ GitHubOK /\ RunOK /\ RestOK  BY TypeParts
<1>p. PrsOK  BY <1>0 DEF GitHubOK
<1>1. CASE StartQueued \/ StartByHand
  <2>1. Begin  BY <1>1 DEF StartQueued, StartByHand
  <2>. QED  BY <2>1, SamePrs DEF Begin, Shape, Planned
<1>2. CASE RunStep  BY <1>2, RunStepShape
<1>3. CASE CallFails
  <2>1. UNCHANGED <<tips, others, astray, plan, from>>  BY <1>3 DEF CallFails, run
  <2>2. \/ pc = "checkRef" /\ Go("push")
        \/ Fail \/ Succeed
    BY <1>3 DEF CallFails
  <2>3. pc' # "create" /\ (pc' \in Planned => pc \in Planned)
    BY <2>2 DEF Go, Planned, Fail, Succeed
  <2>4. CASE Call
    <3>1. CASE pc = "create"
      <4>1. Fail \/ Succeed  BY <2>2, <3>1
      <4>2. Keeps \/ CallAdds  BY <2>4, CallEffect DEF CallKeeps, Keeps
      <4>. QED  BY <2>1, <4>1, <4>2, EndsPlan DEF Shape, Planned
    <3>2. CASE pc # "create"
      <4>1. Keeps  BY <2>4, <3>2, CallEffect DEF CallKeeps, CallAdds, Keeps
      <4>. QED  BY <2>1, <2>3, <4>1 DEF Shape, PlanKept
    <3>. QED  BY <3>1, <3>2
  <2>5. CASE UNCHANGED github
    BY <2>1, <2>3, <2>5, SamePrs DEF Shape, PlanKept, github
  <2>. QED  BY <1>3, <2>4, <2>5 DEF CallFails
<1>4. CASE Kill
  BY <1>4, SamePrs DEF Kill, Shape, Planned, github
<1>5. CASE BranchStep
  <2>1. UNCHANGED <<pc, plan, from, astray>>  BY <1>5, BranchFrame DEF run
  <2>2. Keeps
    <3>1. ASSUME NEW done, DevelopAdvances(done) PROVE Keeps
      <4>1. Follow(done) /\ develop.rev + 1 \in Heads
        BY <1>0, <3>1, BoundAssumption DEF DevelopAdvances, BranchesOK, Heads
      <4>. QED  BY <1>p, <4>1, Followed DEF Keeps
    <3>2. CASE Feature \/ \E i \in Numbers : Merge(i) \/ MergeMoved(i)
      BY <3>1, <3>2 DEF Feature, Merge, MergeMoved
    <3>3. CASE Promote \/ SecurityRelease
      BY <3>3, SamePrs DEF Promote, SecurityRelease, MainAdvances, github
    <3>. QED  BY <1>5, <3>2, <3>3 DEF BranchStep
  <2>. QED  BY <1>5, <2>1, <2>2 DEF Shape, PlanKept, Planned
<1>6. ASSUME NEW i \in Numbers, Close(i) \/ Reopen(i) PROVE Shape
  <2>1. UNCHANGED <<tips, others, pc, plan, from, astray>>
    BY <1>6 DEF Close, Reopen, EditOnly, run
  <2>2. Keeps
    <3>1. CASE Close(i)  BY <1>p, <3>1, Closed DEF Close, Keeps
    <3>2. CASE Reopen(i)
      <4>1. (ref[prs[i].pair] = "exact") \in BOOLEAN  OBVIOUS
      <4>. QED  BY <1>p, <3>2, <4>1, Reopened DEF Reopen, Keeps
    <3>. QED  BY <1>6, <3>1, <3>2
  <2>. QED  BY <2>1, <2>2 DEF Shape, PlanKept, Planned
<1>7. ASSUME NEW p \in Pairs, Move(p) PROVE Shape
  <2>1. UNCHANGED <<tips, others, pc, plan, from, astray>>  BY <1>7 DEF Move, EditOnly, run
  <2>2. Keeps  BY <1>p, <1>7, Moved DEF Move, Keeps
  <2>. QED  BY <2>1, <2>2 DEF Shape, PlanKept, Planned
<1>9. ASSUME NEW i \in Numbers, Retarget(i) PROVE Shape
  <2>1. UNCHANGED <<tips, others, pc, plan, from>> /\ astray' = astray \union {i}
    BY <1>9 DEF Retarget, EditOnly, run
  <2>2. develop.rev \in Heads  BY <1>0 DEF BranchesOK
  <2>3. Keeps  BY <1>p, <1>9, <2>1, <2>2, Retargeted DEF Retarget, Keeps
  <2>. QED  BY <2>1, <2>3 DEF Shape, PlanKept, Planned
<1>8. CASE UNCHANGED vars
  BY <1>8, SamePrs DEF vars, github, run, Shape, PlanKept, Planned
<1>. QED
  BY <1>1, <1>2, <1>3, <1>4, <1>5, <1>6, <1>7, <1>8, <1>9 DEF Next, BranchStep

-----------------------------------------------------------------------------
(* One pull request per backmerge. *)

\* The invariant that makes it inductive: when the pull request is about to be created,
\* every other one of the plan was retargeted, as is every one that is not into develop.
OneEach ==
    /\ OnePullRequestPerHead
    /\ \A j \in Numbers : ~prs[j].toDevelop => j \in astray
    /\ pc = "create" => \A j \in Numbers : prs[j].pair = plan => j \in astray

LEMMA OneEachStep ==
    ASSUME TypeOK, OneEach, [Next]_vars
    PROVE  OneEach'
<1>0. Shape /\ Len(prs) \in Nat  BY NextShape DEF TypeOK
<1>a. astray \subseteq astray'  BY <1>0 DEF Shape
<1>1. CASE Keeps
  <2>1. /\ Numbers' = Numbers
        /\ \A j \in Numbers : /\ prs'[j].pair = prs[j].pair
                              /\ prs'[j].toDevelop = prs[j].toDevelop \/ j \in astray'
    BY <1>1 DEF Keeps, Kept, Numbers
  <2>2. OnePullRequestPerHead'  BY <1>a, <2>1 DEF OneEach, OnePullRequestPerHead
  <2>3. ASSUME NEW j \in Numbers, ~prs'[j].toDevelop PROVE j \in astray'
    BY <1>a, <2>1, <2>3 DEF OneEach
  <2>4. ASSUME pc' = "create", NEW j \in Numbers, prs'[j].pair = plan' PROVE j \in astray'
    <3>1. plan' = plan /\ prs[j].pair = plan  BY <1>0, <2>1, <2>4 DEF Shape
    <3>2. CASE pc = "create"  BY <1>a, <3>1, <3>2 DEF OneEach
    <3>3. CASE Listed
      <4>1. ~prs[j].toDevelop  BY <3>1, <3>3 DEF Listed, Inventory
      <4>. QED  BY <1>a, <4>1 DEF OneEach
    <3>. QED  BY <1>0, <2>4, <3>2, <3>3 DEF Shape
  <2>. QED  BY <2>1, <2>2, <2>3, <2>4 DEF OneEach
<1>2. CASE CallAdds /\ pc' \notin Planned
  <2>1. /\ Numbers' = Numbers \union {Len(prs) + 1}
        /\ \A j \in Numbers : j < Len(prs) + 1 /\ ~(Len(prs) + 1 < j)
        /\ \A j \in Numbers : prs'[j] = prs[j]
        /\ prs'[Len(prs) + 1].pair = plan /\ prs'[Len(prs) + 1].toDevelop
    BY <1>0, <1>2 DEF CallAdds, Numbers
  <2>2. \A j \in Numbers : prs[j].pair = plan => j \in astray'
    BY <1>a, <1>2 DEF OneEach, CallAdds
  <2>3. ASSUME NEW j \in Numbers', NEW k \in Numbers', prs'[j].pair = prs'[k].pair, j < k
        PROVE  j \in astray'
    <3>1. CASE k \in Numbers
      <4>1. j \in Numbers  BY <2>1, <2>3, <3>1
      <4>. QED  BY <1>a, <2>1, <2>3, <3>1, <4>1 DEF OneEach, OnePullRequestPerHead
    <3>2. CASE k = Len(prs) + 1
      <4>1. j \in Numbers  BY <1>0, <2>1, <2>3, <3>2
      <4>. QED  BY <2>1, <2>2, <2>3, <3>2, <4>1
    <3>. QED  BY <2>1, <3>1, <3>2
  <2>4. ASSUME NEW j \in Numbers', ~prs'[j].toDevelop PROVE j \in astray'
    BY <1>a, <2>1, <2>4 DEF OneEach
  <2>5. pc' # "create"  BY <1>2 DEF Planned
  <2>. QED  BY <2>3, <2>4, <2>5 DEF OneEach, OnePullRequestPerHead
<1>. QED  BY <1>0, <1>1, <1>2 DEF Shape

LEMMA OneEachInit == Init => OneEach
<1>. SUFFICES ASSUME Init PROVE OneEach  OBVIOUS
<1>1. prs = <<>> /\ pc = "idle" /\ Len(<<>>) = 0  BY DEF Init
<1>. QED  BY <1>1 DEF OneEach, OnePullRequestPerHead, Numbers

\* A backmerge gets a second pull request only after people retargeted the one it has,
\* so that the inventory of pull requests into develop no longer lists it.
THEOREM BackmergeOnce == Spec => []OnePullRequestPerHead
<1>1. Init => TypeOK /\ OneEach  BY InitTypes, OneEachInit
<1>2. TypeOK /\ OneEach /\ [Next]_vars => TypeOK' /\ OneEach'
  BY NextTypes, OneEachStep
<1>3. OneEach => OnePullRequestPerHead  BY DEF OneEach
<1>. QED  BY <1>1, <1>2, <1>3, PTL DEF Spec

-----------------------------------------------------------------------------
(* The temporary ref. *)

\* While the ref is there, the trap will remove it or something failed.
UploadHeld ==
    upload => \/ pc \in {"visible", "createRef", "verify", "delete", "cleanup"}
              \/ broken \intersect {"push", "cleanup", "killed"} # {}

LEMMA UploadHeldStep ==
    ASSUME TypeOK, UploadHeld, [Next]_vars
    PROVE  UploadHeld'
<1>0. RunOK  BY TypeParts
<1>1. CASE StartQueued \/ StartByHand
  BY <1>1 DEF StartQueued, StartByHand, Begin, UploadHeld
<1>2. CASE Fetch \/ CheckRef \/ Visible \/ Verify \/ ListPullRequests \/ View \/ Arm
  <2>1. UNCHANGED <<upload, broken>>
    BY <1>2 DEF Fetch, CheckRef, Visible, Verify, ListPullRequests, View, Arm, Reads, github
  <2>2. pc \in {"visible", "verify"} =>
           pc' \in {"createRef", "delete", "cleanup"}
    BY <1>0, <1>2 DEF Fetch, CheckRef, Visible, Verify, ListPullRequests, View, Arm,
                      Fail, Go, RunOK
  <2>3. pc \notin {"createRef", "delete", "cleanup"}
    BY <1>2 DEF Fetch, CheckRef, Visible, Verify, ListPullRequests, View, Arm
  <2>. QED  BY <2>1, <2>2, <2>3 DEF UploadHeld
<1>3. CASE Push \/ CreateRef \/ Delete \/ Create \/ Enable \/ Cleanup
  <2>1. Call /\ broken' = broken
    BY <1>3 DEF Push, CreateRef, Delete, Create, Enable, Cleanup
  <2>2. pc \in {"delete", "cleanup"} => ~upload'
    BY <2>1 DEF Call
  <2>3. pc = "push" => pc' = "visible"
    BY <1>3 DEF Push, CreateRef, Delete, Create, Enable, Cleanup, Go
  <2>4. pc = "createRef" => pc' \in {"verify", "cleanup"}
    BY <1>0, <1>3 DEF Push, CreateRef, Delete, Create, Enable, Cleanup, Go, Fail, RunOK
  <2>5. pc \in {"push", "createRef", "delete", "create", "enable", "cleanup"}
    BY <1>3 DEF Push, CreateRef, Delete, Create, Enable, Cleanup
  <2>6. upload' => upload \/ pc = "push"  BY <2>1, CallEffect
  <2>. QED  BY <2>1, <2>2, <2>3, <2>4, <2>5, <2>6 DEF UploadHeld
<1>4. CASE CallFails
  <2>1. broken' = broken \union {pc}  BY <1>4 DEF CallFails
  <2>2. upload' => upload \/ pc = "push"
    BY <1>4, CallEffect DEF CallFails, github
  <2>3. pc \in {"visible", "createRef", "verify", "delete"} => pc' = "cleanup"
    BY <1>0, <1>4 DEF CallFails, Fail, RunOK
  <2>. QED  BY <2>1, <2>2, <2>3 DEF UploadHeld
<1>5. CASE Kill  BY <1>5 DEF Kill, UploadHeld
<1>6. CASE BranchStep  BY <1>6, BranchFrame DEF UploadHeld
<1>7. CASE \/ \E i \in Numbers : Close(i) \/ Reopen(i) \/ Retarget(i)
           \/ \E p \in Pairs : Move(p)
  BY <1>7 DEF Close, Reopen, Retarget, Move, EditOnly, UploadHeld
<1>8. CASE UNCHANGED vars  BY <1>8 DEF vars, github, UploadHeld
<1>. QED
  BY <1>1, <1>2, <1>3, <1>4, <1>5, <1>6, <1>7, <1>8 DEF Next, RunStep, BranchStep

\* The temporary ref outlives a run only if the push or the clean-up failed, or the
\* job was killed.
THEOREM UploadCleaned == Spec => []UploadRefIsCleaned
<1>1. Init => TypeOK /\ UploadHeld  BY InitTypes DEF Init, UploadHeld
<1>2. TypeOK /\ UploadHeld /\ [Next]_vars => TypeOK' /\ UploadHeld'
  BY NextTypes, UploadHeldStep
<1>3. UploadHeld => UploadRefIsCleaned  BY DEF UploadHeld, UploadRefIsCleaned
<1>. QED  BY <1>1, <1>2, <1>3, PTL DEF Spec

-----------------------------------------------------------------------------
(* The branches. *)

\* A step that moves a branch keeps the pull requests and the plan.
LEMMA BranchKeeps ==
    ASSUME TypeOK, Shape, BranchStep
    PROVE  /\ Numbers' = Numbers
           /\ \A j \in Numbers : prs'[j].pair = prs[j].pair /\ prs'[j].from = prs[j].from
           /\ UNCHANGED <<pc, plan, from>>
<1>1. UNCHANGED <<pc, plan, from>>  BY BranchFrame DEF run
<1>2. Keeps  BY <1>1 DEF Shape, CallAdds, Planned
<1>. QED  BY <1>1, <1>2 DEF Keeps, Kept, Numbers

\* The evidence e was recorded before any backmerge, or by a merged one.
Recorded(e) == e = NoPair \/ InDevelop(e)

\* A backmerge p that is made from the evidence f of develop.  As long as that is still
\* develop's, develop lacks its main and is the very develop it was made from, unless
\* people's own commits moved it since.
Sound(f, p) ==
    /\ Recorded(f) /\ 0 < p.main /\ p.main <= main.rev /\ p.dev <= develop.rev
    /\ f = develop.note => develop.has < p.main \/ others > p.dev
    /\ f = develop.note => p.dev = develop.rev \/ others > p.dev
    /\ f = develop.note /\ ~develop.own /\ p.main = main.rev => p.dev = develop.rev

\* What has been merged so far is sound.
TipsSound ==
    /\ develop.has <= main.rev /\ develop.inner.main <= main.rev
    /\ develop.inner.dev <= develop.rev /\ others <= develop.rev
    /\ Recorded(develop.note) /\ Recorded(main.note)
    /\ IF develop.note = NoPair THEN main.note = NoPair ELSE develop.outer < develop.rev
    /\ ContractHolds

BranchesSound ==
    /\ TipsSound
    /\ pc \in Planned => Sound(from, plan)
    /\ \A i \in Numbers : Sound(prs[i].from, prs[i].pair)

\* What is recorded remains so, and what was sound remains so while the tips stay.
LEMMA RecordedKept ==
    ASSUME TypeOK, Shape
    PROVE  /\ \A e : Recorded(e) => Recorded(e)'
           /\ UNCHANGED <<tips, others>> => \A f, p : Sound(f, p) => Sound(f, p)'
<1>1. Len(prs) \in Nat  BY DEF TypeOK
<1>2. \A j \in Numbers : j \in Numbers' /\ Kept(j)
  BY <1>1 DEF Shape, Keeps, CallAdds, Numbers, Kept
<1>3. \A e : Recorded(e) => Recorded(e)'
  BY <1>2 DEF Recorded, InDevelop, Kept
<1>4. UNCHANGED <<tips, others>> => \A f, p : Sound(f, p) => Sound(f, p)'
  BY <1>3 DEF Sound, tips
<1>. QED  BY <1>3, <1>4

\* The numbers that the properties compare.
LEMMA PairNumbers ==
    ASSUME TypeOK
    PROVE  /\ develop.rev \in Nat /\ develop.has \in Nat /\ develop.outer \in Nat
           /\ develop.inner \in Pairs /\ develop.inner.main \in Nat /\ develop.inner.dev \in Nat
           /\ main.rev \in Nat /\ others \in Nat /\ Len(prs) \in Nat
           /\ plan \in Pairs /\ plan.main \in Nat /\ plan.dev \in Nat
           /\ \A i \in Numbers : /\ prs[i].pair \in Pairs /\ prs[i].pair.main \in Nat
                                 /\ prs[i].pair.dev \in Nat
<1>0. BranchesOK /\ RunOK /\ RestOK /\ PrsOK  BY TypeParts DEF GitHubOK
<1>1. \A p \in Pairs : p.main \in Nat /\ p.dev \in Nat  BY DEF Pairs, Mains, Heads
<1>2. /\ develop.rev \in Nat /\ develop.has \in Nat /\ develop.outer \in Nat
      /\ develop.inner \in Pairs /\ main.rev \in Nat
  BY <1>0 DEF BranchesOK, Heads, Mains
<1>3. others \in Nat /\ Len(prs) \in Nat /\ plan \in Pairs
  BY <1>0 DEF RestOK, RunOK, PrsOK, Heads
<1>4. \A i \in Numbers : prs[i] \in PullRequests  BY <1>0 DEF PrsOK, Numbers
<1>5. \A i \in Numbers : prs[i].pair \in Pairs  BY <1>4 DEF PullRequests
<1>. QED  BY <1>1, <1>2, <1>3, <1>5

\* A commit of people's own to develop: it keeps the evidence, or takes the one of a
\* backmerge that develop had not had.
OwnCommit ==
    /\ develop'.rev = develop.rev + 1 /\ others' = develop.rev + 1 /\ main' = main
    /\ develop'.own = TRUE /\ develop'.has \in develop.has .. main.rev
    /\ \/ UNCHANGED <<develop.note, develop.outer, develop.inner>>
       \/ /\ develop'.outer = develop.rev /\ develop'.inner = NoPair
          /\ develop'.note # NoPair /\ ~Recorded(develop.note') /\ Recorded(develop.note)'

\* A merge of a backmerge p as the workflow made it.
WorkflowMerge(p) ==
    /\ develop' = [rev |-> develop.rev + 1, has |-> NewestMain(p.main), own |-> TRUE,
                   note |-> p, outer |-> develop.rev, inner |-> p]
    /\ UNCHANGED <<main, differs, others>>
    /\ Sound(develop.note, p) /\ p \in Pairs /\ p.main \in Nat /\ p.dev \in Nat
    /\ ~Recorded(p) /\ Recorded(p)'

LEMMA FeatureIsOwnCommit ==
    ASSUME TypeOK, BranchesSound, Feature
    PROVE  OwnCommit
<1>1. BranchesOK  BY TypeParts
<1>2. develop.has \in develop.has .. main.rev
  BY PairNumbers DEF BranchesSound, TipsSound
<1>. QED  BY <1>1, <1>2 DEF Feature, DevelopAdvances, Elsewhere, BranchesOK, OwnCommit

\* What develop had not merged is merged after the merge of it.
LEMMA MergeRecords ==
    ASSUME TypeOK, NEW i \in Numbers, DevelopAdvances({i})
    PROVE  \A q : q = prs[i].pair => Recorded(q)'
<1>0. BranchesOK /\ PrsOK  BY TypeParts DEF GitHubOK
<1>1. Follow({i}) /\ develop.rev + 1 \in Heads
  BY <1>0, BoundAssumption DEF DevelopAdvances, BranchesOK, Heads
<1>2. prs'[i].status = "merged" /\ Numbers' = Numbers /\ prs'[i].pair = prs[i].pair
  BY <1>0, <1>1, Followed DEF Numbers, Kept
<1>3. i \in Numbers'  BY <1>2
<1>. QED  BY <1>2, <1>3 DEF Recorded, InDevelop

LEMMA MergeMovedIsOwnCommit ==
    ASSUME TypeOK, BranchesSound, NEW i \in Numbers, MergeMoved(i)
    PROVE  OwnCommit
<1>0. BranchesOK  BY TypeParts
<1>1. PICK q \in Pairs : q = prs[i].pair  BY PairNumbers
<1>2. /\ q.main \in Nat /\ develop.has \in Nat /\ main.rev \in Nat
      /\ 0 < q.main /\ q.main <= main.rev /\ develop.has <= main.rev
  BY <1>1, PairNumbers DEF BranchesSound, TipsSound, Sound
<1>3. NewestMain(q.main) \in develop.has .. main.rev
  BY <1>2 DEF NewestMain
<1>. DEFINE mine == [develop EXCEPT !.rev = @ + 1, !.has = NewestMain(q.main), !.own = TRUE]
<1>4. /\ others' = develop.rev + 1 /\ main' = main
      /\ \/ develop' = mine
         \/ /\ ~InDevelop(q)
            /\ develop' = [mine EXCEPT !.note = q, !.outer = develop.rev, !.inner = NoPair]
  BY <1>1 DEF MergeMoved, DevelopAdvances, Elsewhere
<1>5. CASE develop' = mine
  BY <1>0, <1>3, <1>4, <1>5 DEF OwnCommit, BranchesOK
<1>6. CASE /\ ~InDevelop(q)
           /\ develop' = [mine EXCEPT !.note = q, !.outer = develop.rev, !.inner = NoPair]
  <2>1. /\ develop'.rev = develop.rev + 1 /\ develop'.own = TRUE
        /\ develop'.has = NewestMain(q.main) /\ develop'.note = q
        /\ develop'.outer = develop.rev /\ develop'.inner = NoPair
    BY <1>0, <1>6 DEF BranchesOK
  <2>2. q # NoPair  BY <1>2 DEF NoPair
  <2>3. ~Recorded(q)  BY <1>6, <2>2 DEF Recorded
  <2>4. Recorded(q)'  BY <1>1, MergeRecords DEF MergeMoved
  <2>5. Recorded(develop.note)'  BY <2>1, <2>4 DEF Recorded, InDevelop
  <2>6. ~Recorded(develop.note')  BY <2>1, <2>3 DEF Recorded, InDevelop
  <2>. QED  BY <1>3, <1>4, <2>1, <2>2, <2>5, <2>6 DEF OwnCommit
<1>. QED  BY <1>4, <1>5, <1>6

LEMMA MergeIsWorkflowMerge ==
    ASSUME TypeOK, BranchesSound, NEW i \in Numbers, Merge(i)
    PROVE  \E q \in Pairs : q = prs[i].pair /\ WorkflowMerge(q)
<1>1. PICK q \in Pairs : q = prs[i].pair  BY PairNumbers
<1>2. q.main \in Nat /\ q.dev \in Nat  BY <1>1, PairNumbers
<1>3. q = [main |-> q.main, dev |-> q.dev]  BY DEF Pairs
<1>4. /\ develop' = [rev |-> develop.rev + 1, has |-> NewestMain(q.main), own |-> TRUE,
                     note |-> q, outer |-> develop.rev, inner |-> q]
      /\ UNCHANGED <<main, differs, others>>
  BY <1>1, <1>3 DEF Merge, DevelopAdvances, Elsewhere, Evidence, TreeAfterMerge
<1>5. Sound(develop.note, q) /\ ~InDevelop(q)
  <2>1. develop.note = prs[i].from /\ ~InDevelop(q)
    BY <1>1 DEF Merge, Mergeable, Conflicts
  <2>2. Sound(prs[i].from, prs[i].pair)  BY DEF BranchesSound
  <2>. QED  BY <1>1, <2>1, <2>2
<1>6. ~Recorded(q)
  <2>1. q # NoPair  BY <1>2, <1>5 DEF Sound, NoPair
  <2>. QED  BY <1>5, <2>1 DEF Recorded
<1>7. Recorded(q)'  BY <1>1, MergeRecords DEF Merge
<1>. QED  BY <1>1, <1>2, <1>4, <1>5, <1>6, <1>7 DEF WorkflowMerge

\* A promotion or a security release.
MainMoves ==
    /\ main'.rev = main.rev + 1
    /\ main'.note \in {main.note, develop.note}
    /\ UNCHANGED <<develop.rev, develop.has, develop.note, develop.outer, develop.inner, others>>
    /\ develop'.own \in {develop.own, FALSE}

LEMMA MainMoved ==
    ASSUME TypeOK, Promote \/ SecurityRelease
    PROVE  MainMoves
<1>1. BranchesOK  BY TypeParts
<1>2. CASE Promote
  <2>1. /\ main' = [rev |-> main.rev + 1, note |-> develop.note]
        /\ develop' = [develop EXCEPT !.own = FALSE] /\ others' = others
    BY <1>2 DEF Promote, MainAdvances
  <2>. QED  BY <1>1, <2>1 DEF BranchesOK, MainMoves
<1>3. CASE SecurityRelease
  <2>1. main' = [main EXCEPT !.rev = @ + 1] /\ UNCHANGED <<develop, others>>
    BY <1>3 DEF SecurityRelease, MainAdvances
  <2>. QED  BY <1>1, <2>1 DEF BranchesOK, MainMoves
<1>. QED  BY <1>2, <1>3

LEMMA BranchCases ==
    ASSUME TypeOK, BranchesSound, BranchStep
    PROVE  OwnCommit \/ MainMoves \/ \E q \in Pairs : WorkflowMerge(q)
<1>1. CASE Feature  BY <1>1, FeatureIsOwnCommit
<1>2. ASSUME NEW i \in Numbers, Merge(i) \/ MergeMoved(i)
      PROVE  OwnCommit \/ \E q \in Pairs : WorkflowMerge(q)
  BY <1>2, MergeIsWorkflowMerge, MergeMovedIsOwnCommit
<1>3. CASE Promote \/ SecurityRelease  BY <1>3, MainMoved
<1>. QED  BY <1>1, <1>2, <1>3 DEF BranchStep

\* Whatever moves a branch, the tips stay sound, and so does what was made for them.
LEMMA TipsSoundStep ==
    ASSUME TypeOK, BranchesSound, Shape, BranchStep
    PROVE  /\ TipsSound'
           /\ \A f, p : Sound(f, p) /\ p.main \in Nat /\ p.dev \in Nat => Sound(f, p)'
<1>r. \A e : Recorded(e) => Recorded(e)'  BY RecordedKept
<1>n. /\ develop.rev \in Nat /\ develop.has \in Nat /\ develop.outer \in Nat
      /\ develop.inner.main \in Nat /\ develop.inner.dev \in Nat
      /\ main.rev \in Nat /\ others \in Nat
  BY PairNumbers
<1>s. TipsSound  BY DEF BranchesSound
<1>1. CASE OwnCommit
  <2>1. /\ develop'.rev = develop.rev + 1 /\ others' = develop.rev + 1 /\ main' = main
        /\ develop'.own = TRUE /\ develop'.has \in develop.has .. main.rev
    BY <1>1 DEF OwnCommit
  <2>2. CASE UNCHANGED <<develop.note, develop.outer, develop.inner>>
    <3>1. (Recorded(develop.note) /\ Recorded(main.note))'
      BY <1>r, <1>s, <2>1, <2>2 DEF TipsSound, Recorded, InDevelop
    <3>2. ContractHolds'
      BY <1>n, <1>s, <2>1, <2>2 DEF TipsSound, ContractHolds
    <3>3. TipsSound'
      BY <1>n, <1>s, <2>1, <2>2, <3>1, <3>2 DEF TipsSound
    <3>4. ASSUME NEW f, NEW p, Sound(f, p), p.main \in Nat, p.dev \in Nat PROVE Sound(f, p)'
      BY <1>n, <1>r, <2>1, <2>2, <3>4 DEF Sound
    <3>. QED  BY <3>3, <3>4
  <2>3. CASE /\ develop'.outer = develop.rev /\ develop'.inner = NoPair
             /\ develop'.note # NoPair /\ ~Recorded(develop.note') /\ Recorded(develop.note)'
    <3>0. develop'.inner.main = 0 /\ develop'.inner.dev = 0  BY <2>3 DEF NoPair
    <3>1. (Recorded(develop.note) /\ Recorded(main.note))'
      BY <1>r, <1>s, <2>1, <2>3 DEF TipsSound, Recorded, InDevelop
    <3>2. ContractHolds'
      BY <1>n, <2>1, <3>0 DEF ContractHolds
    <3>3. TipsSound'
      BY <1>n, <1>s, <2>1, <2>3, <3>0, <3>1, <3>2 DEF TipsSound
    <3>4. ASSUME NEW f, NEW p, Sound(f, p), p.main \in Nat, p.dev \in Nat PROVE Sound(f, p)'
      <4>1. f # develop.note'  BY <2>3, <3>4 DEF Sound
      <4>. QED  BY <1>n, <1>r, <2>1, <3>4, <4>1 DEF Sound
    <3>. QED  BY <3>3, <3>4
  <2>. QED  BY <1>1, <2>2, <2>3 DEF OwnCommit
<1>2. CASE MainMoves
  <2>1. /\ main'.rev = main.rev + 1 /\ main'.note \in {main.note, develop.note}
        /\ develop'.rev = develop.rev /\ develop'.has = develop.has
        /\ develop'.note = develop.note /\ develop'.outer = develop.outer
        /\ develop'.inner = develop.inner /\ others' = others
    BY <1>2 DEF MainMoves
  <2>2. (Recorded(develop.note) /\ Recorded(main.note))'
    BY <1>r, <1>s, <2>1 DEF TipsSound, Recorded, InDevelop
  <2>3. ContractHolds'
    BY <1>n, <1>s, <2>1 DEF TipsSound, ContractHolds, HasMain
  <2>4. TipsSound'
    BY <1>n, <1>s, <2>1, <2>2, <2>3 DEF TipsSound
  <2>5. ASSUME NEW f, NEW p, Sound(f, p), p.main \in Nat, p.dev \in Nat PROVE Sound(f, p)'
    BY <1>n, <1>r, <2>1, <2>5 DEF Sound
  <2>. QED  BY <2>4, <2>5
<1>3. ASSUME NEW q, WorkflowMerge(q)
      PROVE  /\ TipsSound'
             /\ \A f, p : Sound(f, p) /\ p.main \in Nat /\ p.dev \in Nat => Sound(f, p)'
  <2>1. /\ develop'.rev = develop.rev + 1 /\ develop'.has = NewestMain(q.main)
        /\ develop'.note = q /\ develop'.outer = develop.rev /\ develop'.inner = q
        /\ develop'.own = TRUE /\ main' = main /\ differs' = differs /\ others' = others
    BY <1>3 DEF WorkflowMerge
  <2>2. /\ Sound(develop.note, q) /\ q \in Pairs /\ q.main \in Nat /\ q.dev \in Nat
        /\ ~Recorded(q) /\ Recorded(q)'
    BY <1>3 DEF WorkflowMerge
  <2>3. /\ 0 < q.main /\ q.main <= main.rev /\ q.dev <= develop.rev
        /\ develop.has < q.main \/ others > q.dev
        /\ q.dev = develop.rev \/ others > q.dev
    BY <2>2 DEF Sound
  <2>4. NewestMain(q.main) \in Nat /\ NewestMain(q.main) <= main.rev
        /\ (develop.has < q.main => NewestMain(q.main) = q.main)
    BY <1>n, <1>s, <2>2, <2>3 DEF NewestMain, TipsSound
  <2>5. ContractHolds'
    <3>. SUFFICES ASSUME HasMain' PROVE Contract' \/ others > q.dev
      BY <2>1 DEF ContractHolds
    <3>1. CASE others > q.dev  BY <3>1
    <3>2. CASE ~(others > q.dev)
      <4>1. q.main = main.rev /\ q.dev = develop.rev
        BY <1>n, <2>1, <2>2, <2>3, <2>4, <3>2 DEF HasMain
      <4>2. q = [main |-> main.rev, dev |-> develop.rev]  BY <2>2, <4>1 DEF Pairs
      <4>. QED  BY <2>1, <4>2 DEF Contract
    <3>. QED  BY <3>1, <3>2
  <2>6. (Recorded(develop.note) /\ Recorded(main.note))'
    BY <1>r, <1>s, <2>1, <2>2 DEF TipsSound, Recorded, InDevelop
  <2>7. q # NoPair  BY <2>2 DEF Recorded
  <2>8. TipsSound'
    BY <1>n, <1>s, <2>1, <2>2, <2>3, <2>4, <2>5, <2>6, <2>7 DEF TipsSound
  <2>9. ASSUME NEW f, NEW p, Sound(f, p), p.main \in Nat, p.dev \in Nat PROVE Sound(f, p)'
    <3>1. f # q /\ Recorded(f)'  BY <1>r, <2>2, <2>9 DEF Sound
    <3>. QED  BY <1>n, <2>1, <2>9, <3>1 DEF Sound
  <2>. QED  BY <2>8, <2>9
<1>. QED  BY <1>1, <1>2, <1>3, BranchCases

LEMMA BranchesSoundStep ==
    ASSUME TypeOK, BranchesSound, [Next]_vars
    PROVE  BranchesSound'
<1>0. Shape  BY NextShape
<1>n. /\ develop.rev \in Nat /\ develop.has \in Nat /\ main.rev \in Nat /\ Len(prs) \in Nat
      /\ plan.main \in Nat /\ plan.dev \in Nat
      /\ \A i \in Numbers : prs[i].pair.main \in Nat /\ prs[i].pair.dev \in Nat
  BY PairNumbers
<1>1. CASE UNCHANGED <<tips, others>>
  <2>r. /\ \A e : Recorded(e) => Recorded(e)'
        /\ \A f, p : Sound(f, p) => Sound(f, p)'
    BY <1>0, <1>1, RecordedKept
  <2>1. TipsSound'
    BY <1>1, <2>r DEF BranchesSound, TipsSound, ContractHolds, Contract, HasMain, tips,
                      Recorded, InDevelop
  <2>2. ASSUME pc' \in Planned PROVE Sound(from, plan)'
    <3>1. CASE PlanKept
      <4>1. Sound(from, plan) /\ UNCHANGED <<plan, from>>
        BY <3>1 DEF PlanKept, BranchesSound
      <4>. QED  BY <2>r, <4>1 DEF Sound, Recorded, InDevelop
    <3>2. CASE Fetch
      <4>1. /\ plan' = [main |-> main.rev, dev |-> develop.rev] /\ from' = develop.note
            /\ UNCHANGED <<tips, others, prs>>
        BY <3>2 DEF Fetch, Reads, github
      <4>2. ~HasMain
        BY <2>2, <3>2 DEF Fetch, Succeed, Planned
      <4>3. plan'.main = main.rev /\ plan'.dev = develop.rev /\ develop.has < main.rev
        BY <1>n, <4>1, <4>2 DEF HasMain
      <4>4. Recorded(from)'
        <5>1. Recorded(develop.note)  BY DEF BranchesSound, TipsSound
        <5>. QED  BY <4>1, <5>1 DEF Recorded, InDevelop, Numbers
      <4>. QED  BY <1>n, <4>1, <4>3, <4>4 DEF Sound, tips
    <3>. QED  BY <1>0, <2>2, <3>1, <3>2 DEF Shape
  <2>3. ASSUME NEW i \in Numbers' PROVE Sound(prs[i].from, prs[i].pair)'
    <3>1. CASE i \in Numbers
      <4>1. prs'[i].from = prs[i].from /\ prs'[i].pair = prs[i].pair
        BY <1>0, <3>1 DEF Shape, Keeps, Kept, CallAdds
      <4>2. Sound(prs[i].from, prs[i].pair)  BY <3>1 DEF BranchesSound
      <4>. QED  BY <2>r, <4>1, <4>2 DEF Sound, Recorded, InDevelop
    <3>2. CASE i \notin Numbers
      <4>1. CallAdds /\ i = Len(prs) + 1
        BY <1>0, <1>n, <2>3, <3>2 DEF Shape, Keeps, CallAdds, Numbers
      <4>2. prs'[i].from = from /\ prs'[i].pair = plan /\ Sound(from, plan)
        BY <4>1 DEF CallAdds, BranchesSound, Planned
      <4>. QED  BY <2>r, <4>2 DEF Sound, Recorded, InDevelop
    <3>. QED  BY <3>1, <3>2
  <2>. QED  BY <2>1, <2>2, <2>3 DEF BranchesSound
<1>2. CASE BranchStep
  <2>1. /\ TipsSound'
        /\ \A f, p : Sound(f, p) /\ p.main \in Nat /\ p.dev \in Nat => Sound(f, p)'
    BY <1>0, <1>2, TipsSoundStep
  <2>2. /\ Numbers' = Numbers
        /\ \A j \in Numbers : prs'[j].pair = prs[j].pair /\ prs'[j].from = prs[j].from
        /\ UNCHANGED <<pc, plan, from>>
    BY <1>0, <1>2, BranchKeeps
  <2>3. ASSUME pc' \in Planned PROVE Sound(from, plan)'
    <3>1. PICK f, p : f = from /\ p = plan  OBVIOUS
    <3>2. Sound(f, p) /\ p.main \in Nat /\ p.dev \in Nat
      BY <1>n, <2>2, <2>3, <3>1 DEF BranchesSound
    <3>3. Sound(f, p)'  BY <2>1, <3>2
    <3>. QED  BY <2>2, <3>1, <3>3
  <2>4. ASSUME NEW i \in Numbers' PROVE Sound(prs[i].from, prs[i].pair)'
    <3>1. PICK f, p : f = prs[i].from /\ p = prs[i].pair  OBVIOUS
    <3>2. Sound(f, p) /\ p.main \in Nat /\ p.dev \in Nat
      BY <1>n, <2>2, <3>1 DEF BranchesSound
    <3>3. Sound(f, p)'  BY <2>1, <3>2
    <3>4. prs'[i].from = f /\ prs'[i].pair = p  BY <2>2, <3>1
    <3>. QED  BY <3>3, <3>4
  <2>. QED  BY <2>1, <2>3, <2>4 DEF BranchesSound
<1>. QED  BY <1>0, <1>1, <1>2 DEF Shape

LEMMA BranchesSoundInit == Init => BranchesSound
<1>. SUFFICES ASSUME Init PROVE BranchesSound  OBVIOUS
<1>1. /\ develop.has = 0 /\ main.rev = 0 /\ develop.note = NoPair /\ main.note = NoPair
      /\ develop.inner = NoPair /\ develop.rev = 0 /\ others = 0
      /\ differs = TRUE /\ pc = "idle" /\ prs = <<>> /\ Len(<<>>) = 0
  BY DEF Init
<1>2. TipsSound  BY <1>1 DEF TipsSound, Recorded, ContractHolds, NoPair
<1>. QED  BY <1>1, <1>2 DEF BranchesSound, Planned, Numbers

BranchInvariant == TypeOK /\ BranchesSound

LEMMA BranchInvariantHolds == Spec => []BranchInvariant
<1>1. Init => BranchInvariant
  BY InitTypes, BranchesSoundInit DEF BranchInvariant
<1>2. BranchInvariant /\ [Next]_vars => BranchInvariant'
  BY NextTypes, BranchesSoundStep DEF BranchInvariant
<1>. QED  BY <1>1, <1>2, PTL DEF Spec

\* Whenever only the evidence differs, it is the one the promotion workflow demands -
\* unless commits of people, made after the backmerge, undid what differed.
THEOREM ContractAlways == Spec => []ContractHolds
<1>1. BranchInvariant => ContractHolds
  BY DEF BranchInvariant, BranchesSound, TipsSound
<1>. QED  BY <1>1, BranchInvariantHolds, PTL

-----------------------------------------------------------------------------
(* Conflicts. *)

\* A backmerge p made from the evidence f: if develop has other evidence now, that came
\* with a backmerge which found develop where p was made, or later.
Dated(f, p) == develop.note # f => p.dev <= develop.outer /\ develop.note # NoPair

AllDated ==
    /\ pc \in Planned => Dated(from, plan)
    /\ \A i \in Numbers : Dated(prs[i].from, prs[i].pair)

LEMMA DatedStep ==
    ASSUME BranchInvariant, AllDated, [Next]_vars
    PROVE  AllDated'
<1>0. TypeOK /\ BranchesSound /\ Shape  BY NextShape DEF BranchInvariant
<1>n. develop.rev \in Nat /\ Len(prs) \in Nat /\ develop.outer \in Nat
  BY <1>0, PairNumbers
<1>1. CASE UNCHANGED <<tips, others>>
  <2>1. UNCHANGED develop  BY <1>1 DEF tips
  <2>2. ASSUME pc' \in Planned PROVE Dated(from, plan)'
    <3>1. CASE PlanKept
      <4>1. Dated(from, plan) /\ UNCHANGED <<plan, from>>
        BY <3>1 DEF PlanKept, AllDated
      <4>. QED  BY <2>1, <4>1 DEF Dated
    <3>2. CASE Fetch  BY <2>1, <3>2 DEF Fetch, Dated
    <3>. QED  BY <1>0, <2>2, <3>1, <3>2 DEF Shape
  <2>3. ASSUME NEW i \in Numbers' PROVE Dated(prs[i].from, prs[i].pair)'
    <3>1. CASE i \in Numbers
      <4>1. prs'[i].from = prs[i].from /\ prs'[i].pair = prs[i].pair
        BY <1>0, <3>1 DEF Shape, Keeps, Kept, CallAdds
      <4>2. Dated(prs[i].from, prs[i].pair)  BY <3>1 DEF AllDated
      <4>. QED  BY <2>1, <4>1, <4>2 DEF Dated
    <3>2. CASE i \notin Numbers
      <4>1. CallAdds /\ i = Len(prs) + 1
        BY <1>0, <1>n, <2>3, <3>2 DEF Shape, Keeps, CallAdds, Numbers
      <4>2. prs'[i].from = from /\ prs'[i].pair = plan /\ Dated(from, plan)
        BY <4>1 DEF CallAdds, AllDated, Planned
      <4>. QED  BY <2>1, <4>2 DEF Dated
    <3>. QED  BY <3>1, <3>2
  <2>. QED  BY <2>2, <2>3 DEF AllDated
<1>2. CASE BranchStep
  <2>1. ASSUME NEW f, NEW p, p.dev \in Nat, p.dev <= develop.rev, Dated(f, p)
        PROVE  Dated(f, p)'
    <3>1. CASE OwnCommit  BY <1>n, <2>1, <3>1 DEF OwnCommit, Dated
    <3>2. CASE MainMoves  BY <2>1, <3>2 DEF MainMoves, Dated
    <3>3. ASSUME NEW q \in Pairs, WorkflowMerge(q) PROVE Dated(f, p)'
      <4>1. develop'.note = q /\ develop'.outer = develop.rev /\ q # NoPair
        BY <3>3 DEF WorkflowMerge, Recorded
      <4>. QED  BY <2>1, <4>1 DEF Dated
    <3>. QED  BY <1>0, <1>2, <3>1, <3>2, <3>3, BranchCases
  <2>2. /\ Numbers' = Numbers
        /\ \A j \in Numbers : prs'[j].pair = prs[j].pair /\ prs'[j].from = prs[j].from
        /\ UNCHANGED <<pc, plan, from>>
    BY <1>0, <1>2, BranchKeeps
  <2>3. ASSUME pc' \in Planned PROVE Dated(from, plan)'
    <3>1. PICK f, p : f = from /\ p = plan  OBVIOUS
    <3>2. Dated(f, p) /\ p.dev \in Nat /\ p.dev <= develop.rev
      BY <1>0, <2>2, <2>3, <3>1, PairNumbers DEF AllDated, BranchesSound, Sound
    <3>3. Dated(f, p)'  BY <2>1, <3>2
    <3>. QED  BY <2>2, <3>1, <3>3
  <2>4. ASSUME NEW i \in Numbers' PROVE Dated(prs[i].from, prs[i].pair)'
    <3>1. PICK f, p : f = prs[i].from /\ p = prs[i].pair  OBVIOUS
    <3>2. Dated(f, p) /\ p.dev \in Nat /\ p.dev <= develop.rev
      BY <1>0, <2>2, <3>1, PairNumbers DEF AllDated, BranchesSound, Sound
    <3>3. Dated(f, p)'  BY <2>1, <3>2
    <3>4. prs'[i].from = f /\ prs'[i].pair = p  BY <2>2, <3>1
    <3>. QED  BY <3>3, <3>4
  <2>. QED  BY <2>3, <2>4 DEF AllDated
<1>. QED  BY <1>0, <1>1, <1>2 DEF Shape

\* Only a backmerge that was merged after another was fetched makes that one conflict:
\* one of sync-main-to-develop.yml that is made and open alone can always be merged.
THEOREM ConflictsOvertaken == Spec => []ConflictsAreOvertaken
<1>1. Init => AllDated
  BY DEF Init, AllDated, Planned, Numbers
<1>2. BranchInvariant /\ AllDated /\ [Next]_vars => AllDated'  BY DatedStep
<1>3. BranchInvariant /\ AllDated => ConflictsAreOvertaken
  <2>. SUFFICES ASSUME BranchInvariant, AllDated, NEW i \in Numbers, Conflicts(i)
                PROVE  prs[i].pair.dev <= develop.outer /\ InDevelop(develop.note)
    BY DEF ConflictsAreOvertaken
  <2>1. prs[i].pair.dev <= develop.outer /\ develop.note # NoPair
    BY DEF AllDated, Dated, Conflicts
  <2>2. Recorded(develop.note)  BY DEF BranchInvariant, BranchesSound, TipsSound
  <2>. QED  BY <2>1, <2>2 DEF Recorded
<1>. QED  BY <1>1, <1>2, <1>3, BranchInvariantHolds, PTL DEF Spec

-----------------------------------------------------------------------------
(* The branches implement BranchFlow. *)

LEMMA FlowInit == Init => Flow!Init
<1>. SUFFICES ASSUME Init PROVE Flow!Init  OBVIOUS
<1>1. /\ develop.rev = 0 /\ main.rev = 0 /\ develop.has = 0 /\ develop.own = TRUE
      /\ differs = TRUE
  BY DEF Init
<1>2. HasMain = TRUE  BY <1>1 DEF HasMain
<1>3. Delta = "content"  BY <1>1 DEF Delta
<1>. QED  BY <1>1, <1>2, <1>3 DEF Flow!Init

\* What differs after a commit of people's own is never the evidence of a backmerge, as
\* the promotion workflow demands it.
LEMMA OwnCommitFlow ==
    ASSUME BranchInvariant, OwnCommit
    PROVE  Flow!Feature \/ Flow!AmendedBackmerge
<1>n. /\ develop.rev \in Nat /\ develop.has \in Nat /\ develop.outer \in Nat
      /\ main.rev \in Nat
  BY PairNumbers DEF BranchInvariant
<1>1. /\ develop'.rev = develop.rev + 1 /\ main' = main /\ develop'.own = TRUE
      /\ develop'.has \in develop.has .. main.rev
  BY DEF OwnCommit
<1>2. Delta' \in Flow!OwnDeltas
  <2>1. Contract' => develop'.note = NoPair /\ main'.note = NoPair
    <3>. SUFFICES ASSUME Contract' PROVE develop'.note = NoPair /\ main'.note = NoPair
      OBVIOUS
    <3>1. develop'.outer = develop.rev /\ develop'.note = develop'.inner
      <4>1. develop'.outer + 1 = develop'.rev /\ develop'.note = develop'.inner
        BY DEF Contract
      <4>2. develop'.outer \in {develop.outer, develop.rev}  BY DEF OwnCommit
      <4>. QED  BY <1>n, <1>1, <4>1, <4>2
    <3>2. CASE UNCHANGED <<develop.note, develop.outer, develop.inner>>
      <4>1. ~(develop.outer < develop.rev)  BY <1>n, <3>1, <3>2
      <4>2. IF develop.note = NoPair THEN main.note = NoPair ELSE develop.outer < develop.rev
        BY DEF BranchInvariant, BranchesSound, TipsSound
      <4>. QED  BY <1>1, <3>2, <4>1, <4>2
    <3>3. CASE develop'.inner = NoPair /\ develop'.note # NoPair  BY <3>1, <3>3
    <3>. QED  BY <3>2, <3>3 DEF OwnCommit
  <2>. QED  BY <1>1, <2>1 DEF Delta, Flow!OwnDeltas
<1>3. CASE HasMain
  <2>1. HasMain'  BY <1>n, <1>1, <1>3 DEF HasMain
  <2>2. HasMain' = HasMain  BY <1>3, <2>1 DEF HasMain
  <2>. QED  BY <1>1, <1>2, <2>2 DEF Flow!Feature
<1>4. CASE ~HasMain
  <2>1. HasMain' \in BOOLEAN  BY DEF HasMain
  <2>. QED  BY <1>1, <1>2, <1>4, <2>1 DEF Flow!AmendedBackmerge
<1>. QED  BY <1>3, <1>4

\* A backmerge as the workflow made it keeps the tree: nothing but the evidence changes.
LEMMA WorkflowMergeFlow ==
    ASSUME BranchInvariant, NEW q \in Pairs, WorkflowMerge(q)
    PROVE  Flow!Feature \/ Flow!Backmerge
<1>n. /\ develop.rev \in Nat /\ develop.has \in Nat /\ main.rev \in Nat /\ others \in Nat
      /\ q.main \in Nat /\ q.dev \in Nat
  BY PairNumbers DEF BranchInvariant, WorkflowMerge
<1>t. develop.own \in BOOLEAN /\ differs \in BOOLEAN
  BY TypeParts DEF BranchInvariant, BranchesOK
<1>1. /\ develop'.rev = develop.rev + 1 /\ develop'.has = NewestMain(q.main)
      /\ develop'.note = q /\ develop'.outer = develop.rev /\ develop'.inner = q
      /\ develop'.own = TRUE /\ main' = main /\ differs' = differs
      /\ Sound(develop.note, q) /\ ~Recorded(q)
  BY DEF WorkflowMerge
<1>2. /\ q.main <= main.rev
      /\ develop.has < q.main \/ others > q.dev
      /\ ~develop.own /\ q.main = main.rev => q.dev = develop.rev
      /\ others <= develop.rev /\ develop.has <= main.rev
  BY <1>1 DEF BranchInvariant, BranchesSound, TipsSound, Sound
<1>3. q # main.note
  BY <1>1 DEF BranchInvariant, BranchesSound, TipsSound
<1>4. Contract' <=> q.main = main.rev /\ q.dev = develop.rev
  <2>1. q = [main |-> q.main, dev |-> q.dev]  BY DEF Pairs
  <2>. QED  BY <1>1, <1>n, <2>1 DEF Contract
<1>5. Delta' = IF differs THEN "content" ELSE IF Contract' THEN "ancestry" ELSE "unbound"
  BY <1>1, <1>3 DEF Delta
<1>6. HasMain' <=> develop.has >= main.rev \/ q.main >= main.rev
  BY <1>1, <1>n DEF HasMain, NewestMain
<1>7. CASE HasMain
  <2>1. HasMain' = HasMain  BY <1>6, <1>7 DEF HasMain
  <2>2. ~Contract'  BY <1>n, <1>2, <1>4, <1>7 DEF HasMain
  <2>3. Delta' \in Flow!OwnDeltas  BY <1>5, <2>2 DEF Flow!OwnDeltas
  <2>. QED  BY <1>1, <2>1, <2>3 DEF Flow!Feature
<1>8. CASE ~HasMain
  <2>1. HasMain' <=> q.main = main.rev  BY <1>n, <1>2, <1>6, <1>8 DEF HasMain
  <2>2. HasMain' \in BOOLEAN  BY DEF HasMain
  <2>3. Delta' \in Flow!AfterBackmerge(Delta, HasMain')
    <3>1. CASE differs
      <4>1. Delta \in {"content", "behind"} /\ Delta' = "content"
        BY <1>5, <3>1 DEF Delta
      <4>. QED  BY <4>1 DEF Flow!AfterBackmerge
    <3>2. CASE ~differs /\ ~develop.own
      <4>1. Delta = "none" /\ Delta' = IF Contract' THEN "ancestry" ELSE "unbound"
        BY <1>5, <3>2 DEF Delta
      <4>2. Contract' <=> HasMain'  BY <1>2, <1>4, <2>1, <3>2
      <4>. QED  BY <2>2, <4>1, <4>2 DEF Flow!AfterBackmerge
    <3>3. CASE ~differs /\ develop.own
      <4>1. /\ Delta \in {"neutral", "ancestry", "unbound"}
            /\ Delta' = IF Contract' THEN "ancestry" ELSE "unbound"
        BY <1>5, <3>3 DEF Delta
      <4>2. Contract' => HasMain'  BY <1>4, <2>1
      <4>. QED  BY <2>2, <4>1, <4>2 DEF Flow!AfterBackmerge
    <3>. QED  BY <1>t, <3>1, <3>2, <3>3
  <2>4. HasMain = FALSE /\ main'.rev = main.rev  BY <1>1, <1>8 DEF HasMain
  <2>. QED  BY <1>1, <2>2, <2>3, <2>4 DEF Flow!Backmerge
<1>. QED  BY <1>7, <1>8

LEMMA FlowStep ==
    ASSUME BranchInvariant, [Next]_vars
    PROVE  [Flow!Next]_(Flow!vars)
<1>0. TypeOK /\ BranchesOK /\ BranchesSound /\ TipsSound /\ Shape
  BY TypeParts, NextShape DEF BranchInvariant, BranchesSound
<1>n. /\ develop.has \in Nat /\ main.rev \in Nat /\ develop.inner.main \in Nat
  BY <1>0, PairNumbers
<1>t. develop.own \in BOOLEAN /\ differs \in BOOLEAN  BY <1>0 DEF BranchesOK
<1>1. CASE UNCHANGED <<tips, others>>
  BY <1>1 DEF tips, Flow!vars, HasMain, Delta, Contract
<1>2. CASE OwnCommit  BY <1>2, OwnCommitFlow DEF Flow!Next
<1>3. ASSUME NEW q \in Pairs, WorkflowMerge(q) PROVE Flow!Next
  BY <1>3, WorkflowMergeFlow DEF Flow!Next
<1>4. CASE Promote
  <2>1. /\ main'.rev = main.rev + 1 /\ differs' = FALSE
        /\ develop'.rev = develop.rev /\ develop'.has = develop.has
        /\ develop'.own = FALSE /\ HasMain /\ develop.own
    BY <1>0, <1>4 DEF Promote, BranchesOK
  <2>2. HasMain = TRUE /\ HasMain' = FALSE
    BY <1>0, <1>n, <2>1 DEF TipsSound, HasMain
  <2>3. Delta' = "none"  BY <2>1 DEF Delta
  <2>4. Delta \notin {"none", "behind"}  BY <2>1 DEF Delta
  <2>. QED  BY <2>1, <2>2, <2>3, <2>4 DEF Flow!Next, Flow!Promote
<1>5. CASE SecurityRelease
  <2>1. /\ main'.rev = main.rev + 1 /\ main'.note = main.note
        /\ differs' \in {TRUE, ~differs} /\ develop' = develop
    BY <1>0, <1>5 DEF SecurityRelease, BranchesOK
  <2>2. HasMain' = FALSE  BY <1>0, <1>n, <2>1 DEF TipsSound, HasMain
  <2>3. ~Contract'
    <3>1. develop.inner.main # main'.rev  BY <1>0, <1>n, <2>1 DEF TipsSound
    <3>. QED  BY <2>1, <3>1 DEF Contract
  <2>4. Delta' = IF differs' THEN (IF develop.own THEN "content" ELSE "behind")
                 ELSE IF ~develop.own THEN "none"
                 ELSE IF develop.note = main.note THEN "neutral" ELSE "unbound"
    BY <2>1, <2>3 DEF Delta
  <2>5. Delta' \in Flow!AfterSecurityRelease(Delta)
    <3>1. CASE differs /\ develop.own
      <4>1. Delta = "content" /\ Delta' \in {"content", "neutral", "unbound"}
        BY <2>1, <2>4, <3>1 DEF Delta
      <4>. QED  BY <4>1 DEF Flow!AfterSecurityRelease, Flow!OwnDeltas
    <3>2. CASE differs /\ ~develop.own
      <4>1. Delta = "behind" /\ Delta' \in {"behind", "none"}
        BY <2>1, <2>4, <3>2 DEF Delta
      <4>. QED  BY <4>1 DEF Flow!AfterSecurityRelease
    <3>3. CASE ~differs /\ develop.own
      <4>1. Delta \in {"neutral", "ancestry", "unbound"} /\ Delta' = "content"
        BY <2>1, <2>4, <3>3 DEF Delta
      <4>. QED  BY <4>1 DEF Flow!AfterSecurityRelease
    <3>4. CASE ~differs /\ ~develop.own
      <4>1. Delta = "none" /\ Delta' = "behind"
        BY <2>1, <2>4, <3>4 DEF Delta
      <4>. QED  BY <4>1 DEF Flow!AfterSecurityRelease
    <3>. QED  BY <1>t, <3>1, <3>2, <3>3, <3>4
  <2>. QED  BY <2>1, <2>2, <2>5 DEF Flow!Next, Flow!SecurityRelease
<1>6. CASE BranchStep
  <2>1. CASE Promote \/ SecurityRelease  BY <1>4, <1>5, <2>1
  <2>2. CASE Feature  BY <1>0, <1>2, <2>2, FeatureIsOwnCommit
  <2>3. ASSUME NEW i \in Numbers, Merge(i) \/ MergeMoved(i) PROVE Flow!Next
    <3>1. CASE Merge(i)
      <4>1. PICK q \in Pairs : WorkflowMerge(q)  BY <1>0, <3>1, MergeIsWorkflowMerge
      <4>. QED  BY <1>3, <4>1
    <3>2. CASE MergeMoved(i)
      BY <1>0, <3>2, MergeMovedIsOwnCommit, OwnCommitFlow DEF Flow!Next
    <3>. QED  BY <2>3, <3>1, <3>2
  <2>. QED  BY <1>6, <2>1, <2>2, <2>3 DEF BranchStep, Flow!Next
<1>. QED  BY <1>0, <1>1, <1>6 DEF Shape

\* The workflow moves the branches as the promotion workflow assumes: its backmerges are
\* merged while develop lacks main or after commits of people, and change nothing but the
\* evidence.
THEOREM BackmergeImplementsFlow == Spec => BranchesFlow
<1>1. Init => Flow!Init  BY FlowInit
<1>2. BranchInvariant /\ [Next]_vars => [Flow!Next]_(Flow!vars)  BY FlowStep
<1>. QED  BY <1>1, <1>2, BranchInvariantHolds, PTL DEF Spec, BranchesFlow, Flow!Spec

-----------------------------------------------------------------------------
(* Auto-merge. *)

\* An open pull request with the exact head has the exact branch, and so has the one
\* whose auto-merge is about to be enabled, which is also into develop - unless the branch
\* moved or the target changed since the view.
HeadsSound ==
    /\ \A i \in Numbers : Open(i) /\ prs[i].exact => ref[prs[i].pair] = "exact"
    /\ pc \in {"view", "arm", "enable"} => prs[pr].pair = plan
    /\ pc = "enable" => \/ pr \in raced
                        \/ prs[pr].exact /\ prs[pr].toDevelop /\ ref[plan] = "exact"
    /\ ArmedIsExact

\* Nothing is asked of a step that leaves the heads alone.
LEMMA HeadsKept ==
    ASSUME TypeOK, HeadsSound, Len(prs') = Len(prs), ref' = ref, raced \subseteq raced',
           \A j \in Numbers : /\ Kept(j) /\ prs'[j].exact = prs[j].exact
                              /\ prs'[j].toDevelop = prs[j].toDevelop
                              /\ prs'[j].status = "open" => Open(j)
                              /\ prs'[j].auto = prs[j].auto,
           pc' \in {"view", "arm", "enable"} =>
              pr' \in Numbers /\ prs[pr'].pair = plan',
           pc' = "enable" =>
              \/ pr' \in raced
              \/ prs[pr'].exact /\ prs[pr'].toDevelop /\ ref[plan'] = "exact"
    PROVE  HeadsSound'
<1>1. Numbers' = Numbers  BY DEF Numbers
<1>2. (\A i \in Numbers : Open(i) /\ prs[i].exact => ref[prs[i].pair] = "exact")'
  BY <1>1 DEF HeadsSound, Open, Kept
<1>3. ArmedIsExact'  BY <1>1 DEF HeadsSound, ArmedIsExact
<1>4. (pc \in {"view", "arm", "enable"} => prs[pr].pair = plan)'  BY DEF Kept
<1>5. (pc = "enable" => \/ pr \in raced
                        \/ prs[pr].exact /\ prs[pr].toDevelop /\ ref[plan] = "exact")'
  <2>. SUFFICES ASSUME pc' = "enable"
                PROVE  (\/ pr \in raced
                        \/ prs[pr].exact /\ prs[pr].toDevelop /\ ref[plan] = "exact")'
    OBVIOUS
  <2>1. /\ pr' \in Numbers /\ prs'[pr'].exact = prs[pr'].exact
        /\ prs'[pr'].toDevelop = prs[pr'].toDevelop
    OBVIOUS
  <2>. QED  BY <2>1
<1>. QED  BY <1>2, <1>3, <1>4, <1>5 DEF HeadsSound

LEMMA HeadsSoundStep ==
    ASSUME TypeOK, HeadsSound, [Next]_vars
    PROVE  HeadsSound'
<1>0. BranchesOK /\ GitHubOK /\ RunOK /\ RestOK /\ PrsOK
  BY TypeParts DEF GitHubOK
<1>r. pc \in {"view", "arm", "enable"} => pr \in Numbers
  BY <1>0 DEF RunOK, Numbers, PrsOK
<1>u. prs' = prs => /\ Len(prs') = Len(prs)
                    /\ \A j \in Numbers : /\ Kept(j) /\ prs'[j].exact = prs[j].exact
                                          /\ prs'[j].toDevelop = prs[j].toDevelop
                                          /\ prs'[j].status = "open" => Open(j)
                                          /\ prs'[j].auto = prs[j].auto
  BY DEF Kept, Open
<1>1. CASE StartQueued \/ StartByHand \/ Kill
  <2>1. /\ UNCHANGED <<prs, ref, raced>> /\ pc' \in {"idle", "fetch"}
    BY <1>1 DEF StartQueued, StartByHand, Begin, Kill, github
  <2>. QED  BY <1>u, <2>1, HeadsKept
<1>2. CASE Fetch \/ CheckRef \/ Visible \/ Verify
  <2>1. UNCHANGED <<prs, ref, raced>> /\ pc' \notin {"view", "arm", "enable"}
    BY <1>2 DEF Fetch, CheckRef, Visible, Verify, Reads, github, Fail, Succeed, Go
  <2>. QED  BY <1>u, <2>1, HeadsKept
<1>3. CASE ListPullRequests
  <2>1. UNCHANGED <<prs, ref, raced, plan>> /\ pc' # "enable"
        /\ (pc' \in {"view", "arm"} => pr' \in Numbers /\ prs[pr'].pair = plan)
    BY <1>3 DEF ListPullRequests, Reads, github, Fail, Go, Inventory
  <2>. QED  BY <1>u, <2>1, HeadsKept
<1>4. CASE View \/ Arm
  <2>1. UNCHANGED <<prs, ref, raced, plan, pr>> /\ pc \in {"view", "arm"}
    BY <1>4 DEF View, Arm, Reads, github, run
  <2>2. pc' = "enable" => Usable(pr)
    BY <1>4 DEF View, Arm, Fail, Succeed, Go
  <2>3. pc' = "enable" => prs[pr].exact /\ prs[pr].toDevelop /\ ref[plan] = "exact"
    BY <1>r, <2>1, <2>2 DEF Usable, HeadsSound
  <2>. QED  BY <1>r, <1>u, <2>1, <2>3, HeadsKept DEF HeadsSound
<1>5. ASSUME Call, UNCHANGED <<raced, plan>>, pc # "create",
             pc' \in {"view", "arm", "enable"} => FALSE
      PROVE  HeadsSound'
  <2>1. CallKeeps /\ \A p \in Pairs : ref[p] # "absent" => ref'[p] = ref[p]
    BY <1>5, CallEffect DEF CallAdds
  <2>2. Numbers' = Numbers  BY <2>1 DEF CallKeeps, Numbers
  <2>3. ASSUME NEW i \in Numbers PROVE prs[i].pair \in Pairs
    <3>1. prs[i] \in PullRequests  BY <1>0 DEF PrsOK, Numbers
    <3>. QED  BY <3>1 DEF PullRequests
  <2>4. (\A i \in Numbers : Open(i) /\ prs[i].exact => ref[prs[i].pair] = "exact")'
    <3>. SUFFICES ASSUME NEW i \in Numbers, prs'[i].status = "open", prs'[i].exact
                  PROVE  ref'[prs'[i].pair] = "exact"
      BY <2>2 DEF Open
    <3>1. Open(i) /\ prs[i].exact /\ prs'[i].pair = prs[i].pair
      BY <2>1 DEF CallKeeps, Kept, Open
    <3>2. ref[prs[i].pair] = "exact"  BY <3>1 DEF HeadsSound
    <3>. QED  BY <2>1, <2>3, <3>1, <3>2
  <2>5. ArmedIsExact'
    <3>. SUFFICES ASSUME NEW i \in Numbers, prs'[i].auto = "moved" PROVE i \in raced
      BY <1>5, <2>2 DEF ArmedIsExact
    <3>1. CASE prs'[i].auto = prs[i].auto  BY <3>1 DEF HeadsSound, ArmedIsExact
    <3>2. CASE /\ pc = "enable" /\ i = pr
               /\ prs'[i].auto = IF prs[i].exact /\ prs[i].toDevelop
                                 THEN "exact" ELSE "moved"
      BY <3>2 DEF HeadsSound
    <3>. QED  BY <2>1, <3>1, <3>2 DEF CallKeeps
  <2>. QED  BY <1>5, <2>4, <2>5 DEF HeadsSound
<1>6. CASE Push \/ CreateRef \/ Delete \/ Enable \/ Cleanup
  <2>1. Call /\ UNCHANGED <<raced, plan>> /\ pc # "create"
        /\ pc' \notin {"view", "arm", "enable"}
    BY <1>6 DEF Push, CreateRef, Delete, Enable, Cleanup, run, Fail, Succeed, Go
  <2>. QED  BY <1>5, <2>1
<1>7. ASSUME CallAdds, UNCHANGED <<raced, plan>>, pc' \notin {"arm", "enable"},
             pc' = "view" => pr' = Len(prs) + 1
      PROVE  HeadsSound'
  <2>1. /\ Numbers' = Numbers \union {Len(prs) + 1} /\ ref' = ref
        /\ \A j \in Numbers : prs'[j] = prs[j]
    BY <1>0, <1>7 DEF CallAdds, Numbers, PrsOK
  <2>2. /\ prs'[Len(prs) + 1].pair = plan
        /\ prs'[Len(prs) + 1].exact = (ref[plan] = "exact")
        /\ prs'[Len(prs) + 1].auto = "off"
    BY <1>7 DEF CallAdds
  <2>3. (\A i \in Numbers : Open(i) /\ prs[i].exact => ref[prs[i].pair] = "exact")'
    <3>. SUFFICES ASSUME NEW i \in Numbers', prs'[i].status = "open", prs'[i].exact
                  PROVE  ref'[prs'[i].pair] = "exact"
      BY DEF Open
    <3>1. CASE i \in Numbers  BY <2>1, <3>1 DEF HeadsSound, Open
    <3>2. CASE i = Len(prs) + 1  BY <2>1, <2>2, <3>2
    <3>. QED  BY <2>1, <3>1, <3>2
  <2>4. ArmedIsExact'
    BY <1>7, <2>1, <2>2 DEF HeadsSound, ArmedIsExact
  <2>. QED  BY <1>7, <2>2, <2>3, <2>4 DEF HeadsSound
<1>a. ASSUME Call, pc = "create", UNCHANGED <<raced, plan>>,
             pc' \notin {"arm", "enable"},
             Offerable(plan) /\ pc' = "view" => pr' = Len(prs) + 1,
             ~Offerable(plan) => pc' # "view"
      PROVE  HeadsSound'
  <2>1. CASE Offerable(plan)
    <3>1. CallAdds  BY <1>a, <2>1, CallEffect DEF CallKeeps
    <3>. QED  BY <1>7, <1>a, <2>1, <3>1
  <2>2. CASE ~Offerable(plan)
    <3>1. UNCHANGED <<prs, ref, raced>>  BY <1>a, <2>2 DEF Call
    <3>. QED  BY <1>a, <1>u, <2>2, <3>1, HeadsKept
  <2>. QED  BY <2>1, <2>2
<1>8. CASE Create
  <2>1. /\ Call /\ pc = "create" /\ UNCHANGED <<raced, plan>>
        /\ \/ Offerable(plan) /\ pc' = "view" /\ pr' = Len(prs) + 1
           \/ ~Offerable(plan) /\ pc' \in {"idle", "cleanup"}
    BY <1>8 DEF Create, Go, Fail
  <2>. QED  BY <1>a, <2>1
<1>9. CASE CallFails
  <2>1. UNCHANGED <<raced, plan, pr>> /\ pc' \notin {"view", "arm", "enable"}
    BY <1>9 DEF CallFails, run, Fail, Succeed, Go
  <2>2. CASE Call /\ pc # "create"  BY <1>5, <2>1, <2>2
  <2>3. CASE Call /\ pc = "create"  BY <1>a, <2>1, <2>3
  <2>4. CASE UNCHANGED github
    BY <1>u, <2>1, <2>4, HeadsKept DEF github
  <2>. QED  BY <1>9, <2>2, <2>3, <2>4 DEF CallFails
<1>10. CASE BranchStep
  <2>1. UNCHANGED <<ref, raced, pc, plan, pr>>
    BY <1>10, BranchFrame DEF run
  <2>2. /\ Len(prs') = Len(prs)
        /\ \A j \in Numbers : /\ Kept(j) /\ prs'[j].exact = prs[j].exact
                              /\ prs'[j].toDevelop = prs[j].toDevelop
                              /\ prs'[j].status = "open" => Open(j)
                              /\ prs'[j].auto = prs[j].auto
    <3>1. ASSUME NEW done, DevelopAdvances(done) PROVE <2>2
      <4>1. Follow(done) /\ develop.rev + 1 \in Heads
        BY <1>0, <3>1, BoundAssumption DEF DevelopAdvances, BranchesOK, Heads
      <4>. QED  BY <1>0, <4>1, Followed DEF Open
    <3>2. CASE Feature \/ \E i \in Numbers : Merge(i) \/ MergeMoved(i)
      BY <3>1, <3>2 DEF Feature, Merge, MergeMoved
    <3>3. CASE Promote \/ SecurityRelease
      BY <1>u, <3>3 DEF Promote, SecurityRelease, MainAdvances, github
    <3>. QED  BY <1>10, <3>2, <3>3 DEF BranchStep
  <2>. QED  BY <1>r, <2>1, <2>2, HeadsKept DEF HeadsSound
<1>11. ASSUME NEW i \in Numbers, Close(i) PROVE HeadsSound'
  <2>1. UNCHANGED <<ref, raced, pc, plan, pr>>  BY <1>11 DEF Close, EditOnly, run
  <2>2. /\ Len(prs') = Len(prs)
        /\ \A j \in Numbers : /\ Kept(j) /\ prs'[j].exact = prs[j].exact
                              /\ prs'[j].toDevelop = prs[j].toDevelop
                              /\ prs'[j].status = "open" => Open(j)
                              /\ prs'[j].auto = prs[j].auto
    BY <1>0, <1>11, Closed DEF Close, Open
  <2>. QED  BY <1>r, <2>1, <2>2, HeadsKept DEF HeadsSound
<1>12. ASSUME NEW i \in Numbers, Reopen(i) PROVE HeadsSound'
  <2>. DEFINE e == ref[prs[i].pair] = "exact"
  <2>1. UNCHANGED <<ref, raced, pc, plan, pr>>  BY <1>12 DEF Reopen, EditOnly, run
  <2>2. /\ Len(prs') = Len(prs)
        /\ \A j \in Numbers : /\ Kept(j)
                              /\ prs'[j].status = IF j = i THEN "open" ELSE prs[j].status
                              /\ prs'[j].exact = IF j = i THEN e ELSE prs[j].exact
                              /\ prs'[j].toDevelop = prs[j].toDevelop
                              /\ prs'[j].auto = IF j = i THEN "dropped" ELSE prs[j].auto
    <3>1. e \in BOOLEAN  OBVIOUS
    <3>2. prs[i].status = "closed" /\
          prs' = [prs EXCEPT ![i].status = "open", ![i].auto = "dropped", ![i].exact = e]
      BY <1>12 DEF Reopen
    <3>. QED
      <4>. HIDE DEF e
      <4>. QED  BY <1>0, <3>1, <3>2, Reopened
  <2>3. Numbers' = Numbers  BY <2>2 DEF Numbers
  <2>4. (\A j \in Numbers : Open(j) /\ prs[j].exact => ref[prs[j].pair] = "exact")'
    <3>. SUFFICES ASSUME NEW j \in Numbers, prs'[j].status = "open", prs'[j].exact
                  PROVE  ref[prs[j].pair] = "exact"
      BY <2>1, <2>2, <2>3 DEF Open, Kept
    <3>1. CASE j = i  BY <2>2, <3>1
    <3>2. CASE j # i  BY <2>2, <3>2 DEF HeadsSound, Open
    <3>. QED  BY <3>1, <3>2
  <2>5. ArmedIsExact'  BY <2>1, <2>2, <2>3 DEF HeadsSound, ArmedIsExact
  <2>6. pc = "enable" => \/ pr \in raced
                         \/ prs'[pr].exact /\ prs'[pr].toDevelop /\ ref[plan] = "exact"
    BY <1>r, <2>2 DEF HeadsSound
  <2>7. pc \in {"view", "arm", "enable"} => prs'[pr].pair = plan
    BY <1>r, <2>2 DEF HeadsSound, Kept
  <2>. QED  BY <2>1, <2>4, <2>5, <2>6, <2>7 DEF HeadsSound
<1>13. ASSUME NEW p \in Pairs, Move(p) PROVE HeadsSound'
  <2>1. /\ UNCHANGED <<pc, plan, pr>> /\ ref' = [ref EXCEPT ![p] = "moved"]
        /\ raced' = IF pc = "enable" /\ plan = p THEN raced \union {pr} ELSE raced
    BY <1>13 DEF Move, EditOnly, run
  <2>2. /\ Len(prs') = Len(prs)
        /\ \A j \in Numbers : /\ Kept(j) /\ prs'[j].status = prs[j].status
                              /\ prs'[j].exact =
                                   IF prs[j].pair = p /\ Open(j) THEN FALSE ELSE prs[j].exact
                              /\ prs'[j].toDevelop = prs[j].toDevelop
                              /\ prs'[j].auto = prs[j].auto
    BY <1>0, <1>13, Moved DEF Move
  <2>3. Numbers' = Numbers /\ raced \subseteq raced'  BY <2>1, <2>2 DEF Numbers
  <2>4. (\A j \in Numbers : Open(j) /\ prs[j].exact => ref[prs[j].pair] = "exact")'
    <3>. SUFFICES ASSUME NEW j \in Numbers, prs'[j].status = "open", prs'[j].exact
                  PROVE  ref'[prs'[j].pair] = "exact"
      BY <2>3 DEF Open
    <3>1. Open(j) /\ prs[j].exact /\ prs[j].pair # p /\ prs'[j].pair = prs[j].pair
      BY <2>2 DEF Open, Kept
    <3>2. ref[prs[j].pair] = "exact"  BY <3>1 DEF HeadsSound
    <3>. QED  BY <1>0, <2>1, <3>1, <3>2 DEF GitHubOK
  <2>5. ArmedIsExact'  BY <2>2, <2>3 DEF HeadsSound, ArmedIsExact
  <2>6. (pc \in {"view", "arm", "enable"} => prs[pr].pair = plan)'
    BY <1>r, <2>1, <2>2 DEF HeadsSound, Kept
  <2>7. ASSUME pc = "enable"
        PROVE  \/ pr \in raced'
               \/ prs'[pr].exact /\ prs'[pr].toDevelop /\ ref'[plan] = "exact"
    <3>1. CASE plan = p  BY <2>1, <2>7, <3>1
    <3>2. CASE plan # p
      <4>1. prs[pr].pair = plan /\ pr \in Numbers  BY <1>r, <2>7 DEF HeadsSound
      <4>2. prs'[pr].exact = prs[pr].exact /\ prs'[pr].toDevelop = prs[pr].toDevelop
        BY <2>2, <3>2, <4>1
      <4>3. ref'[plan] = ref[plan]  BY <1>0, <2>1, <3>2 DEF GitHubOK, RunOK
      <4>. QED  BY <2>3, <2>7, <4>2, <4>3 DEF HeadsSound
    <3>. QED  BY <3>1, <3>2
  <2>. QED  BY <2>1, <2>4, <2>5, <2>6, <2>7 DEF HeadsSound
<1>15. ASSUME NEW i \in Numbers, Retarget(i) PROVE HeadsSound'
  <2>1. /\ UNCHANGED <<ref, pc, plan, pr>>
        /\ raced' = IF pc = "enable" /\ pr = i THEN raced \union {i} ELSE raced
    BY <1>15 DEF Retarget, EditOnly, run
  <2>2. /\ Len(prs') = Len(prs)
        /\ \A j \in Numbers : /\ Kept(j) /\ prs'[j].status = prs[j].status
                              /\ prs'[j].exact = prs[j].exact
                              /\ prs'[j].auto = prs[j].auto
                              /\ j # i => prs'[j].toDevelop = prs[j].toDevelop
    <3>1. develop.rev \in Heads  BY <1>0 DEF BranchesOK
    <3>. QED  BY <1>0, <1>15, <3>1, Retargeted DEF Retarget
  <2>3. Numbers' = Numbers /\ raced \subseteq raced'  BY <2>1, <2>2 DEF Numbers
  <2>4. (\A j \in Numbers : Open(j) /\ prs[j].exact => ref[prs[j].pair] = "exact")'
    BY <2>1, <2>2, <2>3 DEF HeadsSound, Open, Kept
  <2>5. ArmedIsExact'  BY <2>2, <2>3 DEF HeadsSound, ArmedIsExact
  <2>6. (pc \in {"view", "arm", "enable"} => prs[pr].pair = plan)'
    BY <1>r, <2>1, <2>2 DEF HeadsSound, Kept
  <2>7. ASSUME pc = "enable"
        PROVE  \/ pr \in raced'
               \/ prs'[pr].exact /\ prs'[pr].toDevelop /\ ref[plan] = "exact"
    <3>1. CASE pr = i  BY <2>1, <2>7, <3>1
    <3>2. CASE pr # i  BY <1>r, <2>1, <2>2, <2>7, <3>2 DEF HeadsSound
    <3>. QED  BY <3>1, <3>2
  <2>. QED  BY <2>1, <2>4, <2>5, <2>6, <2>7 DEF HeadsSound
<1>14. CASE UNCHANGED vars
  <2>1. UNCHANGED <<prs, ref, raced, pc, plan, pr>>  BY <1>14 DEF vars, github, run
  <2>. QED  BY <1>r, <1>u, <2>1, HeadsKept DEF HeadsSound
<1>. QED
  BY <1>1, <1>2, <1>3, <1>4, <1>6, <1>8, <1>9, <1>10, <1>11, <1>12, <1>13, <1>14,
     <1>15
     DEF Next, RunStep, BranchStep

\* Auto-merge is enabled for a head other than the deterministic commit, or for another
\* target than develop, only if that changed between the last view and the mutation.
THEOREM ArmedExactly == Spec => []ArmedIsExact
<1>1. Init => TypeOK /\ HeadsSound
  <2>. SUFFICES ASSUME Init PROVE HeadsSound  BY InitTypes
  <2>1. prs = <<>> /\ pc = "idle" /\ Len(<<>>) = 0  BY DEF Init
  <2>. QED  BY <2>1 DEF HeadsSound, ArmedIsExact, Numbers
<1>2. TypeOK /\ HeadsSound /\ [Next]_vars => TypeOK' /\ HeadsSound'
  BY NextTypes, HeadsSoundStep
<1>3. HeadsSound => ArmedIsExact  BY DEF HeadsSound
<1>. QED  BY <1>1, <1>2, <1>3, PTL DEF Spec

=============================================================================
