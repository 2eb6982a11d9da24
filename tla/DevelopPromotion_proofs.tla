----------------------- MODULE DevelopPromotion_proofs -----------------------
(***************************************************************************)
(* Theorems about DevelopPromotion, for every number of heads of develop,  *)
(* failures, runs and actions of people.                                   *)
(***************************************************************************)
EXTENDS DevelopPromotion, TLAPS

-----------------------------------------------------------------------------
(* The inductive invariant. *)

\* What the bodies and the heads of the pull requests always say.
MarksSound ==
    /\ plan.head <= develop
    /\ \A i \in Numbers :
          /\ prs[i].born <= prs[i].head /\ prs[i].head <= develop
          /\ \/ prs[i].body.mark \in {prs[i].born, None}
             \/ prs[i].body.mark = Malformed /\ prs[i].born \in spoiled

\* Nobody but pull request k was ever opened for the planned head.
OnlyFor(k) ==
    \A i \in Numbers : prs[i].born = plan.head => i = k \/ Tampered(plan.head)

\* While develop stays at the planned head, the two inventories leave no pull
\* request of that head out.
Inventoried ==
    /\ pc \in {"fetch", "listOpen", "listClosed"} => pr = 0
    /\ pc \in {"existing", "closeAndList", "listClosed"} /\ develop = plan.head =>
          \A i \in Numbers :
             prs[i].born = plan.head => ~Open(i) \/ i = pr \/ Tampered(plan.head)
    /\ pc = "create" /\ develop = plan.head => OnlyFor(0)

\* A run that captured the number of its pull request goes on with that one.
Captured ==
    /\ captured => /\ pc \in {"view", "dispatch", "finalize", "persist", "idle"} \union CleanupSteps
                   /\ pr = made /\ pr # 0 /\ prs[pr].born = plan.head
    /\ captured /\ pc \in {"view", "dispatch"} =>
          /\ OnlyFor(pr) /\ (reviews[plan.head] = 0 \/ Tampered(plan.head))
          /\ prs[pr].body.state \in {"pending", "absent"}
    /\ pc \in {"dispatch", "finalize", "persist"} => captured
    /\ pc \in {"finalize", "persist"} => reviews[plan.head] > 0

\* The body a PATCH is computed from.
SeenSound ==
    /\ pc = "tombstone" => seen.mark = plan.head /\ prs[pr].born = plan.head
    /\ pc = "persist" => seen.mark = plan.head /\ prs[pr].body.state # "failed"
    /\ pc = "cleanTombstone" => \/ seen.mark \in {prs[made].born, None}
                                \/ seen.mark = Malformed /\ prs[made].born \in spoiled

\* Every review has a pull request that was opened for its head.
ReviewsSound ==
    \A h \in Heads : reviews[h] > 0 => \E i \in Numbers : prs[i].born = h

ReviewInvariant ==
    /\ TypeOK /\ MarksSound /\ Inventoried /\ Captured /\ SeenSound /\ ReviewsSound
    /\ OneReviewPerHead /\ SucceededWasReviewed

-----------------------------------------------------------------------------
(* What the steps do to the pull requests. *)

PrsOK == prs \in Seq(PullRequests)

\* Everything but the status of pull request j stays.
SameButStatus(j) ==
    /\ prs'[j].born = prs[j].born /\ prs'[j].head = prs[j].head
    /\ prs'[j].body = prs[j].body /\ prs'[j].toMain = prs[j].toMain

\* Everything but the body of pull request j stays.
SameButBody(j) ==
    /\ prs'[j].born = prs[j].born /\ prs'[j].head = prs[j].head
    /\ prs'[j].status = prs[j].status /\ prs'[j].toMain = prs[j].toMain

\* The elements of the sequence are pull requests.
LEMMA Members ==
    ASSUME PrsOK
    PROVE  Len(prs) \in Nat /\ \A j \in Numbers : prs[j] \in PullRequests
  BY DEF PrsOK, Numbers

\* A new pull request is the last one.
LEMMA PrsAppended ==
    ASSUME PrsOK, NEW r \in PullRequests, prs' = Append(prs, r)
    PROVE  /\ PrsOK' /\ Len(prs') = Len(prs) + 1
           /\ prs'[Len(prs) + 1] = r
           /\ \A j \in Numbers : prs'[j] = prs[j]
  BY DEF PrsOK, Numbers

\* A pull request that changes in place leaves the others alone.
LEMMA PrsReplaced ==
    ASSUME PrsOK, NEW i \in Numbers, NEW r \in PullRequests, prs' = [prs EXCEPT ![i] = r]
    PROVE  /\ PrsOK' /\ Len(prs') = Len(prs)
           /\ \A j \in Numbers : prs'[j] = IF j = i THEN r ELSE prs[j]
  BY DEF PrsOK, Numbers

\* A function on the numbers of the pull requests is a sequence of that length.
LEMMA PrsMapped ==
    ASSUME PrsOK, NEW f \in [Numbers -> PullRequests], prs' = f
    PROVE  /\ PrsOK' /\ Len(prs') = Len(prs)
           /\ \A j \in Numbers : prs'[j] = f[j]
<1>1. Len(prs) \in Nat  BY DEF PrsOK
<1>2. f \in Seq(PullRequests) /\ Len(f) = Len(prs)  BY <1>1 DEF Numbers
<1>. QED  BY <1>2 DEF PrsOK

\* The status of a pull request is set.
LEMMA StatusSet ==
    ASSUME PrsOK, NEW i \in Numbers, NEW v \in {"open", "closed", "merged"},
           prs' = [prs EXCEPT ![i].status = v]
    PROVE  /\ PrsOK' /\ Len(prs') = Len(prs)
           /\ \A j \in Numbers : /\ SameButStatus(j)
                                 /\ prs'[j].status = IF j = i THEN v ELSE prs[j].status
<1>. DEFINE r == [prs[i] EXCEPT !.status = v]
<1>1. \A j \in Numbers : prs[j] \in PullRequests  BY Members
<1>2. r \in PullRequests  BY <1>1 DEF PullRequests
<1>3. prs' = [prs EXCEPT ![i] = r]  OBVIOUS
<1>4. /\ PrsOK' /\ Len(prs') = Len(prs)
      /\ \A j \in Numbers : prs'[j] = IF j = i THEN r ELSE prs[j]
  BY <1>2, <1>3, PrsReplaced
<1>. QED  BY <1>1, <1>4 DEF PullRequests, SameButStatus

\* A pull request is closed, unless it is merged.
LEMMA Closed ==
    ASSUME PrsOK, NEW i \in Numbers, Close(i)
    PROVE  /\ PrsOK' /\ Len(prs') = Len(prs)
           /\ \A j \in Numbers :
                 /\ SameButStatus(j)
                 /\ prs'[j].status = IF j = i /\ prs[i].status # "merged"
                                     THEN "closed" ELSE prs[j].status
<1>. DEFINE v == IF prs[i].status = "merged" THEN prs[i].status ELSE "closed"
<1>1. prs[i] \in PullRequests  BY Members
<1>2. v \in {"open", "closed", "merged"}  BY <1>1 DEF PullRequests
<1>3. prs' = [prs EXCEPT ![i].status = v]  BY DEF Close
<1>4. /\ PrsOK' /\ Len(prs') = Len(prs)
      /\ \A j \in Numbers : /\ SameButStatus(j)
                            /\ prs'[j].status = IF j = i THEN v ELSE prs[j].status
  <2>. HIDE DEF v
  <2>. QED  BY <1>2, <1>3, StatusSet
<1>. QED  BY <1>4

\* The body of a pull request is replaced.
LEMMA Patched ==
    ASSUME PrsOK, NEW i \in Numbers, NEW b \in Bodies, Patch(i, b)
    PROVE  /\ PrsOK' /\ Len(prs') = Len(prs)
           /\ \A j \in Numbers : /\ SameButBody(j)
                                 /\ prs'[j].body = IF j = i THEN b ELSE prs[j].body
<1>. DEFINE r == [prs[i] EXCEPT !.body = b]
<1>1. \A j \in Numbers : prs[j] \in PullRequests  BY Members
<1>2. r \in PullRequests  BY <1>1 DEF PullRequests
<1>3. prs' = [prs EXCEPT ![i] = r]  BY DEF Patch
<1>4. /\ PrsOK' /\ Len(prs') = Len(prs)
      /\ \A j \in Numbers : prs'[j] = IF j = i THEN r ELSE prs[j]
  BY <1>2, <1>3, PrsReplaced
<1>. QED  BY <1>1, <1>4 DEF PullRequests, SameButBody

\* The branches of open pull requests follow.
LEMMA Followed ==
    ASSUME PrsOK, NEW h \in Heads, NEW b \in Mains, Follow(h, b)
    PROVE  /\ PrsOK' /\ Len(prs') = Len(prs)
           /\ \A j \in Numbers :
                 /\ prs'[j].born = prs[j].born /\ prs'[j].body = prs[j].body
                 /\ prs'[j].status = prs[j].status /\ prs'[j].toMain = prs[j].toMain
                 /\ prs'[j].head = IF Open(j) THEN h ELSE prs[j].head
<1>. DEFINE g(fresh, i) == [prs[i] EXCEPT !.head = IF Open(i) THEN h ELSE @,
                                          !.base = IF Open(i) /\ @ # b /\ fresh THEN b ELSE @]
<1>1. PICK fresh \in BOOLEAN : prs' = [i \in Numbers |-> g(fresh, i)]  BY DEF Follow
<1>2. \A j \in Numbers : prs[j] \in PullRequests  BY Members
<1>3. \A j \in Numbers :
         /\ g(fresh, j) \in PullRequests
         /\ g(fresh, j).born = prs[j].born /\ g(fresh, j).body = prs[j].body
         /\ g(fresh, j).status = prs[j].status /\ g(fresh, j).toMain = prs[j].toMain
         /\ g(fresh, j).head = IF Open(j) THEN h ELSE prs[j].head
  BY <1>2 DEF PullRequests
<1>. HIDE DEF g
<1>4. [i \in Numbers |-> g(fresh, i)] \in [Numbers -> PullRequests]  BY <1>3
<1>5. PrsOK' /\ Len(prs') = Len(prs) /\ \A j \in Numbers : prs'[j] = g(fresh, j)
  BY <1>1, <1>4, PrsMapped
<1>. QED  BY <1>3, <1>5

\* A pull request gets another base branch.
LEMMA Retargeted ==
    ASSUME PrsOK, NEW i \in Numbers, NEW t \in BOOLEAN, NEW b \in Mains,
           \/ prs' = [prs EXCEPT ![i].toMain = t, ![i].base = b]
           \/ prs' = [prs EXCEPT ![i].toMain = t]
    PROVE  /\ PrsOK' /\ Len(prs') = Len(prs)
           /\ \A j \in Numbers : /\ prs'[j].born = prs[j].born /\ prs'[j].head = prs[j].head
                                 /\ prs'[j].status = prs[j].status /\ prs'[j].body = prs[j].body
<1>1. \A j \in Numbers : prs[j] \in PullRequests  BY Members
<1>2. \/ prs' = [prs EXCEPT ![i] = [prs[i] EXCEPT !.toMain = t, !.base = b]]
      \/ prs' = [prs EXCEPT ![i] = [prs[i] EXCEPT !.toMain = t]]
  BY <1>1 DEF PrsOK, Numbers, PullRequests
<1>3. ASSUME NEW r \in PullRequests, prs' = [prs EXCEPT ![i] = r],
             r.born = prs[i].born, r.head = prs[i].head,
             r.status = prs[i].status, r.body = prs[i].body
      PROVE  /\ PrsOK' /\ Len(prs') = Len(prs)
             /\ \A j \in Numbers : /\ prs'[j].born = prs[j].born /\ prs'[j].head = prs[j].head
                                   /\ prs'[j].status = prs[j].status /\ prs'[j].body = prs[j].body
  <2>1. /\ PrsOK' /\ Len(prs') = Len(prs)
        /\ \A j \in Numbers : prs'[j] = IF j = i THEN r ELSE prs[j]
    BY <1>3, PrsReplaced
  <2>. QED  BY <1>3, <2>1
<1>4. /\ [prs[i] EXCEPT !.toMain = t, !.base = b] \in PullRequests
      /\ [prs[i] EXCEPT !.toMain = t] \in PullRequests
  BY <1>1 DEF PullRequests
<1>. QED  BY <1>1, <1>2, <1>3, <1>4 DEF PullRequests

\* A person reopens one; its head is the one of develop.
LEMMA Reopened ==
    ASSUME PrsOK, NEW i \in Numbers, NEW h \in Heads,
           prs' = [prs EXCEPT ![i].status = "open", ![i].head = h]
    PROVE  /\ PrsOK' /\ Len(prs') = Len(prs)
           /\ \A j \in Numbers :
                 /\ prs'[j].born = prs[j].born /\ prs'[j].body = prs[j].body
                 /\ prs'[j].status = IF j = i THEN "open" ELSE prs[j].status
                 /\ prs'[j].head = IF j = i THEN h ELSE prs[j].head
<1>. DEFINE r == [prs[i] EXCEPT !.status = "open", !.head = h]
<1>1. \A j \in Numbers : prs[j] \in PullRequests  BY Members
<1>2. /\ r \in PullRequests /\ r.born = prs[i].born /\ r.body = prs[i].body
      /\ r.status = "open" /\ r.head = h
  BY <1>1 DEF PullRequests
<1>3. prs' = [prs EXCEPT ![i] = r]  BY <1>1 DEF PrsOK, Numbers, PullRequests
<1>. HIDE DEF r
<1>4. /\ PrsOK' /\ Len(prs') = Len(prs)
      /\ \A j \in Numbers : prs'[j] = IF j = i THEN r ELSE prs[j]
  BY <1>2, <1>3, PrsReplaced
<1>5. ASSUME NEW j \in Numbers
      PROVE  /\ prs'[j].born = prs[j].born /\ prs'[j].body = prs[j].body
             /\ prs'[j].status = IF j = i THEN "open" ELSE prs[j].status
             /\ prs'[j].head = IF j = i THEN h ELSE prs[j].head
  <2>1. CASE j = i
    <3>1. prs'[j] = r  BY <1>4, <2>1
    <3>2. prs[i] = prs[j]  BY <2>1
    <3>3. prs'[j].born = prs[j].born /\ prs'[j].body = prs[j].body  BY <1>2, <3>1, <3>2, Zenon
    <3>4. prs'[j].status = "open" /\ prs'[j].head = h  BY <1>2, <3>1, Zenon
    <3>. QED  BY <2>1, <3>3, <3>4, Zenon
  <2>2. CASE j # i
    <3>1. prs'[j] = prs[j]  BY <1>4, <2>2
    <3>. QED  BY <2>2, <3>1
  <2>. QED  BY <2>1, <2>2
<1>. QED  BY <1>4, <1>5

\* A person edits one: it stays in its head and is not opened; its markers are kept,
\* dropped, or spoiled on the record.
Edited(j) ==
    /\ prs'[j].born = prs[j].born /\ prs'[j].head = prs[j].head
    /\ Open(j)' => Open(j)
    /\ \/ prs'[j].body.mark \in {prs[j].body.mark, None}
       \/ prs'[j].body.mark = Malformed /\ prs[j].born \in spoiled'
    /\ prs'[j].body.state \in {prs[j].body.state, "absent"}

LEMMA EditEffect ==
    ASSUME TypeOK, NEW i \in Numbers, Edit(i)
    PROVE  /\ PrsOK' /\ Len(prs') = Len(prs)
           /\ \A j \in Numbers : Edited(j)
           /\ spoiled \subseteq spoiled' /\ spoiled' \subseteq Heads
<1>. PrsOK  BY DEF TypeOK, PrsOK
<1>1. \A j \in Numbers : prs[j] \in PullRequests  BY Members
<1>2. spoiled \subseteq Heads /\ main \in Mains  BY DEF TypeOK
<1>3. CASE Close(i) /\ UNCHANGED spoiled
  BY <1>1, <1>2, <1>3, Closed DEF Edited, SameButStatus, Open
<1>4. CASE /\ UNCHANGED spoiled
           /\ \/ prs' = [prs EXCEPT ![i].toMain = FALSE]
              \/ prs' = [prs EXCEPT ![i].toMain = TRUE, ![i].base = main]
  BY <1>2, <1>4, Retargeted DEF Edited, Open
<1>5. ASSUME NEW b \in Bodies, Patch(i, b), spoiled \subseteq spoiled', spoiled' \subseteq Heads,
             \/ b.mark \in {prs[i].body.mark, None}
             \/ b.mark = Malformed /\ prs[i].born \in spoiled',
             b.state \in {prs[i].body.state, "absent"}
      PROVE  /\ PrsOK' /\ Len(prs') = Len(prs)
             /\ \A j \in Numbers : Edited(j)
  <2>1. /\ PrsOK' /\ Len(prs') = Len(prs)
        /\ \A j \in Numbers : /\ SameButBody(j)
                              /\ prs'[j].body = IF j = i THEN b ELSE prs[j].body
    BY <1>5, Patched
  <2>. QED  BY <1>5, <2>1 DEF Edited, SameButBody, Open
<1>6. ASSUME NEW m \in {None, Malformed}, prs' = [prs EXCEPT ![i].body.mark = m],
             \/ m = None /\ spoiled' = spoiled
             \/ m = Malformed /\ spoiled' = spoiled \union {prs[i].born}
      PROVE  /\ PrsOK' /\ Len(prs') = Len(prs)
             /\ \A j \in Numbers : Edited(j)
             /\ spoiled \subseteq spoiled' /\ spoiled' \subseteq Heads
  <2>. DEFINE b == [prs[i].body EXCEPT !.mark = m]
  <2>1. b \in Bodies /\ b.mark = m /\ b.state = prs[i].body.state
    BY <1>1 DEF PullRequests, Bodies
  <2>2. Patch(i, b)  BY <1>6 DEF Patch
  <2>3. spoiled \subseteq spoiled' /\ spoiled' \subseteq Heads
    BY <1>1, <1>2, <1>6 DEF PullRequests
  <2>. HIDE DEF b
  <2>. QED  BY <1>5, <1>6, <2>1, <2>2, <2>3
<1>7. CASE prs' = [prs EXCEPT ![i].body.state = "absent"] /\ UNCHANGED spoiled
  <2>. DEFINE b == [prs[i].body EXCEPT !.state = "absent"]
  <2>1. b \in Bodies /\ b.mark = prs[i].body.mark /\ b.state = "absent"
    BY <1>1 DEF PullRequests, Bodies
  <2>2. Patch(i, b)  BY <1>7 DEF Patch
  <2>. HIDE DEF b
  <2>. QED  BY <1>2, <1>5, <1>7, <2>1, <2>2
<1>. QED  BY <1>3, <1>4, <1>6, <1>7 DEF Edit

-----------------------------------------------------------------------------
(* What the calls of the run do. *)

Target == IF pc \in {"cleanTombstone", "cleanClose"} THEN made ELSE pr
Outcome == IF pc = "persist" THEN "succeeded" ELSE "failed"

Closes ==
    /\ pc \in {"closeAndList", "closeAndFail", "cleanClose"}
    /\ UNCHANGED <<reviews, made>> /\ Len(prs') = Len(prs)
    /\ \A j \in Numbers :
          /\ SameButStatus(j)
          /\ prs'[j].status = IF j = Target /\ prs[Target].status # "merged"
                              THEN "closed" ELSE prs[j].status
Patches ==
    /\ pc \in {"tombstone", "persist", "cleanTombstone"}
    /\ UNCHANGED <<reviews, made>> /\ Len(prs') = Len(prs)
    /\ \A j \in Numbers :
          /\ SameButBody(j)
          /\ prs'[j].body.mark = IF j = Target THEN seen.mark ELSE prs[j].body.mark
          /\ prs'[j].body.state = IF j = Target THEN Outcome ELSE prs[j].body.state
Adds ==
    /\ Len(prs') = Len(prs) + 1 /\ made' = Len(prs) + 1
    /\ \A j \in Numbers : prs'[j] = prs[j]
    /\ prs'[Len(prs) + 1] = [status |-> "open", toMain |-> TRUE, base |-> main,
                             head |-> develop, body |-> Marked("pending"),
                             born |-> plan.head]
Posts ==
    /\ pc = "create" /\ UNCHANGED reviews
    /\ \/ Acceptable /\ Adds
       \/ ~Acceptable /\ UNCHANGED <<prs, made>>
Dispatches ==
    /\ pc = "dispatch" /\ UNCHANGED <<prs, made>>
    /\ reviews' = [reviews EXCEPT ![plan.head] = @ + 1]

LEMMA CallEffect ==
    ASSUME TypeOK, Call
    PROVE  /\ PrsOK' /\ reviews' \in [Heads -> Nat] /\ made' \in 0 .. Len(prs')
           /\ Closes \/ Patches \/ Posts \/ Dispatches
<1>. PrsOK  BY DEF TypeOK, PrsOK
<1>0. Len(prs) \in Nat /\ reviews \in [Heads -> Nat] /\ made \in 0 .. Len(prs)
  BY Members DEF TypeOK
<1>1. CASE pc \in {"closeAndList", "closeAndFail", "cleanClose"}
  <2>1. Target \in Numbers /\ Close(Target) /\ UNCHANGED <<reviews, made>>
    BY <1>1 DEF Call, TypeOK, Numbers, Target
  <2>2. /\ PrsOK' /\ Len(prs') = Len(prs)
        /\ \A j \in Numbers :
              /\ SameButStatus(j)
              /\ prs'[j].status = IF j = Target /\ prs[Target].status # "merged"
                                  THEN "closed" ELSE prs[j].status
    BY <2>1, Closed
  <2>. QED  BY <1>0, <1>1, <2>1, <2>2 DEF Closes
<1>2. CASE pc \in {"tombstone", "persist", "cleanTombstone"}
  <2>1. PICK b : /\ Target \in Numbers /\ Patch(Target, b) /\ UNCHANGED <<reviews, made>>
                 /\ b \in Bodies /\ b.mark = seen.mark /\ b.state = Outcome
    <3>1. seen \in Bodies /\ plan.base \in Mains  BY DEF TypeOK
    <3>2. CASE pc = "tombstone"
      <4>1. Target = pr /\ pr \in Numbers /\ Outcome = "failed"
        BY <3>2 DEF TypeOK, Numbers, Target, Outcome
      <4>2. Patch(pr, [seen EXCEPT !.state = "failed"]) /\ UNCHANGED <<reviews, made>>
        BY <3>2 DEF Call
      <4>3. /\ [seen EXCEPT !.state = "failed"] \in Bodies
            /\ [seen EXCEPT !.state = "failed"].mark = seen.mark
            /\ [seen EXCEPT !.state = "failed"].state = "failed"
        BY <3>1 DEF Bodies
      <4>. QED  BY <4>1, <4>2, <4>3
    <3>3. CASE pc = "persist"
      <4>1. Target = pr /\ pr \in Numbers /\ Outcome = "succeeded"
        BY <3>3 DEF TypeOK, Numbers, Target, Outcome
      <4>2. Patch(pr, [seen EXCEPT !.state = "succeeded"]) /\ UNCHANGED <<reviews, made>>
        BY <3>3 DEF Call
      <4>3. /\ [seen EXCEPT !.state = "succeeded"] \in Bodies
            /\ [seen EXCEPT !.state = "succeeded"].mark = seen.mark
            /\ [seen EXCEPT !.state = "succeeded"].state = "succeeded"
        BY <3>1 DEF Bodies
      <4>. QED  BY <4>1, <4>2, <4>3
    <3>4. CASE pc = "cleanTombstone"
      <4>. DEFINE b == [seen EXCEPT !.state = "failed", !.base = plan.base]
      <4>1. Target = made /\ made \in Numbers /\ Outcome = "failed"
        BY <3>4 DEF TypeOK, Numbers, Target, Outcome
      <4>2. Patch(made, b) /\ UNCHANGED <<reviews, made>>
        BY <3>4 DEF Call
      <4>3. b \in Bodies /\ b.mark = seen.mark /\ b.state = "failed"
        BY <3>1 DEF Bodies
      <4>. QED  BY <4>1, <4>2, <4>3
    <3>. QED  BY <1>2, <3>2, <3>3, <3>4
  <2>2. /\ PrsOK' /\ Len(prs') = Len(prs)
        /\ \A j \in Numbers : /\ SameButBody(j)
                              /\ prs'[j].body = IF j = Target THEN b ELSE prs[j].body
    BY <2>1, Patched
  <2>. QED  BY <1>0, <1>2, <2>1, <2>2 DEF Patches
<1>3. CASE pc = "create"
  <2>. DEFINE r == [status |-> "open", toMain |-> TRUE, base |-> main, head |-> develop,
                    body |-> Marked("pending"), born |-> plan.head]
  <2>1. Post /\ UNCHANGED reviews  BY <1>3 DEF Call
  <2>2. r \in PullRequests
    <3>1. main \in Mains /\ develop \in Heads /\ plan.head \in Heads /\ plan.base \in Mains
      BY DEF TypeOK
    <3>. QED  BY <3>1 DEF PullRequests, Bodies, Marked
  <2>3. CASE Acceptable
    <3>1. prs' = Append(prs, r) /\ made' = Len(prs) + 1  BY <2>1, <2>3 DEF Post
    <3>2. /\ PrsOK' /\ Len(prs') = Len(prs) + 1 /\ prs'[Len(prs) + 1] = r
          /\ \A j \in Numbers : prs'[j] = prs[j]
      <4>. HIDE DEF r
      <4>. QED  BY <2>2, <3>1, PrsAppended
    <3>3. Adds  BY <3>1, <3>2 DEF Adds
    <3>4. made' \in 0 .. Len(prs')  BY <1>0, <3>1, <3>2
    <3>5. Posts  BY <1>3, <2>1, <2>3, <3>3, Zenon DEF Posts
    <3>6. reviews' \in [Heads -> Nat]  BY <1>0, <2>1
    <3>. QED  BY <3>2, <3>4, <3>5, <3>6
  <2>4. CASE ~Acceptable
    <3>1. UNCHANGED <<prs, made>>  BY <2>1, <2>4 DEF Post
    <3>. QED  BY <1>0, <1>3, <2>1, <2>4, <3>1 DEF Posts, PrsOK
  <2>. QED  BY <2>3, <2>4
<1>4. CASE pc = "dispatch"
  <2>1. /\ reviews' = [reviews EXCEPT ![plan.head] = @ + 1] /\ UNCHANGED <<prs, made>>
        /\ plan.head \in Heads
    BY <1>4 DEF Call, TypeOK
  <2>. QED  BY <1>0, <1>4, <2>1 DEF Dispatches, PrsOK
<1>. QED  BY <1>1, <1>2, <1>3, <1>4 DEF Call

-----------------------------------------------------------------------------
(* Type correctness. *)

BranchesOK == develop \in Heads /\ main \in Mains /\ synced \in BOOLEAN /\ delta \in Deltas
GitHubOK == PrsOK /\ reviews \in [Heads -> Nat]
RunOK ==
    /\ pc \in {"idle"} \union Steps /\ plan \in [base : Mains, head : Heads]
    /\ pr \in 0 .. Len(prs) /\ seen \in Bodies /\ made \in 0 .. Len(prs)
    /\ cleanup \in BOOLEAN /\ captured \in BOOLEAN
    /\ pc \in {"existing", "closeAndList", "closeAndFail", "tombstone", "view",
               "dispatch", "finalize", "persist"} => pr # 0
    /\ pc \in {"cleanTombstone", "cleanClose"} => made # 0
    /\ pc \in {"create"} \union CleanupSteps \/ captured => cleanup
RestOK ==
    /\ dodged \subseteq Heads /\ spoiled \subseteq Heads
    /\ faults \in 0 .. MaxFaults /\ edits \in 0 .. MaxEdits

\* The type invariant has these four parts.
LEMMA TypeParts ==
    /\ TypeOK <=> BranchesOK /\ GitHubOK /\ RunOK /\ RestOK
    /\ TypeOK' <=> BranchesOK' /\ GitHubOK' /\ RunOK' /\ RestOK'
  BY DEF TypeOK, BranchesOK, GitHubOK, RunOK, RestOK, PrsOK

\* A step that fails, in words of the types.
LEMMA FailedTypes ==
    ASSUME Failed
    PROVE  pc' = "idle" \/ (pc' = "cleanup" /\ cleanup)
  BY DEF Failed

\* The numbers of the run are still numbers when no pull request goes away.
LEMMA RunTypes ==
    ASSUME RunOK, Len(prs) \in Nat, Len(prs') \in Nat, Len(prs') >= Len(prs),
           UNCHANGED <<plan, pr, seen, cleanup, captured>>, made' \in 0 .. Len(prs'),
           \/ pc' = pc /\ made' = made
           \/ pc' = "idle"
           \/ pc' = "cleanup" /\ cleanup
    PROVE  RunOK'
<1>1. /\ pc' \in {"idle"} \union Steps /\ plan' \in [base : Mains, head : Heads]
      /\ pr' \in 0 .. Len(prs') /\ seen' \in Bodies /\ made' \in 0 .. Len(prs')
  BY DEF RunOK, CleanupSteps, Steps
<1>2. cleanup' \in BOOLEAN /\ captured' \in BOOLEAN  BY DEF RunOK
<1>3. /\ pc' \in {"existing", "closeAndList", "closeAndFail", "tombstone", "view",
                  "dispatch", "finalize", "persist"} => pr' # 0
      /\ pc' \in {"cleanTombstone", "cleanClose"} => made' # 0
  BY DEF RunOK
<1>4. pc' \in {"create"} \union CleanupSteps \/ captured' => cleanup'
  <2>1. \/ pc' = pc
        \/ pc' = "idle"
        \/ cleanup
    OBVIOUS
  <2>2. "idle" \notin {"create"} \union CleanupSteps  BY DEF CleanupSteps
  <2>. QED  BY <2>1, <2>2, Zenon DEF RunOK
<1>. QED  BY <1>1, <1>2, <1>3, <1>4 DEF RunOK

\* The steps that only read.
LEMMA ReadTypes ==
    ASSUME TypeOK,
           Fetch \/ ListOpen \/ Existing \/ ListClosed \/ View \/ Finalize \/ Cleanup
    PROVE  TypeOK'
<1>0. BranchesOK /\ GitHubOK /\ RunOK /\ RestOK  BY TypeParts
<1>1. UNCHANGED <<branches, prs, reviews, made, captured, bounds>>
  BY DEF Fetch, ListOpen, Existing, ListClosed, View, Finalize, Cleanup, outputs
<1>2. BranchesOK' /\ GitHubOK' /\ RestOK'
  BY <1>0, <1>1 DEF branches, bounds, history, BranchesOK, GitHubOK, RestOK, PrsOK
<1>p. Len(prs) \in Nat /\ \A i \in Numbers : prs[i] \in PullRequests
  BY <1>0, Members DEF GitHubOK
<1>b. \A i \in Numbers : prs[i].body \in Bodies  BY <1>p DEF PullRequests
<1>3. CASE Fetch
  <2>1. plan' \in [base : Mains, head : Heads]  BY <1>0, <1>3 DEF Fetch, BranchesOK
  <2>2. pc' \in {"idle", "listOpen", "cleanup"} /\ (pc' = "cleanup" => cleanup)
    BY <1>3, FailedTypes DEF Fetch, Done
  <2>3. UNCHANGED <<pr, seen, cleanup>>  BY <1>3 DEF Fetch, outputs
  <2>. QED  BY <1>0, <1>1, <1>2, <2>1, <2>2, <2>3, TypeParts DEF RunOK, Steps, CleanupSteps
<1>4. CASE ListOpen
  <2>1. \/ pc' = "existing" /\ pr' \in Numbers
        \/ pc' \in {"listClosed", "idle"} /\ pr' = pr
        \/ pc' = "cleanup" /\ cleanup /\ pr' = pr
    BY <1>4, FailedTypes DEF ListOpen
  <2>2. UNCHANGED <<plan, seen, cleanup>>  BY <1>4 DEF ListOpen, outputs
  <2>. QED  BY <1>0, <1>1, <1>2, <1>p, <2>1, <2>2, TypeParts
            DEF RunOK, Steps, CleanupSteps, Numbers
<1>5. CASE Existing
  <2>1. pc = "existing" /\ seen' = prs[pr].body /\ UNCHANGED <<plan, pr, cleanup>>
    BY <1>5 DEF Existing, outputs
  <2>2. seen' \in Bodies  BY <1>0, <1>b, <2>1 DEF RunOK, Numbers
  <2>3. pc' \in {"closeAndList", "closeAndFail", "view", "tombstone", "idle", "cleanup"}
        /\ (pc' = "cleanup" => cleanup)
    BY <1>5, FailedTypes DEF Existing, Unless
  <2>. QED  BY <1>0, <1>1, <1>2, <2>1, <2>2, <2>3, TypeParts DEF RunOK, Steps, CleanupSteps
<1>6. CASE ListClosed
  <2>1. \/ pc' = "create" /\ cleanup' = TRUE
        \/ /\ pc' = "idle" \/ (pc' = "cleanup" /\ cleanup)
           /\ cleanup' = cleanup
    BY <1>6, FailedTypes DEF ListClosed
  <2>2. UNCHANGED <<plan, pr, seen>>  BY <1>6 DEF ListClosed
  <2>. QED  BY <1>0, <1>1, <1>2, <2>1, <2>2, TypeParts DEF RunOK, Steps, CleanupSteps
<1>7. CASE View
  <2>1. pc = "view" /\ UNCHANGED <<plan, pr, seen, cleanup>>
    BY <1>7 DEF View, outputs
  <2>2. pc' \in {"dispatch", "idle", "cleanup"} /\ (pc' = "cleanup" => cleanup)
    BY <1>7, FailedTypes DEF View, Unless
  <2>. QED  BY <1>0, <1>1, <1>2, <2>1, <2>2, TypeParts DEF RunOK, Steps, CleanupSteps
<1>8. CASE Finalize
  <2>1. pc = "finalize" /\ seen' = prs[pr].body /\ UNCHANGED <<plan, pr, cleanup>>
    BY <1>8 DEF Finalize, outputs
  <2>2. seen' \in Bodies  BY <1>0, <1>b, <2>1 DEF RunOK, Numbers
  <2>3. pc' \in {"persist", "idle", "cleanup"} /\ (pc' = "cleanup" => cleanup)
    BY <1>8, FailedTypes DEF Finalize, Unless
  <2>. QED  BY <1>0, <1>1, <1>2, <2>1, <2>2, <2>3, TypeParts DEF RunOK, Steps, CleanupSteps
<1>9. CASE Cleanup
  <2>1. pc = "cleanup" /\ UNCHANGED <<plan, pr, cleanup>>
    BY <1>9 DEF Cleanup, outputs
  <2>2. \/ pc' = "cleanTombstone" /\ made # 0 /\ seen' = prs[made].body
        \/ pc' = "idle" /\ seen' = seen
    BY <1>9 DEF Cleanup, Failed, CleanupSteps
  <2>3. seen' \in Bodies  BY <1>0, <1>b, <2>2 DEF RunOK, Numbers
  <2>. QED  BY <1>0, <1>1, <1>2, <2>1, <2>2, <2>3, TypeParts DEF RunOK, Steps, CleanupSteps
<1>. QED  BY <1>3, <1>4, <1>5, <1>6, <1>7, <1>8, <1>9

\* The steps that make a call.
CallStep ==
    \/ CloseAndList \/ CloseAndFail \/ Tombstone \/ Create \/ Dispatch \/ Persist
    \/ CleanTombstone \/ CleanClose

LEMMA CallTypes ==
    ASSUME TypeOK, CallStep
    PROVE  TypeOK'
<1>0. BranchesOK /\ GitHubOK /\ RunOK /\ RestOK  BY TypeParts
<1>1. Call /\ UNCHANGED <<branches, plan, seen, cleanup, bounds>>
  BY DEF CallStep, CloseAndList, CloseAndFail, Tombstone, Create, Dispatch, Persist,
         CleanTombstone, CleanClose
<1>2. BranchesOK' /\ GitHubOK' /\ RestOK'
  BY <1>0, <1>1, CallEffect DEF branches, bounds, history, BranchesOK, GitHubOK, RestOK
<1>3. made' \in 0 .. Len(prs') /\ Len(prs) \in Nat /\ Len(prs') \in Nat
  BY <1>0, <1>1, <1>2, CallEffect, Members DEF GitHubOK, PrsOK
<1>4. Len(prs') >= Len(prs) /\ (pc # "create" => made' = made)
  <2>1. Closes \/ Patches \/ Posts \/ Dispatches  BY <1>1, CallEffect
  <2>2. Len(prs') = Len(prs) \/ Len(prs') = Len(prs) + 1
    BY <2>1 DEF Closes, Patches, Posts, Adds, Dispatches
  <2>3. pc # "create" => made' = made  BY <2>1 DEF Closes, Patches, Posts, Dispatches
  <2>. QED  BY <1>3, <2>2, <2>3
<1>5. CASE Create
  <2>1. /\ pc = "create" /\ captured' \in BOOLEAN
        /\ captured' => Acceptable /\ pr' = made' /\ pc' = "view"
        /\ ~captured' => pr' = pr /\ (pc' = "idle" \/ (pc' = "cleanup" /\ cleanup))
    BY <1>5, FailedTypes DEF Create, Unless
  <2>2. captured' => made' # 0
    <3>1. Posts  BY <1>1, <2>1, CallEffect DEF Closes, Patches, Dispatches
    <3>2. Acceptable => made' = Len(prs) + 1  BY <3>1 DEF Posts, Adds
    <3>. QED  BY <1>3, <2>1, <3>2
  <2>3. UNCHANGED <<plan, seen, cleanup>> /\ cleanup  BY <1>0, <1>1, <2>1 DEF RunOK
  <2>4. RunOK'
    <3>1. CASE captured'
      BY <1>0, <1>3, <2>1, <2>2, <2>3, <3>1 DEF RunOK, Steps, CleanupSteps
    <3>2. CASE ~captured'
      BY <1>0, <1>3, <1>4, <2>1, <2>3, <3>2 DEF RunOK, Steps, CleanupSteps
    <3>. QED  BY <3>1, <3>2
  <2>. QED  BY <1>2, <2>4, TypeParts
<1>6. CASE CloseAndList
  <2>1. /\ pc = "closeAndList" /\ UNCHANGED captured
        /\ \/ pr' = pr /\ (pc' = "idle" \/ (pc' = "cleanup" /\ cleanup))
           \/ pr' = 0 /\ pc' = "listClosed"
    BY <1>6, FailedTypes DEF CloseAndList
  <2>2. UNCHANGED <<plan, seen, cleanup, made>>  BY <1>1, <1>4, <2>1
  <2>3. RunOK'
    BY <1>0, <1>3, <1>4, <2>1, <2>2 DEF RunOK, Steps, CleanupSteps
  <2>. QED  BY <1>2, <2>3, TypeParts
<1>7. CASE CallStep /\ pc \notin {"create", "closeAndList"}
  <2>1. UNCHANGED <<plan, pr, seen, cleanup, captured, made>>
    BY <1>4, <1>7 DEF CallStep, CloseAndList, CloseAndFail, Tombstone, Create, Dispatch, Persist,
          CleanTombstone, CleanClose
  <2>2. \/ pc' = "idle"
        \/ pc' = "cleanup" /\ cleanup
        \/ pc = "tombstone" /\ pc' = "closeAndFail"
        \/ pc = "dispatch" /\ pc' = "finalize"
        \/ pc = "cleanTombstone" /\ pc' = "cleanClose"
    BY <1>7, FailedTypes DEF CallStep, CloseAndList, CloseAndFail, Tombstone, Create, Dispatch,
          Persist, CleanTombstone, CleanClose, Done
  <2>3. RunOK'
    BY <1>0, <1>3, <1>4, <2>1, <2>2 DEF RunOK, Steps, CleanupSteps
  <2>. QED  BY <1>2, <2>3, TypeParts
<1>. QED  BY <1>5, <1>6, <1>7 DEF CallStep, CloseAndList, CloseAndFail, Tombstone, Create,
             Dispatch, Persist, CleanTombstone, CleanClose

\* A step outside of the run, that leaves the number of pull requests alone.
LEMMA OutsideTypes ==
    ASSUME TypeOK, BranchesOK', PrsOK', Len(prs') = Len(prs), RestOK',
           UNCHANGED <<reviews, pc, plan, pr, seen, outputs>>
    PROVE  TypeOK'
<1>1. GitHubOK /\ RunOK  BY TypeParts
<1>2. GitHubOK' /\ RunOK'  BY <1>1 DEF outputs, GitHubOK, RunOK
<1>. QED  BY <1>2, TypeParts

\* What may differ after a commit.
LEMMA DeltaSets ==
    ASSUME TypeOK
    PROVE  /\ OwnDeltas \subseteq Deltas /\ AfterSecurityRelease \subseteq Deltas
           /\ \A s \in BOOLEAN : AfterBackmerge(s) \union OwnDeltas \subseteq Deltas
<1>1. OwnDeltas \subseteq Deltas  BY DEF OwnDeltas, Deltas
<1>2. \A s \in BOOLEAN : AfterBackmerge(s) \subseteq Deltas  BY DEF AfterBackmerge, Deltas
<1>3. AfterSecurityRelease \subseteq Deltas
  <2>1. delta \in Deltas  BY DEF TypeOK
  <2>. QED  BY <2>1 DEF AfterSecurityRelease, OwnDeltas, Deltas
<1>. QED  BY <1>1, <1>2, <1>3

\* develop advances.
LEMMA AdvanceEffect ==
    ASSUME TypeOK, NEW d \in SUBSET Deltas, NEW s \in BOOLEAN, DevelopAdvances(d, s)
    PROVE  /\ TypeOK' /\ develop' = develop + 1 /\ Len(prs') = Len(prs)
           /\ \A j \in Numbers :
                 /\ prs'[j].born = prs[j].born /\ prs'[j].body = prs[j].body
                 /\ prs'[j].status = prs[j].status /\ prs'[j].toMain = prs[j].toMain
                 /\ prs'[j].head = IF Open(j) THEN develop + 1 ELSE prs[j].head
<1>0. BranchesOK /\ GitHubOK /\ RestOK  BY TypeParts
<1>1. develop + 1 \in Heads /\ develop' = develop + 1 /\ Follow(develop + 1, main)
  BY <1>0, BoundAssumption DEF DevelopAdvances, BranchesOK, Heads
<1>2. BranchesOK'  BY <1>0, <1>1 DEF DevelopAdvances, BranchesOK
<1>3. /\ PrsOK' /\ Len(prs') = Len(prs)
      /\ \A j \in Numbers :
            /\ prs'[j].born = prs[j].born /\ prs'[j].body = prs[j].body
            /\ prs'[j].status = prs[j].status /\ prs'[j].toMain = prs[j].toMain
            /\ prs'[j].head = IF Open(j) THEN develop + 1 ELSE prs[j].head
  BY <1>0, <1>1, Followed DEF BranchesOK, GitHubOK
<1>4. RestOK'  BY <1>0 DEF DevelopAdvances, bounds, history, RestOK
<1>5. TypeOK'  BY <1>2, <1>3, <1>4, OutsideTypes DEF DevelopAdvances
<1>. QED  BY <1>1, <1>3, <1>5

\* Initially the types are right.
LEMMA InitTypes == Init => TypeOK
<1>. SUFFICES ASSUME Init PROVE TypeOK  OBVIOUS
<1>1. 0 \in Heads /\ 0 \in Mains  BY BoundAssumption DEF Heads, Mains
<1>2. NoBody \in Bodies  BY <1>1 DEF NoBody, Bodies
<1>3. BranchesOK  BY <1>1 DEF Init, BranchesOK, Deltas
<1>4. GitHubOK
  <2>1. prs = <<>> /\ reviews = [h \in Heads |-> 0]  BY DEF Init
  <2>. QED  BY <2>1 DEF GitHubOK, PrsOK
<1>5. RunOK
  <2>1. prs = <<>> /\ Len(<<>>) = 0  BY DEF Init
  <2>2. plan \in [base : Mains, head : Heads]  BY <1>1 DEF Init
  <2>3. pc = "idle" /\ pr = 0 /\ made = 0 /\ cleanup = FALSE /\ captured = FALSE
    BY DEF Init
  <2>4. seen \in Bodies  BY <1>2 DEF Init
  <2>5. cleanup \in BOOLEAN /\ captured \in BOOLEAN /\ ~captured  BY <2>3
  <2>6. pc \notin {"create"} \union CleanupSteps  BY <2>3 DEF CleanupSteps
  <2>7. pr \in 0 .. Len(prs) /\ made \in 0 .. Len(prs)  BY <2>1, <2>3
  <2>8. /\ pc \notin {"existing", "closeAndList", "closeAndFail", "tombstone", "view",
                      "dispatch", "finalize", "persist"}
        /\ pc \notin {"cleanTombstone", "cleanClose"} /\ pc \in {"idle"} \union Steps
    BY <2>3
  <2>. QED  BY <2>2, <2>4, <2>5, <2>6, <2>7, <2>8 DEF RunOK
<1>6. RestOK  BY BoundAssumption DEF Init, RestOK
<1>. QED  BY <1>3, <1>4, <1>5, <1>6, TypeParts

\* Every step keeps the types.
LEMMA NextTypes ==
    ASSUME TypeOK, [Next]_vars
    PROVE  TypeOK'
<1>0. BranchesOK /\ GitHubOK /\ RunOK /\ RestOK  BY TypeParts
<1>p. PrsOK /\ Len(prs) \in Nat  BY <1>0, Members DEF GitHubOK
<1>1. CASE Start
  <2>1. BranchesOK' /\ GitHubOK' /\ RestOK'
    BY <1>0, <1>1 DEF Start, branches, bounds, history, BranchesOK, GitHubOK, PrsOK, RestOK
  <2>2. 0 \in Heads /\ 0 \in Mains  BY BoundAssumption DEF Heads, Mains
  <2>3. NoBody \in Bodies /\ [base |-> 0, head |-> 0] \in [base : Mains, head : Heads]
    BY <2>2 DEF NoBody, Bodies
  <2>4. RunOK'
    <3>1. /\ pc' = "fetch" /\ pr' = 0 /\ made' = 0 /\ cleanup' = FALSE /\ captured' = FALSE
          /\ seen' \in Bodies /\ plan' \in [base : Mains, head : Heads] /\ prs' = prs
      BY <1>1, <2>3 DEF Start
    <3>2. cleanup' \in BOOLEAN /\ captured' \in BOOLEAN /\ ~captured'  BY <3>1
    <3>3. pc' \notin {"create"} \union CleanupSteps  BY <3>1 DEF CleanupSteps
    <3>4. pr' \in 0 .. Len(prs') /\ made' \in 0 .. Len(prs')  BY <1>p, <3>1
    <3>5. /\ pc' \notin {"existing", "closeAndList", "closeAndFail", "tombstone", "view",
                         "dispatch", "finalize", "persist"}
          /\ pc' \notin {"cleanTombstone", "cleanClose"} /\ pc' \in {"idle"} \union Steps
      BY <3>1 DEF Steps
    <3>. QED  BY <3>1, <3>2, <3>3, <3>4, <3>5 DEF RunOK
  <2>. QED  BY <2>1, <2>4, TypeParts
<1>2. CASE RunStep
  BY <1>2, ReadTypes, CallTypes DEF RunStep, CallStep
<1>3. CASE CallFails
  <2>1. BranchesOK' /\ RestOK'
    BY <1>0, <1>3, BoundAssumption DEF CallFails, branches, history, BranchesOK, RestOK
  <2>2. /\ UNCHANGED <<plan, pr, seen, cleanup, captured>>
        /\ pc' = "idle" \/ (pc' = "cleanup" /\ cleanup)
    BY <1>3, FailedTypes DEF CallFails
  <2>3. CASE UNCHANGED <<prs, reviews, made>>
    <3>1. GitHubOK' /\ made' \in 0 .. Len(prs')
      BY <1>0, <2>3 DEF GitHubOK, PrsOK, RunOK
    <3>2. Len(prs') \in Nat /\ Len(prs') >= Len(prs)  BY <1>p, <2>3
    <3>3. RunOK'  BY <1>0, <1>p, <2>2, <3>1, <3>2, RunTypes
    <3>. QED  BY <2>1, <3>1, <3>3, TypeParts
  <2>4. CASE Call
    <3>1. GitHubOK' /\ made' \in 0 .. Len(prs')  BY <2>4, CallEffect DEF GitHubOK
    <3>2. Len(prs') \in Nat /\ Len(prs') >= Len(prs)
      <4>1. Closes \/ Patches \/ Posts \/ Dispatches  BY <2>4, CallEffect
      <4>2. Len(prs') = Len(prs) \/ Len(prs') = Len(prs) + 1
        BY <4>1 DEF Closes, Patches, Posts, Adds, Dispatches
      <4>. QED  BY <1>p, <4>2
    <3>3. RunOK'  BY <1>0, <1>p, <2>2, <3>1, <3>2, RunTypes
    <3>. QED  BY <2>1, <3>1, <3>3, TypeParts
  <2>. QED  BY <1>3, <2>3, <2>4 DEF CallFails
<1>4. CASE Kill
  <2>1. BranchesOK' /\ GitHubOK' /\ RestOK'
    BY <1>0, <1>4, BoundAssumption
    DEF Kill, branches, history, BranchesOK, GitHubOK, PrsOK, RestOK
  <2>2. /\ UNCHANGED <<prs, plan, pr, seen, made, cleanup, captured>> /\ pc' = "idle"
        /\ made' \in 0 .. Len(prs')
    BY <1>0, <1>4 DEF Kill, Done, outputs, RunOK
  <2>3. RunOK'  BY <1>0, <1>p, <2>2, RunTypes
  <2>. QED  BY <2>1, <2>3, TypeParts
<1>5. CASE Feature
  BY <1>0, <1>5, DeltaSets, AdvanceEffect DEF Feature, BranchesOK
<1>6. CASE Backmerge
  <2>1. PICK s \in BOOLEAN : DevelopAdvances(AfterBackmerge(s) \union OwnDeltas, s)
    BY <1>6 DEF Backmerge
  <2>2. AfterBackmerge(s) \union OwnDeltas \in SUBSET Deltas  BY <2>1, DeltaSets
  <2>. QED  BY <2>1, <2>2, AdvanceEffect
<1>7. CASE SecurityRelease
  <2>1. main + 1 \in Mains /\ main' = main + 1
    BY <1>0, <1>7, BoundAssumption DEF SecurityRelease, BranchesOK, Mains
  <2>2. BranchesOK'  BY <1>0, <1>7, <2>1, DeltaSets DEF SecurityRelease, BranchesOK
  <2>3. PrsOK' /\ Len(prs') = Len(prs)
    BY <1>0, <1>p, <1>7, <2>1, Followed DEF SecurityRelease, BranchesOK
  <2>4. RestOK'  BY <1>0, <1>7 DEF SecurityRelease, bounds, history, RestOK
  <2>. QED  BY <1>7, <2>2, <2>3, <2>4, OutsideTypes DEF SecurityRelease
<1>8. ASSUME NEW i \in Numbers, MergePromotion(i) PROVE TypeOK'
  <2>1. main + 1 \in Mains /\ main' = main + 1
    BY <1>0, <1>8, BoundAssumption DEF MergePromotion, BranchesOK, Mains
  <2>2. BranchesOK'  BY <1>0, <1>8, <2>1 DEF MergePromotion, BranchesOK, Deltas
  <2>3. PrsOK' /\ Len(prs') = Len(prs)  BY <1>p, <1>8, StatusSet DEF MergePromotion
  <2>4. RestOK'  BY <1>0, <1>8 DEF MergePromotion, bounds, history, RestOK
  <2>. QED  BY <1>8, <2>2, <2>3, <2>4, OutsideTypes DEF MergePromotion
<1>9. ASSUME NEW i \in Numbers, Edit(i) PROVE TypeOK'
  <2>1. PrsOK' /\ Len(prs') = Len(prs) /\ spoiled' \subseteq Heads  BY <1>9, EditEffect
  <2>2. BranchesOK'  BY <1>0, <1>9 DEF Edit, branches, BranchesOK
  <2>3. RestOK'  BY <1>0, <1>9, <2>1, BoundAssumption DEF Edit, RestOK
  <2>. QED  BY <1>9, <2>1, <2>2, <2>3, OutsideTypes DEF Edit
<1>10. ASSUME NEW i \in Numbers, Reopen(i) PROVE TypeOK'
  <2>1. PrsOK' /\ Len(prs') = Len(prs)
    BY <1>0, <1>p, <1>10, Reopened DEF Reopen, BranchesOK
  <2>2. BranchesOK'  BY <1>0, <1>10 DEF Reopen, branches, BranchesOK
  <2>3. prs[i].born \in Heads
    <3>1. prs[i] \in PullRequests  BY <1>p, Members
    <3>. QED  BY <3>1 DEF PullRequests
  <2>4. RestOK'  BY <1>0, <1>10, <2>3, BoundAssumption DEF Reopen, RestOK
  <2>. QED  BY <1>10, <2>1, <2>2, <2>4, OutsideTypes DEF Reopen
<1>11. CASE UNCHANGED vars
  <2>1. BranchesOK' /\ PrsOK' /\ Len(prs') = Len(prs) /\ RestOK'
    BY <1>0, <1>p, <1>11 DEF vars, branches, bounds, history, BranchesOK, PrsOK, RestOK
  <2>. QED  BY <1>11, <2>1, OutsideTypes DEF vars
<1>. QED
  BY <1>1, <1>2, <1>3, <1>4, <1>5, <1>6, <1>7, <1>8, <1>9, <1>10, <1>11 DEF Next

\* Every variable keeps its type, however often the workflow runs, the branches move,
\* calls fail and people interfere.
THEOREM TypeCorrect == Spec => []TypeOK
<1>1. Init => TypeOK  BY InitTypes
<1>2. TypeOK /\ [Next]_vars => TypeOK'  BY NextTypes
<1>. QED  BY <1>1, <1>2, PTL DEF Spec

-----------------------------------------------------------------------------
(* The branches. *)

\* The branches move as BranchFlow says, on which MainBackmerge agrees.
THEOREM PromotionImplementsFlow == Spec => BranchesFlow
<1>1. Init => Flow!Init  BY DEF Init, Flow!Init
<1>2. [Next]_vars => [Flow!Next]_(Flow!vars)
  <2>. SUFFICES ASSUME [Next]_vars PROVE [Flow!Next]_(Flow!vars)  OBVIOUS
  <2>1. CASE Feature
    BY <2>1 DEF Feature, DevelopAdvances, OwnDeltas, Flow!Next, Flow!Feature, Flow!OwnDeltas
  <2>2. CASE Backmerge
    <3>1. PICK s \in BOOLEAN : DevelopAdvances(AfterBackmerge(s) \union OwnDeltas, s)
      BY <2>2 DEF Backmerge
    <3>2. /\ ~synced /\ develop' = develop + 1 /\ synced' = s /\ main' = main
          /\ delta' \in AfterBackmerge(s) \/ delta' \in OwnDeltas
      BY <2>2, <3>1 DEF Backmerge, DevelopAdvances
    <3>3. OwnDeltas = Flow!OwnDeltas  BY DEF OwnDeltas, Flow!OwnDeltas
    <3>4. AfterBackmerge(s) \subseteq Flow!AfterBackmerge(delta, s)
      BY <3>1 DEF AfterBackmerge, Flow!AfterBackmerge
    <3>. QED  BY <3>1, <3>2, <3>3, <3>4 DEF Flow!Next, Flow!Backmerge, Flow!AmendedBackmerge
  <2>3. ASSUME NEW i \in Numbers, MergePromotion(i) PROVE Flow!Next
    BY <2>3 DEF MergePromotion, Flow!Next, Flow!Promote
  <2>4. CASE SecurityRelease
    BY <2>4 DEF SecurityRelease, AfterSecurityRelease, OwnDeltas, Flow!Next,
                Flow!SecurityRelease, Flow!AfterSecurityRelease, Flow!OwnDeltas
  <2>5. CASE \/ Start \/ RunStep \/ CallFails \/ Kill \/ UNCHANGED vars
             \/ \E i \in Numbers : Edit(i) \/ Reopen(i)
    BY <2>5 DEF RunStep, Start, Fetch, ListOpen, Existing, CloseAndList, CloseAndFail,
       Tombstone, ListClosed, Create, View, Dispatch, Finalize, Persist, Cleanup,
       CleanTombstone, CleanClose, CallFails, Kill, Edit, Reopen, vars, branches, Flow!vars
  <2>. QED  BY <2>1, <2>2, <2>3, <2>4, <2>5 DEF Next
<1>. QED  BY <1>1, <1>2, PTL DEF Spec, BranchesFlow, Flow!Spec

-----------------------------------------------------------------------------
(* The invariant is preserved: steps outside of the run. *)

\* What the branches and the people do to the pull requests.
Outside ==
    /\ UNCHANGED <<reviews, pc, plan, pr, seen, outputs>> /\ Len(prs') = Len(prs)
    /\ develop' >= develop /\ spoiled \subseteq spoiled' /\ dodged \subseteq dodged'
    /\ \A j \in Numbers :
          /\ prs'[j].born = prs[j].born /\ prs'[j].head \in {prs[j].head, develop'}
          /\ \/ prs'[j].body.mark \in {prs[j].body.mark, None}
             \/ prs'[j].body.mark = Malformed /\ prs[j].born \in spoiled'
          /\ prs'[j].body.state \in {prs[j].body.state, "absent"}
          /\ \/ Open(j)' => Open(j)
             \/ pc \in {"existing", "closeAndList", "listClosed"} => prs[j].born \in dodged'

OutsideStep ==
    \/ Feature \/ Backmerge \/ SecurityRelease \/ UNCHANGED vars
    \/ \E i \in Numbers : MergePromotion(i) \/ Edit(i) \/ Reopen(i)

\* The values the invariant speaks of.
LEMMA Values ==
    ASSUME TypeOK
    PROVE  /\ PrsOK /\ Len(prs) \in Nat /\ develop \in Nat /\ plan.head \in Heads /\ plan.head \in Nat
           /\ \A j \in Numbers : /\ prs[j] \in PullRequests
                                 /\ prs[j].born \in Heads /\ prs[j].born \in Nat
                                 /\ prs[j].head \in Nat
           /\ None \notin Nat /\ Malformed \notin Nat /\ None # Malformed
<1>1. PrsOK /\ Len(prs) \in Nat /\ \A j \in Numbers : prs[j] \in PullRequests
  BY Members DEF TypeOK, PrsOK
<1>2. develop \in Heads /\ plan.head \in Heads  BY DEF TypeOK
<1>. QED  BY <1>1, <1>2, MarkAssumption, BoundAssumption DEF PullRequests, Heads

LEMMA OutsideShape ==
    ASSUME TypeOK, OutsideStep
    PROVE  Outside
<1>. USE DEF Outside
<1>0. PrsOK /\ develop \in Nat /\ main \in Mains /\ develop \in Heads  BY Values DEF TypeOK
<1>1. CASE Feature \/ Backmerge
  <2>1. PICK d \in SUBSET Deltas, b \in BOOLEAN : DevelopAdvances(d, b)
    <3>1. CASE Feature
      BY <3>1, DeltaSets DEF Feature, TypeOK
    <3>2. CASE Backmerge
      BY <3>2, DeltaSets DEF Backmerge
    <3>. QED  BY <1>1, <3>1, <3>2
  <2>2. /\ develop' = develop + 1 /\ Len(prs') = Len(prs)
        /\ \A j \in Numbers :
              /\ prs'[j].born = prs[j].born /\ prs'[j].body = prs[j].body
              /\ prs'[j].status = prs[j].status /\ prs'[j].toMain = prs[j].toMain
              /\ prs'[j].head = IF Open(j) THEN develop + 1 ELSE prs[j].head
    BY <2>1, AdvanceEffect
  <2>3. UNCHANGED <<reviews, pc, plan, pr, seen, outputs, dodged, spoiled>>
    BY <2>1 DEF DevelopAdvances, bounds, history
  <2>. QED  BY <1>0, <2>2, <2>3 DEF Open
<1>2. CASE SecurityRelease
  <2>1. /\ Len(prs') = Len(prs)
        /\ \A j \in Numbers :
              /\ prs'[j].born = prs[j].born /\ prs'[j].body = prs[j].body
              /\ prs'[j].status = prs[j].status
              /\ prs'[j].head = IF Open(j) THEN develop ELSE prs[j].head
    <3>1. main + 1 \in Mains
      BY <1>0, <1>2, BoundAssumption DEF SecurityRelease, Mains
    <3>. QED  BY <1>0, <1>2, <3>1, Followed DEF SecurityRelease
  <2>2. UNCHANGED <<reviews, pc, plan, pr, seen, outputs, dodged, spoiled, develop>>
    BY <1>2 DEF SecurityRelease, bounds, history
  <2>. QED  BY <1>0, <2>1, <2>2 DEF Open
<1>3. CASE UNCHANGED vars
  BY <1>0, <1>3 DEF vars, bounds, history, branches, Open
<1>4. ASSUME NEW i \in Numbers, MergePromotion(i) PROVE Outside
  <2>1. /\ Len(prs') = Len(prs)
        /\ \A j \in Numbers : /\ SameButStatus(j)
                              /\ prs'[j].status = IF j = i THEN "merged" ELSE prs[j].status
    BY <1>0, <1>4, StatusSet DEF MergePromotion
  <2>2. UNCHANGED <<reviews, pc, plan, pr, seen, outputs, dodged, spoiled, develop>>
    BY <1>4 DEF MergePromotion, bounds, history
  <2>. QED  BY <1>0, <2>1, <2>2 DEF Open, SameButStatus
<1>5. ASSUME NEW i \in Numbers, Edit(i) PROVE Outside
  <2>1. Len(prs') = Len(prs) /\ (\A j \in Numbers : Edited(j)) /\ spoiled \subseteq spoiled'
    BY <1>5, EditEffect
  <2>2. UNCHANGED <<reviews, pc, plan, pr, seen, outputs, dodged, develop>>
    BY <1>5 DEF Edit, branches
  <2>. QED  BY <1>0, <2>1, <2>2 DEF Edited
<1>6. ASSUME NEW i \in Numbers, Reopen(i) PROVE Outside
  <2>1. /\ Len(prs') = Len(prs)
        /\ \A j \in Numbers :
              /\ prs'[j].born = prs[j].born /\ prs'[j].body = prs[j].body
              /\ prs'[j].status = IF j = i THEN "open" ELSE prs[j].status
              /\ prs'[j].head = IF j = i THEN develop ELSE prs[j].head
    BY <1>0, <1>6, Reopened DEF Reopen
  <2>2. UNCHANGED <<reviews, pc, plan, pr, seen, outputs, spoiled, develop>>
    BY <1>6 DEF Reopen, branches
  <2>3. /\ dodged \subseteq dodged'
        /\ pc \in {"existing", "closeAndList", "listClosed"} => prs[i].born \in dodged'
    BY <1>6 DEF Reopen
  <2>. QED  BY <1>0, <2>1, <2>2, <2>3 DEF Open
<1>. QED  BY <1>1, <1>2, <1>3, <1>4, <1>5, <1>6 DEF OutsideStep

LEMMA OutsideSound ==
    ASSUME ReviewInvariant, TypeOK', Outside
    PROVE  ReviewInvariant'
<1>0. /\ TypeOK /\ MarksSound /\ Inventoried /\ Captured /\ SeenSound /\ ReviewsSound
      /\ OneReviewPerHead /\ SucceededWasReviewed
  BY DEF ReviewInvariant
<1>1. Numbers' = Numbers /\ (\A h : Tampered(h) => Tampered(h)')
  BY DEF Outside, Numbers, Tampered
<1>2. UNCHANGED <<reviews, pc, plan, pr, seen, made, cleanup, captured>>
  BY DEF Outside, outputs
<1>v. /\ develop \in Nat /\ develop' \in Nat /\ plan.head \in Nat
      /\ \A j \in Numbers : prs[j].born \in Nat /\ prs[j].head \in Nat
  <2>1. develop' \in Heads  BY DEF TypeOK
  <2>2. develop' \in Nat  BY <2>1, BoundAssumption DEF Heads
  <2>. QED  BY <1>0, <2>2, Values
<1>3. MarksSound'
  <2>1. plan'.head <= develop'  BY <1>0, <1>2, <1>v DEF MarksSound, Outside
  <2>2. ASSUME NEW i \in Numbers
        PROVE  /\ prs'[i].born <= prs'[i].head /\ prs'[i].head <= develop'
               /\ \/ prs'[i].body.mark \in {prs'[i].born, None}
                  \/ prs'[i].body.mark = Malformed /\ prs'[i].born \in spoiled'
    BY <1>0, <1>v DEF MarksSound, Outside
  <2>. QED  BY <1>1, <2>1, <2>2 DEF MarksSound
<1>4. \A k : OnlyFor(k) => OnlyFor(k)'
  BY <1>1, <1>2 DEF OnlyFor, Outside
<1>5. Inventoried'
  <2>1. develop' = plan'.head => develop = plan.head
    BY <1>0, <1>2, <1>v DEF MarksSound, Outside
  <2>2. ASSUME pc' \in {"existing", "closeAndList", "listClosed"}, develop' = plan'.head,
               NEW i \in Numbers', prs'[i].born = plan'.head, Open(i)'
        PROVE  i = pr' \/ Tampered(plan.head)'
    <3>1. i \in Numbers /\ prs[i].born = plan.head  BY <1>1, <1>2, <2>2 DEF Outside
    <3>2. CASE Open(i)
      <4>1. i = pr \/ Tampered(plan.head)
        BY <1>0, <1>2, <2>1, <2>2, <3>1, <3>2 DEF Inventoried
      <4>. QED  BY <1>1, <1>2, <4>1 DEF Tampered
    <3>3. CASE prs[i].born \in dodged'  BY <1>2, <3>1, <3>3 DEF Tampered
    <3>. QED  BY <1>2, <2>2, <3>1, <3>2, <3>3 DEF Outside
  <2>. QED  BY <1>0, <1>2, <1>4, <2>1, <2>2 DEF Inventoried
<1>6. Captured'
  <2>1. captured => pr \in Numbers  BY <1>0 DEF Captured, TypeOK, Numbers
  <2>2. captured => /\ prs'[pr].born = prs[pr].born
                    /\ prs'[pr].body.state \in {prs[pr].body.state, "absent"}
    BY <2>1 DEF Outside
  <2>3. Tampered(plan.head) => Tampered(plan.head)'  BY <1>1, <1>2 DEF Tampered
  <2>. QED  BY <1>0, <1>2, <1>4, <2>2, <2>3 DEF Captured
<1>7. SeenSound'
  <2>1. /\ pc \in {"tombstone", "persist"} => pr \in Numbers
        /\ pc = "cleanTombstone" => made \in Numbers
    <3>1. pr \in 0 .. Len(prs) /\ made \in 0 .. Len(prs) /\ Len(prs) \in Nat  BY <1>0 DEF TypeOK
    <3>2. pc \in {"tombstone", "persist"} => pr # 0  BY <1>0 DEF TypeOK
    <3>3. pc = "cleanTombstone" => made # 0  BY <1>0 DEF TypeOK
    <3>. QED  BY <3>1, <3>2, <3>3 DEF Numbers
  <2>. QED  BY <1>0, <1>2, <2>1 DEF SeenSound, Outside
<1>8. ReviewsSound'  BY <1>0, <1>1, <1>2 DEF ReviewsSound, Outside
<1>9. OneReviewPerHead'  BY <1>0, <1>1, <1>2 DEF OneReviewPerHead, Tampered
<1>10. SucceededWasReviewed'
  BY <1>0, <1>1, <1>2 DEF SucceededWasReviewed, Outside
<1>. QED  BY <1>3, <1>5, <1>6, <1>7, <1>8, <1>9, <1>10 DEF ReviewInvariant

-----------------------------------------------------------------------------
(* The invariant is preserved: steps of the run. *)

\* A step that ends the run, or goes to the clean-up, and leaves the pull requests.
Stops ==
    /\ pc' \in {"idle", "cleanup"}
    /\ UNCHANGED <<branches, prs, reviews, plan, pr, seen, outputs, history>>

ReadStep ==
    \/ Start \/ Fetch \/ ListOpen \/ Existing \/ ListClosed \/ View \/ Finalize
    \/ Cleanup \/ Kill

\* Nothing the workflow only reads changes what the pull requests say.
LEMMA ReadMarks ==
    ASSUME ReviewInvariant, TypeOK', UNCHANGED <<branches, prs, reviews, history>>,
           plan'.head <= develop
    PROVE  MarksSound' /\ ReviewsSound' /\ OneReviewPerHead' /\ SucceededWasReviewed'
<1>1. /\ MarksSound /\ ReviewsSound /\ OneReviewPerHead /\ SucceededWasReviewed
      /\ UNCHANGED <<develop, prs, reviews, dodged, spoiled>>
  BY DEF ReviewInvariant, branches, history
<1>. QED  BY <1>1 DEF MarksSound, ReviewsSound, OneReviewPerHead, SucceededWasReviewed,
             Numbers, Tampered

LEMMA StopSound ==
    ASSUME ReviewInvariant, TypeOK', Stops
    PROVE  ReviewInvariant'
<1>1. MarksSound' /\ ReviewsSound' /\ OneReviewPerHead' /\ SucceededWasReviewed'
  BY ReadMarks DEF Stops, ReviewInvariant, MarksSound
<1>2. Captured /\ UNCHANGED <<prs, reviews, plan, pr, made, captured>>
  BY DEF ReviewInvariant, Stops, outputs
<1>3. pc' \in {"idle", "cleanup"}  BY DEF Stops
<1>4. Captured'  BY <1>2, <1>3 DEF Captured, CleanupSteps
<1>5. Inventoried' /\ SeenSound'  BY <1>3 DEF Inventoried, SeenSound
<1>. QED  BY <1>1, <1>4, <1>5 DEF ReviewInvariant

LEMMA ReadSound ==
    ASSUME ReviewInvariant, TypeOK', ReadStep
    PROVE  ReviewInvariant'
<1>0. /\ TypeOK /\ MarksSound /\ Inventoried /\ Captured /\ SeenSound /\ ReviewsSound
  BY DEF ReviewInvariant
<1>1. UNCHANGED <<branches, prs, reviews, history>>
  BY DEF ReadStep, Start, Fetch, ListOpen, Existing, ListClosed, View, Finalize, Cleanup, Kill,
         bounds
<1>2. UNCHANGED <<develop, prs, reviews, dodged, spoiled>> /\ Numbers' = Numbers
  BY <1>1 DEF branches, history, Numbers
<1>v. /\ develop \in Nat /\ plan.head \in Nat
      /\ \A j \in Numbers : prs[j].born \in Nat /\ prs[j].head \in Nat
      /\ None \notin Nat /\ Malformed \notin Nat
  BY <1>0, Values
<1>3. CASE Stops  BY <1>3, StopSound
<1>4. CASE Start \/ Fetch
  <2>1. /\ pc' \in {"fetch", "idle", "cleanup", "listOpen"} /\ (pc' \in {"fetch", "listOpen"} => pr' = 0)
        /\ plan'.head <= develop
        /\ ~captured'
    <3>1. CASE Start
      BY <1>v, <3>1 DEF Start
    <3>2. CASE Fetch
      <4>1. pc = "fetch" /\ plan' = [base |-> main, head |-> develop] /\ UNCHANGED <<pr, captured>>
        BY <3>2 DEF Fetch, outputs
      <4>2. ~captured /\ pr = 0  BY <1>0, <4>1 DEF Captured, Inventoried, CleanupSteps
      <4>3. pc' \in {"idle", "cleanup", "listOpen"}  BY <3>2, FailedTypes DEF Fetch, Done
      <4>4. captured' = captured /\ plan'.head = develop /\ pr' = 0  BY <4>1, <4>2
      <4>5. ~captured'  BY <4>2, <4>4, Zenon
      <4>. QED  BY <1>v, <4>3, <4>4, <4>5
    <3>. QED  BY <1>4, <3>1, <3>2
  <2>2. MarksSound' /\ ReviewsSound' /\ OneReviewPerHead' /\ SucceededWasReviewed'
    BY <1>1, <2>1, ReadMarks
  <2>3. Inventoried' /\ SeenSound'  BY <2>1 DEF Inventoried, SeenSound
  <2>4. Captured'  BY <2>1 DEF Captured
  <2>. QED  BY <2>2, <2>3, <2>4 DEF ReviewInvariant
<1>5. ASSUME ~Stops, ListOpen \/ Existing \/ ListClosed \/ View \/ Finalize \/ Cleanup
      PROVE  ReviewInvariant'
  <2>1. UNCHANGED <<plan, made, captured>>
    BY <1>5 DEF ListOpen, Existing, ListClosed, View, Finalize, Cleanup, outputs
  <2>2. MarksSound' /\ ReviewsSound' /\ OneReviewPerHead' /\ SucceededWasReviewed'
    BY <1>0, <1>1, <2>1, ReadMarks DEF MarksSound
  <2>t. \A h : Tampered(h)' <=> Tampered(h)  BY <1>2 DEF Tampered
  <2>3. CASE ListOpen
    <3>1. pc = "listOpen" /\ ~captured /\ pr = 0
      BY <1>0, <2>3 DEF ListOpen, Captured, Inventoried, CleanupSteps
    <3>2. \/ pc' = "existing"
          \/ pc' = "listClosed" /\ pr' = 0
          \/ pc' \in {"idle", "cleanup"}
      BY <2>3, <3>1, FailedTypes DEF ListOpen
    <3>3. ASSUME pc' \in {"existing", "listClosed"}, develop = plan.head,
                 NEW i \in Numbers, prs[i].born = plan.head, Open(i), ~Tampered(plan.head)
          PROVE  i = pr'
      <4>1. /\ prs[i].head = plan.head
            /\ prs[i].body.mark \in {plan.head, None}
        BY <1>0, <1>v, <3>3 DEF MarksSound, Tampered
      <4>2. Candidate(i)  BY <3>3, <4>1 DEF Candidate
      <4>3. \/ {k \in Numbers : Candidate(k)} = {pr'}
            \/ {k \in Numbers : Candidate(k)} = {}
            \/ pc' \in {"idle", "cleanup"}
        BY <2>3, FailedTypes DEF ListOpen
      <4>. QED  BY <3>3, <4>2, <4>3
    <3>4. Inventoried'
      BY <1>2, <2>1, <2>t, <3>2, <3>3 DEF Inventoried, Open, Tampered
    <3>5. Captured' /\ SeenSound'  BY <2>1, <3>1, <3>2 DEF Captured, SeenSound
    <3>. QED  BY <2>2, <3>4, <3>5 DEF ReviewInvariant
  <2>4. CASE Existing
    <3>1. pc = "existing" /\ ~captured /\ pr \in Numbers /\ pr' = pr /\ seen' = prs[pr].body
      BY <1>0, <2>4 DEF Existing, Captured, CleanupSteps, TypeOK, Numbers
    <3>2. \/ pc' \in {"closeAndList", "closeAndFail", "view", "idle", "cleanup"}
          \/ pc' = "tombstone" /\ prs[pr].body.mark = plan.head
      BY <2>4, FailedTypes DEF Existing, Unless
    <3>3. Inventoried'
      BY <1>0, <1>2, <2>1, <2>t, <3>1, <3>2 DEF Inventoried, Open, Tampered
    <3>4. Captured'  BY <2>1, <3>1, <3>2 DEF Captured
    <3>5. SeenSound'
      BY <1>0, <1>2, <1>v, <2>1, <3>1, <3>2 DEF SeenSound, MarksSound
    <3>. QED  BY <2>2, <3>3, <3>4, <3>5 DEF ReviewInvariant
  <2>5. CASE ListClosed
    <3>1. pc = "listClosed" /\ ~captured /\ pr = 0 /\ pr' = pr
      BY <1>0, <2>5 DEF ListClosed, Captured, Inventoried, CleanupSteps
    <3>2. \/ pc' \in {"idle", "cleanup"}
          \/ pc' = "create" /\ ~\E i \in Numbers : Consumes(i)
      BY <2>5, FailedTypes DEF ListClosed
    <3>3. ASSUME pc' = "create", develop = plan.head
          PROVE  OnlyFor(0)
      <4>1. SUFFICES ASSUME NEW i \in Numbers, prs[i].born = plan.head, ~Tampered(plan.head)
                     PROVE  FALSE
        BY DEF OnlyFor
      <4>2. ~Open(i)  BY <1>0, <3>1, <3>3, <4>1 DEF Inventoried, Numbers
      <4>3. /\ prs[i].head = plan.head
            /\ prs[i].body.mark \in {plan.head, None}
        BY <1>0, <1>v, <3>3, <4>1 DEF MarksSound, Tampered
      <4>4. Consumes(i)  BY <4>2, <4>3 DEF Consumes
      <4>. QED  BY <3>2, <3>3, <4>4
    <3>4. Inventoried'
      BY <1>2, <2>1, <2>t, <3>2, <3>3 DEF Inventoried, OnlyFor, Tampered
    <3>5. Captured' /\ SeenSound'  BY <2>1, <3>1, <3>2 DEF Captured, SeenSound
    <3>. QED  BY <2>2, <3>4, <3>5 DEF ReviewInvariant
  <2>6. CASE View
    <3>1. pc = "view" /\ pr' = pr /\ (pc' = "dispatch" => captured)
          /\ pc' \in {"dispatch", "idle", "cleanup"}
      BY <2>6, FailedTypes DEF View, Unless
    <3>2. Captured'
      BY <1>0, <1>2, <2>1, <3>1 DEF Captured, OnlyFor, Tampered, CleanupSteps
    <3>3. Inventoried' /\ SeenSound'  BY <3>1 DEF Inventoried, SeenSound
    <3>. QED  BY <2>2, <3>2, <3>3 DEF ReviewInvariant
  <2>7. CASE Finalize
    <3>1. pc = "finalize" /\ pr' = pr /\ seen' = prs[pr].body
          /\ \/ pc' \in {"idle", "cleanup"}
             \/ pc' = "persist" /\ prs[pr].body = Marked("pending")
      BY <2>7, FailedTypes DEF Finalize, Unless
    <3>2. Captured'
      BY <1>0, <1>2, <2>1, <3>1 DEF Captured, CleanupSteps
    <3>3. Inventoried'  BY <3>1 DEF Inventoried
    <3>4. SeenSound'  BY <1>2, <2>1, <3>1 DEF SeenSound, Marked
    <3>. QED  BY <2>2, <3>2, <3>3, <3>4 DEF ReviewInvariant
  <2>8. CASE Cleanup
    <3>1. /\ pc = "cleanup" /\ pr' = pr
          /\ \/ pc' \in {"idle", "cleanup"}
             \/ pc' = "cleanTombstone" /\ seen' = prs[made].body /\ made # 0
      BY <2>8, FailedTypes DEF Cleanup
    <3>2. Captured'
      BY <1>0, <1>2, <2>1, <3>1 DEF Captured, CleanupSteps
    <3>3. Inventoried'  BY <3>1 DEF Inventoried
    <3>4. SeenSound'
      <4>1. made # 0 => made \in Numbers  BY <1>0 DEF TypeOK, Numbers
      <4>. QED  BY <1>0, <1>2, <2>1, <3>1, <4>1 DEF SeenSound, MarksSound
    <3>. QED  BY <2>2, <3>2, <3>3, <3>4 DEF ReviewInvariant
  <2>. QED  BY <1>5, <2>3, <2>4, <2>5, <2>6, <2>7, <2>8
<1>6. CASE Kill
  BY <1>6, StopSound DEF Kill, Done, Stops
<1>. QED  BY <1>3, <1>4, <1>5, <1>6 DEF ReadStep

\* What a call leaves true of the pull requests and the reviews.
LEMMA CallMarks ==
    ASSUME ReviewInvariant, TypeOK', Call, UNCHANGED <<branches, plan, history>>
    PROVE  /\ MarksSound' /\ ReviewsSound' /\ OneReviewPerHead' /\ SucceededWasReviewed'
           /\ Len(prs') >= Len(prs) /\ \A j \in Numbers : prs'[j].born = prs[j].born
<1>0. /\ TypeOK /\ MarksSound /\ Inventoried /\ Captured /\ SeenSound /\ ReviewsSound
      /\ OneReviewPerHead /\ SucceededWasReviewed
  BY DEF ReviewInvariant
<1>1. UNCHANGED <<develop, plan, dodged, spoiled>> /\ (\A h : Tampered(h)' <=> Tampered(h))
  BY DEF branches, history, Tampered
<1>v. /\ Len(prs) \in Nat /\ develop \in Nat /\ plan.head \in Nat /\ plan.head \in Heads
      /\ \A j \in Numbers : prs[j].born \in Heads
      /\ reviews \in [Heads -> Nat]
  BY <1>0, Values DEF TypeOK
<1>2. CASE Closes
  <2>1. Numbers' = Numbers /\ \A j \in Numbers : /\ prs'[j].born = prs[j].born
                                                 /\ prs'[j].head = prs[j].head
                                                 /\ prs'[j].body = prs[j].body
    BY <1>2 DEF Closes, Numbers, SameButStatus
  <2>2. MarksSound'  BY <1>0, <1>1, <2>1 DEF MarksSound
  <2>3. ReviewsSound' /\ OneReviewPerHead' /\ SucceededWasReviewed'
    BY <1>0, <1>1, <1>2, <2>1
    DEF Closes, ReviewsSound, OneReviewPerHead, SucceededWasReviewed
  <2>. QED  BY <1>v, <1>2, <2>1, <2>2, <2>3 DEF Closes
<1>3. CASE Patches
  <2>1. Numbers' = Numbers
        /\ \A j \in Numbers :
              /\ prs'[j].born = prs[j].born /\ prs'[j].head = prs[j].head
              /\ prs'[j].body.mark = IF j = Target THEN seen.mark ELSE prs[j].body.mark
              /\ prs'[j].body.state = IF j = Target THEN Outcome ELSE prs[j].body.state
    BY <1>3 DEF Patches, Numbers, SameButBody
  <2>2. /\ \/ seen.mark \in {prs[Target].born, None}
           \/ seen.mark = Malformed /\ prs[Target].born \in spoiled
        /\ Outcome = "succeeded" => reviews[prs[Target].born] > 0
    BY <1>0, <1>3 DEF Patches, SeenSound, Captured, Target, Outcome
  <2>3. MarksSound'
    <3>1. ASSUME NEW i \in Numbers
          PROVE  \/ prs'[i].body.mark \in {prs[i].born, None}
                 \/ prs'[i].body.mark = Malformed /\ prs[i].born \in spoiled
      BY <1>0, <2>1, <2>2 DEF MarksSound
    <3>. QED  BY <1>0, <1>1, <2>1, <3>1 DEF MarksSound
  <2>4. ReviewsSound' /\ OneReviewPerHead' /\ UNCHANGED reviews
    BY <1>0, <1>1, <1>3, <2>1 DEF Patches, ReviewsSound, OneReviewPerHead
  <2>5. SucceededWasReviewed'
    BY <1>0, <2>1, <2>2, <2>4 DEF SucceededWasReviewed
  <2>. QED  BY <1>v, <1>3, <2>1, <2>3, <2>4, <2>5 DEF Patches
<1>4. CASE Posts /\ Adds
  <2>. DEFINE n == Len(prs) + 1
  <2>1. /\ Numbers' = Numbers \union {n} /\ Len(prs') = n
        /\ \A j \in Numbers : prs'[j] = prs[j]
        /\ UNCHANGED reviews
    BY <1>v, <1>4 DEF Posts, Adds, Numbers
  <2>2. /\ prs'[n].born = plan.head /\ prs'[n].head = develop
        /\ prs'[n].body.mark = plan.head /\ prs'[n].body.state = "pending"
    BY <1>4 DEF Adds, Marked
  <2>. HIDE DEF n
  <2>3. MarksSound'  BY <1>0, <1>1, <1>v, <2>1, <2>2 DEF MarksSound
  <2>4. ReviewsSound' /\ OneReviewPerHead'
    BY <1>0, <1>1, <2>1 DEF ReviewsSound, OneReviewPerHead
  <2>5. SucceededWasReviewed'  BY <1>0, <2>1, <2>2 DEF SucceededWasReviewed
  <2>6. Len(prs') >= Len(prs)  BY <1>v, <2>1 DEF n
  <2>. QED  BY <2>1, <2>3, <2>4, <2>5, <2>6
<1>5. CASE Posts /\ ~Acceptable
  <2>1. UNCHANGED <<prs, reviews>> /\ Numbers' = Numbers  BY <1>5 DEF Posts, Numbers
  <2>. QED  BY <1>0, <1>1, <1>v, <2>1
            DEF MarksSound, ReviewsSound, OneReviewPerHead, SucceededWasReviewed
<1>6. CASE Dispatches
  <2>1. /\ captured /\ pr \in Numbers /\ prs[pr].born = plan.head
        /\ reviews[plan.head] = 0 \/ Tampered(plan.head)
    BY <1>0, <1>6 DEF Dispatches, Captured, TypeOK, Numbers
  <2>2. Numbers' = Numbers /\ prs' = prs  BY <1>6 DEF Dispatches, Numbers
  <2>3. /\ reviews'[plan.head] = reviews[plan.head] + 1
        /\ \A h \in Heads : h # plan.head => reviews'[h] = reviews[h]
    BY <1>v, <1>6 DEF Dispatches
  <2>4. MarksSound'  BY <1>0, <1>1, <2>2 DEF MarksSound
  <2>5. ReviewsSound'  BY <1>0, <2>1, <2>2, <2>3 DEF ReviewsSound
  <2>6. OneReviewPerHead'  BY <1>0, <1>1, <1>v, <2>1, <2>3 DEF OneReviewPerHead
  <2>7. SucceededWasReviewed'
    BY <1>0, <1>v, <2>2, <2>3 DEF SucceededWasReviewed
  <2>. QED  BY <1>v, <2>2, <2>4, <2>5, <2>6, <2>7
<1>. QED  BY <1>0, <1>2, <1>3, <1>4, <1>5, <1>6, CallEffect DEF Posts

LEMMA CallSound ==
    ASSUME ReviewInvariant, TypeOK', CallStep
    PROVE  ReviewInvariant'
<1>0. /\ TypeOK /\ MarksSound /\ Inventoried /\ Captured /\ SeenSound /\ ReviewsSound
  BY DEF ReviewInvariant
<1>1. Call /\ UNCHANGED <<branches, plan, seen, cleanup, history>>
  BY DEF CallStep, CloseAndList, CloseAndFail, Tombstone, Create, Dispatch, Persist,
         CleanTombstone, CleanClose, bounds
<1>2. /\ MarksSound' /\ ReviewsSound' /\ OneReviewPerHead' /\ SucceededWasReviewed'
      /\ Len(prs') >= Len(prs) /\ \A j \in Numbers : prs'[j].born = prs[j].born
  BY <1>1, CallMarks
<1>3. UNCHANGED <<develop, plan, dodged, spoiled>> /\ (\A h : Tampered(h)' <=> Tampered(h))
  BY <1>1 DEF branches, history, Tampered
<1>4. Closes \/ Patches \/ Posts \/ Dispatches  BY <1>0, <1>1, CallEffect
<1>v. /\ Len(prs) \in Nat /\ develop \in Nat /\ plan.head \in Nat /\ plan.head \in Heads
      /\ reviews \in [Heads -> Nat]
  BY <1>0, Values DEF TypeOK
<1>5. CASE CloseAndList
  <2>1. /\ pc = "closeAndList" /\ ~captured /\ captured' = captured
        /\ \/ pc' \in {"idle", "cleanup"}
           \/ pc' = "listClosed" /\ pr' = 0 /\ prs[pr].status # "merged"
    BY <1>0, <1>5, FailedTypes DEF CloseAndList, Captured, CleanupSteps
  <2>2. Closes /\ Target = pr  BY <1>4, <2>1 DEF Closes, Patches, Posts, Dispatches, Target
  <2>3. Numbers' = Numbers  BY <2>2 DEF Closes, Numbers
  <2>4. ASSUME pc' = "listClosed", develop' = plan'.head, NEW i \in Numbers',
               prs'[i].born = plan'.head, Open(i)'
        PROVE  Tampered(plan.head)'
    <3>1. i \in Numbers /\ prs[i].born = plan.head  BY <1>2, <1>3, <2>3, <2>4
    <3>2. i # pr /\ Open(i)
      BY <2>1, <2>2, <2>4, <3>1 DEF Closes, Open
    <3>3. i = pr \/ Tampered(plan.head)
      BY <1>0, <1>3, <2>1, <2>4, <3>1, <3>2 DEF Inventoried
    <3>. QED  BY <1>3, <3>2, <3>3 DEF Tampered
  <2>5. Inventoried'  BY <1>3, <2>1, <2>4 DEF Inventoried
  <2>6. Captured' /\ SeenSound'  BY <2>1 DEF Captured, SeenSound
  <2>. QED  BY <1>2, <2>5, <2>6 DEF ReviewInvariant
<1>6. CASE Create
  <2>1. pc = "create" /\ ~captured /\ Posts
    BY <1>0, <1>4, <1>6
    DEF Create, Captured, CleanupSteps, Closes, Patches, Dispatches
  <2>2. /\ captured' = (Acceptable /\ main = plan.base /\ develop = plan.head)
        /\ captured' => pr' = made' /\ pc' = "view"
        /\ ~captured' => pc' \in {"idle", "cleanup"}
    BY <1>6, FailedTypes DEF Create, Unless
  <2>3. Inventoried' /\ SeenSound'
    <3>1. pc' \in {"view", "idle", "cleanup"}  BY <2>2
    <3>. QED  BY <3>1 DEF Inventoried, SeenSound
  <2>4. CASE ~captured'
    <3>1. Captured'  BY <2>2, <2>4 DEF Captured
    <3>. QED  BY <1>2, <2>3, <3>1 DEF ReviewInvariant
  <2>5. CASE captured'
    <3>1. Adds /\ develop = plan.head /\ reviews' = reviews
      BY <2>1, <2>2, <2>5 DEF Posts
    <3>2. OnlyFor(0)  BY <1>0, <2>1, <3>1 DEF Inventoried
    <3>3. reviews[plan.head] = 0 \/ Tampered(plan.head)
      BY <1>0, <1>v, <3>2 DEF ReviewsSound, OnlyFor, Numbers
    <3>4. /\ pr' = Len(prs) + 1 /\ made' = pr' /\ Numbers' = Numbers \union {pr'}
          /\ prs'[pr'].born = plan.head /\ prs'[pr'].body.state = "pending"
      BY <1>v, <2>2, <2>5, <3>1 DEF Adds, Numbers, Marked
    <3>5. OnlyFor(pr)'
      <4>1. SUFFICES ASSUME NEW i \in Numbers', prs'[i].born = plan'.head, i # pr'
                     PROVE  Tampered(plan.head)'
        BY DEF OnlyFor
      <4>2. i \in Numbers /\ prs[i].born = plan.head /\ i # 0
        BY <1>2, <1>3, <3>4, <4>1 DEF Numbers
      <4>. QED  BY <1>3, <3>2, <4>2 DEF OnlyFor, Tampered
    <3>6. Captured'
      <4>1. pc' = "view" /\ plan' = plan /\ pr' # 0  BY <1>1, <1>v, <2>2, <2>5, <3>4
      <4>2. reviews'[plan'.head] = 0 \/ Tampered(plan.head)'
        BY <1>3, <3>1, <3>3 DEF Tampered
      <4>. QED  BY <3>4, <3>5, <4>1, <4>2 DEF Captured
    <3>. QED  BY <1>2, <2>3, <3>6 DEF ReviewInvariant
  <2>. QED  BY <2>4, <2>5
<1>7. CASE Dispatch
  <2>1. pc = "dispatch" /\ pc' = "finalize" /\ UNCHANGED <<pr, captured>>
    BY <1>7 DEF Dispatch
  <2>2. Dispatches  BY <1>4, <2>1 DEF Closes, Patches, Posts, Dispatches
  <2>3. reviews'[plan.head] > 0 /\ UNCHANGED <<prs, made>>  BY <1>v, <2>2 DEF Dispatches
  <2>4. Captured'  BY <1>0, <1>3, <2>1, <2>3 DEF Captured
  <2>5. Inventoried' /\ SeenSound'  BY <2>1 DEF Inventoried, SeenSound
  <2>. QED  BY <1>2, <2>4, <2>5 DEF ReviewInvariant
<1>8. CASE CallStep /\ pc \notin {"closeAndList", "create", "dispatch"}
  <2>1. /\ UNCHANGED <<pr, captured, made>>
        /\ pc' \in {"idle", "cleanup", "closeAndFail", "cleanClose"}
        /\ pc' = "closeAndFail" => pc = "tombstone"
    <3>1. UNCHANGED made  BY <1>4, <1>8 DEF Closes, Patches, Posts, Dispatches
    <3>. QED  BY <1>8, <3>1, FailedTypes
              DEF CallStep, CloseAndList, CloseAndFail, Tombstone, Create, Dispatch, Persist,
                  CleanTombstone, CleanClose, Done
  <2>2. Captured'
    <3>1. captured => pr \in Numbers /\ pc # "tombstone"
      BY <1>0 DEF Captured, TypeOK, Numbers, CleanupSteps
    <3>. QED  BY <1>0, <1>2, <1>3, <2>1, <3>1 DEF Captured, CleanupSteps
  <2>3. Inventoried' /\ SeenSound'  BY <2>1 DEF Inventoried, SeenSound
  <2>. QED  BY <1>2, <2>2, <2>3 DEF ReviewInvariant
<1>. QED  BY <1>5, <1>6, <1>7, <1>8 DEF CallStep, CloseAndList, CloseAndFail, Tombstone, Create,
             Dispatch, Persist, CleanTombstone, CleanClose

\* A call that fails, whether it was applied or not.
LEMMA FailsSound ==
    ASSUME ReviewInvariant, TypeOK', CallFails
    PROVE  ReviewInvariant'
<1>1. /\ pc' \in {"idle", "cleanup"} /\ pc # "idle"
      /\ UNCHANGED <<branches, plan, pr, seen, cleanup, captured, history>>
  BY FailedTypes DEF CallFails
<1>2. CASE UNCHANGED <<prs, reviews, made>>
  BY <1>1, <1>2, StopSound DEF Stops, outputs
<1>3. CASE Call
  <2>1. /\ MarksSound' /\ ReviewsSound' /\ OneReviewPerHead' /\ SucceededWasReviewed'
        /\ \A j \in Numbers : prs'[j].born = prs[j].born
    BY <1>1, <1>3, CallMarks
  <2>2. TypeOK /\ Captured  BY DEF ReviewInvariant
  <2>3. Inventoried' /\ SeenSound'  BY <1>1 DEF Inventoried, SeenSound
  <2>4. captured => pr \in Numbers /\ made' = made
    <3>1. captured => pr \in Numbers /\ pc # "create"
      <4>1. captured => pr # 0 /\ pc # "create"  BY <2>2 DEF Captured, CleanupSteps
      <4>2. pr \in 0 .. Len(prs) /\ Len(prs) \in Nat  BY <2>2, Values DEF TypeOK
      <4>. QED  BY <4>1, <4>2 DEF Numbers
    <3>2. pc # "create" => made' = made
      BY <1>3, <2>2, CallEffect DEF Closes, Patches, Posts, Dispatches
    <3>. QED  BY <3>1, <3>2
  <2>5. Captured'
    BY <1>1, <2>1, <2>2, <2>4 DEF Captured, CleanupSteps
  <2>. QED  BY <2>1, <2>3, <2>5 DEF ReviewInvariant
<1>. QED  BY <1>2, <1>3 DEF CallFails

LEMMA ReviewInvariantStep ==
    ASSUME ReviewInvariant, [Next]_vars
    PROVE  ReviewInvariant'
<1>1. TypeOK /\ TypeOK'  BY NextTypes DEF ReviewInvariant
<1>2. OutsideStep \/ ReadStep \/ CallStep \/ CallFails
  BY DEF Next, RunStep, OutsideStep, ReadStep, CallStep
<1>. QED  BY <1>1, <1>2, OutsideShape, OutsideSound, ReadSound, CallSound, FailsSound

LEMMA ReviewInvariantHolds == Spec => []ReviewInvariant
<1>1. Init => ReviewInvariant
  <2>. SUFFICES ASSUME Init PROVE ReviewInvariant  OBVIOUS
  <2>1. /\ prs = <<>> /\ pc = "idle" /\ pr = 0 /\ captured = FALSE /\ develop = 0
        /\ plan.head = 0 /\ reviews = [h \in Heads |-> 0]
    BY DEF Init
  <2>2. Numbers = {}  BY <2>1 DEF Numbers
  <2>3. MarksSound /\ Inventoried /\ SeenSound  BY <2>1, <2>2 DEF MarksSound, Inventoried, SeenSound
  <2>4. ~captured  BY <2>1
  <2>5. Captured  BY <2>1, <2>4 DEF Captured
  <2>6. ReviewsSound /\ OneReviewPerHead /\ SucceededWasReviewed
    BY <2>1, <2>2 DEF ReviewsSound, OneReviewPerHead, SucceededWasReviewed
  <2>. QED  BY <2>3, <2>5, <2>6, InitTypes DEF ReviewInvariant
<1>2. ReviewInvariant /\ [Next]_vars => ReviewInvariant'  BY ReviewInvariantStep
<1>. QED  BY <1>1, <1>2, PTL DEF Spec

-----------------------------------------------------------------------------
(* What follows. *)

\* No head of develop is reviewed twice, however often the workflow runs and whatever
\* fails, unless people tampered with its pull request.
THEOREM ReviewedOnce == Spec => []OneReviewPerHead
<1>1. ReviewInvariant => OneReviewPerHead  BY DEF ReviewInvariant
<1>. QED  BY <1>1, ReviewInvariantHolds, PTL

\* A pull request that is marked as successfully dispatched was.
THEOREM SucceededReviewed == Spec => []SucceededWasReviewed
<1>1. ReviewInvariant => SucceededWasReviewed  BY DEF ReviewInvariant
<1>. QED  BY <1>1, ReviewInvariantHolds, PTL

\* A tombstone is final: its head is not sent to review again.
THEOREM TombstonesStay == Spec => TombstonesAreFinal
<1>. DEFINE Stays ==
       \A i \in Numbers : prs[i].body.state = "failed" =>
          /\ prs'[i].body.state \in {"failed", "absent"}
          /\ \/ reviews'[prs[i].born] = reviews[prs[i].born]
             \/ Tampered(prs[i].born)
<1>1. ASSUME ReviewInvariant, [Next]_vars PROVE Stays
  <2>0. TypeOK /\ Captured /\ SeenSound  BY <1>1 DEF ReviewInvariant
  <2>1. CASE OutsideStep
    <3>1. Outside  BY <2>0, <2>1, OutsideShape
    <3>. QED  BY <3>1 DEF Outside
  <2>2. CASE UNCHANGED <<prs, reviews>>  BY <2>2
  <2>3. CASE Call
    <3>1. Closes \/ Patches \/ Posts \/ Dispatches  BY <2>0, <2>3, CallEffect
    <3>2. CASE Closes  BY <3>2 DEF Closes, SameButStatus
    <3>3. CASE Patches
      <4>1. Outcome = "succeeded" => prs[Target].body.state # "failed"
        BY <2>0, <3>3 DEF Patches, SeenSound, Target, Outcome
      <4>. QED  BY <3>3, <4>1 DEF Patches, Outcome
    <3>4. CASE Posts  BY <3>4 DEF Posts, Adds
    <3>5. CASE Dispatches
      <4>1. /\ OnlyFor(pr) /\ prs[pr].body.state # "failed" /\ plan.head \in Heads
            /\ prs' = prs /\ reviews' = [reviews EXCEPT ![plan.head] = @ + 1]
        BY <2>0, <3>5 DEF Dispatches, Captured, TypeOK
      <4>2. \A h \in Heads : h # plan.head => reviews'[h] = reviews[h]
        BY <2>0, <4>1 DEF TypeOK
      <4>3. \A i \in Numbers : prs[i].born \in Heads  BY <2>0, Values
      <4>. QED  BY <4>1, <4>2, <4>3 DEF OnlyFor
    <3>. QED  BY <3>1, <3>2, <3>3, <3>4, <3>5
  <2>4. OutsideStep \/ ReadStep \/ CallStep \/ CallFails
    BY <1>1 DEF Next, RunStep, OutsideStep, ReadStep, CallStep
  <2>5. ReadStep => UNCHANGED <<prs, reviews>>
    BY DEF ReadStep, Start, Fetch, ListOpen, Existing, ListClosed, View, Finalize, Cleanup, Kill
  <2>6. CallStep => Call
    BY DEF CallStep, CloseAndList, CloseAndFail, Tombstone, Create, Dispatch, Persist,
           CleanTombstone, CleanClose
  <2>7. CallFails => Call \/ UNCHANGED <<prs, reviews>>  BY DEF CallFails
  <2>. QED  BY <2>1, <2>2, <2>3, <2>4, <2>5, <2>6, <2>7
<1>2. ReviewInvariant /\ [Next]_vars => [Stays]_vars  BY <1>1
<1>. QED  BY <1>2, ReviewInvariantHolds, PTL DEF Spec, TombstonesAreFinal
=============================================================================
