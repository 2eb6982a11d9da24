----------------------- MODULE LatestPromotion_proofs -----------------------
(***************************************************************************)
(* Proofs about LatestPromotion for every number of variants, releases,    *)
(* rollback attempts and disturbances.                                     *)
(***************************************************************************)
EXTENDS LatestPromotion, TLAPS

-----------------------------------------------------------------------------
(* Type correctness. *)

\* The tag written is always one of the registry's values.
LEMMA TargetIsDigest ==
    ASSUME NEW r \in Releases, NEW i \in Variants
    PROVE  DigestOf[r][i] \in TagValues
  BY DigestAssumption DEF TagValues

\* Leaving a variant of the rollback loop keeps the control variables in range.
LEMMA NextRollbackType ==
    ASSUME TypeOK, pc \in RollingBack, NEW e \in SUBSET Variants, NextRollback(e)
    PROVE  /\ agree' \in BOOLEAN /\ errors' \subseteq Variants
           /\ LoopOK'
           /\ rel' = rel => ControlOK'
<1> USE DEF NextRollback, Finish, TypeOK
<1>1. agree' \in BOOLEAN /\ errors' \subseteq Variants
  BY DEF DataOK
<1>2. LoopOK'
  BY BoundsAssumption DEF LoopOK, Variants
<1>3. ASSUME rel' = rel PROVE ControlOK'
  BY <1>3 DEF ControlOK, RollingBack, Outcomes
<1> QED BY <1>1, <1>2, <1>3

\* So does a failed attempt, whether it is retried or given up.
LEMMA AttemptFailedType ==
    ASSUME TypeOK, pc \in RollingBack, AttemptFailed
    PROVE  /\ agree' \in BOOLEAN /\ errors' \subseteq Variants
           /\ LoopOK'
           /\ rel' = rel => ControlOK'
<1>1. CASE /\ attempt < RollbackAttempts
           /\ pc' = "rbInspect" /\ attempt' = attempt + 1
           /\ UNCHANGED <<cursor, agree, errors, outcome>>
  <2>1. agree' \in BOOLEAN /\ errors' \subseteq Variants
    BY <1>1 DEF TypeOK, DataOK
  <2>2. LoopOK'
    BY <1>1, BoundsAssumption DEF TypeOK, LoopOK
  <2>3. ASSUME rel' = rel PROVE ControlOK'
    BY <1>1, <2>3 DEF TypeOK, ControlOK, RollingBack
  <2> QED BY <2>1, <2>2, <2>3
<1>2. CASE attempt = RollbackAttempts /\ NextRollback(errors \union {cursor})
  <2>1. errors \union {cursor} \in SUBSET Variants
    BY DEF TypeOK, DataOK, LoopOK
  <2> QED BY <1>2, <2>1, NextRollbackType
<1> QED BY <1>1, <1>2 DEF AttemptFailed

\* The releases change without the run or the registry.
LEMMA WorldLeaves ==
    ASSUME NEW r \in Releases, World(r)
    PROVE  /\ UNCHANGED <<tag, pc, rel, prev, cursor, attempt, agree, errors, outcome>>
           /\ UNCHANGED <<raced, touched, rbFaults, holder, runs, foreign, faults>>
           /\ published' \subseteq published \union {r}
           /\ withdrawn \subseteq published => withdrawn' \subseteq published'
           /\ stale' = (stale /\ ~Promotable')
  BY DEF World, Publish, Unlist, Revoke, Reinstate, ReleasesChange, bounds

\* TypeOK: every variable keeps its type and the loops their range.
THEOREM TypeCorrect == Spec => []TypeOK
<1>1. Init => TypeOK
  <2> SUFFICES ASSUME Init PROVE TypeOK
    OBVIOUS
  <2>1. DataOK BY DigestAssumption DEF Init, DataOK, TagValues
  <2>2. LoopOK BY BoundsAssumption DEF Init, LoopOK, Variants
  <2>3. ControlOK BY DEF Init, ControlOK, Outcomes
  <2> QED BY <2>1, <2>2, <2>3 DEF TypeOK
<1>2. TypeOK /\ [Next]_vars => TypeOK'
  <2> SUFFICES ASSUME TypeOK, [Next]_vars PROVE TypeOK'
    OBVIOUS
  <2> USE DEF TypeOK
  <2>1. ASSUME NEW r \in Releases, Start(r) PROVE TypeOK'
    <3> USE <2>1 DEF Start, world
    <3>1. prev' \in [Variants -> TagValues] BY DEF TagValues
    <3>2. DataOK'
      <4>1. tag' \in [Variants -> TagValues] BY DEF DataOK
      <4>2. /\ published' \subseteq Releases /\ withdrawn' \subseteq published'
            /\ raced' \subseteq Variants /\ touched' \subseteq Variants
            /\ errors' \subseteq Variants
        BY DEF DataOK
      <4>3. /\ agree' \in BOOLEAN /\ stale' \in BOOLEAN
            /\ holder' \in Releases \union {0}
        BY DEF DataOK
      <4>4. rbFaults' \in Nat /\ runs' \in Nat /\ foreign' \in Nat /\ faults' \in Nat
        BY DEF DataOK
      <4> QED BY <3>1, <4>1, <4>2, <4>3, <4>4 DEF DataOK
    <3>3. LoopOK' BY DEF LoopOK
    <3>4. ControlOK' BY DEF ControlOK, Checking, Outcomes
    <3> QED BY <3>2, <3>3, <3>4
  <2>2. ASSUME NEW r \in Releases, World(r) PROVE TypeOK'
    <3> USE <2>2, WorldLeaves
    <3>1. DataOK'
      <4>1. stale' \in BOOLEAN
        BY DEF DataOK, Promotable
      <4>2. published' \subseteq Releases /\ withdrawn' \subseteq published'
        BY DEF DataOK
      <4> QED BY <4>1, <4>2 DEF DataOK
    <3>2. LoopOK' BY DEF LoopOK
    <3>3. ControlOK' BY DEF ControlOK
    <3> QED BY <3>1, <3>2, <3>3
  <2>3. CASE PolicyFirst
    <3> USE <2>3 DEF PolicyFirst, Finish, world, history, bounds
    <3>1. DataOK' BY DEF DataOK
    <3>2. LoopOK' BY BoundsAssumption DEF LoopOK, Variants
    <3>3. ControlOK' BY DEF ControlOK, Checking, Swapping, RollingBack, Outcomes
    <3> QED BY <3>1, <3>2, <3>3
  <2>4. CASE Snapshot
    <3> USE <2>4 DEF Snapshot, Inspected, Finish, world, bounds
    <3>1. DataOK' BY DEF DataOK
    <3>2. LoopOK' BY BoundsAssumption DEF LoopOK, Variants
    <3>3. ControlOK' BY DEF ControlOK, Checking, Swapping, RollingBack, Outcomes
    <3> QED BY <3>1, <3>2, <3>3
  <2>5. CASE PolicyBefore
    <3> USE <2>5 DEF PolicyBefore, BeginRollback, world, bounds
    <3>1. DataOK' BY DEF DataOK
    <3>2. LoopOK' BY BoundsAssumption DEF LoopOK, Variants
    <3>3. ControlOK' BY DEF ControlOK, Checking, Swapping, RollingBack, Outcomes
    <3> QED BY <3>1, <3>2, <3>3
  <2>6. CASE InspectForSwap
    <3> USE <2>6 DEF InspectForSwap, Inspected, NextSwap, BeginRollback, world, bounds
    <3>1. DataOK' BY DEF DataOK
    <3>2. LoopOK' BY BoundsAssumption DEF LoopOK, Variants
    <3>3. ControlOK' BY DEF ControlOK, Checking, Swapping, RollingBack, Outcomes
    <3> QED BY <3>1, <3>2, <3>3
  <2>7. CASE Verify
    <3> USE <2>7 DEF Verify, Inspected, NextSwap, BeginRollback, world, bounds
    <3>1. DataOK' BY DEF DataOK
    <3>2. LoopOK' BY BoundsAssumption DEF LoopOK, Variants
    <3>3. ControlOK' BY DEF ControlOK, Checking, Swapping, RollingBack, Outcomes
    <3> QED BY <3>1, <3>2, <3>3
  <2>8. CASE PolicyAfter
    <3> USE <2>8 DEF PolicyAfter, BeginRollback, world, bounds
    <3>1. DataOK' BY DEF DataOK
    <3>2. LoopOK' BY BoundsAssumption DEF LoopOK, Variants
    <3>3. ControlOK' BY DEF ControlOK, Checking, Swapping, RollingBack, Outcomes
    <3> QED BY <3>1, <3>2, <3>3
  <2>9. CASE FinalInspect
    <3> USE <2>9 DEF FinalInspect, FinalSetComplete, Inspected, BeginRollback, world, bounds
    <3>1. DataOK'
      <4>1. stale' \in BOOLEAN BY DEF DataOK, Promotable
      <4>2. agree' \in BOOLEAN BY DEF DataOK
      <4> QED BY <4>1, <4>2 DEF DataOK
    <3>2. LoopOK' BY BoundsAssumption DEF LoopOK, Variants
    <3>3. ControlOK' BY DEF ControlOK, Checking, Swapping, RollingBack, Outcomes
    <3> QED BY <3>1, <3>2, <3>3
  <2>10. CASE PolicyLast
    <3> USE <2>10 DEF PolicyLast, Succeed, Finish, BeginRollback, world, bounds
    <3>1. DataOK'
      <4>1. holder' \in Releases \union {0} BY DEF DataOK, ControlOK
      <4>2. agree' \in BOOLEAN BY DEF DataOK
      <4>3. errors' \subseteq Variants BY DEF DataOK
      <4>4. rbFaults' \in Nat BY DEF DataOK
      <4> QED BY <4>1, <4>2, <4>3, <4>4 DEF DataOK
    <3>2. LoopOK' BY BoundsAssumption DEF LoopOK, Variants
    <3>3. ControlOK' BY DEF ControlOK, Checking, Swapping, RollingBack, Outcomes
    <3> QED BY <3>1, <3>2, <3>3
  <2>11. CASE SignalBetweenAttempts
    <3> USE <2>11 DEF SignalBetweenAttempts, Finish, world, history
    <3>1. DataOK' BY DEF DataOK
    <3>2. LoopOK' BY BoundsAssumption DEF LoopOK, Variants
    <3>3. ControlOK' BY DEF ControlOK, Checking, Swapping, RollingBack, Outcomes
    <3> QED BY <3>1, <3>2, <3>3
  <2>12. CASE SignalAfterPromotion
    <3> USE <2>12 DEF SignalAfterPromotion, Finish, world, history
    <3>1. DataOK' BY DEF DataOK
    <3>2. LoopOK' BY BoundsAssumption DEF LoopOK, Variants
    <3>3. ControlOK' BY DEF ControlOK, Checking, Swapping, RollingBack, Outcomes
    <3> QED BY <3>1, <3>2, <3>3
  <2>13. CASE Kill
    <3> USE <2>13 DEF Kill, Finish, world, history, bounds
    <3>1. DataOK' BY DEF DataOK
    <3>2. LoopOK' BY BoundsAssumption DEF LoopOK, Variants
    <3>3. ControlOK' BY DEF ControlOK, Checking, Swapping, RollingBack, Outcomes
    <3> QED BY <3>1, <3>2, <3>3
  <2>14. CASE Write
    <3> USE <2>14 DEF Write, ApplySwap, Target, world, bounds
    <3>1. DataOK' BY TargetIsDigest DEF DataOK, ControlOK, LoopOK, Promotable
    <3>2. LoopOK' BY DEF LoopOK
    <3>3. ControlOK' BY DEF ControlOK, Swapping
    <3> QED BY <3>1, <3>2, <3>3
  <2>15. CASE RollbackInspect \/ RollbackVerify
    <3> USE <2>15 DEF RollbackInspect, RollbackVerify, Inspected, world, bounds
    <3>1. CASE NextRollback(errors)
      BY <3>1, NextRollbackType DEF DataOK, RollingBack
    <3>2. CASE AttemptFailed
      BY <3>2, AttemptFailedType DEF DataOK, RollingBack
    <3>3. CASE pc' = "rbWrite" /\ UNCHANGED <<cursor, attempt, agree, errors, outcome>>
      BY <3>3 DEF DataOK, LoopOK, ControlOK, RollingBack
    <3> QED BY <3>1, <3>2, <3>3
  <2>16. CASE RollbackWrite
    <3> USE <2>16 DEF RollbackWrite, world, history, bounds
    <3>1. DataOK' BY DEF DataOK, LoopOK
    <3>2. LoopOK' BY DEF LoopOK
    <3>3. ControlOK' BY DEF ControlOK, RollingBack
    <3> QED BY <3>1, <3>2, <3>3
  <2>17. CASE CallFails
    <3>1. /\ tag' \in [Variants -> TagValues] /\ stale' \in BOOLEAN
      BY <2>17, TargetIsDigest
         DEF CallFails, MaybeApplied, ApplySwap, Target, Promotable, DataOK, LoopOK,
             ControlOK, Checking, Swapping, RollingBack
    <3>2. CASE pc \in Checking /\ Finish("refused") /\ UNCHANGED <<errors, rbFaults>>
      <4> USE <2>17, <3>1, <3>2 DEF CallFails, Finish, world
      <4>1. DataOK' BY DEF DataOK
      <4>2. LoopOK' BY BoundsAssumption DEF LoopOK, Variants
      <4>3. ControlOK' BY DEF ControlOK, Checking, Outcomes
      <4> QED BY <4>1, <4>2, <4>3
    <3>3. CASE pc \in Swapping /\ BeginRollback
      <4> USE <2>17, <3>1, <3>3 DEF CallFails, BeginRollback, world
      <4>1. DataOK' BY DEF DataOK
      <4>2. LoopOK' BY BoundsAssumption DEF LoopOK, Variants
      <4>3. ControlOK' BY DEF ControlOK, Swapping, RollingBack
      <4> QED BY <4>1, <4>2, <4>3
    <3>4. CASE pc \in RollingBack /\ AttemptFailed /\ rbFaults' = rbFaults + 1
      BY <2>17, <3>1, <3>4, AttemptFailedType DEF CallFails, world, DataOK
    <3> QED BY <2>17, <3>2, <3>3, <3>4 DEF CallFails, Raised
  <2>18. ASSUME NEW i \in Variants, NEW d \in TagValues, ForeignWrite(i, d)
         PROVE  TypeOK'
    <3> USE <2>18 DEF ForeignWrite, world
    <3>1. DataOK' BY DEF DataOK
    <3>2. LoopOK' BY DEF LoopOK
    <3>3. ControlOK' BY DEF ControlOK
    <3> QED BY <3>1, <3>2, <3>3
  <2>19. CASE UNCHANGED vars
    BY <2>19 DEF vars, DataOK, LoopOK, ControlOK, world, history, bounds
  <2> QED
    BY <2>1, <2>2, <2>3, <2>4, <2>5, <2>6, <2>7, <2>8, <2>9, <2>10, <2>11, <2>12, <2>13, <2>14, <2>15, <2>16, <2>17, <2>18, <2>19
       DEF Next, RunStep
<1> QED BY <1>1, <1>2, PTL DEF Spec

-----------------------------------------------------------------------------
(* The inductive invariants: what a property of a finished run rests on while *)
(* the run is in progress.                                                    *)

\* Of the final inspection: the variants already inspected agree.
FinalInv ==
    /\ pc = "policyAfter" => cursor = 1
    /\ pc = "final" /\ agree =>
         \A i \in Variants \ raced : i < cursor => tag[i] = Target(i)
    /\ pc = "policyLast" => \A i \in Variants \ raced : tag[i] = Target(i)
    /\ SuccessMeansCompleteSet

\* Of the rollback: the variants behind the cursor are restored or given up.
RestoreInv ==
    /\ pc \in RollingBack =>
         \A i \in Variants \ (raced \union errors) : i < cursor => tag[i] = prev[i]
    /\ RestoredMeansSnapshot

\* Of the release inventory: what is stale is not promotable.
StaleInv == (stale => ~Promotable) /\ NoStaleSuccess

\* Of the two writes: their variant still holds what the run inspected.
WriteInv ==
    /\ pc = "write" => cursor \in raced \/ tag[cursor] = prev[cursor]
    /\ pc = "rbWrite" => cursor \in raced \/ tag[cursor] = Target(cursor)

\* Of the retries: an untouched variant holds one of the run's two values, so
\* only a failed call can cost the rollback an attempt.
FaultInv ==
    /\ pc \in {"idle", "policyFirst"} => cursor = 1
    /\ pc = "snapshot" => \A i \in Variants \ touched : i < cursor => tag[i] = prev[i]
    /\ pc \in Swapping \union RollingBack =>
         \A i \in Variants \ touched : tag[i] \in {prev[i], Target(i)}
    /\ pc = "rbVerify" => cursor \in touched \/ tag[cursor] = prev[cursor]
    /\ pc \in RollingBack /\ touched = {} =>
         /\ rbFaults >= attempt - 1
         /\ errors # {} => rbFaults >= RollbackAttempts
    /\ RollbackOutlastsFaults

\* FinalInv is inductive: only the run's own writes change a tag without racing,
\* and there is none between the final inspection and the verdict.
THEOREM FinalInvHolds == Spec => []FinalInv
<1> USE DEF FinalInv, SuccessMeansCompleteSet, Target
<1>1. Init => FinalInv
  BY DEF Init, Swapping, RollingBack
<1>2. TypeOK /\ FinalInv /\ [Next]_vars => FinalInv'
  <2> SUFFICES ASSUME TypeOK, FinalInv, [Next]_vars PROVE FinalInv'
    OBVIOUS
  <2> USE DEF TypeOK, LoopOK, ControlOK, DataOK, Variants, Checking, Swapping, RollingBack
  <2>1. ASSUME NEW r \in Releases, Start(r) PROVE FinalInv'
    BY <2>1 DEF Start, world
  <2>2. ASSUME NEW r \in Releases, World(r) PROVE FinalInv'
    BY <2>2, WorldLeaves
  <2>3. CASE PolicyFirst
    BY <2>3, BoundsAssumption DEF PolicyFirst, Finish, world, history, bounds
  <2>4. CASE Snapshot
    BY <2>4, BoundsAssumption DEF Snapshot, Inspected, Finish, world, bounds
  <2>5. CASE PolicyBefore
    BY <2>5, BoundsAssumption DEF PolicyBefore, BeginRollback, world, bounds
  <2>6. CASE InspectForSwap
    BY <2>6, BoundsAssumption DEF InspectForSwap, SwapAllowed, Inspected, NextSwap, BeginRollback, world, bounds
  <2>7. CASE Write
    BY <2>7, BoundsAssumption DEF Write, ApplySwap, world, bounds
  <2>8. CASE Verify
    BY <2>8, BoundsAssumption DEF Verify, Inspected, NextSwap, BeginRollback, world, bounds
  <2>9. CASE PolicyAfter
    BY <2>9, BoundsAssumption DEF PolicyAfter, BeginRollback, world, bounds
  <2>10. CASE FinalInspect
    <3> DEFINE ok == agree /\ tag[cursor] = Target(cursor)
    <3>1. CASE cursor < VariantCount
      <4>1. /\ agree' = ok /\ pc' = "final" /\ cursor' = cursor + 1
            /\ raced' = raced \ {cursor} /\ outcome' = outcome
            /\ UNCHANGED <<tag, rel>> /\ pc = "final"
        BY <2>10, <3>1 DEF FinalInspect, Inspected
      <4>2. ASSUME agree', NEW i \in Variants \ raced', i < cursor'
            PROVE  tag'[i] = Target(i)'
        <5>1. agree /\ tag[cursor] = Target(cursor)
          BY <4>1, <4>2
        <5>2. CASE i = cursor
          BY <4>1, <5>1, <5>2
        <5>3. CASE i # cursor
          <6>1. i < cursor /\ i \in Variants \ raced
            BY <4>1, <4>2, <5>3
          <6> QED BY <4>1, <5>1, <6>1
        <5> QED BY <5>2, <5>3
      <4> QED BY <4>1, <4>2
    <3>2. CASE cursor = VariantCount /\ ok
      <4>1. \A i \in Variants \ raced' : tag[i] = Target(i)
        BY <2>10, <3>2, BoundsAssumption DEF FinalInspect, Inspected
      <4> QED BY <2>10, <3>2, <4>1 DEF FinalInspect, FinalSetComplete
    <3>3. CASE cursor = VariantCount /\ ~ok
      BY <2>10, <3>3 DEF FinalInspect, FinalSetComplete, BeginRollback
    <3> QED BY <3>1, <3>2, <3>3, BoundsAssumption
  <2>11. CASE PolicyLast
    BY <2>11, BoundsAssumption DEF PolicyLast, Succeed, Finish, BeginRollback, world, bounds
  <2>12. CASE RollbackInspect
    BY <2>12, BoundsAssumption DEF RollbackInspect, IsRestored, Inspected, NextRollback, AttemptFailed, Finish, world, bounds
  <2>13. CASE RollbackWrite
    BY <2>13, BoundsAssumption DEF RollbackWrite, world, history, bounds
  <2>14. CASE RollbackVerify
    BY <2>14, BoundsAssumption DEF RollbackVerify, Inspected, NextRollback, AttemptFailed, Finish, world, bounds
  <2>15. CASE CallFails
    BY <2>15, BoundsAssumption DEF CallFails, MaybeApplied, ApplySwap, Raised, BeginRollback, NextRollback, AttemptFailed, Finish, world
  <2>16. CASE SignalBetweenAttempts \/ SignalAfterPromotion \/ Kill
    BY <2>16, BoundsAssumption DEF SignalBetweenAttempts, SignalAfterPromotion, Kill, Finish, world, history, bounds
  <2>17. ASSUME NEW i \in Variants, NEW d \in TagValues, ForeignWrite(i, d)
         PROVE  FinalInv'
    BY <2>17 DEF ForeignWrite, world
  <2>18. CASE UNCHANGED vars
    BY <2>18 DEF vars, world, history, bounds
  <2> QED
    BY <2>1, <2>2, <2>3, <2>4, <2>5, <2>6, <2>7, <2>8, <2>9, <2>10, <2>11, <2>12, <2>13, <2>14, <2>15, <2>16, <2>17, <2>18
       DEF Next, RunStep
<1> QED BY <1>1, <1>2, TypeCorrect, PTL DEF Spec

\* RestoreInv is inductive: the rollback writes only the variant at the cursor.
THEOREM RestoreInvHolds == Spec => []RestoreInv
<1> USE DEF RestoreInv, RestoredMeansSnapshot, Target
<1>1. Init => RestoreInv
  BY DEF Init, Swapping, RollingBack
<1>2. TypeOK /\ RestoreInv /\ [Next]_vars => RestoreInv'
  <2> SUFFICES ASSUME TypeOK, RestoreInv, [Next]_vars PROVE RestoreInv'
    OBVIOUS
  <2> USE DEF TypeOK, LoopOK, ControlOK, DataOK, Variants, Checking, Swapping, RollingBack
  <2>1. ASSUME NEW r \in Releases, Start(r) PROVE RestoreInv'
    BY <2>1 DEF Start, world
  <2>2. ASSUME NEW r \in Releases, World(r) PROVE RestoreInv'
    BY <2>2, WorldLeaves
  <2>3. CASE PolicyFirst
    BY <2>3, BoundsAssumption DEF PolicyFirst, Finish, world, history, bounds
  <2>4. CASE Snapshot
    BY <2>4, BoundsAssumption DEF Snapshot, Inspected, Finish, world, bounds
  <2>5. CASE PolicyBefore
    BY <2>5, BoundsAssumption DEF PolicyBefore, BeginRollback, world, bounds
  <2>6. CASE InspectForSwap
    BY <2>6, BoundsAssumption DEF InspectForSwap, SwapAllowed, Inspected, NextSwap, BeginRollback, world, bounds
  <2>7. CASE Write
    BY <2>7, BoundsAssumption DEF Write, ApplySwap, world, bounds
  <2>8. CASE Verify
    BY <2>8, BoundsAssumption DEF Verify, Inspected, NextSwap, BeginRollback, world, bounds
  <2>9. CASE PolicyAfter
    BY <2>9, BoundsAssumption DEF PolicyAfter, BeginRollback, world, bounds
  <2>10. CASE FinalInspect
    BY <2>10, BoundsAssumption DEF FinalInspect, FinalSetComplete, Inspected, BeginRollback, world, bounds
  <2>11. CASE PolicyLast
    BY <2>11, BoundsAssumption DEF PolicyLast, Succeed, Finish, BeginRollback, world, bounds
  <2>12. CASE RollbackInspect
    BY <2>12, BoundsAssumption DEF RollbackInspect, IsRestored, Inspected, NextRollback, AttemptFailed, Finish, world, bounds
  <2>13. CASE RollbackWrite
    BY <2>13, BoundsAssumption DEF RollbackWrite, world, history, bounds
  <2>14. CASE RollbackVerify
    BY <2>14, BoundsAssumption DEF RollbackVerify, Inspected, NextRollback, AttemptFailed, Finish, world, bounds
  <2>15. CASE CallFails
    BY <2>15, BoundsAssumption DEF CallFails, MaybeApplied, ApplySwap, Raised, BeginRollback, NextRollback, AttemptFailed, Finish, world
  <2>16. CASE SignalBetweenAttempts \/ SignalAfterPromotion \/ Kill
    BY <2>16, BoundsAssumption DEF SignalBetweenAttempts, SignalAfterPromotion, Kill, Finish, world, history, bounds
  <2>17. ASSUME NEW i \in Variants, NEW d \in TagValues, ForeignWrite(i, d)
         PROVE  RestoreInv'
    BY <2>17 DEF ForeignWrite, world
  <2>18. CASE UNCHANGED vars
    BY <2>18 DEF vars, world, history, bounds
  <2> QED
    BY <2>1, <2>2, <2>3, <2>4, <2>5, <2>6, <2>7, <2>8, <2>9, <2>10, <2>11, <2>12, <2>13, <2>14, <2>15, <2>16, <2>17, <2>18
       DEF Next, RunStep
<1> QED BY <1>1, <1>2, TypeCorrect, PTL DEF Spec

\* StaleInv is inductive: a release that becomes promotable again is no longer stale.
THEOREM StaleInvHolds == Spec => []StaleInv
<1> USE DEF StaleInv, NoStaleSuccess, Promotable, PolicyHolds
<1>1. Init => StaleInv
  BY DEF Init, Swapping, RollingBack
<1>2. TypeOK /\ StaleInv /\ [Next]_vars => StaleInv'
  <2> SUFFICES ASSUME TypeOK, StaleInv, [Next]_vars PROVE StaleInv'
    OBVIOUS
  <2> USE DEF TypeOK, LoopOK, ControlOK, DataOK, Variants, Checking, Swapping, RollingBack
  <2>1. ASSUME NEW r \in Releases, Start(r) PROVE StaleInv'
    BY <2>1 DEF Start, world
  <2>2. ASSUME NEW r \in Releases, World(r) PROVE StaleInv'
    BY <2>2, WorldLeaves
  <2>3. CASE PolicyFirst
    BY <2>3, BoundsAssumption, ReleaseAssumption DEF PolicyFirst, Finish, world, history, bounds
  <2>4. CASE Snapshot
    BY <2>4, BoundsAssumption, ReleaseAssumption DEF Snapshot, Inspected, Finish, world, bounds
  <2>5. CASE PolicyBefore
    BY <2>5, BoundsAssumption, ReleaseAssumption DEF PolicyBefore, BeginRollback, world, bounds
  <2>6. CASE InspectForSwap
    BY <2>6, BoundsAssumption, ReleaseAssumption DEF InspectForSwap, SwapAllowed, Inspected, NextSwap, BeginRollback, world, bounds
  <2>7. CASE Write
    BY <2>7, BoundsAssumption, ReleaseAssumption DEF Write, ApplySwap, world, bounds
  <2>8. CASE Verify
    BY <2>8, BoundsAssumption, ReleaseAssumption DEF Verify, Inspected, NextSwap, BeginRollback, world, bounds
  <2>9. CASE PolicyAfter
    BY <2>9, BoundsAssumption, ReleaseAssumption DEF PolicyAfter, BeginRollback, world, bounds
  <2>10. CASE FinalInspect
    BY <2>10, BoundsAssumption, ReleaseAssumption DEF FinalInspect, FinalSetComplete, Inspected, BeginRollback, world, bounds
  <2>11. CASE PolicyLast
    BY <2>11, BoundsAssumption, ReleaseAssumption DEF PolicyLast, Succeed, Finish, BeginRollback, world, bounds
  <2>12. CASE RollbackInspect
    BY <2>12, BoundsAssumption, ReleaseAssumption DEF RollbackInspect, IsRestored, Inspected, NextRollback, AttemptFailed, Finish, world, bounds
  <2>13. CASE RollbackWrite
    BY <2>13, BoundsAssumption, ReleaseAssumption DEF RollbackWrite, world, history, bounds
  <2>14. CASE RollbackVerify
    BY <2>14, BoundsAssumption, ReleaseAssumption DEF RollbackVerify, Inspected, NextRollback, AttemptFailed, Finish, world, bounds
  <2>15. CASE CallFails
    BY <2>15, BoundsAssumption, ReleaseAssumption DEF CallFails, MaybeApplied, ApplySwap, Raised, BeginRollback, NextRollback, AttemptFailed, Finish, world
  <2>16. CASE SignalBetweenAttempts \/ SignalAfterPromotion \/ Kill
    BY <2>16, BoundsAssumption, ReleaseAssumption DEF SignalBetweenAttempts, SignalAfterPromotion, Kill, Finish, world, history, bounds
  <2>17. ASSUME NEW i \in Variants, NEW d \in TagValues, ForeignWrite(i, d)
         PROVE  StaleInv'
    BY <2>17 DEF ForeignWrite, world
  <2>18. CASE UNCHANGED vars
    BY <2>18 DEF vars, world, history, bounds
  <2> QED
    BY <2>1, <2>2, <2>3, <2>4, <2>5, <2>6, <2>7, <2>8, <2>9, <2>10, <2>11, <2>12, <2>13, <2>14, <2>15, <2>16, <2>17, <2>18
       DEF Next, RunStep
<1> QED BY <1>1, <1>2, TypeCorrect, PTL DEF Spec

\* WriteInv is inductive: whoever else writes the variant in the window has raced.
THEOREM WriteInvHolds == Spec => []WriteInv
<1> USE DEF WriteInv, Target
<1>1. Init => WriteInv
  BY DEF Init, Swapping, RollingBack
<1>2. TypeOK /\ WriteInv /\ [Next]_vars => WriteInv'
  <2> SUFFICES ASSUME TypeOK, WriteInv, [Next]_vars PROVE WriteInv'
    OBVIOUS
  <2> USE DEF TypeOK, LoopOK, ControlOK, DataOK, Variants, Checking, Swapping, RollingBack
  <2>1. ASSUME NEW r \in Releases, Start(r) PROVE WriteInv'
    BY <2>1 DEF Start, world
  <2>2. ASSUME NEW r \in Releases, World(r) PROVE WriteInv'
    <3>1. UNCHANGED <<tag, pc, rel, prev, cursor, attempt, errors, outcome, raced, touched, rbFaults>>
      BY <2>2, WorldLeaves
    <3> QED BY <3>1
  <2>3. CASE PolicyFirst
    BY <2>3, BoundsAssumption DEF PolicyFirst, Finish, world, history, bounds
  <2>4. CASE Snapshot
    BY <2>4, BoundsAssumption DEF Snapshot, Inspected, Finish, world, bounds
  <2>5. CASE PolicyBefore
    BY <2>5, BoundsAssumption DEF PolicyBefore, BeginRollback, world, bounds
  <2>6. CASE InspectForSwap
    BY <2>6, BoundsAssumption DEF InspectForSwap, SwapAllowed, Inspected, NextSwap, BeginRollback, world, bounds
  <2>7. CASE Write
    BY <2>7, BoundsAssumption DEF Write, ApplySwap, world, bounds
  <2>8. CASE Verify
    BY <2>8, BoundsAssumption DEF Verify, Inspected, NextSwap, BeginRollback, world, bounds
  <2>9. CASE PolicyAfter
    BY <2>9, BoundsAssumption DEF PolicyAfter, BeginRollback, world, bounds
  <2>10. CASE FinalInspect
    BY <2>10, BoundsAssumption DEF FinalInspect, FinalSetComplete, Inspected, BeginRollback, world, bounds
  <2>11. CASE PolicyLast
    BY <2>11, BoundsAssumption DEF PolicyLast, Succeed, Finish, BeginRollback, world, bounds
  <2>12. CASE RollbackInspect
    BY <2>12, BoundsAssumption DEF RollbackInspect, IsRestored, Inspected, NextRollback, AttemptFailed, Finish, world, bounds
  <2>13. CASE RollbackWrite
    BY <2>13, BoundsAssumption DEF RollbackWrite, world, history, bounds
  <2>14. CASE RollbackVerify
    BY <2>14, BoundsAssumption DEF RollbackVerify, Inspected, NextRollback, AttemptFailed, Finish, world, bounds
  <2>15. CASE CallFails
    BY <2>15, BoundsAssumption DEF CallFails, MaybeApplied, ApplySwap, Raised, BeginRollback, NextRollback, AttemptFailed, Finish, world
  <2>16. CASE SignalBetweenAttempts \/ SignalAfterPromotion \/ Kill
    BY <2>16, BoundsAssumption DEF SignalBetweenAttempts, SignalAfterPromotion, Kill, Finish, world, history, bounds
  <2>17. ASSUME NEW i \in Variants, NEW d \in TagValues, ForeignWrite(i, d)
         PROVE  WriteInv'
    BY <2>17 DEF ForeignWrite, world
  <2>18. CASE UNCHANGED vars
    BY <2>18 DEF vars, world, history, bounds
  <2> QED
    BY <2>1, <2>2, <2>3, <2>4, <2>5, <2>6, <2>7, <2>8, <2>9, <2>10, <2>11, <2>12, <2>13, <2>14, <2>15, <2>16, <2>17, <2>18
       DEF Next, RunStep
<1> QED BY <1>1, <1>2, TypeCorrect, PTL DEF Spec

\* FaultInv is inductive: on an untouched variant an attempt fails only with a call.
THEOREM FaultInvHolds == Spec => []FaultInv
<1> USE DEF FaultInv, RollbackOutlastsFaults, Target
<1>1. Init => FaultInv
  BY DEF Init, Swapping, RollingBack
<1>2. TypeOK /\ FaultInv /\ [Next]_vars => FaultInv'
  <2> SUFFICES ASSUME TypeOK, FaultInv, [Next]_vars PROVE FaultInv'
    OBVIOUS
  <2> USE DEF TypeOK, LoopOK, ControlOK, DataOK, Variants, Checking, Swapping, RollingBack
  <2>1. ASSUME NEW r \in Releases, Start(r) PROVE FaultInv'
    BY <2>1 DEF Start, world
  <2>2. ASSUME NEW r \in Releases, World(r) PROVE FaultInv'
    <3>1. UNCHANGED <<tag, pc, rel, prev, cursor, attempt, errors, outcome, raced, touched, rbFaults>>
      BY <2>2, WorldLeaves
    <3> QED BY <3>1
  <2>3. CASE PolicyFirst
    BY <2>3, BoundsAssumption DEF PolicyFirst, Finish, world, history, bounds
  <2>4. CASE Snapshot
    BY <2>4, BoundsAssumption DEF Snapshot, Inspected, Finish, world, bounds
  <2>5. CASE PolicyBefore
    BY <2>5, BoundsAssumption DEF PolicyBefore, BeginRollback, world, bounds
  <2>6. CASE InspectForSwap
    BY <2>6, BoundsAssumption DEF InspectForSwap, SwapAllowed, Inspected, NextSwap, BeginRollback, world, bounds
  <2>7. CASE Write
    BY <2>7, BoundsAssumption DEF Write, ApplySwap, world, bounds
  <2>8. CASE Verify
    BY <2>8, BoundsAssumption DEF Verify, Inspected, NextSwap, BeginRollback, world, bounds
  <2>9. CASE PolicyAfter
    BY <2>9, BoundsAssumption DEF PolicyAfter, BeginRollback, world, bounds
  <2>10. CASE FinalInspect
    BY <2>10, BoundsAssumption DEF FinalInspect, FinalSetComplete, Inspected, BeginRollback, world, bounds
  <2>11. CASE PolicyLast
    BY <2>11, BoundsAssumption DEF PolicyLast, Succeed, Finish, BeginRollback, world, bounds
  <2>12. CASE RollbackInspect
    BY <2>12, BoundsAssumption DEF RollbackInspect, IsRestored, Inspected, NextRollback, AttemptFailed, Finish, world, bounds
  <2>13. CASE RollbackWrite
    BY <2>13, BoundsAssumption DEF RollbackWrite, world, history, bounds
  <2>14. CASE RollbackVerify
    BY <2>14, BoundsAssumption DEF RollbackVerify, Inspected, NextRollback, AttemptFailed, Finish, world, bounds
  <2>15. CASE CallFails
    <3> USE <2>15 DEF CallFails, MaybeApplied
    <3>1. CASE pc \in Checking /\ Finish("refused")
      BY <3>1 DEF Finish, world
    <3>2. CASE pc \in Swapping /\ BeginRollback
      BY <3>2, BoundsAssumption DEF BeginRollback, ApplySwap, world
    <3>3. CASE pc \in RollingBack /\ AttemptFailed /\ rbFaults' = rbFaults + 1
      BY <3>3, BoundsAssumption DEF AttemptFailed, NextRollback, Finish, ApplySwap, world
    <3> QED BY <3>1, <3>2, <3>3 DEF Raised
  <2>16. CASE SignalBetweenAttempts \/ SignalAfterPromotion \/ Kill
    BY <2>16, BoundsAssumption DEF SignalBetweenAttempts, SignalAfterPromotion, Kill, Finish, world, history, bounds
  <2>17. ASSUME NEW i \in Variants, NEW d \in TagValues, ForeignWrite(i, d)
         PROVE  FaultInv'
    BY <2>17 DEF ForeignWrite, world
  <2>18. CASE UNCHANGED vars
    BY <2>18 DEF vars, world, history, bounds
  <2> QED
    BY <2>1, <2>2, <2>3, <2>4, <2>5, <2>6, <2>7, <2>8, <2>9, <2>10, <2>11, <2>12, <2>13, <2>14, <2>15, <2>16, <2>17, <2>18
       DEF Next, RunStep
<1> QED BY <1>1, <1>2, TypeCorrect, PTL DEF Spec

-----------------------------------------------------------------------------
(* The properties of the runs, for every value of the constants. *)

\* A run that reports success leaves the complete set, but for later writers.
THEOREM CompleteSet == Spec => []SuccessMeansCompleteSet
<1>1. FinalInv => SuccessMeansCompleteSet BY DEF FinalInv
<1> QED BY <1>1, FinalInvHolds, PTL

\* A run that failed and says nothing of its rollback left the snapshot.
THEOREM SnapshotRestored == Spec => []RestoredMeansSnapshot
<1>1. RestoreInv => RestoredMeansSnapshot BY DEF RestoreInv
<1> QED BY <1>1, RestoreInvHolds, PTL

\* No success for a release that was stale at a write or a final inspection.
THEOREM StaleNeverSucceeds == Spec => []NoStaleSuccess
<1>1. StaleInv => NoStaleSuccess BY DEF StaleInv
<1> QED BY <1>1, StaleInvHolds, PTL

\* Without foreign writers a rollback is given up after RollbackAttempts faults only.
THEOREM RollbackIsRobust == Spec => []RollbackOutlastsFaults
<1>1. FaultInv => RollbackOutlastsFaults BY DEF FaultInv
<1> QED BY <1>1, FaultInvHolds, PTL

\* A foreign value is overwritten in the window between inspect and write only.
THEOREM ForeignSurvives == Spec => ForeignValuesSurvive
<1> DEFINE A == \A i \in Variants :
                  tag'[i] # tag[i] /\ foreign' = foreign
                    => tag[i] \in {prev[i], Target(i)} \/ i \in raced
<1>1. TypeOK /\ WriteInv /\ [Next]_vars => [A]_vars
  <2> SUFFICES ASSUME TypeOK, WriteInv, Next PROVE A
    BY DEF vars
  <2>1. CASE UNCHANGED tag
    BY <2>1
  <2>2. CASE Write
    BY <2>2 DEF Write, ApplySwap, WriteInv, TypeOK, DataOK, LoopOK
  <2>3. CASE RollbackWrite
    BY <2>3 DEF RollbackWrite, WriteInv, TypeOK, DataOK, LoopOK
  <2>4. CASE CallFails
    BY <2>4 DEF CallFails, MaybeApplied, ApplySwap, WriteInv, TypeOK, DataOK, LoopOK
  <2>5. ASSUME NEW i \in Variants, NEW d \in TagValues, ForeignWrite(i, d)
        PROVE  A
    <3>1. foreign' = foreign + 1 /\ foreign \in Nat
      BY <2>5 DEF ForeignWrite, TypeOK, DataOK
    <3>2. foreign' # foreign
      BY <3>1
    <3> QED BY <3>2
  <2>6. UNCHANGED tag \/ Write \/ RollbackWrite \/ CallFails
        \/ \E i \in Variants, d \in TagValues : ForeignWrite(i, d)
    BY DEF Next, RunStep, Start, World, Publish, Unlist, Revoke, Reinstate, ReleasesChange, PolicyFirst, Snapshot, PolicyBefore,
           InspectForSwap, Verify, PolicyAfter, FinalInspect, PolicyLast, RollbackInspect,
           RollbackVerify, SignalBetweenAttempts, SignalAfterPromotion, Kill
  <2> QED BY <2>1, <2>2, <2>3, <2>4, <2>5, <2>6
<1> QED BY <1>1, TypeCorrect, WriteInvHolds, PTL DEF Spec, ForeignValuesSurvive

\* Of the successes: as long as the set of a success is known to be at latest, a run
\* finds it there, keeps it in its snapshot and puts it back.
HeldSet(set) == \A i \in Variants : set[i] = DigestOf[holder][i]
HeldInv == holder # 0 =>
    /\ raced = {}
    /\ pc \in Checking \/ outcome \in Tidy => HeldSet(tag)
    /\ pc = "snapshot" => \A i \in Variants : i < cursor => prev[i] = DigestOf[holder][i]
    /\ pc \in Swapping \union RollingBack => HeldSet(prev)

\* HeldInv is inductive, given what success and restored mean.
THEOREM HeldInvHolds == Spec => []HeldInv
<1> USE DEF HeldInv, HeldSet
<1>1. Init => HeldInv
  BY DEF Init
<1>2. TypeOK /\ FinalInv /\ FaultInv /\ RestoreInv' /\ HeldInv /\ [Next]_vars => HeldInv'
  <2> SUFFICES ASSUME TypeOK, FinalInv, FaultInv, RestoreInv', HeldInv, [Next]_vars, holder' # 0
               PROVE  HeldInv'
    OBVIOUS
  <2> USE DEF Checking, Swapping, RollingBack
  <2>t. /\ pc \in {"idle"} \union Checking \union Swapping \union RollingBack
        /\ pc # "idle" <=> outcome = "running"
        /\ cursor \in Variants /\ prev \in [Variants -> TagValues]
    BY DEF TypeOK, ControlOK, LoopOK, DataOK
  <2>1. ASSUME NEW r \in Releases, Start(r) PROVE HeldInv'
    BY <2>1 DEF Start, Tidy
  <2>2. ASSUME NEW r \in Releases, World(r) PROVE HeldInv'
    BY <2>2, WorldLeaves
  <2>3. CASE PolicyFirst
    <3>1. cursor = 1
      BY <2>3 DEF PolicyFirst, FaultInv
    <3>2. \A i \in Variants : ~(i < 1)
      BY BoundsAssumption DEF Variants
    <3> QED BY <2>3, <3>1, <3>2 DEF PolicyFirst, Finish, history, Tidy
  <2>4. CASE Snapshot
    <3>1. /\ UNCHANGED <<tag, holder>> /\ raced' \subseteq raced /\ pc = "snapshot"
          /\ prev' = [prev EXCEPT ![cursor] = tag[cursor]]
      BY <2>4 DEF Snapshot, Inspected
    <3>2. ASSUME NEW i \in Variants, i < cursor + 1 PROVE prev'[i] = DigestOf[holder][i]
      <4>1. i = cursor \/ i < cursor
        BY <2>t, <3>2, BoundsAssumption DEF Variants
      <4> QED BY <2>t, <3>1, <4>1
    <3>3. ASSUME cursor = VariantCount, NEW i \in Variants PROVE i < cursor + 1
      BY <3>3, BoundsAssumption DEF Variants
    <3>4. CASE pc' = "snapshot" /\ cursor' = cursor + 1 /\ outcome' = outcome
      BY <2>t, <3>1, <3>2, <3>4
    <3>5. CASE cursor = VariantCount /\ pc' = "policyBefore" /\ outcome' = outcome
      BY <2>t, <3>1, <3>2, <3>3, <3>5 DEF Tidy
    <3>6. CASE pc' = "idle"
      BY <3>1, <3>6
    <3> QED BY <2>4, <3>4, <3>5, <3>6 DEF Snapshot, Finish
  <2>5. CASE PolicyLast
    <3>1. CASE BeginRollback /\ UNCHANGED holder
      BY <2>5, <2>t, <3>1 DEF PolicyLast, BeginRollback, Tidy
    <3>2. CASE Succeed
      <4>1. raced = {} /\ holder' = rel
        BY <3>2 DEF Succeed
      <4>2. \A i \in Variants : tag[i] = DigestOf[rel][i]
        BY <2>5, <4>1 DEF PolicyLast, FinalInv, Target
      <4> QED BY <2>5, <3>2, <4>1, <4>2 DEF PolicyLast, Succeed, Finish
    <3> QED BY <2>5, <3>1, <3>2 DEF PolicyLast
  <2>6. CASE CallFails /\ pc \in Checking
    <3>1. UNCHANGED <<tag, raced, holder>> /\ pc' = "idle"
      BY <2>6 DEF CallFails, MaybeApplied, Raised, Finish
    <3> QED BY <2>6, <3>1
  <2>7. ASSUME pc \in Swapping \union RollingBack, UNCHANGED <<holder, prev>>,
               raced' \subseteq raced,
               \/ pc' \in Swapping \union RollingBack /\ outcome' = outcome
               \/ pc' = "idle" /\ outcome' \in {"restored"} \union (Outcomes \ Tidy)
        PROVE  HeldInv'
    <3>1. CASE outcome' = "restored"
      BY <2>7, <2>t, <3>1 DEF RestoreInv, RestoredMeansSnapshot
    <3>2. CASE outcome' # "restored"
      BY <2>7, <2>t, <3>2 DEF Tidy
    <3> QED BY <3>1, <3>2
  <2>8. CASE PolicyBefore \/ InspectForSwap \/ Write \/ Verify \/ PolicyAfter \/ FinalInspect
    BY <2>7, <2>8 DEF PolicyBefore, InspectForSwap, Write, Verify, PolicyAfter, FinalInspect,
                      Inspected, NextSwap, BeginRollback
  <2>9. ASSUME pc \in RollingBack, (\E e : NextRollback(e)) \/ AttemptFailed
        PROVE  \/ pc' \in Swapping \union RollingBack /\ outcome' = outcome
               \/ pc' = "idle" /\ outcome' \in {"restored"} \union (Outcomes \ Tidy)
    BY <2>9 DEF NextRollback, AttemptFailed, Finish, Outcomes, Tidy
  <2>10. CASE RollbackInspect \/ RollbackWrite \/ RollbackVerify
    <3>1. /\ pc \in RollingBack /\ UNCHANGED <<holder, prev>> /\ raced' \subseteq raced
      BY <2>10 DEF RollbackInspect, RollbackWrite, RollbackVerify, Inspected, history
    <3>2. \/ (\E e : NextRollback(e)) \/ AttemptFailed
          \/ pc' \in RollingBack /\ outcome' = outcome
      BY <2>10 DEF RollbackInspect, RollbackWrite, RollbackVerify
    <3> QED BY <2>7, <2>9, <3>1, <3>2
  <2>11. CASE CallFails /\ pc \notin Checking
    <3>1. UNCHANGED <<holder, prev, raced>>
      BY <2>11 DEF CallFails
    <3>2. (pc \in Swapping /\ BeginRollback) \/ (pc \in RollingBack /\ AttemptFailed)
      BY <2>11 DEF CallFails, Raised
    <3> QED BY <2>7, <2>9, <3>1, <3>2 DEF BeginRollback
  <2>12. CASE SignalBetweenAttempts \/ SignalAfterPromotion \/ Kill
    <3>1. UNCHANGED <<tag, holder, prev, raced>> /\ pc' = "idle" /\ outcome' \notin Tidy
      BY <2>12 DEF SignalBetweenAttempts, SignalAfterPromotion, Kill, Finish, history, Tidy
    <3> QED BY <3>1
  <2>13. ASSUME NEW i \in Variants, NEW d \in TagValues, ForeignWrite(i, d) PROVE HeldInv'
    BY <2>13 DEF ForeignWrite
  <2>14. CASE UNCHANGED vars
    BY <2>14 DEF vars, history
  <2> QED
    BY <2>1, <2>2, <2>3, <2>4, <2>5, <2>6, <2>8, <2>10, <2>11, <2>12, <2>13, <2>14 DEF Next, RunStep
<1> QED BY <1>1, <1>2, TypeCorrect, FinalInvHolds, FaultInvHolds, RestoreInvHolds, PTL DEF Spec

\* Latest is what the last success made it until somebody else writes it, and goes back to
\* an older release only while the newer one is not listed.
THEOREM SuccessesAreFollowed == Spec => LatestFollowsSuccesses
<1> DEFINE Held == outcome \in Tidy /\ holder # 0
                     => \A i \in Variants : tag[i] = DigestOf[holder][i]
           A == holder' < holder => holder' = 0 \/ holder \notin published
<1>1. HeldInv => Held
  BY DEF HeldInv, HeldSet
<1>2. TypeOK /\ [Next]_vars => [A]_vars
  <2> SUFFICES ASSUME TypeOK, Next PROVE A
    OBVIOUS
  <2>1. holder \in Nat /\ published \subseteq Nat /\ rel \in Nat
    BY ReleaseAssumption DEF TypeOK, DataOK, ControlOK
  <2>2. CASE holder' \in {0, holder}
    BY <2>1, <2>2
  <2>3. CASE PolicyLast /\ PolicyHolds(rel) /\ holder' = rel
    BY <2>1, <2>3 DEF PolicyHolds
  <2>4. holder' \in {0, holder} \/ (PolicyLast /\ PolicyHolds(rel) /\ holder' = rel)
    BY DEF Next, RunStep, Start, World, Publish, Unlist, Revoke, Reinstate, ReleasesChange,
           PolicyFirst, Snapshot, PolicyBefore, InspectForSwap, Write, Verify, PolicyAfter,
           FinalInspect, PolicyLast, Succeed, RollbackInspect, RollbackWrite, RollbackVerify,
           CallFails, SignalBetweenAttempts, SignalAfterPromotion, Kill, ForeignWrite, history
  <2> QED BY <2>2, <2>3, <2>4
<1> QED BY <1>1, <1>2, TypeCorrect, HeldInvHolds, PTL DEF Spec, LatestFollowsSuccesses

-----------------------------------------------------------------------------
(* The transaction.  Each step of the run is one of TagTransaction's, or   *)
(* leaves the tags, the two sets and the phase alone.                      *)

LEMMA PhaseCases ==
    /\ pc = "idle" => Phase = outcome
    /\ pc \in Checking => Phase = "reading"
    /\ pc \in Swapping => Phase = "moving"
    /\ pc \in RollingBack => Phase = "undoing"
    /\ pc' = "idle" => Phase' = outcome'
    /\ pc' \in Checking => Phase' = "reading"
    /\ pc' \in Swapping => Phase' = "moving"
    /\ pc' \in RollingBack => Phase' = "undoing"
  BY DEF Phase, Checking, Swapping, RollingBack

\* The set to be promoted is that of the release, and changes with it only.
LEMMA PromotedCases ==
    ASSUME TypeOK, pc # "idle"
    PROVE  /\ rel \in Releases /\ Promoted \in [Variants -> TagValues]
           /\ \A i \in Variants : Promoted[i] = Target(i)
           /\ rel' = rel => Promoted' = Promoted
<1>1. rel \in Releases /\ rel # 0
  BY ReleaseAssumption DEF TypeOK, ControlOK
<1>2. DigestOf[rel] \in [Variants -> TagValues]
  BY <1>1, DigestAssumption DEF TagValues
<1>. QED  BY <1>1, <1>2 DEF Promoted, Target

\* What a step may leave alone.
Still == UNCHANGED <<tag, prev, rel>>

TransactionInv == TypeOK /\ FinalInv /\ RestoreInv /\ WriteInv /\ FaultInv

\* The end of one variant's rollback: go on, give up, or all is restored.
LEMMA VariantDone ==
    ASSUME TransactionInv, pc \in RollingBack, Still, UNCHANGED touched,
           NEW e \in SUBSET Variants, NextRollback(e), errors \subseteq e,
           raced' \subseteq raced, raced \ {cursor} \subseteq raced',
           e = {} => tag[cursor] = prev[cursor]
    PROVE  Transaction!Abandon \/ Transaction!RollBack
<1>. USE DEF Transaction!Goes, Transaction!Looks, Still
<1>0. Phase = "undoing" /\ Promoted' = Promoted
  <2>1. TypeOK /\ pc # "idle"  BY DEF TransactionInv, RollingBack
  <2>. QED  BY <2>1, PhaseCases, PromotedCases
<1>1. CASE cursor < VariantCount
  <2>1. pc' = "rbInspect"  BY <1>1, BoundsAssumption DEF NextRollback, TransactionInv, TypeOK, LoopOK, Variants
  <2>2. Phase' = "undoing"  BY <2>1, PhaseCases DEF RollingBack
  <2>. QED  BY <1>0, <2>2 DEF Transaction!Abandon
<1>2. CASE cursor = VariantCount
  <2>1. Phase' = IF e = {} THEN "restored" ELSE "stranded"
    <3>1. pc' = "idle" /\ outcome' = IF e = {} THEN "restored" ELSE "stranded"
      BY <1>2, BoundsAssumption DEF NextRollback, Finish
    <3>. QED  BY <3>1, PhaseCases
  <2>2. CASE e # {}  BY <1>0, <2>1, <2>2 DEF Transaction!Abandon
  <2>3. CASE e = {}
    <3>1. errors = {}  BY <2>3
    <3>2. ASSUME NEW i \in Variants \ raced' PROVE tag[i] = prev[i]
      <4>1. CASE i = cursor  BY <2>3, <4>1
      <4>2. CASE i # cursor
        <5>1. i \in Variants \ (raced \union errors) /\ i < cursor
          BY <1>2, <3>1, <3>2, <4>2, BoundsAssumption DEF Variants
        <5>. QED  BY <5>1 DEF TransactionInv, RestoreInv
      <4>. QED  BY <4>1, <4>2
    <3>. QED  BY <1>0, <2>1, <2>3, <3>2 DEF Transaction!RollBack
  <2>. QED  BY <2>2, <2>3
<1>. QED  BY <1>1, <1>2 DEF NextRollback

\* A failed attempt goes on with the rollback or gives the variant up.
LEMMA AttemptPhase ==
    ASSUME TypeOK, pc \in RollingBack, AttemptFailed
    PROVE  Phase = "undoing" /\ Phase' \in {"undoing", "stranded"}
<1>1. CASE pc' = "rbInspect"  BY <1>1, PhaseCases DEF RollingBack
<1>2. CASE pc' # "rbInspect"
  <2>1. pc' = "idle" /\ outcome' = "stranded"
    BY <1>2 DEF AttemptFailed, NextRollback, Finish
  <2>. QED  BY <2>1, PhaseCases
<1>. QED  BY <1>1, <1>2

LEMMA TransactionStep ==
    ASSUME TransactionInv, [Next]_vars
    PROVE  [Transaction!Next]_(Transaction!vars)
<1>. USE DEF Transaction!Goes, Transaction!Looks
<1>t. /\ TypeOK /\ tag \in [Variants -> TagValues] /\ prev \in [Variants -> TagValues]
      /\ cursor \in Variants
  BY DEF TransactionInv, TypeOK, DataOK, LoopOK
<1>r. ASSUME pc \in RollingBack PROVE pc # "idle"  BY <1>r DEF RollingBack
<1>q. ASSUME pc \in Swapping, Still, UNCHANGED touched, raced' \subseteq raced,
             pc' \in Swapping \/ BeginRollback
      PROVE  Transaction!Next
  <2>1. Phase = "moving" /\ Promoted' = Promoted
    BY <1>q, <1>t, PhaseCases, PromotedCases DEF Swapping, Still
  <2>2. Phase' \in {"moving", "undoing"}
    BY <1>q, PhaseCases DEF BeginRollback, RollingBack
  <2>. QED  BY <1>q, <2>1, <2>2 DEF Still, Transaction!Next, Transaction!Turn
<1>m. ASSUME pc = "write", tag' = [tag EXCEPT ![cursor] = Target(cursor)],
             UNCHANGED <<rel, prev, raced, touched>>, pc' = "verify" \/ BeginRollback
      PROVE  Transaction!Next
  <2>1. Phase = "moving" /\ Promoted' = Promoted /\ Promoted[cursor] = Target(cursor)
    BY <1>m, <1>t, PhaseCases, PromotedCases DEF Swapping
  <2>2. Phase' \in {"moving", "undoing"}
    BY <1>m, PhaseCases DEF BeginRollback, RollingBack, Swapping
  <2>3. tag[cursor] = prev[cursor] \/ cursor \in raced
    BY <1>m DEF TransactionInv, WriteInv
  <2>4. Transaction!Move(cursor)  BY <1>m, <2>1, <2>2, <2>3 DEF Transaction!Move
  <2>. QED  BY <1>t, <2>4 DEF Transaction!Next
<1>u. ASSUME pc = "rbWrite", tag' = [tag EXCEPT ![cursor] = prev[cursor]],
             UNCHANGED <<rel, prev, raced, touched>>, pc' = "rbVerify" \/ AttemptFailed
      PROVE  Transaction!Next
  <2>1. Phase = "undoing" /\ Promoted' = Promoted /\ Promoted[cursor] = Target(cursor)
    BY <1>u, <1>t, PhaseCases, PromotedCases DEF RollingBack
  <2>2. Phase' \in {"undoing", "stranded"}
    BY <1>u, <1>t, PhaseCases, AttemptPhase DEF RollingBack
  <2>3. tag[cursor] = Target(cursor) \/ cursor \in raced
    BY <1>u DEF TransactionInv, WriteInv
  <2>4. Transaction!Undo(cursor)  BY <1>u, <2>1, <2>2, <2>3 DEF Transaction!Undo
  <2>. QED  BY <1>t, <2>4 DEF Transaction!Next
<1>a. ASSUME pc \in RollingBack, Still, UNCHANGED touched, raced' \subseteq raced, AttemptFailed
      PROVE  Transaction!Next
  <2>1. Promoted' = Promoted  BY <1>a, <1>r, <1>t, PromotedCases DEF Still
  <2>2. Phase = "undoing" /\ Phase' \in {"undoing", "stranded"}  BY <1>a, <1>t, AttemptPhase
  <2>. QED  BY <1>a, <2>1, <2>2 DEF Still, Transaction!Next, Transaction!Abandon
<1>1. ASSUME NEW r \in Releases, Start(r) PROVE Transaction!Next
  <2>1. Phase \notin Transaction!Running
    <3>1. Phase = outcome /\ outcome \in Outcomes
      BY <1>1, <1>t, PhaseCases DEF Start, TypeOK, ControlOK
    <3>. QED  BY <3>1 DEF Transaction!Running, Outcomes
  <2>2. Phase' = "reading"  BY <1>1, PhaseCases DEF Start, Checking
  <2>3. prev' \in [Variants -> TagValues]  BY <1>1 DEF Start, TagValues
  <2>4. Promoted' \in [Variants -> TagValues]
    <3>1. rel' = r /\ r # 0  BY <1>1, ReleaseAssumption DEF Start
    <3>. QED  BY <3>1, DigestAssumption DEF Promoted, TagValues
  <2>. QED
    BY <1>1, <2>1, <2>2, <2>3, <2>4 DEF Start, Transaction!Next, Transaction!Begin, Transaction!Tags
<1>2. ASSUME NEW r \in Releases, World(r) PROVE UNCHANGED Transaction!vars
  <2>1. UNCHANGED <<tag, prev, rel, raced, touched, pc, outcome>>
    BY <1>2, WorldLeaves
  <2>. QED  BY <2>1 DEF Transaction!vars, Phase, Promoted
<1>3. CASE PolicyFirst \/ Snapshot \/ (CallFails /\ pc \in Checking)
  <2>1. /\ pc \in Checking /\ UNCHANGED <<tag, rel>> /\ raced' \subseteq raced
        /\ touched' \subseteq touched /\ prev' \in [Variants -> TagValues]
    BY <1>3, <1>t DEF PolicyFirst, Snapshot, CallFails, MaybeApplied, Inspected, history, Checking
  <2>2. Phase = "reading" /\ Promoted' = Promoted
    BY <1>t, <2>1, PhaseCases, PromotedCases DEF Checking
  <2>3. CASE Phase' \in {"reading", "refused"}
    BY <2>1, <2>2, <2>3 DEF Transaction!Next, Transaction!Read, Transaction!Tags
  <2>4. CASE Snapshot /\ cursor = VariantCount /\ pc' = "policyBefore"
    <3>1. Phase' = "moving"  BY <2>4, PhaseCases DEF Swapping
    <3>2. ASSUME NEW i \in Variants \ touched' PROVE prev'[i] = tag[i]
      <4>1. prev' = [prev EXCEPT ![cursor] = tag[cursor]] /\ touched' = touched \ {cursor}
        BY <2>4 DEF Snapshot
      <4>2. CASE i = cursor  BY <1>t, <4>1, <4>2
      <4>3. CASE i # cursor
        <5>1. i \in Variants \ touched /\ i < cursor
          BY <2>4, <3>2, <4>1, <4>3, BoundsAssumption DEF Variants
        <5>2. tag[i] = prev[i]  BY <2>4, <5>1 DEF TransactionInv, FaultInv, Snapshot
        <5>. QED  BY <1>t, <4>1, <4>3, <5>2
      <4>. QED  BY <4>2, <4>3
    <3>. QED
      BY <2>1, <2>2, <3>1, <3>2 DEF Transaction!Next, Transaction!Snapshot, Transaction!Tags
  <2>5. Phase' \in {"reading", "refused"}
        \/ (Snapshot /\ cursor = VariantCount /\ pc' = "policyBefore")
    <3>1. CASE pc' \in Checking  BY <3>1, PhaseCases
    <3>2. CASE Finish("refused")  BY <3>2, PhaseCases DEF Finish
    <3>. QED
      BY <1>3, <2>1, <3>1, <3>2
      DEF PolicyFirst, Snapshot, CallFails, Raised, Checking, Swapping, RollingBack
  <2>. QED  BY <2>3, <2>4, <2>5
<1>4. CASE PolicyBefore \/ InspectForSwap \/ Verify \/ PolicyAfter \/ FinalInspect
  <2>1. pc \in Swapping /\ Still /\ UNCHANGED touched /\ raced' \subseteq raced
    BY <1>4 DEF PolicyBefore, InspectForSwap, Verify, PolicyAfter, FinalInspect, Swapping, Still,
                Inspected
  <2>2. pc' \in Swapping \/ BeginRollback
    BY <1>4 DEF PolicyBefore, InspectForSwap, Verify, PolicyAfter, FinalInspect, NextSwap, Swapping
  <2>. QED  BY <1>q, <2>1, <2>2
<1>5. CASE Write
  BY <1>5, <1>m DEF Write, ApplySwap
<1>6. CASE PolicyLast \/ SignalAfterPromotion
  <2>1. pc = "policyLast" /\ Still /\ UNCHANGED <<touched, raced>>
    BY <1>6 DEF PolicyLast, Succeed, SignalAfterPromotion, Still, history
  <2>2. CASE BeginRollback  BY <1>q, <2>1, <2>2 DEF Swapping
  <2>3. CASE Finish("success") \/ Finish("exitedLate")
    <3>1. Phase = "moving" /\ Promoted' = Promoted /\ \A i \in Variants : Promoted[i] = Target(i)
      BY <1>t, <2>1, PhaseCases, PromotedCases DEF Swapping, Still
    <3>2. Phase' \in Transaction!Committed
      BY <2>3, PhaseCases DEF Finish, Transaction!Committed
    <3>3. \A i \in Variants \ raced' : tag[i] = Promoted[i]
      BY <2>1, <3>1 DEF TransactionInv, FinalInv
    <3>. QED  BY <2>1, <3>1, <3>2, <3>3 DEF Still, Transaction!Next, Transaction!Commit
  <2>. QED  BY <1>6, <2>2, <2>3 DEF PolicyLast, Succeed, SignalAfterPromotion
<1>7. CASE RollbackInspect \/ RollbackVerify
  <2>1. /\ pc \in RollingBack /\ UNCHANGED touched
        /\ raced' = raced \ {cursor}
    BY <1>7 DEF RollbackInspect, RollbackVerify, RollingBack, Inspected
  <2>2. CASE Still /\ AttemptFailed  BY <1>a, <2>1, <2>2
  <2>3. CASE Still /\ NextRollback(errors) /\ tag[cursor] = prev[cursor]
    <3>1. errors \in SUBSET Variants  BY <1>t DEF TypeOK, DataOK
    <3>2. Transaction!Abandon \/ Transaction!RollBack
      BY <2>1, <2>3, <3>1, VariantDone
    <3>. QED  BY <3>2 DEF Transaction!Next
  <2>4. CASE Still /\ pc' = "rbWrite"
    <3>1. Phase = "undoing" /\ Phase' = "undoing" /\ Promoted' = Promoted
      BY <1>r, <1>t, <2>1, <2>4, PhaseCases, PromotedCases DEF RollingBack, Still
    <3>. QED  BY <2>1, <2>4, <3>1 DEF Still, Transaction!Next, Transaction!Abandon
  <2>5. Still  BY <1>7 DEF RollbackInspect, RollbackVerify, Still
  <2>. QED
    BY <1>7, <2>2, <2>3, <2>4, <2>5 DEF RollbackInspect, RollbackVerify, IsRestored
<1>8. CASE RollbackWrite
  BY <1>8, <1>u DEF RollbackWrite, history
<1>9. CASE CallFails /\ pc \notin Checking
  <2>1. /\ MaybeApplied /\ UNCHANGED <<rel, prev, raced, touched>>
        /\ (pc \in Swapping /\ BeginRollback) \/ (pc \in RollingBack /\ AttemptFailed)
    BY <1>9 DEF CallFails, Raised
  <2>2. CASE UNCHANGED tag  BY <1>q, <1>a, <2>1, <2>2 DEF Still
  <2>3. CASE pc = "write" /\ ApplySwap
    BY <1>m, <2>1, <2>3 DEF ApplySwap, RollingBack
  <2>4. CASE pc = "rbWrite" /\ tag' = [tag EXCEPT ![cursor] = prev[cursor]]
    BY <1>u, <2>1, <2>4 DEF Swapping
  <2>. QED  BY <2>1, <2>2, <2>3, <2>4 DEF MaybeApplied
<1>10. CASE SignalBetweenAttempts
  <2>1. pc = "rbInspect" /\ Still /\ UNCHANGED <<raced, touched>> /\ Finish("aborted")
    BY <1>10 DEF SignalBetweenAttempts, Still, history
  <2>2. Phase = "undoing" /\ Phase' = "aborted" /\ Promoted' = Promoted
    BY <1>t, <2>1, PhaseCases, PromotedCases DEF RollingBack, Finish, Still
  <2>. QED  BY <2>1, <2>2 DEF Still, Transaction!Next, Transaction!Abandon
<1>11. CASE Kill
  <2>1. pc # "idle" /\ Still /\ UNCHANGED <<raced, touched>> /\ Finish("killed")
    BY <1>11 DEF Kill, Still, history
  <2>2. pc \in Checking \union Swapping \union RollingBack
    BY <1>t, <2>1 DEF TypeOK, ControlOK
  <2>3. Phase \in Transaction!Running /\ Phase' = "killed" /\ Promoted' = Promoted
    BY <1>t, <2>1, <2>2, PhaseCases, PromotedCases DEF Transaction!Running, Finish, Still
  <2>. QED  BY <2>1, <2>3 DEF Still, Transaction!Next, Transaction!Kill
<1>12. ASSUME NEW i \in Variants, NEW d \in TagValues, ForeignWrite(i, d) PROVE Transaction!Next
  <2>1. /\ tag' = [tag EXCEPT ![i] = d] /\ raced' = raced \union {i} /\ touched' = touched \union {i}
        /\ UNCHANGED <<prev, rel, pc, outcome>>
    BY <1>12 DEF ForeignWrite
  <2>2. Transaction!Foreign(i, d)  BY <2>1 DEF Transaction!Foreign, Phase, Promoted
  <2>. QED  BY <2>2 DEF Transaction!Next
<1>13. CASE UNCHANGED vars
  BY <1>13 DEF vars, history, Transaction!vars, Phase, Promoted
<1>. QED
  BY <1>1, <1>2, <1>3, <1>4, <1>5, <1>6, <1>7, <1>8, <1>9, <1>10, <1>11, <1>12, <1>13
  DEF Next, RunStep

\* promote and restore_snapshot are a transaction: nothing is written before the snapshot
\* is complete, nothing is moved forward once something was taken back, and an end that
\* claims the new set or the old one has it, however calls fail and whoever writes.
THEOREM PromotionIsTransaction == Spec => TagsTransact
<1>1. Init => Transaction!Init
  <2>. SUFFICES ASSUME Init PROVE Transaction!Init  OBVIOUS
  <2>1. tag \in [Variants -> TagValues] /\ prev \in [Variants -> TagValues]
    BY DigestAssumption DEF Init, TagValues
  <2>2. Promoted = prev /\ Phase = "none"  BY PhaseCases DEF Init, Promoted
  <2>. QED  BY <2>1, <2>2 DEF Init, Transaction!Init, Transaction!Tags
<1>2. TransactionInv /\ [Next]_vars => [Transaction!Next]_(Transaction!vars)
  BY TransactionStep
<1>. QED
  BY <1>1, <1>2, TypeCorrect, FinalInvHolds, RestoreInvHolds, WriteInvHolds, FaultInvHolds, PTL
  DEF Spec, TagsTransact, Transaction!Spec, TransactionInv

-----------------------------------------------------------------------------
(* A bound on the run: the calls that are left in the worst case.  What    *)
(* others do does not count; what they wrote may only shorten the run.     *)

WholeRollback == 3 * (VariantCount * RollbackAttempts)
RollbackLeft ==
    3 * ((VariantCount - cursor) * RollbackAttempts + (RollbackAttempts - attempt))
AfterSwaps == WholeRollback + VariantCount + 2
SwapsLeft == AfterSwaps + 4 * (VariantCount - cursor)
MostSteps == WholeRollback + 6 * VariantCount + 3

StepsLeft ==
    CASE pc = "idle"         -> 0
      [] pc = "rbVerify"     -> RollbackLeft + 1
      [] pc = "rbWrite"      -> RollbackLeft + 2
      [] pc = "rbInspect"    -> RollbackLeft + 3
      [] pc = "policyLast"   -> WholeRollback + 1
      [] pc = "final"        -> WholeRollback + 2 + (VariantCount - cursor)
      [] pc = "policyAfter"  -> AfterSwaps
      [] pc = "verify"       -> SwapsLeft + 1
      [] pc = "write"        -> SwapsLeft + 2
      [] pc = "inspect"      -> SwapsLeft + 3
      [] pc = "policyBefore" -> SwapsLeft + 4
      [] pc = "snapshot"     -> AfterSwaps + 4 * VariantCount + 1 + (VariantCount - cursor)
      [] pc = "policyFirst"  -> MostSteps

\* Every call of the run, and every failure, signal or kill in its place, uses up one of
\* the steps that are left.
EveryCallCounts ==
    [][RunStep \/ CallFails \/ SignalBetweenAttempts \/ SignalAfterPromotion \/ Kill
         => StepsLeft' < StepsLeft]_vars

\* Nobody else makes a run longer: writes of others, releases and withdrawals in its
\* course lead to a rollback at most, which is counted already.
NobodyProlongs == [][pc # "idle" => StepsLeft' <= StepsLeft]_vars

\* The measure at each step.
LEMMA StepsCases ==
    /\ pc = "idle" => StepsLeft = 0
    /\ pc = "rbVerify" => StepsLeft = RollbackLeft + 1
    /\ pc = "rbWrite" => StepsLeft = RollbackLeft + 2
    /\ pc = "rbInspect" => StepsLeft = RollbackLeft + 3
    /\ pc = "policyLast" => StepsLeft = WholeRollback + 1
    /\ pc = "final" => StepsLeft = WholeRollback + 2 + (VariantCount - cursor)
    /\ pc = "policyAfter" => StepsLeft = AfterSwaps
    /\ pc = "verify" => StepsLeft = SwapsLeft + 1
    /\ pc = "write" => StepsLeft = SwapsLeft + 2
    /\ pc = "inspect" => StepsLeft = SwapsLeft + 3
    /\ pc = "policyBefore" => StepsLeft = SwapsLeft + 4
    /\ pc = "snapshot" => StepsLeft = AfterSwaps + 4 * VariantCount + 1 + (VariantCount - cursor)
    /\ pc = "policyFirst" => StepsLeft = MostSteps
  BY DEF StepsLeft

LEMMA NextStepsCases ==
    /\ pc' = "idle" => StepsLeft' = 0
    /\ pc' = "rbVerify" => StepsLeft' = RollbackLeft' + 1
    /\ pc' = "rbWrite" => StepsLeft' = RollbackLeft' + 2
    /\ pc' = "rbInspect" => StepsLeft' = RollbackLeft' + 3
    /\ pc' = "policyLast" => StepsLeft' = WholeRollback + 1
    /\ pc' = "final" => StepsLeft' = WholeRollback + 2 + (VariantCount - cursor')
    /\ pc' = "policyAfter" => StepsLeft' = AfterSwaps
    /\ pc' = "verify" => StepsLeft' = SwapsLeft' + 1
    /\ pc' = "write" => StepsLeft' = SwapsLeft' + 2
    /\ pc' = "inspect" => StepsLeft' = SwapsLeft' + 3
    /\ pc' = "policyBefore" => StepsLeft' = SwapsLeft' + 4
    /\ pc' = "snapshot" => StepsLeft' = AfterSwaps + 4 * VariantCount + 1 + (VariantCount - cursor')
    /\ pc' = "policyFirst" => StepsLeft' = MostSteps
  BY DEF StepsLeft, AfterSwaps, MostSteps, WholeRollback

\* The measure is a number within the bound, wherever the run is.
LEMMA StepsBounded ==
    ASSUME TypeOK
    PROVE  /\ WholeRollback \in Nat /\ AfterSwaps \in Nat /\ MostSteps \in Nat
           /\ RollbackLeft \in 0 .. (WholeRollback - 3)
           /\ StepsLeft \in 0 .. MostSteps
<1>. DEFINE V == VariantCount
            A == RollbackAttempts
            P == (V - cursor) * A
            All == V * A
<1>1. /\ V \in Nat \ {0} /\ A \in Nat \ {0}
      /\ cursor \in 1 .. V /\ attempt \in 1 .. A
  BY BoundsAssumption DEF TypeOK, LoopOK, Variants
<1>2. All \in Nat  BY <1>1
<1>3. P \in Nat
  <2>1. V - cursor \in Nat  BY <1>1
  <2>. QED  BY <1>1, <2>1
<1>4. P + A <= All
  <2>. DEFINE c == cursor - 1
  <2>1. c \in Nat /\ cursor = c + 1  BY <1>1
  <2>2. c * A \in Nat  BY <1>1, <2>1
  <2>3. P = All - c * A - A  BY <1>1, <2>1
  <2>. QED  BY <1>1, <1>2, <1>3, <2>2, <2>3
<1>. HIDE DEF P, All
<1>5. RollbackLeft = 3 * (P + (A - attempt)) /\ WholeRollback = 3 * All
  BY DEF RollbackLeft, WholeRollback, P, All
<1>6. WholeRollback \in Nat /\ RollbackLeft \in 0 .. (WholeRollback - 3)
  BY <1>1, <1>2, <1>3, <1>4, <1>5
<1>. HIDE DEF V, A
<1>7. /\ AfterSwaps = WholeRollback + VariantCount + 2
      /\ SwapsLeft = AfterSwaps + 4 * (VariantCount - cursor)
      /\ MostSteps = WholeRollback + 6 * VariantCount + 3
  BY DEF AfterSwaps, SwapsLeft, MostSteps
<1>8. VariantCount \in Nat \ {0} /\ cursor \in 1 .. VariantCount  BY <1>1 DEF V
<1>9. StepsLeft \in 0 .. MostSteps
  <2>1. CASE pc \in {"idle", "rbVerify", "rbWrite", "rbInspect", "policyLast", "final"}
    BY <1>6, <1>7, <1>8, <2>1, StepsCases
  <2>2. CASE pc \in {"policyAfter", "verify", "write", "inspect", "policyBefore",
                     "snapshot", "policyFirst"}
    BY <1>6, <1>7, <1>8, <2>2, StepsCases
  <2>. QED  BY <2>1, <2>2 DEF TypeOK, ControlOK, Checking, Swapping, RollingBack
<1>. QED  BY <1>6, <1>7, <1>8, <1>9

\* The ways a step of the run goes on.
LEMMA RunsGoOn ==
    ASSUME TypeOK
    PROVE  /\ \A result : Finish(result) => StepsLeft' = 0
           /\ BeginRollback => StepsLeft' = WholeRollback
           /\ NextSwap => StepsLeft' \in 0 .. SwapsLeft
<1>. USE DEF Variants
<1>1. ASSUME NEW result, Finish(result) PROVE StepsLeft' = 0
  BY <1>1, NextStepsCases DEF Finish
<1>2. ASSUME BeginRollback PROVE StepsLeft' = WholeRollback
  <2>1. pc' = "rbInspect" /\ cursor' = 1 /\ attempt' = 1  BY <1>2 DEF BeginRollback
  <2>2. StepsLeft' = 3 * ((VariantCount - 1) * RollbackAttempts + (RollbackAttempts - 1)) + 3
    BY <2>1, NextStepsCases DEF RollbackLeft
  <2>. QED  BY <2>2, BoundsAssumption DEF WholeRollback
<1>3. ASSUME NextSwap PROVE StepsLeft' \in 0 .. SwapsLeft
  <2>1. VariantCount \in Nat /\ cursor \in 1 .. VariantCount /\ AfterSwaps \in Nat
    BY BoundsAssumption, StepsBounded DEF TypeOK, LoopOK
  <2>2. CASE cursor < VariantCount
    <3>1. pc' = "policyBefore" /\ cursor' = cursor + 1  BY <1>3, <2>2 DEF NextSwap
    <3>2. StepsLeft' = AfterSwaps + 4 * (VariantCount - (cursor + 1)) + 4
      BY <3>1, NextStepsCases DEF SwapsLeft, AfterSwaps, WholeRollback
    <3>. QED  BY <2>1, <3>2 DEF SwapsLeft
  <2>3. CASE ~(cursor < VariantCount)
    <3>1. pc' = "policyAfter"  BY <1>3, <2>3 DEF NextSwap
    <3>2. StepsLeft' = AfterSwaps  BY <3>1, NextStepsCases
    <3>. QED  BY <2>1, <3>2 DEF SwapsLeft
  <2>. QED  BY <2>2, <2>3
<1>. QED  BY <1>1, <1>2, <1>3

\* A failed attempt, and the end of a variant's rollback, cost a whole attempt.
LEMMA RollbackGoesOn ==
    ASSUME TypeOK
    PROVE  /\ \A e : NextRollback(e) => StepsLeft' \in 0 .. RollbackLeft
           /\ AttemptFailed => StepsLeft' \in 0 .. RollbackLeft
<1>. DEFINE V == VariantCount
            A == RollbackAttempts
<1>0. V \in Nat /\ A \in Nat /\ cursor \in 1 .. V /\ attempt \in 1 .. A
  BY BoundsAssumption DEF TypeOK, LoopOK, Variants
<1>p. (V - cursor) \in Nat  BY <1>0
<1>n. ASSUME NEW e, NextRollback(e) PROVE StepsLeft' \in 0 .. RollbackLeft
  <2>1. CASE cursor < V /\ pc' = "rbInspect" /\ cursor' = cursor + 1 /\ attempt' = 1
    <3>1. StepsLeft' = 3 * ((V - (cursor + 1)) * A + (A - 1)) + 3
      BY <2>1, NextStepsCases DEF RollbackLeft
    <3>2. (V - (cursor + 1)) * A = (V - cursor) * A - A  BY <1>0
    <3>3. (V - cursor) * A \in Nat  BY <1>0, <1>p
    <3>4. StepsLeft' = 3 * ((V - cursor) * A)  BY <1>0, <3>1, <3>2, <3>3
    <3>. QED  BY <1>0, <3>3, <3>4 DEF RollbackLeft
  <2>2. CASE \E result : Finish(result)
    BY <2>2, RunsGoOn, StepsBounded
  <2>. QED  BY <1>n, <2>1, <2>2 DEF NextRollback
<1>a. ASSUME AttemptFailed PROVE StepsLeft' \in 0 .. RollbackLeft
  <2>1. CASE attempt < A /\ pc' = "rbInspect" /\ attempt' = attempt + 1 /\ cursor' = cursor
    <3>1. StepsLeft' = 3 * ((V - cursor) * A + (A - (attempt + 1))) + 3
      BY <2>1, NextStepsCases DEF RollbackLeft
    <3>2. (V - cursor) * A \in Nat  BY <1>0, <1>p
    <3>. QED  BY <1>0, <3>1, <3>2 DEF RollbackLeft
  <2>2. CASE \E e : NextRollback(e)  BY <1>n, <2>2
  <2>. QED  BY <1>a, <2>1, <2>2 DEF AttemptFailed
<1>. QED  BY <1>n, <1>a

\* Each step lowers the measure.
LEMMA CallsCount ==
    ASSUME TypeOK,
           RunStep \/ CallFails \/ SignalBetweenAttempts \/ SignalAfterPromotion \/ Kill
    PROVE  StepsLeft' < StepsLeft
<1>0. /\ VariantCount \in Nat \ {0} /\ cursor \in 1 .. VariantCount
      /\ WholeRollback \in Nat /\ RollbackLeft \in Nat
      /\ AfterSwaps = WholeRollback + VariantCount + 2
      /\ SwapsLeft = AfterSwaps + 4 * (VariantCount - cursor)
      /\ MostSteps = WholeRollback + 6 * VariantCount + 3
  BY BoundsAssumption, StepsBounded
  DEF TypeOK, LoopOK, Variants, AfterSwaps, SwapsLeft, MostSteps
<1>e. ASSUME pc # "idle", StepsLeft' = 0 PROVE StepsLeft' < StepsLeft
  <2>1. StepsLeft > 0
    <3>1. CASE pc \in RollingBack \union Checking
      BY <1>0, <3>1, StepsCases DEF RollingBack, Checking
    <3>2. CASE pc \in Swapping  BY <1>0, <3>2, StepsCases DEF Swapping
    <3>. QED  BY <1>e, <3>1, <3>2 DEF TypeOK, ControlOK
  <2>. QED  BY <1>e, <2>1
<1>f. ASSUME pc # "idle", NEW result, Finish(result) PROVE StepsLeft' < StepsLeft
  BY <1>e, <1>f, RunsGoOn
<1>b. ASSUME pc \in Swapping, BeginRollback PROVE StepsLeft' < StepsLeft
  <2>1. StepsLeft' = WholeRollback  BY <1>b, RunsGoOn
  <2>. QED  BY <1>0, <1>b, <2>1, StepsCases DEF Swapping
<1>n. ASSUME pc \in {"inspect", "verify"}, NextSwap PROVE StepsLeft' < StepsLeft
  <2>1. StepsLeft' \in 0 .. SwapsLeft /\ StepsLeft \in {SwapsLeft + 1, SwapsLeft + 3}
    BY <1>n, RunsGoOn, StepsCases
  <2>. QED  BY <1>0, <2>1
<1>a. ASSUME pc \in RollingBack, AttemptFailed \/ \E e : NextRollback(e)
      PROVE  StepsLeft' < StepsLeft
  <2>1. StepsLeft' \in 0 .. RollbackLeft  BY <1>a, RollbackGoesOn
  <2>. QED  BY <1>0, <1>a, <2>1, StepsCases DEF RollingBack
<1>1. ASSUME PolicyFirst \/ Snapshot PROVE StepsLeft' < StepsLeft
  <2>1. CASE pc = "policyFirst" /\ pc' = "snapshot" /\ UNCHANGED cursor
    BY <1>0, <2>1, StepsCases, NextStepsCases
    DEF AfterSwaps, MostSteps, WholeRollback
  <2>2. CASE pc = "snapshot" /\ pc' = "snapshot" /\ cursor' = cursor + 1 /\ cursor < VariantCount
    BY <1>0, <2>2, StepsCases, NextStepsCases DEF AfterSwaps, WholeRollback
  <2>3. CASE pc = "snapshot" /\ pc' = "policyBefore" /\ cursor' = 1
    BY <1>0, <2>3, StepsCases, NextStepsCases DEF SwapsLeft, AfterSwaps, WholeRollback
  <2>4. CASE pc # "idle" /\ \E result : Finish(result)  BY <1>f, <2>4
  <2>. QED  BY <1>1, <2>1, <2>2, <2>3, <2>4 DEF PolicyFirst, Snapshot
<1>2. ASSUME PolicyBefore \/ InspectForSwap \/ Write \/ Verify PROVE StepsLeft' < StepsLeft
  <2>1. CASE UNCHANGED cursor /\ \/ pc = "policyBefore" /\ pc' = "inspect"
                                 \/ pc = "inspect" /\ pc' = "write"
                                 \/ pc = "write" /\ pc' = "verify"
    BY <1>0, <2>1, StepsCases, NextStepsCases DEF SwapsLeft, AfterSwaps, WholeRollback
  <2>2. CASE pc \in Swapping /\ BeginRollback  BY <1>b, <2>2
  <2>3. CASE pc \in {"inspect", "verify"} /\ NextSwap  BY <1>n, <2>3
  <2>. QED
    BY <1>2, <2>1, <2>2, <2>3 DEF PolicyBefore, InspectForSwap, Write, Verify, Swapping
<1>3. ASSUME PolicyAfter \/ FinalInspect \/ PolicyLast PROVE StepsLeft' < StepsLeft
  <2>1. CASE pc = "policyAfter" /\ pc' = "final" /\ UNCHANGED cursor
    BY <1>0, <2>1, StepsCases, NextStepsCases DEF AfterSwaps, WholeRollback
  <2>2. CASE pc = "final" /\ pc' = "final" /\ cursor' = cursor + 1 /\ cursor < VariantCount
    BY <1>0, <2>2, StepsCases, NextStepsCases DEF WholeRollback
  <2>3. CASE pc = "final" /\ pc' = "policyLast"
    BY <1>0, <2>3, StepsCases, NextStepsCases DEF WholeRollback
  <2>4. CASE pc \in Swapping /\ BeginRollback  BY <1>b, <2>4
  <2>5. CASE pc = "policyLast" /\ \E result : Finish(result)  BY <1>f, <2>5
  <2>. QED
    BY <1>3, <2>1, <2>2, <2>3, <2>4, <2>5 DEF PolicyAfter, FinalInspect, PolicyLast, Succeed, Swapping
<1>4. ASSUME RollbackInspect \/ RollbackWrite \/ RollbackVerify PROVE StepsLeft' < StepsLeft
  <2>1. CASE UNCHANGED <<cursor, attempt>> /\ \/ pc = "rbInspect" /\ pc' = "rbWrite"
                                              \/ pc = "rbWrite" /\ pc' = "rbVerify"
    BY <1>0, <2>1, StepsCases, NextStepsCases DEF RollbackLeft
  <2>2. CASE pc \in RollingBack /\ (AttemptFailed \/ \E e : NextRollback(e))  BY <1>a, <2>2
  <2>. QED
    BY <1>4, <2>1, <2>2 DEF RollbackInspect, RollbackWrite, RollbackVerify, RollingBack
<1>5. ASSUME CallFails PROVE StepsLeft' < StepsLeft
  BY <1>a, <1>b, <1>f, <1>5 DEF CallFails, Raised, Checking
<1>6. ASSUME SignalBetweenAttempts \/ SignalAfterPromotion \/ Kill PROVE StepsLeft' < StepsLeft
  BY <1>f, <1>6 DEF SignalBetweenAttempts, SignalAfterPromotion, Kill
<1>. QED  BY <1>1, <1>2, <1>3, <1>4, <1>5, <1>6 DEF RunStep

\* A run of the promotion is bounded: it makes at most MostSteps calls - three for each
\* attempt to restore each variant, six for each variant on the way forward, and three
\* more - whatever fails and whatever others do meanwhile.  (promote, restore_snapshot.)
THEOREM RunsAreBounded ==
    Spec => [](StepsLeft \in 0 .. MostSteps) /\ EveryCallCounts /\ NobodyProlongs
<1>1. TypeOK => StepsLeft \in 0 .. MostSteps  BY StepsBounded
<1>2. TypeOK /\ [Next]_vars =>
        [RunStep \/ CallFails \/ SignalBetweenAttempts \/ SignalAfterPromotion \/ Kill
           => StepsLeft' < StepsLeft]_vars
  BY CallsCount
<1>p. TypeOK' => (StepsLeft \in 0 .. MostSteps)'  BY <1>1, PTL
<1>3. TypeOK /\ TypeOK' /\ [Next]_vars => [pc # "idle" => StepsLeft' <= StepsLeft]_vars
  <2>. SUFFICES ASSUME TypeOK, TypeOK', Next, pc # "idle" PROVE StepsLeft' <= StepsLeft
    OBVIOUS
  <2>0. StepsLeft \in Nat /\ StepsLeft' \in Nat
    <3>1. MostSteps \in Nat /\ MostSteps' = MostSteps
      BY StepsBounded DEF MostSteps, WholeRollback
    <3>. QED  BY <1>p, <3>1, StepsBounded
  <2>1. CASE RunStep \/ CallFails \/ SignalBetweenAttempts \/ SignalAfterPromotion \/ Kill
    BY <2>0, <2>1, CallsCount
  <2>2. CASE UNCHANGED <<pc, cursor, attempt>>
    <3>1. StepsLeft' = StepsLeft
      BY <2>2 DEF StepsLeft, RollbackLeft, SwapsLeft, AfterSwaps, MostSteps, WholeRollback
    <3>. QED  BY <2>0, <3>1
  <2>3. UNCHANGED <<pc, cursor, attempt>>
          \/ RunStep \/ CallFails \/ SignalBetweenAttempts \/ SignalAfterPromotion \/ Kill
    BY DEF Next, Start, World, Publish, Unlist, Revoke, Reinstate, ReleasesChange, ForeignWrite
  <2>. QED  BY <2>1, <2>2, <2>3
<1>. QED  BY <1>1, <1>2, <1>3, TypeCorrect, PTL DEF Spec, EveryCallCounts, NobodyProlongs
=============================================================================
