----------------------- MODULE RenovateAutomerge_proofs -----------------------
(***************************************************************************)
(* Proofs about RenovateAutomerge, for any heads and any number of acts    *)
(* and failures.                                                           *)
(***************************************************************************)
EXTENDS RenovateAutomerge, TLAPS

USE HeadsAssumption, BoundAssumption

People(a) == Label(a) \/ Touch(a) \/ Close(a) \/ Reopen(a) \/ \E h \in Heads : Push(a, h)

\* What a person or the bot does queues an event, or is closing.
LEMMA PeopleQueue ==
    ASSUME TypeOK, NEW a \in Actors, People(a)
    PROVE  /\ queued' # {} \/ Close(a)
           /\ queued' \in SUBSET Events
           /\ head' \in Heads /\ draft' \in BOOLEAN
           /\ safe' \in {"off"} \union Actors /\ breaking' \in {"never", "now", "removed"}
<1>1. CASE Label(a)
  <2>1. /\ head' \in Heads /\ draft' \in BOOLEAN
        /\ safe' \in {"off"} \union Actors /\ breaking' \in {"never", "now", "removed"}
    BY <1>1 DEF Label, TypeOK
  <2>. QED  BY <1>1, <2>1 DEF Label, Notify, Queue, Events, FitLabels
<1>2. CASE Touch(a)
  BY <1>2 DEF Touch, Notify, Queue, Events, FitLabels, TypeOK, pr
<1>3. CASE Close(a)
  BY <1>3 DEF Close, TypeOK
<1>4. CASE Reopen(a)
  BY <1>4 DEF Reopen, Notify, Queue, Events, FitLabels, TypeOK
<1>5. CASE \E h \in Heads : Push(a, h)
  BY <1>5 DEF Push, Notify, Queue, Events, FitLabels, TypeOK
<1>. QED  BY <1>1, <1>2, <1>3, <1>4, <1>5 DEF People

LEMMA TypeInductive == TypeOK /\ [Next]_vars => TypeOK'
<1>. SUFFICES ASSUME TypeOK, [Next]_vars PROVE TypeOK'  OBVIOUS
<1>. USE DEF TypeOK, Steps, GuardSteps, LiveSteps, AssertSteps, Go, End, Reads
<1>1. CASE UNCHANGED vars  BY <1>1 DEF vars, pr, run
<1>2. CASE Start
  <2>1. event' \in Events /\ trusted' \in BOOLEAN  BY <1>2 DEF Start, Trusts, Events
  <2>. QED  BY <1>2, <2>1 DEF Start, pr
<1>3. CASE RunStep
  <2>1. CASE GuardPr  BY <2>1 DEF GuardPr, FitPr, pr
  <2>2. CASE GuardCommits  BY <2>2 DEF GuardCommits, OwnsHead, pr
  <2>3. CASE GuardEvents  BY <2>3 DEF GuardEvents, FitEvents, NextStep, pr
  <2>4. CASE LivePr  BY <2>4 DEF LivePr, Check, pr
  <2>5. CASE LiveCommits  BY <2>5 DEF LiveCommits, Check, pr, run
  <2>6. CASE LiveEvents  BY <2>6 DEF LiveEvents, pr, run
  <2>7. CASE AssertPr \/ AssertCommits \/ AssertEvents
    BY <2>7 DEF AssertPr, AssertCommits, AssertEvents, Check, pr, run
  <2>8. CASE Query  BY <2>8 DEF Query, Revoked, pr, run
  <2>9. CASE Disable  BY <2>9 DEF Disable, Revoked, Off, pr, run
  <2>10. CASE Recheck  BY <2>10 DEF Recheck, Revoked, pr, run
  <2>11. CASE Enable  BY <2>11 DEF Enable, Matches, pr, run
  <2>. QED
    BY <1>3, <2>1, <2>2, <2>3, <2>4, <2>5, <2>6, <2>7, <2>8, <2>9, <2>10, <2>11 DEF RunStep
<1>4. CASE CallFails \/ Kill \/ Cancel
  <2>l. Lost  BY <1>4 DEF CallFails, Kill, Cancel
  <2>1. armed' \in BOOLEAN /\ unanswered' \in BOOLEAN /\ (armed' => status = "open")
    <3>1. CASE UNCHANGED <<armed, unanswered>>  BY <3>1
    <3>2. CASE Off  BY <3>2 DEF Off
    <3>3. CASE armed' = (armed \/ Matches) /\ UNCHANGED unanswered
      <4>1. armed' \in BOOLEAN /\ (armed' => armed \/ Matches)  BY <3>3
      <4>. QED  BY <3>3, <4>1 DEF Matches
    <3>. QED  BY <2>l, <3>1, <3>2, <3>3 DEF Lost
  <2>f. Fault \/ UNCHANGED faults  BY <1>4 DEF CallFails, Kill, Cancel
  <2>2. faults' \in Nat  BY <2>f DEF Fault
  <2>3. CASE CallFails  BY <2>1, <2>2, <2>3 DEF CallFails, NextStep, pr
  <2>4. CASE Kill \/ Cancel  BY <2>1, <2>2, <2>4 DEF Kill, Cancel, pr, run
  <2>. QED  BY <1>4, <2>3, <2>4
<1>5. CASE Merge  BY <1>5 DEF Merge, Off, run
<1>6. ASSUME NEW a \in Actors, People(a) PROVE TypeOK'
  <2>1. /\ queued' \in SUBSET Events /\ head' \in Heads /\ draft' \in BOOLEAN
        /\ safe' \in {"off"} \union Actors /\ breaking' \in {"never", "now", "removed"}
    BY <1>6, PeopleQueue
  <2>2. Act(a)  BY <1>6 DEF People, Label, Touch, Close, Reopen, Push
  <2>3. acts' \in [Actors -> Nat] /\ UNCHANGED <<event, trusted, seen, pc, red, faults>>
    BY <2>2 DEF Act, run
  <2>4. /\ status' \in {"open", "closed", "merged"} /\ armed' \in BOOLEAN
        /\ unanswered' \in BOOLEAN /\ (armed' => status' = "open")
    <3>1. CASE Label(a)  BY <3>1 DEF Label
    <3>5. CASE Touch(a)  BY <3>5 DEF Touch, pr
    <3>2. CASE Close(a)  BY <3>2 DEF Close, Off
    <3>3. CASE Reopen(a)  BY <3>3 DEF Reopen
    <3>4. CASE \E h \in Heads : Push(a, h)  BY <3>4 DEF Push
    <3>. QED  BY <1>6, <3>1, <3>2, <3>3, <3>4, <3>5 DEF People
  <2>. QED  BY <2>1, <2>3, <2>4
<1>. QED  BY <1>1, <1>2, <1>3, <1>4, <1>5, <1>6 DEF Next, People

LEMMA InitTypeOK == Init => TypeOK
<1>. SUFFICES ASSUME Init PROVE TypeOK  OBVIOUS
<1>1. FirstHead \in Heads  BY DEF Heads
<1>2. event \in Events  BY <1>1 DEF Init, Events, Actors
<1>3. queued \in SUBSET Events  BY <1>2 DEF Init
<1>4. acts \in [Actors -> Nat]  BY DEF Init
<1>5. status = "open" /\ pc = "idle" /\ armed = FALSE  BY DEF Init
<1>. QED
  BY <1>1, <1>2, <1>3, <1>4, <1>5 DEF Init, TypeOK, LiveSteps, AssertSteps

\* TypeOK is an invariant: the enable step of the workflow is only reached by a run
\* whose guard trusted the event, the live check only by one whose guard did not.
THEOREM TypeCorrect == Spec => []TypeOK
  BY InitTypeOK, TypeInductive, PTL DEF Spec

-----------------------------------------------------------------------------
(* As long as no event waits, nothing a check has read has changed. *)

AfterPr == {"liveCommits", "liveEvents", "assertCommits", "assertEvents", "enable"}
AfterCommits == {"liveEvents", "assertEvents", "enable"}

ReadsHold ==
    /\ pc \in AfterPr => FitLabels
    /\ pc \in {"liveCommits"} => seen \in Heads
    /\ pc \in AfterCommits => head \in BotHeads
    /\ pc = "enable" => FitEvents
    /\ pc = "idle" /\ armed => LiveSafe \/ red

\* What the run knows of its event does not depend on what happens meanwhile.
EventHolds ==
    /\ pc # "idle" /\ trusted => event.actor = "bot"
    /\ pc \in {"assertEvents", "enable"} => event.head \in BotHeads

RevokeInvariant == TypeOK /\ EventHolds /\ (queued = {} => ReadsHold)

LEMMA EventInductive == TypeOK /\ EventHolds /\ [Next]_vars => EventHolds'
<1>. SUFFICES ASSUME TypeOK, EventHolds, [Next]_vars PROVE EventHolds'  OBVIOUS
<1>. USE DEF EventHolds, Go, End, Reads
<1>1. CASE UNCHANGED vars  BY <1>1 DEF vars, run
<1>2. CASE Start  BY <1>2 DEF Start, Trusts
<1>3. CASE RunStep
  <2>1. CASE GuardPr \/ GuardCommits \/ GuardEvents
    BY <2>1 DEF GuardPr, GuardCommits, GuardEvents, NextStep
  <2>2. CASE LivePr \/ LiveCommits \/ LiveEvents
    BY <2>2 DEF LivePr, LiveCommits, LiveEvents, Check, run
  <2>3. CASE AssertPr \/ AssertCommits \/ AssertEvents
    BY <2>3 DEF AssertPr, AssertCommits, AssertEvents, Check, run, OwnsHead
  <2>4. CASE Query \/ Disable \/ Recheck \/ Enable
    BY <2>4 DEF Query, Disable, Recheck, Enable, Revoked, run
  <2>. QED  BY <1>3, <2>1, <2>2, <2>3, <2>4 DEF RunStep
<1>4. CASE CallFails
  BY <1>4 DEF CallFails, NextStep, LiveSteps, AssertSteps, TypeOK
<1>5. CASE Kill \/ Cancel  BY <1>5 DEF Kill, Cancel, run
<1>6. CASE Merge  BY <1>6 DEF Merge, run
<1>7. ASSUME NEW a \in Actors, People(a) PROVE EventHolds'
  <2>1. Act(a)  BY <1>7 DEF People, Label, Touch, Close, Reopen, Push
  <2>2. UNCHANGED <<event, pc, trusted>>  BY <2>1 DEF Act, run
  <2>. QED  BY <2>2
<1>. QED  BY <1>1, <1>2, <1>3, <1>4, <1>5, <1>6, <1>7 DEF Next, People

LEMMA ReadsInductive ==
    ASSUME RevokeInvariant, [Next]_vars, queued' = {}
    PROVE  ReadsHold'
<1>. USE DEF RevokeInvariant, ReadsHold, AfterPr, AfterCommits, LiveSafe, FitPr, Go, End, Reads
<1>1. CASE UNCHANGED vars
  BY <1>1 DEF vars, pr, run, FitLabels, FitEvents
<1>2. CASE Start  BY <1>2 DEF Start
<1>3. CASE RunStep
  <2>1. queued = {} /\ UNCHANGED pr
    BY <1>3 DEF RunStep, GuardPr, GuardCommits, GuardEvents, LivePr, LiveCommits, LiveEvents,
                AssertPr, AssertCommits, AssertEvents, Check, Query, Disable, Recheck, Enable
  <2>2. /\ FitLabels' = FitLabels /\ FitEvents' = FitEvents /\ head' = head /\ status' = status
    BY <2>1 DEF pr, FitLabels, FitEvents
  <2>3. CASE GuardPr \/ GuardCommits \/ GuardEvents
    BY <2>3 DEF GuardPr, GuardCommits, GuardEvents, NextStep
  <2>4. CASE LivePr  BY <2>2, <2>4 DEF LivePr, Check, TypeOK
  <2>5. CASE LiveCommits  BY <2>1, <2>2, <2>5 DEF LiveCommits, Check, OwnsHead
  <2>6. CASE LiveEvents  BY <2>1, <2>2, <2>6 DEF LiveEvents, TypeOK
  <2>7. CASE AssertPr \/ AssertCommits \/ AssertEvents
    BY <2>1, <2>2, <2>7 DEF AssertPr, AssertCommits, AssertEvents, Check, OwnsHead
  <2>8. CASE Query \/ Disable \/ Recheck
    BY <2>1, <2>2, <2>8 DEF Query, Disable, Recheck, Revoked, Off
  <2>9. CASE Enable
    BY <2>1, <2>2, <2>9 DEF Enable, Matches, TypeOK
  <2>. QED
    BY <1>3, <2>3, <2>4, <2>5, <2>6, <2>7, <2>8, <2>9 DEF RunStep
<1>4. CASE CallFails
  BY <1>4 DEF CallFails, NextStep, LiveSteps, AssertSteps
<1>5. CASE Kill  BY <1>5 DEF Kill
<1>6. CASE Cancel  BY <1>6 DEF Cancel
<1>7. CASE Merge
  BY <1>7 DEF Merge, Off, FitLabels, FitEvents, run
<1>8. ASSUME NEW a \in Actors, People(a) PROVE ReadsHold'
  <2>1. Close(a)  BY <1>8, PeopleQueue
  <2>. QED  BY <2>1 DEF Close, Act, Off, FitLabels, FitEvents, run
<1>. QED  BY <1>1, <1>2, <1>3, <1>4, <1>5, <1>6, <1>7, <1>8 DEF Next, People

LEMMA RevokeInvariantHolds == Spec => []RevokeInvariant
<1>1. Init => RevokeInvariant
  <2>. SUFFICES ASSUME Init PROVE RevokeInvariant  OBVIOUS
  <2>1. TypeOK  BY InitTypeOK
  <2>2. queued # {}  BY DEF Init
  <2>. QED  BY <2>1, <2>2 DEF Init, RevokeInvariant, EventHolds
<1>2. RevokeInvariant /\ [Next]_vars => RevokeInvariant'
  BY TypeInductive, EventInductive, ReadsInductive DEF RevokeInvariant
<1>. QED  BY <1>1, <1>2, PTL DEF Spec

\* Once the runs of renovate-guarded-automerge.yml are through, an armed pull request
\* is safe or the last run failed, for every order of events, cancellations and failures.
THEOREM UnsafeRevoked == Spec => []UnsafeIsRevoked
<1>1. RevokeInvariant => UnsafeIsRevoked
  BY DEF RevokeInvariant, ReadsHold, UnsafeIsRevoked, Quiet
<1>. QED  BY <1>1, RevokeInvariantHolds, PTL

\* Auto-merge is only switched on for the head of the bot's event, all of it the bot's,
\* whatever is pushed between the checks and the call.
THEOREM EnabledExactly == Spec => EnabledForExactHead
<1>1. RevokeInvariant /\ [Next]_vars =>
        [~armed /\ armed' => event.actor = "bot" /\ head = event.head /\ head \in BotHeads]_vars
  <2>. SUFFICES ASSUME RevokeInvariant, [Next]_vars, ~armed, armed'
                PROVE  event.actor = "bot" /\ head = event.head /\ head \in BotHeads
    OBVIOUS
  <2>1. pc = "enable" /\ Matches
    <3>1. CASE RunStep
      BY <3>1 DEF RunStep, GuardPr, GuardCommits, GuardEvents, LivePr, LiveCommits, LiveEvents,
                  AssertPr, AssertCommits, AssertEvents, Check, Query, Disable, Recheck, Enable,
                  Reads, Off
    <3>2. CASE CallFails \/ Kill \/ Cancel
      BY <3>2 DEF CallFails, Kill, Cancel, Lost, Off
    <3>3. CASE Start \/ Merge \/ UNCHANGED vars
      BY <3>3 DEF Start, Merge, vars, Off
    <3>4. ASSUME NEW a \in Actors, People(a) PROVE FALSE
      BY <3>4 DEF People, Label, Touch, Close, Reopen, Push, Off
    <3>. QED  BY <3>1, <3>2, <3>3, <3>4 DEF Next, People
  <2>. QED  BY <2>1 DEF RevokeInvariant, EventHolds, Matches, TypeOK
<1>. QED  BY <1>1, RevokeInvariantHolds, PTL DEF Spec, EnabledForExactHead

-----------------------------------------------------------------------------
(* What a run of a synchronize event of somebody else can be doing, and what it leaves. *)

RevokeSteps == {"query", "disable", "recheck"}

ForcedHolds ==
    ForceRevoke =>
        /\ pc # "idle" => pc \in GuardSteps \union RevokeSteps
        /\ pc = "idle" /\ queued = {} => ~armed \/ red

ForcedInvariant == TypeOK /\ EventHolds /\ ForcedHolds

LEMMA ForcedInductive == ForcedInvariant /\ [Next]_vars => ForcedHolds'
<1>. SUFFICES ASSUME ForcedInvariant, [Next]_vars, ForceRevoke'
              PROVE  /\ pc' # "idle" => pc' \in GuardSteps \union RevokeSteps
                     /\ pc' = "idle" /\ queued' = {} => ~armed' \/ red'
  BY DEF ForcedHolds
<1>. USE DEF ForcedInvariant, ForcedHolds, ForceRevoke, GuardSteps, RevokeSteps, Go, End, Reads
<1>1. CASE UNCHANGED vars  BY <1>1 DEF vars, run
<1>2. CASE Start  BY <1>2 DEF Start
<1>3. CASE RunStep
  <2>1. UNCHANGED <<event, queued>>
    BY <1>3 DEF RunStep, GuardPr, GuardCommits, GuardEvents, LivePr, LiveCommits, LiveEvents,
                AssertPr, AssertCommits, AssertEvents, Check, Query, Disable, Recheck, Enable, run
  <2>2. pc \in GuardSteps \union RevokeSteps /\ ~trusted
    <3>1. pc # "idle"
      BY <1>3 DEF RunStep, GuardPr, GuardCommits, GuardEvents, LivePr, LiveCommits, LiveEvents,
                  AssertPr, AssertCommits, AssertEvents, Check, Query, Disable, Recheck, Enable
    <3>. QED  BY <2>1, <3>1 DEF EventHolds, TypeOK
  <2>3. CASE GuardPr \/ GuardCommits  BY <2>3 DEF GuardPr, GuardCommits
  <2>4. CASE GuardEvents
    <3>1. ~trusted'  BY <2>2, <2>4 DEF GuardEvents
    <3>. QED  BY <2>1, <2>4, <3>1 DEF GuardEvents, NextStep
  <2>5. CASE Query \/ Disable \/ Recheck
    BY <2>5 DEF Query, Disable, Recheck, Revoked, Off
  <2>. QED
    BY <1>3, <2>2, <2>3, <2>4, <2>5
    DEF RunStep, LivePr, LiveCommits, LiveEvents, AssertPr, AssertCommits, AssertEvents, Check, Enable
<1>4. CASE CallFails  BY <1>4 DEF CallFails, NextStep, LiveSteps, AssertSteps
<1>5. CASE Kill \/ Cancel  BY <1>5 DEF Kill, Cancel, run
<1>6. CASE Merge  BY <1>6 DEF Merge, Off, run
<1>7. ASSUME NEW a \in Actors, People(a)
      PROVE  /\ pc' # "idle" => pc' \in GuardSteps \union RevokeSteps
             /\ pc' = "idle" /\ queued' = {} => ~armed' \/ red'
  <2>1. Act(a)  BY <1>7 DEF People, Label, Touch, Close, Reopen, Push
  <2>2. UNCHANGED <<event, pc, red>>  BY <2>1 DEF Act, run
  <2>3. queued' # {} \/ Close(a)  BY <1>7, PeopleQueue
  <2>. QED  BY <2>2, <2>3 DEF Close, Off
<1>. QED  BY <1>1, <1>2, <1>3, <1>4, <1>5, <1>6, <1>7 DEF Next, People

\* The revocation of a synchronize event of somebody else is unconditional as far as its
\* own run goes: renovate-guarded-automerge.yml has no way from such an event to the live
\* check or to the enable step, whatever its guard reads and whichever call fails.
THEOREM ForcedRevocation == Spec => []ForcedRunRevokes
<1>1. Init => ForcedInvariant
  <2>. SUFFICES ASSUME Init PROVE EventHolds /\ ForcedHolds  BY InitTypeOK DEF ForcedInvariant
  <2>. QED  BY DEF Init, EventHolds, ForcedHolds, ForceRevoke
<1>2. ForcedInvariant /\ [Next]_vars => ForcedInvariant'
  BY TypeInductive, EventInductive, ForcedInductive DEF ForcedInvariant
<1>3. ForcedInvariant => ForcedRunRevokes
  BY DEF ForcedInvariant, ForcedHolds, ForcedRunRevokes, Quiet
<1>. QED  BY <1>1, <1>2, <1>3, PTL DEF Spec

-----------------------------------------------------------------------------
(* As long as only the bot acts and nothing fails, the waiting event, or   *)
(* else the one of the last run, reports the pull request as it is.        *)

Alone == acts["person"] = 0 /\ faults = 0

Reports(e) == e.actor = "bot" /\ e.head = head /\ e.fit = FitLabels

\* A safe pull request is armed, or its run is on the way to the enable step.
OnTheWay ==
    IF pc = "idle" THEN armed
    ELSE trusted /\ pc \in GuardSteps \union AssertSteps \union {"enable"}

BotHolds ==
    Alone =>
        /\ \A e \in queued : Reports(e)
        /\ queued = {} => Reports(event) /\ (LiveSafe => OnTheWay)

LEMMA StaysAlone ==
    ASSUME TypeOK, [Next]_vars, Alone'
    PROVE  /\ Alone /\ ~CallFails /\ ~Kill
           /\ \A a \in Actors : People(a) => a = "bot"
<1>. USE DEF Alone
<1>t. acts \in [Actors -> Nat] /\ faults \in Nat  BY DEF TypeOK
<1>f. ~(faults' = faults + 1)  BY <1>t
<1>1. ASSUME NEW a \in Actors, People(a)
      PROVE  Act(a) /\ acts' = [acts EXCEPT ![a] = @ + 1] /\ faults' = faults
  <2>1. Act(a)  BY <1>1 DEF People, Label, Touch, Close, Reopen, Push
  <2>. QED  BY <2>1 DEF Act
<1>2. ASSUME NEW a \in Actors, People(a) PROVE a = "bot" /\ Alone
  <2>1. acts' = [acts EXCEPT ![a] = @ + 1] /\ faults' = faults  BY <1>1, <1>2
  <2>2. acts["person"] \in Nat /\ "person" \in Actors  BY <1>t DEF Actors
  <2>3. a # "person"  BY <2>1, <2>2, <1>t
  <2>4. a = "bot"  BY <2>3 DEF Actors
  <2>5. acts'["person"] = acts["person"]  BY <2>1, <2>2, <2>3, <1>t
  <2>. QED  BY <2>1, <2>4, <2>5
<1>3. ~CallFails /\ ~Kill  BY <1>f DEF CallFails, Kill, Fault
<1>4. ASSUME Start PROVE Alone  BY <1>4 DEF Start
<1>5. ASSUME RunStep PROVE Alone
  <2>1. UNCHANGED <<acts, faults>>
    BY <1>5 DEF RunStep, GuardPr, GuardCommits, GuardEvents, LivePr, LiveCommits, LiveEvents,
                AssertPr, AssertCommits, AssertEvents, Check, Query, Disable, Recheck, Enable, Reads
  <2>. QED  BY <2>1
<1>6. ASSUME Cancel \/ Merge \/ UNCHANGED vars PROVE Alone  BY <1>6 DEF Cancel, Merge, vars
<1>7. Alone  BY <1>2, <1>3, <1>4, <1>5, <1>6 DEF Next, People
<1>. QED  BY <1>2, <1>3, <1>7

LEMMA BotInductive == TypeOK /\ BotHolds /\ [Next]_vars => BotHolds'
<1>. SUFFICES ASSUME TypeOK, BotHolds, [Next]_vars, Alone'
              PROVE  /\ \A e \in queued' : Reports(e)'
                     /\ queued' = {} => Reports(event)' /\ (LiveSafe' => OnTheWay')
  BY DEF BotHolds
<1>a. /\ \A e \in queued : Reports(e)
      /\ queued = {} => Reports(event) /\ (LiveSafe => OnTheWay)
      /\ ~CallFails /\ ~Kill
      /\ \A a \in Actors : People(a) => a = "bot"
  BY StaysAlone DEF BotHolds
<1>. USE DEF Reports, OnTheWay, GuardSteps, AssertSteps, Go, End, Reads
<1>1. CASE UNCHANGED vars
  BY <1>1, <1>a DEF vars, pr, run, LiveSafe, FitPr, FitLabels, FitEvents
<1>2. CASE Start
  <2>1. UNCHANGED pr /\ event' \in queued /\ queued' = {}  BY <1>2 DEF Start
  <2>2. Reports(event)' /\ FitLabels' = FitLabels  BY <2>1, <1>a DEF pr, FitLabels
  <2>3. LiveSafe' => trusted' /\ pc' = "guardPr"
    BY <1>2, <2>2 DEF Start, Trusts, LiveSafe, FitPr
  <2>. QED  BY <2>1, <2>2, <2>3
<1>3. CASE RunStep
  <2>1. /\ UNCHANGED <<pr, queued>>
        /\ event' = event
    BY <1>3 DEF RunStep, GuardPr, GuardCommits, GuardEvents, LivePr, LiveCommits, LiveEvents,
                AssertPr, AssertCommits, AssertEvents, Check, Query, Disable, Recheck, Enable, run
  <2>2. /\ LiveSafe' = LiveSafe /\ FitLabels' = FitLabels
        /\ \A e : Reports(e)' = Reports(e)
    BY <2>1 DEF pr, LiveSafe, FitPr, FitLabels, FitEvents
  <2>3. ASSUME queued = {}, LiveSafe PROVE OnTheWay'
    <3>a. Reports(event) /\ OnTheWay  BY <1>a, <2>3
    <3>1. CASE GuardPr  BY <2>3, <3>a, <3>1 DEF GuardPr, LiveSafe
    <3>2. CASE GuardCommits  BY <2>3, <3>a, <3>2 DEF GuardCommits, OwnsHead, LiveSafe
    <3>3. CASE GuardEvents  BY <2>3, <3>a, <3>3 DEF GuardEvents, NextStep, LiveSafe
    <3>4. CASE LivePr \/ LiveCommits \/ LiveEvents \/ Query \/ Disable \/ Recheck
      BY <3>a, <3>4 DEF LivePr, LiveCommits, LiveEvents, Check, Query, Disable, Recheck
    <3>5. CASE AssertPr \/ AssertCommits \/ AssertEvents
      BY <2>3, <3>a, <3>5 DEF AssertPr, AssertCommits, AssertEvents, Check, OwnsHead, LiveSafe, run
    <3>6. CASE Enable  BY <2>3, <3>a, <3>6 DEF Enable, Matches, LiveSafe, FitPr
    <3>. QED  BY <1>3, <3>1, <3>2, <3>3, <3>4, <3>5, <3>6 DEF RunStep
  <2>. QED  BY <1>a, <2>1, <2>2, <2>3
<1>4. CASE Cancel
  BY <1>4, <1>a DEF Cancel, pr, run, FitLabels
<1>5. CASE Merge
  <2>1. ~LiveSafe'  BY <1>5 DEF Merge, LiveSafe, FitPr
  <2>. QED  BY <1>5, <1>a, <2>1 DEF Merge, run, FitLabels
<1>6. ASSUME NEW a \in Actors, People(a)
      PROVE  /\ \A e \in queued' : Reports(e)'
             /\ queued' = {} => Reports(event)' /\ (LiveSafe' => OnTheWay')
  <2>1. a = "bot"  BY <1>6, <1>a
  <2>2. CASE \E p \in BOOLEAN : Notify(a, p)
    <3>1. PICK p \in BOOLEAN : Notify(a, p)  BY <2>2
    <3>2. queued' = {[sync |-> p, actor |-> a, head |-> head', fit |-> FitLabels']}
      BY <3>1 DEF Notify, Queue
    <3>3. ASSUME NEW e \in queued' PROVE e.actor = "bot" /\ e.head = head' /\ e.fit = FitLabels'
      BY <2>1, <3>2, <3>3
    <3>4. queued' # {}  BY <3>2
    <3>. QED  BY <3>3, <3>4
  <2>3. CASE Close(a)
    <3>1. ~LiveSafe'  BY <2>3 DEF Close, LiveSafe, FitPr
    <3>. QED  BY <2>3, <1>a, <3>1 DEF Close, Act, run, FitLabels
  <2>. QED  BY <1>6, <2>2, <2>3 DEF People, Label, Touch, Reopen, Push
<1>. QED  BY <1>1, <1>2, <1>3, <1>4, <1>5, <1>6, <1>a DEF Next, People

\* In whichever order the bot pushes, labels, closes and reopens, and whichever of its
\* runs renovate-guarded-automerge.yml cancels or never starts: without people and
\* failures a safe pull request ends with auto-merge.
THEOREM BotAloneSuffices == Spec => []BotIsEnough
<1>1. Init => TypeOK /\ BotHolds
  <2>. SUFFICES ASSUME Init PROVE BotHolds  BY InitTypeOK
  <2>1. queued = {event} /\ Reports(event)
    BY DEF Init, Reports, FitLabels
  <2>. QED  BY <2>1 DEF BotHolds
<1>2. TypeOK /\ BotHolds /\ [Next]_vars => (TypeOK /\ BotHolds)'
  BY TypeInductive, BotInductive
<1>3. BotHolds => BotIsEnough
  BY DEF BotHolds, BotIsEnough, Alone, Quiet, OnTheWay
<1>. QED  BY <1>1, <1>2, <1>3, PTL DEF Spec
=============================================================================
