-------------------------- MODULE RenovateAutomerge --------------------------
(***************************************************************************)
(* .github/workflows/renovate-guarded-automerge.yml: every event of a pull *)
(* request of renovate[bot] starts a run that decides whether GitHub may   *)
(* merge it by itself.  The guard compares the event with the live pull    *)
(* request, its commits and its label events; then the run either revokes  *)
(* auto-merge, or verifies all of that again and enables it.               *)
(*                                                                         *)
(* Runs of one pull request form a concurrency group with                  *)
(* cancel-in-progress: a new event replaces the waiting one and cancels    *)
(* the running one, which may still take steps until it stops.             *)
(***************************************************************************)
EXTENDS Naturals

CONSTANTS
    BotHeads,    \* heads of which every commit is renovate[bot]'s, verified
    OtherHeads,  \* heads with a commit of somebody else
    FirstHead,   \* the head when the pull request is opened
    MaxActs,     \* bound: what each actor does to the pull request
    MaxFaults    \* bound: failing calls and killed runs

ASSUME HeadsAssumption == FirstHead \in BotHeads /\ BotHeads \intersect OtherHeads = {}
Actors == {"bot", "person"}
ASSUME BoundAssumption == MaxActs \in [Actors -> Nat] /\ MaxFaults \in Nat

Heads == BotHeads \union OtherHeads

\* An event: whether it is a synchronize, and the head and fitness it reports.
Events == [sync : BOOLEAN, actor : Actors, head : Heads, fit : BOOLEAN]

VARIABLES
    (* the pull request *)
    status, head,
    draft,     \* draft, wrong base, or without the labels renovate and dependencies
    safe,      \* safe-automerge: absent, or who put it there
    breaking,  \* breaking-update: never there, there now, or removed
    armed,     \* auto-merge is enabled
    (* the runs *)
    queued,    \* the event that waits for the running one
    event, pc,
    trusted,   \* output of the guard
    seen,      \* live_head_sha of current_live_is_safe
    red,       \* the last run failed
    (* history, read by the properties only *)
    unanswered,  \* armed without a break since a person pushed
    (* bounds *)
    acts, faults

pr == <<status, head, draft, safe, breaking>>
run == <<event, trusted, seen>>
vars == <<pr, armed, queued, run, pc, red, unanswered, acts, faults>>

GuardSteps == {"guardPr", "guardCommits", "guardEvents"}
LiveSteps == {"livePr", "liveCommits", "liveEvents"}
AssertSteps == {"assertPr", "assertCommits", "assertEvents"}
Steps == GuardSteps \union LiveSteps \union AssertSteps
            \union {"query", "disable", "recheck", "enable"}

-----------------------------------------------------------------------------
(* What the three reads of a check look for. *)

FitLabels == ~draft /\ safe # "off" /\ breaking # "now"
FitPr == status = "open" /\ FitLabels

\* Mutant of OwnsHead: the authors of the commits are not looked at.
OwnsNewest(h) == head = h

\* renovate_owns_head: every commit is the bot's, and the newest is the expected one.
OwnsHead(h) == head = h /\ head \in BotHeads

\* The bot put safe-automerge there last, and nobody ever breaking-update.
FitEvents == safe = "bot" /\ breaking = "never"

\* Mutant of Trusts: only new commits are trusted.
TrustsPushes(e) == e.fit /\ e.actor = "bot" /\ e.sync

\* What the guard asks of the event itself.
Trusts(e) == e.fit /\ e.actor = "bot"

ForceRevoke == event.sync /\ event.actor # "bot"

-----------------------------------------------------------------------------
(* The run. *)

Init ==
    /\ status = "open" /\ head = FirstHead /\ draft = FALSE
    /\ safe = "off" /\ breaking = "never" /\ armed = FALSE
    /\ event = [sync |-> FALSE, actor |-> "bot", head |-> FirstHead, fit |-> FALSE]
    /\ queued = {event}
    /\ pc = "idle" /\ trusted = FALSE /\ seen = FirstHead /\ red = FALSE
    /\ unanswered = FALSE /\ acts = [a \in Actors |-> 0] /\ faults = 0

Go(step) == pc' = step /\ UNCHANGED red
End(failed) == pc' = "idle" /\ red' = failed

\* Disabling ends the revoke step well, and the enable step with exit 1.
Revoked == End(trusted)

Reads == UNCHANGED <<pr, armed, queued, unanswered, acts, faults>>

Start ==
    /\ pc = "idle" /\ queued # {}
    /\ event' \in queued /\ queued' = {} /\ pc' = "guardPr"
    /\ trusted' = Trusts(event') /\ red' = FALSE
    /\ UNCHANGED <<pr, armed, seen, unanswered, acts, faults>>

GuardPr ==
    /\ pc = "guardPr" /\ Go("guardCommits")
    /\ trusted' = (trusted /\ FitPr /\ head = event.head)
    /\ UNCHANGED <<event, seen>> /\ Reads

GuardCommits ==
    /\ pc = "guardCommits" /\ Go("guardEvents")
    /\ trusted' = (trusted /\ OwnsHead(event.head))
    /\ UNCHANGED <<event, seen>> /\ Reads

\* Mutant of NextStep: the conditions of the two steps are swapped.
NextStepSwapped(ok) ==
    IF ~ok THEN "assertPr" ELSE IF ForceRevoke THEN "query" ELSE "livePr"

\* Mutant of NextStep: what an untrusted event finds is always left to the live check.
NextStepLive(ok) == IF ok THEN "assertPr" ELSE "livePr"

\* The step that the output of the guard selects.
NextStep(ok) == IF ok THEN "assertPr" ELSE IF ForceRevoke THEN "query" ELSE "livePr"

GuardEvents ==
    /\ pc = "guardEvents"
    /\ trusted' = (trusted /\ FitEvents) /\ Go(NextStep(trusted'))
    /\ UNCHANGED <<event, seen>> /\ Reads

\* current_live_is_safe; the first check that does not hold leads to the revocation.
Check(step, holds, next) ==
    pc = step /\ Go(IF holds THEN next ELSE "query") /\ Reads

LivePr == Check("livePr", FitPr, "liveCommits") /\ seen' = head /\ UNCHANGED <<event, trusted>>
LiveCommits == Check("liveCommits", OwnsHead(seen), "liveEvents") /\ UNCHANGED run
LiveEvents ==
    /\ pc = "liveEvents"
    /\ IF FitEvents THEN End(FALSE) ELSE Go("query")
    /\ UNCHANGED run /\ Reads

\* assert_live_safe.
AssertPr == Check("assertPr", FitPr /\ head = event.head, "assertCommits") /\ UNCHANGED run
AssertCommits == Check("assertCommits", OwnsHead(event.head), "assertEvents") /\ UNCHANGED run
AssertEvents == Check("assertEvents", FitEvents, "enable") /\ UNCHANGED run

Off == armed' = FALSE /\ unanswered' = FALSE

\* Mutant of Query: the run waits for auto-merge to be off.
QueryWaits == pc = "query" /\ ~armed /\ Revoked /\ UNCHANGED run /\ Reads

Query ==
    /\ pc = "query" /\ (IF armed THEN Go("disable") ELSE Revoked)
    /\ UNCHANGED run /\ Reads

\* gh fails if there is nothing to disable any more.
Disable ==
    /\ pc = "disable" /\ (IF armed THEN Off /\ Revoked ELSE Go("recheck") /\ UNCHANGED <<armed, unanswered>>)
    /\ UNCHANGED <<pr, queued, run, acts, faults>>

Recheck ==
    /\ pc = "recheck" /\ (IF armed THEN End(TRUE) ELSE Revoked)
    /\ UNCHANGED run /\ Reads

\* Mutant of Matches: without --match-head-commit.
MatchesAny == status = "open"

\* GitHub enables auto-merge for the expected head only.
Matches == status = "open" /\ head = event.head

Enable ==
    /\ pc = "enable" /\ armed' = (armed \/ Matches) /\ End(~Matches)
    /\ UNCHANGED <<pr, queued, run, unanswered, acts, faults>>

RunStep ==
    \/ GuardPr \/ GuardCommits \/ GuardEvents \/ LivePr \/ LiveCommits \/ LiveEvents
    \/ AssertPr \/ AssertCommits \/ AssertEvents \/ Query \/ Disable \/ Recheck \/ Enable

-----------------------------------------------------------------------------
(* Failures and cancellation. *)

Fault == faults < MaxFaults /\ faults' = faults + 1

\* A call fails; a write may have been applied all the same.
Lost ==
    \/ UNCHANGED <<armed, unanswered>>
    \/ pc = "disable" /\ Off
    \/ pc = "enable" /\ armed' = (armed \/ Matches) /\ UNCHANGED unanswered

CallFails ==
    /\ Fault /\ pc # "idle" /\ Lost
    /\ \/ pc \in {"guardPr", "guardCommits"} /\ trusted' = FALSE
          /\ Go(IF pc = "guardPr" THEN "guardCommits" ELSE "guardEvents")
       \/ pc = "guardEvents" /\ trusted' = FALSE /\ Go(NextStep(FALSE))
       \/ pc \in LiveSteps \union AssertSteps /\ Go("query") /\ UNCHANGED trusted
       \/ pc = "disable" /\ Go("recheck") /\ UNCHANGED trusted
       \/ pc \in {"query", "recheck", "enable"} /\ End(TRUE) /\ UNCHANGED trusted
    /\ UNCHANGED <<pr, queued, event, seen, acts>>

\* The runner is lost.
Kill ==
    /\ Fault /\ pc # "idle" /\ Lost /\ End(TRUE)
    /\ UNCHANGED <<pr, queued, run, acts>>

\* cancel-in-progress: a later event waits.
Cancel ==
    /\ pc # "idle" /\ queued # {} /\ Lost /\ End(FALSE)
    /\ UNCHANGED <<pr, queued, run, acts, faults>>

-----------------------------------------------------------------------------
(* The pull request. *)

\* Mutant of Queue: an event that finds a run in progress is dropped.
QueueUnlessRunning(e) == queued' = IF pc = "idle" THEN {e} ELSE queued

\* A later event replaces the one that waits.
Queue(e) == queued' = {e}

Act(a) ==
    /\ acts[a] < MaxActs[a] /\ acts' = [acts EXCEPT ![a] = @ + 1]
    /\ status # "merged" /\ UNCHANGED <<run, pc, red, faults>>
Notify(a, isPush) ==
    Queue([sync |-> isPush, actor |-> a, head |-> head', fit |-> FitLabels'])

\* Auto-merge survives a push of anybody who may write.
Push(a, h) ==
    /\ Act(a) /\ status = "open" /\ h # head /\ (a = "bot" => h \in BotHeads)
    /\ head' = h /\ unanswered' = (unanswered \/ (armed /\ a # "bot"))
    /\ UNCHANGED <<status, draft, safe, breaking, armed>> /\ Notify(a, TRUE)

Label(a) ==
    /\ Act(a)
    /\ \/ safe' = (IF safe = "off" THEN a ELSE "off") /\ UNCHANGED <<breaking, draft>>
       \/ breaking' = (IF breaking = "now" THEN "removed" ELSE "now") /\ UNCHANGED <<safe, draft>>
       \/ draft' = ~draft /\ UNCHANGED <<safe, breaking>>
    /\ UNCHANGED <<status, head, armed, unanswered>> /\ Notify(a, FALSE)

\* The title, the text or another label is edited.
Touch(a) == Act(a) /\ UNCHANGED <<pr, armed, unanswered>> /\ Notify(a, FALSE)

\* Closing is no event of this workflow; GitHub drops auto-merge.
Close(a) ==
    /\ Act(a) /\ status = "open" /\ status' = "closed" /\ Off
    /\ UNCHANGED <<head, draft, safe, breaking, queued>>

Reopen(a) ==
    /\ Act(a) /\ status = "closed" /\ status' = "open"
    /\ UNCHANGED <<head, draft, safe, breaking, armed, unanswered>> /\ Notify(a, FALSE)

\* The required checks of the head passed.
Merge ==
    /\ armed /\ status' = "merged" /\ Off
    /\ UNCHANGED <<head, draft, safe, breaking, queued, run, pc, red, acts, faults>>

Next ==
    \/ Start \/ RunStep \/ CallFails \/ Kill \/ Cancel \/ Merge
    \/ \E a \in Actors :
          Label(a) \/ Touch(a) \/ Close(a) \/ Reopen(a) \/ \E h \in Heads : Push(a, h)

Spec == Init /\ [][Next]_vars

\* GitHub starts the waiting event, and a job runs until it ends.
FairSpec == Spec /\ WF_vars(Start) /\ WF_vars(RunStep)

-----------------------------------------------------------------------------
(* Properties. *)

\* Every variable keeps its type; the enable step is only reached trusted, the live
\* check only untrusted, and only an open pull request has auto-merge.
TypeOK ==
    /\ status \in {"open", "closed", "merged"} /\ head \in Heads /\ draft \in BOOLEAN
    /\ safe \in {"off"} \union Actors /\ breaking \in {"never", "now", "removed"}
    /\ armed \in BOOLEAN /\ queued \in SUBSET Events /\ event \in Events
    /\ pc \in {"idle"} \union Steps /\ trusted \in BOOLEAN /\ seen \in Heads
    /\ red \in BOOLEAN /\ unanswered \in BOOLEAN
    /\ acts \in [Actors -> Nat] /\ faults \in Nat
    /\ pc \in AssertSteps \union {"enable"} => trusted
    /\ pc \in LiveSteps => ~trusted
    /\ armed => status = "open"

LiveSafe == FitPr /\ head \in BotHeads /\ FitEvents
Quiet == pc = "idle" /\ queued = {}

\* "A later event that makes a Renovate pull request unsafe revokes auto-merge": once
\* the runs are through, auto-merge is off, or the pull request is safe, or the last
\* run failed - whatever was cancelled, replaced or changed between two reads.
UnsafeIsRevoked == Quiet /\ armed => LiveSafe \/ red

\* The same as a promise: the runs get through.
RevokedInTime == armed /\ ~LiveSafe ~> ~armed \/ LiveSafe \/ red

\* "A bot event cannot rehabilitate a head whose history contains a human-authored
\* commit": auto-merge is only ever switched on for the event's head, all of it the bot's.
EnabledForExactHead ==
    [][~armed /\ armed' => event.actor = "bot" /\ head = event.head /\ head \in BotHeads]_vars

\* Without people and failures the bot's pull request gets its auto-merge, in
\* whichever order it pushes and labels.
BotIsEnough ==
    Quiet /\ LiveSafe /\ acts["person"] = 0 /\ faults = 0 => armed

\* The run of a synchronize event of somebody other than the bot revokes whatever its
\* checks would say, so even on a safe pull request: if it was the last run, auto-merge
\* is off now, or the run failed.
ForcedRunRevokes == Quiet /\ ForceRevoke => ~armed \/ red

\* "A synchronize event triggered by any actor other than renovate[bot] revokes
\* auto-merge unconditionally": once the runs are through, auto-merge was off at some
\* time since a person pushed.
PersonPushRevokes == Quiet => ~unanswered
=============================================================================
