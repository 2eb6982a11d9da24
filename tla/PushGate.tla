------------------------------ MODULE PushGate ------------------------------
(***************************************************************************)
(* What the local gate promises to everybody who reads a feature branch:   *)
(* whoever pushes through the hook pushes a commit on which, merged with a *)
(* commit of the base branch no older than the push, all checks have       *)
(* passed, and drops nothing that was there.  Evidence files, fingerprints *)
(* and the checkout are not part of the promise, nor is who checked what.  *)
(***************************************************************************)
EXTENDS Naturals

CONSTANTS Hooks, Branches, Commits, Ancestor, None

VARIABLES
    develop,   \* the commits of the base branch, by number
    remote,    \* the tips of the feature branches
    passed,    \* pairs of base and commit that all checks have passed on
    pushing,   \* what each hook is asked to let through, or None
    others     \* pushes by anybody else

vars == <<develop, remote, passed, pushing, others>>

Init ==
    /\ develop = 0 /\ remote = [b \in Branches |-> None]
    /\ passed = {} /\ pushing = [h \in Hooks |-> None] /\ others = 0

Check ==
    /\ \E base \in 0 .. develop, c \in Commits : passed' = passed \union {<<base, c>>}
    /\ UNCHANGED <<develop, remote, pushing, others>>

Ask(h) ==
    /\ pushing[h] = None
    /\ \E b, d \in Branches, c \in Commits :
          pushing' = [pushing EXCEPT ![h] = [local |-> b, remote |-> d, oid |-> c,
                                             old |-> remote[d], since |-> develop]]
    /\ UNCHANGED <<develop, remote, passed, others>>

Done(h) == pushing[h] # None /\ pushing' = [pushing EXCEPT ![h] = None]

\* What the hook has seen of the remote may be out of date; then the server refuses.
Accept(h) ==
    /\ Done(h)
    /\ LET u == pushing[h] IN
       /\ \E base \in u.since .. develop : <<base, u.oid>> \in passed
       /\ u.old # None => <<u.old, u.oid>> \in Ancestor
       /\ u.remote = u.local
       /\ remote' = IF remote[u.remote] = u.old
                    THEN [remote EXCEPT ![u.remote] = u.oid] ELSE remote
    /\ UNCHANGED <<develop, passed, others>>

Refuse(h) == Done(h) /\ UNCHANGED <<develop, remote, passed, others>>

Advance == develop' = develop + 1 /\ UNCHANGED <<remote, passed, pushing, others>>

OtherPush ==
    /\ \E b \in Branches, c \in Commits : remote' = [remote EXCEPT ![b] = c]
    /\ others' = others + 1
    /\ UNCHANGED <<develop, passed, pushing>>

Next ==
    \/ Check \/ Advance \/ OtherPush
    \/ \E h \in Hooks : Ask(h) \/ Accept(h) \/ Refuse(h)

Spec == Init /\ [][Next]_vars
=============================================================================
