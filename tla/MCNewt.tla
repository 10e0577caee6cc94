-------------------------------- MODULE MCNewt --------------------------------
(* Instance of Newt for TLC: two reconnect tasks and two poll tasks beside  *)
(* the supervisor and the application.                                       *)
EXTENDS Newt, TLC

CONSTANTS r1, r2, p1, p2

MCReconns == {r1, r2}
MCPollers == {p1, p2}
MCOneReconn == {r1}
MCOnePoller == {p1}
MCTasks == {Sup, App} \cup MCReconns
MCTasksOne == {Sup, App} \cup MCOneReconn

\* The safety properties speak of what happens before an overlap or an expired
\* take; both are for ever, so that such a state needs no successors.
UndisturbedSoFar == Undisturbed

Plain(session) == IF session = "late" THEN "live" ELSE session

\* No step reads the history variables or `wiped', or tells a ping session made
\* late from another, and nothing follows a fault.
Present ==
    IF fault # "none" THEN <<fault>>
    ELSE <<state, ctxNetif, added, poller, pollerDone, pollerStop, ppc, tries,
           pc, evt, onOld, ws, pingTask, Plain(ping), Plain(toStart), sup, n, inits>>

Symmetry == Permutations(MCReconns) \cup Permutations(MCPollers)
=============================================================================
