-------------------------------- MODULE WgLegal --------------------------------
(***************************************************************************)
(* NewtWg under the discipline its functions take for granted and do not   *)
(* check: one caller, newt_wg_init only when lwIP does not hold the        *)
(* interface, newt_wg_start only on an initialised tunnel that has no poll *)
(* task, newt_wg_stop only when the context has a netif.  Newt shows which *)
(* of these the callers in newt.c keep.                                    *)
(***************************************************************************)
EXTENDS NewtWg

ASSUME OneCaller == \A t, u \in Tasks : t = u

vars == wgVars

CallerPCs == {"idle", "connect", "spawn", "stop", "take", "delsem", "clear",
              "disc", "down"}

TypeOK == WgTypeOK /\ pc \in [Tasks -> CallerPCs]

Init == WgInitState /\ pc = [t \in Tasks |-> "idle"]

MayInit(t) == pc[t] = "idle" /\ ~added /\ poller = NULL

CallInit(t) ==
    /\ MayInit(t)
    /\ WgInit(t, "idle") \/ WgInitFails(t, "idle")

CallStart(t) ==
    /\ pc[t] = "idle"
    /\ state \in {"RESOLVING", "HANDSHAKING"}
    /\ poller = NULL
    /\ tries' = [tries EXCEPT ![t] = 0]
    /\ Goto(t, "connect")
    /\ UNCHANGED <<tunnel, pollerVars, ppc, expired, fault>>

Connect(t) ==
    /\ pc[t] = "connect"
    /\ \/ WgConnects(t, "spawn")
       \/ WgConnectRetries(t, "connect", "idle")
       \/ WgConnectFails(t, "idle")

Spawn(t) ==
    /\ pc[t] = "spawn"
    /\ WgSpawnsPoller(t, "idle") \/ WgSpawnFails(t, "idle")

CallStop(t) ==
    /\ pc[t] = "idle"
    /\ ctxNetif
    /\ StopSignals(t, "take", "delsem")

Take(t) ==
    /\ pc[t] = "take"
    /\ StopTakes(t, "delsem") \/ StopTakeExpires(t, "delsem")

DeleteSem(t) == pc[t] = "delsem" /\ StopDeletesSem(t, "take", "clear")

ClearFlag(t) == pc[t] = "clear" /\ StopClearsFlag(t, "disc")

Disconnect(t) ==
    pc[t] = "disc" /\ (StopDisconnects(t, "down") \/ StopCallFails(t, "down"))

ReportDown(t) == pc[t] = "down" /\ StopReportsDown(t, "idle")

CallerStep(t) ==
    CallInit(t) \/ CallStart(t) \/ Connect(t) \/ Spawn(t) \/ CallStop(t)
    \/ Take(t) \/ DeleteSem(t) \/ ClearFlag(t) \/ Disconnect(t) \/ ReportDown(t)

Faulted == fault # "none" /\ UNCHANGED vars

Next ==
    \/ /\ fault = "none"
       /\ \/ \E t \in Tasks : CallerStep(t)
          \/ \E p \in Pollers : PollerStep(p)
    \/ Faulted

Spec == Init /\ [][Next]_vars

-----------------------------------------------------------------------------
(* Properties.                                                             *)

\* A caller that keeps the discipline never meets LWIP_ASSERT, a second
\* netif_add or a deleted semaphore; only a take that gave up after 3000 ms or a
\* disconnect that could not be called, whose results newt_wg_stop ignores
\* (newt_wg.c:266, 275), open the way there.
LegalUseIsSafe == ~expired => fault = "none"

\* Once newt_wg_stop has its token the poll task is gone, so the semaphore,
\* the flag and the netif are its own to take down (newt_wg.c:270-275).
StopJoinsPoller ==
    ~expired =>
        /\ \A p, q \in AlivePollers : p = q
        /\ \A t \in Tasks :
              pc[t] \in {"delsem", "clear", "disc", "down"} => AlivePollers = {}

\* A poll task that saw the handshake while newt_wg_stop was running never
\* brings a tunnel that was taken down back to UP.
NoLateUp ==
    [][state' = "UP" /\ state # "UP" /\ ~expired => state = "HANDSHAKING"]_vars
=============================================================================
