-------------------------------- MODULE NewtWg --------------------------------
(***************************************************************************)
(* The tunnel control of src/src/newt_wg.c and the part of esp_wireguard.c *)
(* it drives: the context's netif pointer, the poll task that waits for    *)
(* the handshake, and the steps of newt_wg_init, newt_wg_start and         *)
(* newt_wg_stop.  The steps are operators over the calling task t and the  *)
(* labels it goes on to; WgLegal and Newt put them into specifications.    *)
(*                                                                         *)
(* A call marshalled to the lwIP thread (wg_call_on_tcpip) is one step:    *)
(* the caller waits for it and lwIP runs one such call at a time.          *)
(***************************************************************************)
EXTENDS Integers, FiniteSets

CONSTANTS
    Tasks,          \* tasks that call newt_wg_*
    Pollers,        \* identities xTaskCreate may give to a poll task
    NULL,
    MaxRetry,       \* retries of esp_wireguard_connect (10 in the code)
    TakeMayExpire,  \* may the poller miss the 3000 ms of newt_wg_stop?
    CallMayFail     \* may memory for a call on the lwIP thread be missing?

ASSUME NullAssumption == NULL \notin Pollers
ASSUME RetryAssumption == MaxRetry \in Nat
ASSUME ExpireAssumption == TakeMayExpire \in BOOLEAN /\ CallMayFail \in BOOLEAN

VARIABLES
    state,      \* s_state
    ctxNetif,   \* s_ctx.netif # NULL
    added,      \* wg_netif_struct is in lwIP's list of interfaces
    poller,     \* s_poller
    pollerDone, \* s_poller_done: "null", "empty" or "given"
    pollerStop, \* s_poller_stop_requested
    ppc,        \* where each poll task is
    tries,      \* `attempts' of newt_wg_start, per calling task
    pc,         \* where each calling task is
    expired,    \* history: newt_wg_stop went on after a take that gave up, or
                \* after a disconnect that could not be called
    fault       \* "none", or how the program left defined behaviour

tunnel == <<state, ctxNetif, added>>
pollerVars == <<poller, pollerDone, pollerStop>>
wgVars == <<state, ctxNetif, added, poller, pollerDone, pollerStop, ppc,
            tries, pc, expired, fault>>

States == {"DOWN", "RESOLVING", "HANDSHAKING", "UP"}
PollerPCs == {"dead", "top", "delay", "poll", "up"}
\* "netif": LWIP_ASSERT("netif != NULL"); "readd": lwIP's own assertion on
\* adding an interface twice; "sem": a NULL or deleted semaphore is used; "ping"
\* and "queue": so is a deleted ping session, or a deleted queue (Newt only).
Faults == {"none", "netif", "readd", "sem", "ping", "queue"}
AlivePollers == {p \in Pollers : ppc[p] # "dead"}

WgTypeOK ==
    /\ state \in States
    /\ ctxNetif \in BOOLEAN
    /\ added \in BOOLEAN
    /\ poller \in Pollers \cup {NULL}
    /\ pollerDone \in {"null", "empty", "given"}
    /\ pollerStop \in BOOLEAN
    /\ ppc \in [Pollers -> PollerPCs]
    /\ tries \in [Tasks -> 0..MaxRetry]
    /\ expired \in BOOLEAN
    /\ fault \in Faults

WgInitState ==
    /\ state = "DOWN"
    /\ ctxNetif = FALSE
    /\ added = FALSE
    /\ poller = NULL
    /\ pollerDone = "null"
    /\ pollerStop = FALSE
    /\ ppc = [p \in Pollers |-> "dead"]
    /\ tries = [t \in Tasks |-> 0]
    /\ expired = FALSE
    /\ fault = "none"

Goto(t, label) == pc' = [pc EXCEPT ![t] = label]

-----------------------------------------------------------------------------
(* newt_wg_init                                                            *)

\* esp_wireguard_init forgets the context's netif whether or not it is still
\* registered with lwIP.
WgInit(t, ok) ==
    /\ state' = "RESOLVING"
    /\ ctxNetif' = FALSE
    /\ tries' = [tries EXCEPT ![t] = 0]
    /\ Goto(t, ok)
    /\ UNCHANGED <<added, pollerVars, ppc, expired, fault>>

\* A key does not encode, or DNS or the platform refuses, before the context
\* is touched.
WgInitFails(t, err) ==
    /\ Goto(t, err)
    /\ UNCHANGED <<tunnel, pollerVars, ppc, tries, expired, fault>>

-----------------------------------------------------------------------------
(* newt_wg_start                                                           *)

\* esp_wireguard_connect up to its answer: the netif is created when the
\* context has none.  netif_add of an interface lwIP still has asserts.
CreatesNetif ==
    /\ ctxNetif' = TRUE
    /\ added' = TRUE
    /\ fault' = IF ~ctxNetif /\ added THEN "readd" ELSE fault
    /\ UNCHANGED state

WgConnects(t, ok) ==
    /\ CreatesNetif
    /\ Goto(t, ok)
    /\ UNCHANGED <<pollerVars, ppc, tries, expired>>

\* ESP_ERR_RETRY while DNS is in progress: at most MaxRetry more attempts.
WgConnectRetries(t, again, err) ==
    /\ CreatesNetif
    /\ IF tries[t] < MaxRetry
       THEN tries' = [tries EXCEPT ![t] = @ + 1] /\ Goto(t, again)
       ELSE Goto(t, err) /\ UNCHANGED tries
    /\ UNCHANGED <<pollerVars, ppc, expired>>

\* Any other failure, before or after the netif exists.
WgConnectFails(t, err) ==
    /\ CreatesNetif \/ (~ctxNetif /\ UNCHANGED <<tunnel, fault>>)
    /\ Goto(t, err)
    /\ UNCHANGED <<pollerVars, ppc, tries, expired>>

\* Faulty variant: the state is not moved on before the poll task runs.
StillResolving(t) == UNCHANGED <<tunnel, tries, expired, fault>>

\* The rest of newt_wg_start, with a poll task or without.
Handshaking(t) ==
    /\ state' = "HANDSHAKING"
    /\ UNCHANGED <<ctxNetif, added, tries, expired, fault>>

\* Faulty variant: the semaphore a stop deleted is not created again.
WgSpawnsWithoutSem(t, ok) ==
    /\ Handshaking(t)
    /\ pollerStop' = FALSE
    /\ \E p \in Pollers \ AlivePollers :
          /\ poller' = p
          /\ ppc' = [ppc EXCEPT ![p] = "top"]
    /\ Goto(t, ok)
    /\ UNCHANGED pollerDone

WgSpawnsPoller(t, ok) ==
    /\ Handshaking(t)
    /\ pollerDone' = IF pollerDone = "null" THEN "empty" ELSE pollerDone
    /\ pollerStop' = FALSE
    /\ \E p \in Pollers \ AlivePollers :
          /\ poller' = p
          /\ ppc' = [ppc EXCEPT ![p] = "top"]
    /\ Goto(t, ok)

WgSpawnFails(t, err) ==
    /\ Handshaking(t)
    /\ \/ /\ pollerDone = "null"                 \* no semaphore
          /\ UNCHANGED pollerVars
       \/ /\ pollerDone' = IF pollerDone = "null" THEN "empty" ELSE pollerDone
          /\ pollerStop' = FALSE
          /\ poller' = NULL                      \* no task
    /\ UNCHANGED ppc
    /\ Goto(t, err)

-----------------------------------------------------------------------------
(* newt_wg_stop                                                            *)

StopSignals(t, take, skip) ==
    /\ pollerStop' = (pollerStop \/ poller # NULL)
    /\ Goto(t, IF poller = NULL THEN skip
               ELSE IF pollerDone = "null" THEN skip ELSE take)
    /\ poller' = IF pollerDone = "null" THEN NULL ELSE poller
    /\ UNCHANGED <<tunnel, pollerDone, ppc, tries, expired, fault>>

\* Faulty variant: the token is not waited for.
StopTakesNoWait(t, next) ==
    /\ poller' = NULL
    /\ Goto(t, next)
    /\ UNCHANGED <<tunnel, pollerDone, pollerStop, ppc, tries, expired, fault>>

StopTakes(t, next) ==
    /\ pollerDone = "given"
    /\ pollerDone' = "empty"
    /\ poller' = NULL
    /\ Goto(t, next)
    /\ UNCHANGED <<tunnel, pollerStop, ppc, tries, expired, fault>>

\* Faulty variant: the take waits for ever.
StopTakeNeverExpires(t, next) ==
    /\ FALSE
    /\ Goto(t, next)
    /\ UNCHANGED <<tunnel, pollerVars, ppc, tries, expired, fault>>

StopTakeExpires(t, next) ==
    /\ TakeMayExpire
    /\ pollerDone # "given"
    /\ expired' = TRUE
    /\ poller' = NULL
    /\ Goto(t, next)
    /\ UNCHANGED <<tunnel, pollerDone, pollerStop, ppc, tries, fault>>

\* vSemaphoreDelete under a task that waits on it is undefined.
StopDeletesSem(t, take, next) ==
    /\ pollerDone' = "null"
    /\ fault' = IF \E u \in Tasks \ {t} : pc[u] = take THEN "sem" ELSE fault
    /\ Goto(t, next)
    /\ UNCHANGED <<tunnel, poller, pollerStop, ppc, tries, expired>>

StopClearsFlag(t, next) ==
    /\ pollerStop' = FALSE
    /\ Goto(t, next)
    /\ UNCHANGED <<tunnel, poller, pollerDone, ppc, tries, expired, fault>>

\* esp_wireguard_disconnect passes the context's netif on unchecked; its
\* first lookup of the peer asserts that it is not NULL.
StopDisconnects(t, next) ==
    /\ ctxNetif' = FALSE
    /\ added' = (added /\ ~ctxNetif)
    /\ fault' = IF ctxNetif THEN fault ELSE "netif"
    /\ Goto(t, next)
    /\ UNCHANGED <<state, pollerVars, ppc, tries, expired>>

\* wg_call_on_tcpip gets no semaphore or no message; its answer is returned
\* only after the state says DOWN, and nobody looks at it.
StopCallFails(t, next) ==
    /\ CallMayFail
    /\ expired' = TRUE
    /\ Goto(t, next)
    /\ UNCHANGED <<tunnel, pollerVars, ppc, tries, fault>>

\* Faulty variant: the state keeps what it said.
StopReportsNothing(t, next) ==
    /\ Goto(t, next)
    /\ UNCHANGED <<tunnel, pollerVars, ppc, tries, expired, fault>>

\* The state follows once the lwIP thread has answered: until then other tasks
\* still read the old one.
StopReportsDown(t, next) ==
    /\ state' = "DOWN"
    /\ Goto(t, next)
    /\ UNCHANGED <<ctxNetif, added, pollerVars, ppc, tries, expired, fault>>

-----------------------------------------------------------------------------
(* wg_poll_task                                                            *)

\* xSemaphoreGive(s_poller_done); vTaskDelete(NULL)
PollerGives(p) ==
    /\ pollerDone' = IF pollerDone = "null" THEN "null" ELSE "given"
    /\ fault' = IF pollerDone = "null" THEN "sem" ELSE fault
    /\ ppc' = [ppc EXCEPT ![p] = "dead"]

PollerStops(p) ==
    /\ ppc[p] \in {"top", "delay"}
    /\ pollerStop
    /\ PollerGives(p)
    /\ UNCHANGED <<tunnel, poller, pollerStop, tries, pc, expired>>

PollerGoesOn(p) ==
    /\ ppc[p] \in {"top", "delay"}
    /\ ~pollerStop
    /\ ppc' = [ppc EXCEPT ![p] = IF @ = "top" THEN "delay" ELSE "poll"]
    /\ UNCHANGED <<tunnel, pollerVars, tries, pc, expired, fault>>

\* esp_wireguard_peer_is_up asserts like the disconnect; otherwise the peer
\* has a session or has none yet.  A call that fails is no answer either.
PollerAsks(p) ==
    /\ ppc[p] = "poll"
    /\ \/ /\ fault' = IF ctxNetif THEN fault ELSE "netif"
          /\ \E answer \in {"top", "up"} : ppc' = [ppc EXCEPT ![p] = answer]
       \/ /\ CallMayFail
          /\ ppc' = [ppc EXCEPT ![p] = "top"]
          /\ UNCHANGED fault
    /\ UNCHANGED <<tunnel, pollerVars, tries, pc, expired>>

PollerReportsUp(p) ==
    /\ ppc[p] = "up"
    /\ state' = "UP"
    /\ PollerGives(p)
    /\ UNCHANGED <<ctxNetif, added, poller, pollerStop, tries, pc, expired>>

PollerStep(p) ==
    \/ PollerStops(p)
    \/ PollerGoesOn(p)
    \/ PollerAsks(p)
    \/ PollerReportsUp(p)
=============================================================================
