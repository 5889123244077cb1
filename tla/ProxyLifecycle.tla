--------------------------- MODULE ProxyLifecycle ---------------------------
(***************************************************************************)
(* Starting and stopping the proxy with the Orchid engine: ProxyApplication*)
(* (start, stop, the bound service, the keep-alive alarm) and ProxyManager *)
(* (the TorClient and its SOCKS listener).                                 *)
(*                                                                         *)
(* Everything the user and Android call runs on the main thread, one call  *)
(* at a time.  Stopping is a task on the Background pool, and so is the    *)
(* port guard, which itself calls proxyStop and proxyStart.  ProxyManager  *)
(* has no lock: startRouter reads the field client again and again while a *)
(* stop task may clear it.  An exception on the main thread ends the       *)
(* process; one on the pool ends the task.                                 *)
(***************************************************************************)
EXTENDS Naturals

CONSTANTS
    Clients,    \* TorClient objects; the object of a dead one may be used again
    None,       \* null
    MaxStops    \* bound on the stop tasks that are queued or running

ASSUME NoneAssumption == None \notin Clients
ASSUME StopsAssumption == MaxStops \in Nat \ {0}

VARIABLES
    active,      \* ProxyApplication.active
    connection,  \* mConnection: "null", "new", or "service" once it has had the service
    bindPending, \* a bindService whose onServiceConnected is to come
    client,      \* ProxyManager.client
    callback,    \* ProxyManager.callback is not null
    starting,    \* ProxyManager.starting
    phase,       \* TorClient.isStarted, isStopped
    listening,   \* clients with an open server socket
    pc,          \* where in startRouter the main thread and the port guard are
    savedCallback, \* the port guard's cb
    queuedStops, \* stop tasks that have not begun
    midStops,    \* stop tasks that have done client.stop()
    lateStops,   \* ... and client = null
    guard,       \* a portGuard task is queued
    raced        \* history: a start and a stop have overlapped

appVars     == <<active, connection, bindPending>>
managerVars == <<client, callback, starting>>
clientVars  == <<phase, listening>>
poolVars    == <<queuedStops, midStops, lateStops, guard>>
startVars   == <<pc, savedCallback>>
vars        == <<appVars, managerVars, clientVars, poolVars, startVars, raced>>

Starters == {"main", "guard"}

\* The types of the variables; only a TorClient that is not stopped listens.
TypeOK ==
    /\ active \in BOOLEAN /\ bindPending \in BOOLEAN
    /\ connection \in {"null", "new", "service"}
    /\ client \in Clients \union {None}
    /\ callback \in BOOLEAN /\ starting \in BOOLEAN /\ savedCallback \in BOOLEAN
    /\ phase \in [Clients -> {"free", "new", "started", "stopped"}]
    /\ listening \subseteq {c \in Clients : phase[c] \in {"new", "started"}}
    /\ pc \in [Starters -> {"idle", "proxyStart", "check", "set", "construct", "listen", "start"}]
    /\ queuedStops \in 0..MaxStops /\ midStops \in 0..MaxStops /\ lateStops \in 0..MaxStops
    /\ guard \in BOOLEAN /\ raced \in BOOLEAN

Init ==
    /\ active = FALSE /\ connection = "null" /\ bindPending = FALSE
    /\ client = None /\ callback = FALSE /\ starting = FALSE
    /\ phase = [c \in Clients |-> "free"]
    /\ listening = {}
    /\ pc = [t \in Starters |-> "idle"] /\ savedCallback = FALSE
    /\ queuedStops = 0 /\ midStops = 0 /\ lateStops = 0 /\ guard = FALSE
    /\ raced = FALSE

MainIdle == pc["main"] = "idle"
NoStops  == queuedStops + midStops + lateStops = 0
Starting == \E t \in Starters : pc[t] # "idle"

Goto(t, label) == pc' = [pc EXCEPT ![t] = label]

\* stopRouter, n times: the stop itself is a task of the pool.
SubmitStops(n) ==
    /\ queuedStops + midStops + lateStops + n <= MaxStops
    /\ queuedStops' = queuedStops + n

-----------------------------------------------------------------------------
(* ProxyApplication, on the main thread. *)

\* startProxyService: by the switch, at boot, or by the switch following a status.
StartProxyService ==
    /\ MainIdle
    /\ active' = TRUE
    /\ connection' = IF connection = "null" THEN "new" ELSE connection
    /\ bindPending' = TRUE
    /\ callback' = TRUE
    /\ Goto("main", "check")
    /\ UNCHANGED <<client, starting, clientVars, poolVars, savedCallback, raced>>

\* onServiceConnected: the service starts the proxy a second time.
OnServiceConnected ==
    /\ MainIdle /\ bindPending
    /\ bindPending' = FALSE
    /\ connection' = "service"
    /\ callback' = TRUE
    /\ Goto("main", "check")
    /\ UNCHANGED <<active, client, starting, clientVars, poolVars, savedCallback, raced>>

\* stopProxyService: one stop from the service that is shut down and unbound, one
\* more if the proxy was active.  Without a service the binding goes on.
StopProxyService ==
    LET service == connection = "service" IN
    /\ MainIdle /\ connection # "null"
    /\ SubmitStops((IF service THEN 1 ELSE 0) + (IF active THEN 1 ELSE 0))
    /\ active' = FALSE
    /\ bindPending' = (bindPending /\ ~service)
    /\ raced' = (raced \/ Starting \/ guard \/ (bindPending /\ ~service))
    /\ UNCHANGED <<connection, managerVars, clientVars, midStops, lateStops, guard, startVars>>

\* The alarm: keepAlive of the application and of the manager.
KeepAlive ==
    /\ MainIdle /\ active /\ client # None
    /\ pc["guard"] = "idle"
    /\ guard' = TRUE
    /\ UNCHANGED <<appVars, managerVars, clientVars, queuedStops, midStops, lateStops, startVars, raced>>

-----------------------------------------------------------------------------
(* ProxyManager. *)

\* The process ends and is started anew.
ProcessDies ==
    /\ active' = FALSE /\ connection' = "null" /\ bindPending' = FALSE
    /\ client' = None /\ callback' = FALSE /\ starting' = FALSE
    /\ phase' = [c \in Clients |-> "free"]
    /\ listening' = {}
    /\ pc' = [t \in Starters |-> "idle"] /\ savedCallback' = FALSE
    /\ queuedStops' = 0 /\ midStops' = 0 /\ lateStops' = 0 /\ guard' = FALSE
    /\ raced' = FALSE

\* An exception: on the main thread it ends the process, on the pool the task.
Throws(t) ==
    \/ t = "main" /\ ProcessDies
    \/ t = "guard" /\ Goto(t, "idle")
       /\ UNCHANGED <<appVars, managerVars, clientVars, poolVars, savedCallback, raced>>

\* History: thread t starts while another start or a stop is under way.
Overlaps(t) == raced \/ ~NoStops \/ \E u \in Starters \ {t} : pc[u] # "idle"

\* A start that does not look whether there is a client.
CheckMutant(t) ==
    /\ pc[t] = "check"
    /\ Goto(t, IF starting THEN "idle" ELSE "set")
    /\ raced' = Overlaps(t)
    /\ UNCHANGED <<appVars, managerVars, clientVars, poolVars, savedCallback>>

\* startRouter returns when there is a client or a start is pending.
Check(t) ==
    /\ pc[t] = "check"
    /\ Goto(t, IF client # None \/ starting THEN "idle" ELSE "set")
    /\ raced' = Overlaps(t)
    /\ UNCHANGED <<appVars, managerVars, clientVars, poolVars, savedCallback>>

\* starting.set(true).
SetStarting(t) ==
    /\ pc[t] = "set"
    /\ starting' = TRUE
    /\ Goto(t, "construct")
    /\ UNCHANGED <<appVars, client, callback, clientVars, poolVars, savedCallback, raced>>

\* client = new TorClient(), with its initialization listener.
Construct(t) ==
    /\ pc[t] = "construct"
    /\ \E c \in Clients :
        /\ c # client /\ phase[c] \in {"free", "stopped"}
        /\ phase' = [phase EXCEPT ![c] = "new"]
        /\ client' = c
    /\ Goto(t, "listen")
    /\ UNCHANGED <<appVars, callback, starting, listening, poolVars, savedCallback, raced>>

\* client.enableSocksListener(port): fails on null, on a client that was stopped,
\* and when another client, or another program, has the port.
EnableSocksListener(t) ==
    /\ pc[t] = "listen"
    /\ \/ Throws(t)
       \/ /\ client # None /\ phase[client] \in {"new", "started"} /\ listening \subseteq {client}
          /\ listening' = {client}
          /\ Goto(t, "start")
          /\ UNCHANGED <<appVars, managerVars, phase, poolVars, savedCallback, raced>>

\* client.start(): fails on null and on a client that was stopped.
Start(t) ==
    /\ pc[t] = "start"
    /\ IF client = None \/ phase[client] = "stopped"
       THEN Throws(t)
       ELSE /\ phase' = [phase EXCEPT ![client] = "started"]
            /\ Goto(t, "idle")
            /\ UNCHANGED <<appVars, managerVars, listening, poolVars, savedCallback, raced>>

\* initializationCompleted, possibly of a client that was stopped meanwhile.
InitializationCompleted(c) ==
    /\ phase[c] \in {"started", "stopped"}
    /\ starting' = FALSE
    /\ UNCHANGED <<appVars, client, callback, clientVars, poolVars, startVars, raced>>

\* The server socket fails.
ListenerDies(c) ==
    /\ c \in listening
    /\ listening' = listening \ {c}
    /\ UNCHANGED <<appVars, managerVars, phase, poolVars, startVars, raced>>

-----------------------------------------------------------------------------
(* Tasks of the pool. *)

\* The SOCKS listener is forgotten.
StopClientMutant ==
    /\ queuedStops > 0
    /\ queuedStops' = queuedStops - 1
    /\ midStops' = midStops + 1
    /\ IF client # None /\ phase[client] = "started"
       THEN phase' = [phase EXCEPT ![client] = "stopped"] /\ UNCHANGED listening
       ELSE UNCHANGED clientVars
    /\ UNCHANGED <<appVars, managerVars, lateStops, guard, startVars, raced>>

\* A stop task begins: client.stop() if there is a client, which does nothing to a
\* client not started.  The test and the call are one step here.
StopClient ==
    /\ queuedStops > 0
    /\ queuedStops' = queuedStops - 1
    /\ midStops' = midStops + 1
    /\ IF client # None /\ phase[client] = "started"
       THEN /\ phase' = [phase EXCEPT ![client] = "stopped"]
            /\ listening' = listening \ {client}
       ELSE UNCHANGED clientVars
    /\ UNCHANGED <<appVars, managerVars, lateStops, guard, startVars, raced>>

\* The stopped client stays.
ClearClientMutant ==
    /\ midStops > 0
    /\ midStops' = midStops - 1
    /\ lateStops' = lateStops + 1
    /\ UNCHANGED <<appVars, managerVars, clientVars, queuedStops, guard, startVars, raced>>

\* ... then client = null.
ClearClient ==
    /\ midStops > 0
    /\ midStops' = midStops - 1
    /\ lateStops' = lateStops + 1
    /\ client' = None
    /\ UNCHANGED <<appVars, callback, starting, clientVars, queuedStops, guard, startVars, raced>>

\* A stop that leaves the start pending.
StopEndsMutant ==
    /\ lateStops > 0
    /\ lateStops' = lateStops - 1
    /\ callback' = FALSE
    /\ UNCHANGED <<appVars, client, starting, clientVars, queuedStops, midStops, guard, startVars, raced>>

\* ... and the callback is told and dropped, and no start is pending.
StopEnds ==
    /\ lateStops > 0
    /\ lateStops' = lateStops - 1
    /\ callback' = FALSE /\ starting' = FALSE
    /\ UNCHANGED <<appVars, client, clientVars, queuedStops, midStops, guard, startVars, raced>>

\* portGuard: a failed probe submits a stop and then starts again.
PortGuard ==
    /\ guard /\ guard' = FALSE
    /\ IF client # None /\ client \in listening
       THEN UNCHANGED <<queuedStops, startVars, raced>>
       ELSE /\ savedCallback' = callback
            /\ SubmitStops(1)
            /\ Goto("guard", "proxyStart")
            /\ raced' = TRUE
    /\ UNCHANGED <<appVars, managerVars, clientVars, midStops, lateStops>>

\* proxyStart(cb), while the stop task may not have begun.
GuardStarts ==
    /\ pc["guard"] = "proxyStart"
    /\ callback' = savedCallback
    /\ Goto("guard", "check")
    /\ UNCHANGED <<appVars, client, starting, clientVars, poolVars, savedCallback, raced>>

-----------------------------------------------------------------------------
Next ==
    \/ StartProxyService \/ OnServiceConnected \/ StopProxyService \/ KeepAlive
    \/ \E t \in Starters : Check(t) \/ SetStarting(t) \/ Construct(t) \/ EnableSocksListener(t) \/ Start(t)
    \/ \E c \in Clients : InitializationCompleted(c) \/ ListenerDies(c)
    \/ StopClient \/ ClearClient \/ StopEnds \/ PortGuard \/ GuardStarts

Spec == Init /\ [][Next]_vars

-----------------------------------------------------------------------------
(* Properties *)

\* Nothing is under way on the main thread or on the pool.
Quiescent == ~Starting /\ NoStops /\ ~guard

\* As long as no start and stop overlap, the client that startRouter configures and
\* starts is the one it created, not null and not stopped, and there is never a
\* second client that was not stopped, although every start calls proxyStart twice
\* and every stop submits two stop tasks.
SequentialUseIsSafe ==
    ~raced =>
        /\ pc["main"] \in {"listen", "start"} => client # None /\ phase[client] = "new"
        /\ \A c \in Clients : phase[c] \in {"new", "started"} => c = client

\* As long as no start and stop overlap, the proxy has a client exactly when the
\* application believes it active, once the tasks of startProxyService and
\* stopProxyService are done.
ClientFollowsSwitch ==
    ~raced /\ Quiescent => (active <=> client # None)

\* However starts, stops and the port guard overlap, the flag starting does not
\* outlive the client it was set for, so the next startRouter is not refused for
\* ever with no client there.
NeverStuckStarting ==
    Quiescent /\ starting => client # None
=============================================================================
