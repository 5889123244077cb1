---------------------------- MODULE ExitStreams ----------------------------
(***************************************************************************)
(* How a request for an exit stream gets a circuit and a stream.           *)
(*                                                                         *)
(* A SOCKS client thread puts a StreamExitRequest into PendingExitStreams  *)
(* and waits.  Two kinds of threads look for unreserved requests: the      *)
(* CircuitCreationTask, run every second, and the thread that has just     *)
(* built a circuit (circuitOpenedHandler).  Each works on a copy of the    *)
(* list, so its view may be stale; reserveRequest decides who attempts a   *)
(* request.  An OpenExitStreamTask then opens a stream and sets the        *)
(* completion status once; the client takes the stream, gives up, or       *)
(* resets the request for another attempt.                                 *)
(*                                                                         *)
(* A circuit here is a slot for circuit objects: Forget frees the slot of a*)
(* dead circuit nothing refers to any more.                                *)
(***************************************************************************)
EXTENDS Naturals, FiniteSets

CONSTANTS
    Requests,             \* StreamExitRequest objects
    Circuits,             \* slots for exit circuits
    Task,                 \* the CircuitCreationTask thread
    Supports,             \* Supports[c]: the requests the exit policy of c accepts
    MAX_PENDING_CIRCUITS

ASSUME TaskAssumption == Task \notin Circuits
ASSUME SupportsAssumption == Supports \in [Circuits -> SUBSET Requests]
ASSUME PendingAssumption == MAX_PENDING_CIRCUITS \in Nat \ {0}

VARIABLES
    client,             \* what the thread that asked is doing
    isReserved,         \* StreamExitRequest.isReserved
    completionStatus,   \* StreamExitRequest.completionStatus
    tasks,              \* OpenExitStreamTasks that have not ended
    state,              \* CircuitStatus.state, NONE for a free slot
    building,           \* circuits whose CircuitBuildTask has not ended
    active,             \* CircuitManagerImpl.activeCircuits
    marked,             \* CircuitIO.isMarkedForClose
    failedExitRequests, \* ExitCircuitImpl.failedExitRequests
    busy,               \* scanning threads
    scan,               \* the pairs a scanning thread has still to look at
    checked             \* the pair it found fit and has not yet reserved

requestVars == <<client, isReserved, completionStatus>>
circuitVars == <<state, building, active, marked, failedExitRequests>>
scanVars    == <<busy, scan, checked>>
vars        == <<requestVars, tasks, circuitVars, scanVars>>

Pairs    == Circuits \X Requests
Scanners == Circuits \union {Task}
Retryable == {"TIMEOUT", "STREAM_OPEN_FAILURE"}
Statuses  == Retryable \union {"NOT_COMPLETED", "SUCCESS", "EXIT_FAILURE", "INTERRUPTED"}
States    == {"NONE", "UNCONNECTED", "BUILDING", "OPEN", "FAILED", "DESTROYED"}

\* The types of the variables; only a busy thread has pairs left to look at.
TypeOK ==
    /\ client \in [Requests -> {"idle", "waiting", "served", "refused", "interrupted"}]
    /\ isReserved \in [Requests -> BOOLEAN]
    /\ completionStatus \in [Requests -> Statuses]
    /\ tasks \subseteq Pairs
    /\ state \in [Circuits -> States]
    /\ building \subseteq Circuits /\ active \subseteq Circuits /\ marked \subseteq Circuits
    /\ failedExitRequests \in [Circuits -> SUBSET Requests]
    /\ busy \subseteq Scanners
    /\ scan \in [Scanners -> SUBSET Pairs]
    /\ checked \in [Scanners -> SUBSET Pairs]
    /\ \A t \in Scanners \ busy : scan[t] = {} /\ checked[t] = {}

Init ==
    /\ client = [r \in Requests |-> "idle"]
    /\ isReserved = [r \in Requests |-> FALSE]
    /\ completionStatus = [r \in Requests |-> "NOT_COMPLETED"]
    /\ tasks = {}
    /\ state = [c \in Circuits |-> "NONE"]
    /\ building = {} /\ active = {} /\ marked = {}
    /\ failedExitRequests = [c \in Circuits |-> {}]
    /\ busy = {}
    /\ scan = [t \in Scanners |-> {}]
    /\ checked = [t \in Scanners |-> {}]

\* PendingExitStreams.pendingRequests.
Pending == {r \in Requests : client[r] = "waiting"}

\* PendingExitStreams.getUnreservedPendingRequests.
Unreserved == {r \in Pending : ~isReserved[r]}

\* ExitCircuitImpl.canHandleExitTo.
CanHandleExitTo(c, r) ==
    r \notin failedExitRequests[c] /\ c \notin marked /\ r \in Supports[c]

\* CircuitCreationTask.countCircuitsSupportingTarget # 0.
Supported(r) ==
    \E c \in active : state[c] \in {"BUILDING", "OPEN"} /\ CanHandleExitTo(c, r)

-----------------------------------------------------------------------------
(* The client thread. *)

\* PendingExitStreams.openExitStreamByRequest.
OpenExitStream(r) ==
    /\ client[r] = "idle"
    /\ client' = [client EXCEPT ![r] = "waiting"]
    /\ UNCHANGED <<isReserved, completionStatus, tasks, circuitVars, scanVars>>

\* The request is released for another attempt but its old status stays.
HandleRequestMutant(r) ==
    /\ client[r] = "waiting" /\ completionStatus[r] # "NOT_COMPLETED"
    /\ client' = [client EXCEPT ![r] =
          CASE completionStatus[r] = "SUCCESS" -> "served"
            [] completionStatus[r] \in Retryable -> "waiting"
            [] OTHER -> "refused"]
    /\ isReserved' = [isReserved EXCEPT ![r] = completionStatus[r] \notin Retryable]
    /\ UNCHANGED <<completionStatus, tasks, circuitVars, scanVars>>

\* handleRequest: woken by newStatus, it returns the stream, throws, or calls
\* resetForRetry and waits again.
HandleRequest(r) ==
    LET retry == completionStatus[r] \in Retryable IN
    /\ client[r] = "waiting" /\ completionStatus[r] # "NOT_COMPLETED"
    /\ client' = [client EXCEPT ![r] =
          CASE completionStatus[r] = "SUCCESS" -> "served"
            [] retry -> "waiting"
            [] OTHER -> "refused"]
    /\ completionStatus' = [completionStatus EXCEPT ![r] = IF retry THEN "NOT_COMPLETED" ELSE @]
    /\ isReserved' = [isReserved EXCEPT ![r] = @ /\ ~retry]
    /\ UNCHANGED <<tasks, circuitVars, scanVars>>

\* The wait is interrupted: the request leaves the set, an attempt goes on.
InterruptClient(r) ==
    /\ client[r] = "waiting"
    /\ client' = [client EXCEPT ![r] = "interrupted"]
    /\ UNCHANGED <<isReserved, completionStatus, tasks, circuitVars, scanVars>>

-----------------------------------------------------------------------------
(* The threads that look for requests. *)

\* CircuitIO.markForClose for the circuits cs: those without streams are closed
\* at once (the others when their last stream goes, see DestroyCircuit).
MarkForClose(cs) ==
    \E empty \in SUBSET (cs \ marked) :
        /\ marked' = marked \union cs
        /\ state' = [c \in Circuits |-> IF c \in empty THEN "DESTROYED" ELSE state[c]]
        /\ active' = active \ empty

\* Waiting requests are left to the circuits that open later.
RunTaskMutant ==
    /\ Task \notin busy
    /\ \E dirty \in SUBSET {c \in active \ marked : state[c] = "OPEN"} : MarkForClose(dirty)
    /\ busy' = busy \union {Task}
    /\ UNCHANGED <<requestVars, tasks, building, failedExitRequests, scan, checked>>

\* CircuitCreationTask.run: circuits in use for too long are marked, then the
\* unreserved requests and the connected circuits are copied.
RunTask ==
    /\ Task \notin busy
    /\ \E dirty \in SUBSET {c \in active \ marked : state[c] = "OPEN"} : MarkForClose(dirty)
    /\ scan' = [scan EXCEPT ![Task] = {c \in active' \ marked' : state'[c] = "OPEN"} \X Unreserved]
    /\ busy' = busy \union {Task}
    /\ UNCHANGED <<requestVars, tasks, building, failedExitRequests, checked>>

\* attemptHandleStreamRequest and circuitOpenedHandler, the first condition.
CheckPair(t, c, r) ==
    /\ t \in busy /\ checked[t] = {} /\ <<c, r>> \in scan[t]
    /\ scan' = [scan EXCEPT ![t] = @ \ {<<c, r>>}]
    /\ checked' = [checked EXCEPT ![t] = IF CanHandleExitTo(c, r) THEN {<<c, r>>} ELSE {}]
    /\ UNCHANGED <<requestVars, tasks, circuitVars, busy>>

\* A reservation that does not look whether there is one.
ReserveRequestMutant(t, c, r) ==
    /\ checked[t] = {<<c, r>>}
    /\ checked' = [checked EXCEPT ![t] = {}]
    /\ scan' = [scan EXCEPT ![t] = @ \ (Circuits \X {r})]
    /\ isReserved' = [isReserved EXCEPT ![r] = TRUE]
    /\ tasks' = tasks \union {<<c, r>>}
    /\ UNCHANGED <<client, completionStatus, circuitVars, busy>>

\* ... then reserveRequest and launchExitStreamTask.  A request that somebody else
\* has reserved is dropped from the list too.
ReserveRequest(t, c, r) ==
    /\ checked[t] = {<<c, r>>}
    /\ checked' = [checked EXCEPT ![t] = {}]
    /\ scan' = [scan EXCEPT ![t] = @ \ (Circuits \X {r})]
    /\ isReserved' = [isReserved EXCEPT ![r] = TRUE]
    /\ tasks' = IF isReserved[r] THEN tasks ELSE tasks \union {<<c, r>>}
    /\ UNCHANGED <<client, completionStatus, circuitVars, busy>>

\* The build is started only for predicted ports.
BuildCircuitIfNeededMutant(predicted) ==
    LET pending == {c \in active : state[c] = "BUILDING"}
        free == {c \in Circuits : state[c] = "NONE"}
    IN
    IF predicted /\ Cardinality(pending) < MAX_PENDING_CIRCUITS /\ free # {}
    THEN {[state EXCEPT ![c] = "UNCONNECTED"] : c \in free}
    ELSE {state}

\* buildCircuitIfNeeded: the states it may leave.  A circuit is launched for the
\* requests that no circuit supports and (predicted) for predicted ports, unless
\* too many are BUILDING.  An exit router is assumed to be found.
BuildCircuitIfNeeded(predicted) ==
    LET needed == {r \in Unreserved : ~Supported(r)}
        pending == {c \in active : state[c] = "BUILDING"}
        free == {c \in Circuits : state[c] = "NONE" /\ (predicted \/ Supports[c] \cap needed # {})}
    IN
    IF Cardinality(pending) < MAX_PENDING_CIRCUITS /\ free # {}
    THEN {[state EXCEPT ![c] = "UNCONNECTED"] : c \in free}
    ELSE {state}

\* The end of CircuitCreationTask.run: checkCircuitsForCreation.
TaskEnds ==
    /\ Task \in busy /\ scan[Task] = {} /\ checked[Task] = {}
    /\ \E predicted \in BOOLEAN : state' \in BuildCircuitIfNeeded(predicted)
    /\ busy' = busy \ {Task}
    /\ UNCHANGED <<requestVars, tasks, building, active, marked, failedExitRequests, scan, checked>>

-----------------------------------------------------------------------------
(* CircuitBuildTask. *)

\* notifyCircuitBuildStart.
BuildStarts(c) ==
    /\ state[c] = "UNCONNECTED"
    /\ state' = [state EXCEPT ![c] = "BUILDING"]
    /\ building' = building \union {c}
    /\ active' = active \union {c}
    /\ UNCHANGED <<requestVars, tasks, marked, failedExitRequests, scanVars>>

\* The end of buildCircuit: circuitOpenedHandler copies the unreserved requests.
\* The circuit is still BUILDING.
CircuitBuildCompleted(c) ==
    /\ c \in building \ busy
    /\ busy' = busy \union {c}
    /\ scan' = [scan EXCEPT ![c] = {c} \X Unreserved]
    /\ UNCHANGED <<requestVars, tasks, circuitVars, checked>>

\* The circuit opens while its handler is still at work.
NotifyCircuitBuildCompletedMutant(c) ==
    /\ c \in busy \cap building
    /\ state' = [state EXCEPT ![c] = "OPEN"]
    /\ building' = building \ {c}
    /\ busy' = busy \ {c}
    /\ UNCHANGED <<requestVars, tasks, active, marked, failedExitRequests, scan, checked>>

\* notifyCircuitBuildCompleted: OPEN, whatever the state was.
NotifyCircuitBuildCompleted(c) ==
    /\ c \in busy \cap building /\ scan[c] = {} /\ checked[c] = {}
    /\ state' = [state EXCEPT ![c] = "OPEN"]
    /\ building' = building \ {c}
    /\ busy' = busy \ {c}
    /\ UNCHANGED <<requestVars, tasks, active, marked, failedExitRequests, scan, checked>>

\* circuitBuildFailed and connectionFailed: the handler looks for more to build
\* while the failed circuit still counts, then the circuit is FAILED.
CircuitBuildFailed(c) ==
    /\ c \in building \ busy
    /\ \E predicted \in BOOLEAN : \E s \in BuildCircuitIfNeeded(predicted) :
           state' = [s EXCEPT ![c] = "FAILED"]
    /\ building' = building \ {c}
    /\ active' = active \ {c}
    /\ UNCHANGED <<requestVars, tasks, marked, failedExitRequests, scanVars>>

\* A DESTROY cell, a failed send, or the last stream of a marked circuit.
DestroyCircuit(c) ==
    /\ c \in active
    /\ state' = [state EXCEPT ![c] = "DESTROYED"]
    /\ active' = active \ {c}
    /\ UNCHANGED <<requestVars, tasks, building, marked, failedExitRequests, scanVars>>

\* The slot of a circuit that nothing refers to is used for a new circuit.
Forget(c) ==
    /\ state[c] # "NONE" /\ state[c] # "UNCONNECTED" /\ c \notin active \union building
    /\ ({c} \X Requests) \cap (tasks \union UNION {scan[t] \union checked[t] : t \in Scanners}) = {}
    /\ state' = [state EXCEPT ![c] = "NONE"]
    /\ marked' = marked \ {c}
    /\ failedExitRequests' = [failedExitRequests EXCEPT ![c] = {}]
    /\ UNCHANGED <<requestVars, tasks, building, active, scanVars>>

-----------------------------------------------------------------------------
(* OpenExitStreamTask.run, by how openExitStream ends. *)

\* newStatus: a second completion is refused with an IllegalStateException.
NewStatus(r, status) ==
    completionStatus' = [completionStatus EXCEPT ![r] = IF @ = "NOT_COMPLETED" THEN status ELSE @]

\* The stream is opened, or the thread is interrupted.
OpenEnds(c, r) ==
    /\ <<c, r>> \in tasks
    /\ tasks' = tasks \ {<<c, r>>}
    /\ \E status \in {"SUCCESS", "INTERRUPTED"} : NewStatus(r, status)
    /\ UNCHANGED <<client, isReserved, circuitVars, scanVars>>

\* A timeout, or a refusal with a retryable reason: the circuit is marked.
OpenFails(c, r) ==
    /\ <<c, r>> \in tasks
    /\ tasks' = tasks \ {<<c, r>>}
    /\ \E status \in Retryable : NewStatus(r, status)
    /\ MarkForClose({c})
    /\ UNCHANGED <<client, isReserved, building, failedExitRequests, scanVars>>

\* Any other refusal: the circuit remembers the target.
ExitFails(c, r) ==
    /\ <<c, r>> \in tasks
    /\ tasks' = tasks \ {<<c, r>>}
    /\ NewStatus(r, "EXIT_FAILURE")
    /\ failedExitRequests' = [failedExitRequests EXCEPT ![c] = @ \union {r}]
    /\ UNCHANGED <<client, isReserved, state, building, active, marked, scanVars>>

-----------------------------------------------------------------------------
TaskStep == RunTask \/ TaskEnds

Scan(t) == \E c \in Circuits, r \in Requests : CheckPair(t, c, r) \/ ReserveRequest(t, c, r)

BuildStep(c) ==
    \/ BuildStarts(c)
    \/ CircuitBuildCompleted(c)
    \/ NotifyCircuitBuildCompleted(c)
    \/ CircuitBuildFailed(c)

AttemptStep(c, r) == OpenEnds(c, r) \/ OpenFails(c, r) \/ ExitFails(c, r)

Next ==
    \/ TaskStep
    \/ \E t \in Scanners : Scan(t)
    \/ \E c \in Circuits : BuildStep(c) \/ DestroyCircuit(c) \/ Forget(c)
    \/ \E c \in Circuits, r \in Requests : AttemptStep(c, r)
    \/ \E r \in Requests : OpenExitStream(r) \/ HandleRequest(r) \/ InterruptClient(r)

Spec == Init /\ [][Next]_vars

\* The scheduled executor runs the task every second, and a thread that matches
\* requests with circuits gets to run.  Nothing else is fair: a build may stall in
\* a handshake without a timeout, and the network and the user owe nothing.
FairSpec ==
    /\ Spec
    /\ WF_vars(TaskStep)
    /\ \A t \in Scanners : WF_vars(Scan(t))

-----------------------------------------------------------------------------
(* Properties *)

Attempts(r) == {c \in Circuits : <<c, r>> \in tasks}

\* A request that is reserved and not completed is being attempted on exactly one
\* circuit, and no other request is being attempted: the scheduled task and the
\* build handlers, working on stale copies of the list, never attempt a request
\* twice, newStatus never throws, and no request waits for an attempt that is over.
AttemptInFlight ==
    \A r \in Requests :
        IF isReserved[r] /\ completionStatus[r] = "NOT_COMPLETED"
        THEN \E c \in Circuits : Attempts(r) = {c}
        ELSE Attempts(r) = {}

\* Once openExitStreamByRequest has returned or thrown, no stream is opened for the
\* request any more, although stale copies of the list may still hold it.  (After
\* an interrupt one may be.)
AnsweredIsNotAttempted ==
    \A r \in Requests : client[r] \in {"served", "refused"} => Attempts(r) = {}

\* A waiting unreserved request is not overlooked for ever while one and the same
\* open circuit could take it all the time: the scheduled task, or a handler, reserves it.
NeverOverlooked ==
    \A r \in Requests, c \in Circuits :
        ~ <>[](r \in Unreserved /\ c \in active /\ state[c] = "OPEN" /\ CanHandleExitTo(c, r))

\* A waiting unreserved request that no circuit supports does not stay so for ever
\* with no circuit on its way: buildCircuitIfNeeded launches one, unless there is no
\* free slot.
UnsupportedGetsCircuit ==
    \A r \in Requests, c \in Circuits :
        ~ <>[](/\ r \in Unreserved /\ ~Supported(r)
               /\ state[c] = "NONE" /\ r \in Supports[c]
               /\ building = {} /\ \A d \in Circuits : state[d] # "UNCONNECTED")
=============================================================================
