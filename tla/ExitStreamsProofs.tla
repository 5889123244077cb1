------------------------- MODULE ExitStreamsProofs -------------------------
(***************************************************************************)
(* Proofs about ExitStreams for any requests, circuits and exit policies.  *)
(***************************************************************************)
EXTENDS ExitStreams, TLAPS

\* The types of what the argument is about.
RequestTypes ==
    /\ client \in [Requests -> {"idle", "waiting", "served", "refused", "interrupted"}]
    /\ isReserved \in [Requests -> BOOLEAN]
    /\ completionStatus \in [Requests -> Statuses]
    /\ tasks \subseteq Pairs

\* A completed request is reserved: resetForRetry clears both fields at once.
CompletedIsReserved ==
    \A r \in Requests : completionStatus[r] # "NOT_COMPLETED" => isReserved[r]

\* Only a reserved request that is not completed is attempted.
AttemptedIsOpen ==
    \A c \in Circuits, r \in Requests :
        <<c, r>> \in tasks => isReserved[r] /\ completionStatus[r] = "NOT_COMPLETED"

\* Such a request is attempted.
OpenIsAttempted ==
    \A r \in Requests :
        isReserved[r] /\ completionStatus[r] = "NOT_COMPLETED" => \E c \in Circuits : <<c, r>> \in tasks

\* ... on one circuit.
OneAttempt ==
    \A c, d \in Circuits, r \in Requests : <<c, r>> \in tasks /\ <<d, r>> \in tasks => c = d

\* The answer a client got was a completion.
AnsweredIsCompleted ==
    \A r \in Requests : client[r] \in {"served", "refused"} => completionStatus[r] # "NOT_COMPLETED"

RequestInv ==
    /\ RequestTypes
    /\ CompletedIsReserved
    /\ AttemptedIsOpen
    /\ OpenIsAttempted
    /\ OneAttempt
    /\ AnsweredIsCompleted

\* The parts of the invariant.
USE DEF RequestInv, CompletedIsReserved, AttemptedIsOpen, OpenIsAttempted, OneAttempt, AnsweredIsCompleted

\* The invariant holds before the first request.
LEMMA RequestInvInit == Init => RequestInv
  BY DEF Init, RequestTypes, Statuses

\* The end of an attempt, whatever its outcome, completes its request.
LEMMA AttemptEnds ==
    ASSUME RequestInv, NEW c \in Circuits, NEW r \in Requests, NEW status \in Statuses \ {"NOT_COMPLETED"},
           <<c, r>> \in tasks, tasks' = tasks \ {<<c, r>>}, NewStatus(r, status),
           UNCHANGED <<client, isReserved>>
    PROVE  RequestInv'
<1>1. completionStatus[r] = "NOT_COMPLETED" /\ isReserved[r]
  OBVIOUS
<1>2. completionStatus' = [completionStatus EXCEPT ![r] = status]
  BY <1>1 DEF NewStatus, RequestTypes
<1>3. RequestTypes'
  BY <1>2 DEF RequestTypes
<1>4. /\ completionStatus'[r] # "NOT_COMPLETED"
      /\ \A q \in Requests \ {r} : completionStatus'[q] = completionStatus[q]
  BY <1>2 DEF RequestTypes
<1>5. \A d \in Circuits : <<d, r>> \notin tasks'
  OBVIOUS
<1>6. \A q \in Requests \ {r}, d \in Circuits : <<d, q>> \in tasks' <=> <<d, q>> \in tasks
  OBVIOUS
<1>7. CompletedIsReserved' /\ AnsweredIsCompleted'
  BY <1>1, <1>4
<1>8. AttemptedIsOpen' /\ OneAttempt'
  BY <1>4, <1>5, <1>6
<1>9. OpenIsAttempted'
  BY <1>4, <1>6
<1> QED
  BY <1>3, <1>7, <1>8, <1>9

\* The client returns, fails or resets a completed request.
LEMMA HandleRequestStep ==
    ASSUME RequestInv, NEW r \in Requests, HandleRequest(r)
    PROVE  RequestInv'
<1>1. completionStatus[r] # "NOT_COMPLETED" /\ tasks' = tasks /\ \A c \in Circuits : <<c, r>> \notin tasks
  BY DEF HandleRequest
<1>2. CASE completionStatus[r] \in Retryable
  <2>1. /\ client' = client
        /\ completionStatus' = [completionStatus EXCEPT ![r] = "NOT_COMPLETED"]
        /\ isReserved' = [isReserved EXCEPT ![r] = FALSE]
    BY <1>2 DEF HandleRequest, RequestTypes, Retryable
  <2>2. RequestTypes'
    BY <2>1, <1>1 DEF RequestTypes, Statuses
  <2>3. client[r] = "waiting"
    BY DEF HandleRequest
  <2> QED
    BY <1>1, <2>1, <2>2, <2>3 DEF RequestTypes
<1>3. CASE completionStatus[r] \notin Retryable
  <2>1. completionStatus' = completionStatus /\ isReserved' = isReserved
    BY <1>3 DEF HandleRequest, RequestTypes
  <2>2. \E a \in {"served", "refused"} : client' = [client EXCEPT ![r] = a]
    BY <1>3 DEF HandleRequest
  <2>3. RequestTypes'
    BY <1>1, <2>1, <2>2 DEF RequestTypes
  <2>4. \A q \in Requests \ {r} : client'[q] = client[q]
    BY <2>2 DEF RequestTypes
  <2> QED
    BY <1>1, <2>1, <2>3, <2>4
<1> QED
  BY <1>2, <1>3

\* reserveRequest is what makes two scanning threads safe: only the one that finds
\* the request unreserved starts an attempt.
LEMMA ReserveRequestStep ==
    ASSUME RequestInv, NEW t \in Scanners, NEW c \in Circuits, NEW r \in Requests, ReserveRequest(t, c, r)
    PROVE  RequestInv'
<1>1. /\ client' = client /\ completionStatus' = completionStatus
      /\ isReserved' = [isReserved EXCEPT ![r] = TRUE]
      /\ tasks' = IF isReserved[r] THEN tasks ELSE tasks \union {<<c, r>>}
  BY DEF ReserveRequest
<1>2. CASE isReserved[r]
  <2>1. isReserved' = isReserved /\ tasks' = tasks
    BY <1>1, <1>2 DEF RequestTypes
  <2> QED
    BY <1>1, <2>1 DEF RequestTypes
<1>3. CASE ~isReserved[r]
  <2>1. tasks' = tasks \union {<<c, r>>}
    BY <1>1, <1>3
  <2>2. completionStatus[r] = "NOT_COMPLETED" /\ \A d \in Circuits : <<d, r>> \notin tasks
    BY <1>3
  <2>3. RequestTypes'
    BY <1>1, <2>1 DEF RequestTypes, Pairs
  <2>4. isReserved'[r] /\ \A q \in Requests \ {r} : isReserved'[q] = isReserved[q]
    BY <1>1 DEF RequestTypes
  <2>5. \A q \in Requests, d \in Circuits : <<d, q>> \in tasks' <=> (<<d, q>> \in tasks \/ (d = c /\ q = r))
    BY <2>1
  <2>6. CompletedIsReserved' /\ AnsweredIsCompleted'
    BY <1>1, <2>4
  <2>7. AttemptedIsOpen' /\ OneAttempt'
    BY <1>1, <2>2, <2>4, <2>5
  <2>8. OpenIsAttempted'
    BY <1>1, <2>4, <2>5
  <2> QED
    BY <2>3, <2>6, <2>7, <2>8
<1> QED
  BY <1>2, <1>3

\* A request is submitted or its client interrupted: no attempt is concerned.
LEMMA ClientStep ==
    ASSUME RequestInv, NEW r \in Requests, OpenExitStream(r) \/ InterruptClient(r)
    PROVE  RequestInv'
<1>1. UNCHANGED <<isReserved, completionStatus, tasks>>
  BY DEF OpenExitStream, InterruptClient
<1>2. \E a \in {"waiting", "interrupted"} : client' = [client EXCEPT ![r] = a]
  BY DEF OpenExitStream, InterruptClient
<1>3. RequestTypes'
  BY <1>1, <1>2 DEF RequestTypes
<1>4. \A q \in Requests : client'[q] \in {"served", "refused"} => client[q] \in {"served", "refused"}
  BY <1>2 DEF RequestTypes
<1> QED
  BY <1>1, <1>3, <1>4

\* Whatever changes neither requests nor attempts keeps the invariant.
LEMMA OtherStep ==
    ASSUME RequestInv, UNCHANGED <<requestVars, tasks>>
    PROVE  RequestInv'
<1>1. UNCHANGED <<client, isReserved, completionStatus, tasks>>
  BY DEF requestVars
<1> QED
  BY <1>1 DEF RequestTypes

\* Every step of the system keeps the invariant.
LEMMA RequestInvNext == RequestInv /\ [Next]_vars => RequestInv'
<1> SUFFICES ASSUME RequestInv, [Next]_vars
             PROVE  RequestInv'
  OBVIOUS
<1> USE DEF Retryable, Statuses
<1>1. CASE TaskStep
  BY <1>1, OtherStep DEF TaskStep, RunTask, TaskEnds
<1>2. ASSUME NEW t \in Scanners, Scan(t)
      PROVE  RequestInv'
  <2>1. PICK c \in Circuits, r \in Requests : CheckPair(t, c, r) \/ ReserveRequest(t, c, r)
    BY <1>2 DEF Scan
  <2>2. CASE CheckPair(t, c, r)
    BY <2>2, OtherStep DEF CheckPair
  <2>3. CASE ReserveRequest(t, c, r)
    BY <2>3, ReserveRequestStep
  <2> QED
    BY <2>1, <2>2, <2>3
<1>3. ASSUME NEW c \in Circuits, BuildStep(c) \/ DestroyCircuit(c) \/ Forget(c)
      PROVE  RequestInv'
  <2>1. UNCHANGED <<requestVars, tasks>>
    BY <1>3 DEF BuildStep, BuildStarts, CircuitBuildCompleted, NotifyCircuitBuildCompleted,
                CircuitBuildFailed, DestroyCircuit, Forget
  <2> QED
    BY <2>1, OtherStep
<1>4. ASSUME NEW c \in Circuits, NEW r \in Requests, AttemptStep(c, r)
      PROVE  RequestInv'
  <2>1. PICK status \in Statuses \ {"NOT_COMPLETED"} : NewStatus(r, status)
    BY <1>4 DEF AttemptStep, OpenEnds, OpenFails, ExitFails
  <2>2. <<c, r>> \in tasks /\ tasks' = tasks \ {<<c, r>>} /\ UNCHANGED <<client, isReserved>>
    BY <1>4 DEF AttemptStep, OpenEnds, OpenFails, ExitFails
  <2> QED
    BY <2>1, <2>2, AttemptEnds
<1>5. ASSUME NEW r \in Requests, OpenExitStream(r) \/ HandleRequest(r) \/ InterruptClient(r)
      PROVE  RequestInv'
  BY <1>5, ClientStep, HandleRequestStep
<1>6. CASE UNCHANGED vars
  BY <1>6, OtherStep DEF vars
<1> QED
  BY <1>1, <1>2, <1>3, <1>4, <1>5, <1>6 DEF Next

\* The invariant holds in every behaviour.
LEMMA RequestInvAlways == Spec => []RequestInv
  BY RequestInvInit, RequestInvNext, PTL DEF Spec

\* Exactly one attempt for a reserved request that is not completed, none for any
\* other: competing through reserveRequest, the scheduled task and the build handlers
\* never attempt a request twice, and newStatus never meets a completed request.
THEOREM ExactlyOneAttempt == Spec => []AttemptInFlight
<1>1. RequestInv => AttemptInFlight
  <2> SUFFICES ASSUME RequestInv, NEW r \in Requests
               PROVE  IF isReserved[r] /\ completionStatus[r] = "NOT_COMPLETED"
                      THEN \E c \in Circuits : Attempts(r) = {c}
                      ELSE Attempts(r) = {}
    BY DEF AttemptInFlight
  <2>1. CASE isReserved[r] /\ completionStatus[r] = "NOT_COMPLETED"
    <3>1. PICK c \in Circuits : <<c, r>> \in tasks
      BY <2>1
    <3>2. Attempts(r) = {c}
      BY <3>1 DEF Attempts
    <3> QED
      BY <2>1, <3>2
  <2>2. CASE ~(isReserved[r] /\ completionStatus[r] = "NOT_COMPLETED")
    BY <2>2 DEF Attempts
  <2> QED
    BY <2>1, <2>2
<1> QED
  BY <1>1, RequestInvAlways, PTL

\* No attempt for a request whose client has its answer: what is left of the
\* request in a stale copy of the pending list is not attempted any more.
THEOREM NoAttemptAfterAnswer == Spec => []AnsweredIsNotAttempted
<1>1. RequestInv => AnsweredIsNotAttempted
  BY DEF AnsweredIsNotAttempted, Attempts
<1> QED
  BY <1>1, RequestInvAlways, PTL

-----------------------------------------------------------------------------
(* Type correctness. *)

CircuitTypes ==
    /\ state \in [Circuits -> States]
    /\ building \subseteq Circuits /\ active \subseteq Circuits /\ marked \subseteq Circuits
    /\ failedExitRequests \in [Circuits -> SUBSET Requests]

ScanTypes ==
    /\ busy \subseteq Scanners
    /\ scan \in [Scanners -> SUBSET Pairs]
    /\ checked \in [Scanners -> SUBSET Pairs]
    /\ \A t \in Scanners \ busy : scan[t] = {} /\ checked[t] = {}

\* Marking circuits keeps the types of what it changes.
LEMMA MarkForCloseTypes ==
    ASSUME CircuitTypes, NEW cs \in SUBSET Circuits, MarkForClose(cs),
           UNCHANGED <<building, failedExitRequests>>
    PROVE  CircuitTypes'
  BY DEF CircuitTypes, MarkForClose, States

\* Launching a circuit leaves states.
LEMMA BuildCircuitIfNeededTypes ==
    ASSUME CircuitTypes, NEW predicted \in BOOLEAN, NEW s \in BuildCircuitIfNeeded(predicted)
    PROVE  s \in [Circuits -> States]
  BY DEF CircuitTypes, BuildCircuitIfNeeded, States

\* Every step keeps the types of the circuits.
LEMMA CircuitTypesNext == CircuitTypes /\ [Next]_vars => CircuitTypes'
<1> SUFFICES ASSUME CircuitTypes, [Next]_vars
             PROVE  CircuitTypes'
  OBVIOUS
<1>1. CASE RunTask
  <2>1. PICK dirty \in SUBSET {c \in active \ marked : state[c] = "OPEN"} : MarkForClose(dirty)
    BY <1>1 DEF RunTask
  <2>2. dirty \in SUBSET Circuits
    BY <2>1 DEF CircuitTypes
  <2> QED
    BY <1>1, <2>1, <2>2, MarkForCloseTypes DEF RunTask
<1>2. CASE TaskEnds
  <2>1. state' \in [Circuits -> States]
    BY <1>2, BuildCircuitIfNeededTypes DEF TaskEnds
  <2> QED
    BY <1>2, <2>1 DEF TaskEnds, CircuitTypes
<1>3. ASSUME UNCHANGED circuitVars
      PROVE  CircuitTypes'
  BY <1>3 DEF CircuitTypes, circuitVars
<1>4. ASSUME NEW t \in Scanners, Scan(t)
      PROVE  CircuitTypes'
  BY <1>3, <1>4 DEF Scan, CheckPair, ReserveRequest
<1>5. ASSUME NEW c \in Circuits, BuildStep(c) \/ DestroyCircuit(c) \/ Forget(c)
      PROVE  CircuitTypes'
  <2>1. CASE CircuitBuildFailed(c)
    <3>0. PICK predicted \in BOOLEAN :
              \E s \in BuildCircuitIfNeeded(predicted) : state' = [s EXCEPT ![c] = "FAILED"]
      BY <2>1 DEF CircuitBuildFailed
    <3>1. PICK s \in BuildCircuitIfNeeded(predicted) : state' = [s EXCEPT ![c] = "FAILED"]
      BY <3>0
    <3>2. s \in [Circuits -> States]
      BY BuildCircuitIfNeededTypes
    <3> QED
      BY <2>1, <3>1, <3>2 DEF CircuitBuildFailed, CircuitTypes, States
  <2>2. CASE CircuitBuildCompleted(c)
    BY <1>3, <2>2 DEF CircuitBuildCompleted
  <2>3. CASE BuildStarts(c) \/ NotifyCircuitBuildCompleted(c) \/ DestroyCircuit(c)
    BY <2>3 DEF BuildStarts, NotifyCircuitBuildCompleted, DestroyCircuit, CircuitTypes, States
  <2>4. CASE Forget(c)
    BY <2>4 DEF Forget, CircuitTypes, States
  <2> QED
    BY <1>5, <2>1, <2>2, <2>3, <2>4 DEF BuildStep
<1>6. ASSUME NEW c \in Circuits, NEW r \in Requests, AttemptStep(c, r)
      PROVE  CircuitTypes'
  <2>1. CASE OpenEnds(c, r)
    BY <1>3, <2>1 DEF OpenEnds
  <2>2. CASE OpenFails(c, r)
    BY <2>2, MarkForCloseTypes DEF OpenFails
  <2>3. CASE ExitFails(c, r)
    BY <2>3 DEF ExitFails, CircuitTypes
  <2> QED
    BY <1>6, <2>1, <2>2, <2>3 DEF AttemptStep
<1>7. ASSUME NEW r \in Requests, OpenExitStream(r) \/ HandleRequest(r) \/ InterruptClient(r)
      PROVE  CircuitTypes'
  BY <1>3, <1>7 DEF OpenExitStream, HandleRequest, InterruptClient
<1>8. CASE UNCHANGED vars
  BY <1>3, <1>8 DEF vars
<1> QED
  BY <1>1, <1>2, <1>4, <1>5, <1>6, <1>7, <1>8 DEF Next, TaskStep

\* Every step keeps the types of the scans, and leaves no pair to an idle thread.
LEMMA ScanTypesNext == RequestTypes /\ CircuitTypes /\ CircuitTypes' /\ ScanTypes /\ [Next]_vars => ScanTypes'
<1> SUFFICES ASSUME RequestTypes, CircuitTypes, CircuitTypes', ScanTypes, [Next]_vars
             PROVE  ScanTypes'
  OBVIOUS
<1>1. CASE RunTask
  <2>1. Unreserved \subseteq Requests /\ active' \subseteq Circuits
    BY DEF Unreserved, Pending, CircuitTypes
  <2>2. ({c \in active' \ marked' : state'[c] = "OPEN"} \X Unreserved) \in SUBSET Pairs
    BY <2>1 DEF Pairs
  <2> QED
    BY <1>1, <2>2 DEF RunTask, ScanTypes, Scanners
<1>2. CASE TaskEnds
  BY <1>2 DEF TaskEnds, ScanTypes
<1>3. ASSUME UNCHANGED scanVars
      PROVE  ScanTypes'
  BY <1>3 DEF ScanTypes, scanVars
<1>4. ASSUME NEW t \in Scanners, NEW c \in Circuits, NEW r \in Requests, CheckPair(t, c, r)
      PROVE  ScanTypes'
  <2>1. (IF CanHandleExitTo(c, r) THEN {<<c, r>>} ELSE {}) \in SUBSET Pairs
    BY DEF Pairs
  <2> QED
    BY <1>4, <2>1 DEF CheckPair, ScanTypes
<1>5. ASSUME NEW t \in Scanners, NEW c \in Circuits, NEW r \in Requests, ReserveRequest(t, c, r)
      PROVE  ScanTypes'
  BY <1>5 DEF ReserveRequest, ScanTypes
<1>6. ASSUME NEW c \in Circuits, BuildStep(c) \/ DestroyCircuit(c) \/ Forget(c)
      PROVE  ScanTypes'
  <2>1. CASE CircuitBuildCompleted(c)
    <3>1. ({c} \X Unreserved) \in SUBSET Pairs
      BY DEF Pairs, Unreserved, Pending
    <3> QED
      BY <2>1, <3>1 DEF CircuitBuildCompleted, ScanTypes, Scanners
  <2>2. CASE NotifyCircuitBuildCompleted(c)
    BY <2>2 DEF NotifyCircuitBuildCompleted, ScanTypes
  <2>3. CASE BuildStarts(c) \/ CircuitBuildFailed(c) \/ DestroyCircuit(c) \/ Forget(c)
    BY <1>3, <2>3 DEF BuildStarts, CircuitBuildFailed, DestroyCircuit, Forget
  <2> QED
    BY <1>6, <2>1, <2>2, <2>3 DEF BuildStep
<1>7. ASSUME NEW c \in Circuits, NEW r \in Requests, AttemptStep(c, r)
      PROVE  ScanTypes'
  BY <1>3, <1>7 DEF AttemptStep, OpenEnds, OpenFails, ExitFails
<1>8. ASSUME NEW r \in Requests, OpenExitStream(r) \/ HandleRequest(r) \/ InterruptClient(r)
      PROVE  ScanTypes'
  BY <1>3, <1>8 DEF OpenExitStream, HandleRequest, InterruptClient
<1>9. CASE UNCHANGED vars
  BY <1>3, <1>9 DEF vars
<1> QED
  BY <1>1, <1>2, <1>4, <1>5, <1>6, <1>7, <1>8, <1>9 DEF Next, TaskStep, Scan

\* Every variable keeps its type, and a thread whose scan is over holds no pair of
\* its stale copy of the list back for later.
THEOREM TypeCorrect == Spec => []TypeOK
<1>1. Init => CircuitTypes /\ ScanTypes
  BY DEF Init, CircuitTypes, ScanTypes, States
<1>2. RequestInv => RequestTypes
  OBVIOUS
<1>3. RequestTypes /\ CircuitTypes /\ ScanTypes => TypeOK
  BY DEF TypeOK, RequestTypes, CircuitTypes, ScanTypes
<1> QED
  BY <1>1, <1>2, <1>3, RequestInvAlways, CircuitTypesNext, ScanTypesNext, PTL DEF Spec
=============================================================================
