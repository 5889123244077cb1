-------------------------- MODULE CircuitTeardown --------------------------
(***************************************************************************)
(* How one open exit circuit of the Orchid Tor client and its streams are  *)
(* taken down: CircuitIO.markForClose, closeCircuit, destroyCircuit and    *)
(* removeStream against StreamImpl.close, TorOutputStream and the threads  *)
(* of SocksStreamConnection and OpenExitStreamTask.                        *)
(*                                                                         *)
(* The code nests these calls deeply (a failed send destroys the circuit,  *)
(* which closes every stream, which flushes, which sends), so a thread is a*)
(* sequence of calls still to be made, todo[t].  A step takes the first one*)
(* and puts the calls it makes in its place.  A lock that is taken is      *)
(* given back by an unlock call at the end of the body.                    *)
(*                                                                         *)
(* A window is only open or shut here (its count is FlowControl's matter): *)
(* a cell that uses an open window may or may not be the last it allows.   *)
(***************************************************************************)
EXTENDS Naturals, Sequences, FiniteSets, SequencesExt

CONSTANTS
    Streams,    \* the streams that may be opened on the circuit
    Talkers,    \* those on which data flows before they are closed
    LinkMayFail, \* whether the connection to the entry relay can fail
    Nobody      \* no stream

ASSUME StreamsAssumption == Nobody \notin Streams /\ Talkers \subseteq Streams
ASSUME LinkAssumption == LinkMayFail \in BOOLEAN

Reader   == <<"reader", Nobody>>     \* ConnectionImpl.readCellsLoop
Manager  == <<"manager", Nobody>>    \* CircuitCreationTask.expireOldCircuits
Socks(s) == <<"socks", s>>           \* OpenExitStreamTask, then SocksStreamConnection.run
Out(s)   == <<"out", s>>             \* SocksStreamConnection.outgoingTransferLoop
Free     == <<"free", Nobody>>       \* the owner of a lock nobody holds

Threads == {Reader, Manager} \union ({"socks", "out"} \X Streams)

VARIABLES
    status,             \* CircuitStatus.state, from OPEN on
    circuitClosed,      \* CircuitIO.isClosed
    isMarkedForClose,   \* CircuitIO.isMarkedForClose
    bound,              \* the circuit is in ConnectionImpl.circuitMap
    linkUp,             \* the socket to the entry relay works
    readerAlive,        \* readCellsLoop has not returned
    streamMap,          \* CircuitIO.streamMap
    streamClosed,       \* StreamImpl.isClosed
    relayEndReceived,   \* StreamImpl.relayEndReceived
    outClosed,          \* TorOutputStream.isClosed
    buffered,           \* TorOutputStream.currentOutputCell has bytes
    streamWindow,       \* StreamImpl.packageWindow # 0
    nodeWindow,         \* CircuitNodeImpl.packageWindow # 0
    phase,              \* how far the SOCKS connection of a stream has come
    inEnded, outEnded,  \* SocksStreamConnection.incomingClosed, outgoingClosed
    late,               \* history: opened on a circuit marked or destroyed
    streamLock,         \* owner of CircuitIO.streamLock
    relaySendLock,      \* owner of CircuitIO.relaySendLock
    outMonitor,         \* owner of each TorOutputStream's monitor
    lockOrders,         \* orders CycleDetectingLockFactory has seen
    todo                \* the calls each thread has still to make

circuitVars == <<status, circuitClosed, isMarkedForClose, bound, streamMap>>
linkVars    == <<linkUp, readerAlive>>
streamVars  == <<streamClosed, relayEndReceived, outClosed, buffered>>
windowVars  == <<streamWindow, nodeWindow>>
socksVars   == <<phase, inEnded, outEnded, late>>
lockVars    == <<streamLock, relaySendLock, outMonitor, lockOrders>>
dataVars    == <<circuitVars, linkVars, streamVars, windowVars, socksVars>>
vars        == <<dataVars, lockVars, todo>>

Call(op, s) == <<op, s>>
Does(t, op, s) == todo[t] # <<>> /\ Head(todo[t])[1] = op /\ Head(todo[t])[2] = s

\* Thread t is done with its first call, which makes the calls of body.
Continue(t, body) == todo' = [todo EXCEPT ![t] = body \o Tail(@)]

Phases == {"none", "picked", "opening", "answered", "connected", "failed", "closing"}

TypeOK ==
    /\ status \in {"OPEN", "DESTROYED"}
    /\ circuitClosed \in BOOLEAN /\ isMarkedForClose \in BOOLEAN
    /\ bound \in BOOLEAN /\ linkUp \in BOOLEAN /\ readerAlive \in BOOLEAN
    /\ streamMap \subseteq Streams
    /\ \A f \in {streamClosed, relayEndReceived, outClosed, buffered,
                 streamWindow, inEnded, outEnded, late} : f \in [Streams -> BOOLEAN]
    /\ nodeWindow \in BOOLEAN
    /\ phase \in [Streams -> Phases]
    /\ streamLock \in Threads \union {Free}
    /\ relaySendLock \in Threads \union {Free}
    /\ outMonitor \in [Streams -> Threads \union {Free}]
    /\ lockOrders \subseteq {<<"stream", "relaySend">>, <<"relaySend", "stream">>}
    /\ \A t \in Threads : \A i \in DOMAIN todo[t] : todo[t][i][2] \in Streams \union {Nobody}

Init ==
    /\ status = "OPEN" /\ circuitClosed = FALSE /\ isMarkedForClose = FALSE
    /\ bound = TRUE /\ linkUp = TRUE /\ readerAlive = TRUE
    /\ streamMap = {}
    /\ streamClosed = [s \in Streams |-> FALSE]
    /\ relayEndReceived = [s \in Streams |-> FALSE]
    /\ outClosed = [s \in Streams |-> FALSE]
    /\ buffered = [s \in Streams |-> FALSE]
    /\ streamWindow = [s \in Streams |-> TRUE] /\ nodeWindow = TRUE
    /\ phase = [s \in Streams |-> "none"]
    /\ inEnded = [s \in Streams |-> FALSE]
    /\ outEnded = [s \in Streams |-> FALSE]
    /\ late = [s \in Streams |-> FALSE]
    /\ streamLock = Free /\ relaySendLock = Free
    /\ outMonitor = [s \in Streams |-> Free]
    /\ lockOrders = {}
    /\ todo = [t \in Threads |-> <<>>]

-----------------------------------------------------------------------------
(* Locks.  streamLock and relaySendLock come from Threading.lock, whose        *)
(* factory throws on a lock order that closes a cycle; output streams use      *)
(* their own monitor, which the factory does not see.                          *)

Owner(l)  == IF l = "stream" THEN streamLock ELSE relaySendLock
Other(l)  == IF l = "stream" THEN "relaySend" ELSE "stream"

\* t takes l for the first time while it holds the other lock.
Nests(t, l) == Owner(l) # t /\ Owner(Other(l)) = t

\* Locks whose order nobody checks.
AllowedMutant(t, l) == TRUE

\* The factory notes an order before the thread queues on the second lock.
Allowed(t, l) == Nests(t, l) => <<Other(l), l>> \in lockOrders

CanTake(t, l) == Owner(l) \in {Free, t} /\ Allowed(t, l)

\* The calls of a body run under lock l: unlocked at the end unless t had it.
Under(t, l, body) ==
    IF Owner(l) = t THEN body
    ELSE body \o <<Call(IF l = "stream" THEN "unlockStream" ELSE "unlockRelaySend", Nobody)>>

EnterMonitor(t, s, body) ==
    /\ outMonitor[s] \in {Free, t}
    /\ outMonitor' = [outMonitor EXCEPT ![s] = t]
    /\ Continue(t, IF outMonitor[s] = t THEN body
                   ELSE body \o <<Call("exitMonitor", s)>>)

\* The lock the first call of t takes, if any.
NextLock(t) ==
    IF todo[t] = <<>> THEN "none"
    ELSE CASE Head(todo[t])[1] \in {"destroy", "deliver", "remove", "mark"} -> "stream"
           [] Head(todo[t])[1] \in {"sendData", "sendOther", "relayEnd"} -> "relaySend"
           [] OTHER -> "none"

\* CycleDetectingLockFactory, policy THROW: the order is recorded ...
NoteOrder(t) ==
    LET l == NextLock(t) IN
    /\ l # "none" /\ Nests(t, l)
    /\ {<<Other(l), l>>, <<l, Other(l)>>} \intersect lockOrders = {}
    /\ lockOrders' = lockOrders \union {<<Other(l), l>>}
    /\ UNCHANGED <<dataVars, streamLock, relaySendLock, outMonitor, todo>>

\* ... or, when the opposite one was seen before, the thread unwinds with a
\* PotentialDeadlockException: the finally blocks unlock, the outgoing thread and
\* the cell reading thread end, a stream that was being opened is removed.
ThrowOnCycle(t) ==
    LET l == NextLock(t)
        Released(o) == IF o = t THEN Free ELSE o
        opening == \E s \in Streams : t = Socks(s) /\ phase[s] = "opening"
    IN
    /\ l # "none" /\ Nests(t, l)
    /\ <<l, Other(l)>> \in lockOrders
    /\ streamLock' = Released(streamLock)
    /\ relaySendLock' = Released(relaySendLock)
    /\ outMonitor' = [s \in Streams |-> Released(outMonitor[s])]
    /\ readerAlive' = (readerAlive /\ t # Reader)
    /\ outEnded' = [s \in Streams |-> outEnded[s] \/ t = Out(s)]
    /\ phase' = [s \in Streams |-> IF opening /\ t = Socks(s) THEN "failed" ELSE phase[s]]
    /\ todo' = [todo EXCEPT ![t] = IF opening THEN <<Call("remove", t[2])>> ELSE <<>>]
    /\ UNCHANGED <<circuitVars, linkUp, streamVars, windowVars, inEnded, late, lockOrders>>

Unlock(t) ==
    /\ \/ /\ Does(t, "unlockStream", Nobody)
          /\ streamLock' = Free /\ UNCHANGED <<relaySendLock, outMonitor>>
       \/ /\ Does(t, "unlockRelaySend", Nobody)
          /\ relaySendLock' = Free /\ UNCHANGED <<streamLock, outMonitor>>
       \/ \E s \in Streams :
          /\ Does(t, "exitMonitor", s)
          /\ outMonitor' = [outMonitor EXCEPT ![s] = Free]
          /\ UNCHANGED <<streamLock, relaySendLock>>
    /\ Continue(t, <<>>)
    /\ UNCHANGED <<dataVars, lockOrders>>

-----------------------------------------------------------------------------
(* Sending: CircuitIO.sendRelayCellTo and sendCell, and the two windows.       *)

\* windowLock of s is held by the reader while it sends the stream's SENDME.
WindowLockFree(t, s) ==
    t = Reader \/ ~ \E i \in DOMAIN todo[Reader] : todo[Reader][i] = Call("exitWindowLock", s)

\* StreamImpl.waitForSendWindow, first half, with ("take") and without decrement.
AwaitStreamWindow(t, s) ==
    /\ Does(t, "awaitStream", s) \/ Does(t, "takeStream", s)
    /\ streamWindow[s] /\ WindowLockFree(t, s)
    /\ \E open \in IF Does(t, "takeStream", s) THEN BOOLEAN ELSE {TRUE} :
           streamWindow' = [streamWindow EXCEPT ![s] = open]
    /\ Continue(t, <<>>)
    /\ UNCHANGED <<circuitVars, linkVars, streamVars, nodeWindow, socksVars, lockVars>>

\* CircuitNodeImpl.waitForSendWindow(false).
AwaitNodeWindow(t) ==
    /\ Does(t, "awaitNode", Nobody)
    /\ nodeWindow
    /\ Continue(t, <<>>)
    /\ UNCHANGED <<dataVars, lockVars>>

\* sendCell: nothing is sent on a circuit that is not connected, and a send that
\* fails destroys the circuit.
SendCell == IF status = "OPEN" /\ ~linkUp THEN <<Call("destroy", Nobody)>> ELSE <<>>

\* sendRelayCellTo.  A DATA cell needs the circuit window too; relaySendLock stays
\* held while the thread waits for it or destroys the circuit.
SendRelayCell(t) ==
    LET data == Does(t, "sendData", Nobody)
        body == IF data /\ ~nodeWindow THEN <<Call("takeNode", Nobody)>> ELSE SendCell
    IN
    /\ \/ data \/ Does(t, "sendOther", Nobody)
       \/ \E s \in Streams : Does(t, "relayEnd", s) /\ ~relayEndReceived[s]
    /\ CanTake(t, "relaySend")
    /\ nodeWindow' \in IF data /\ nodeWindow THEN BOOLEAN ELSE {nodeWindow}
    /\ IF body = <<>>
       THEN Continue(t, <<>>) /\ UNCHANGED relaySendLock
       ELSE Continue(t, Under(t, "relaySend", body)) /\ relaySendLock' = t
    /\ UNCHANGED <<circuitVars, linkVars, streamVars, streamWindow, socksVars,
                   streamLock, outMonitor, lockOrders>>

\* StreamImpl.close sends no RELAY_END on a stream that the exit ended.
SkipRelayEnd(t, s) ==
    /\ Does(t, "relayEnd", s)
    /\ relayEndReceived[s]
    /\ Continue(t, <<>>)
    /\ UNCHANGED <<dataVars, lockVars>>

\* CircuitNodeImpl.waitForSendWindowAndDecrement returns at last.
TakeNodeWindow(t) ==
    /\ Does(t, "takeNode", Nobody)
    /\ nodeWindow
    /\ nodeWindow' \in BOOLEAN
    /\ Continue(t, SendCell)
    /\ UNCHANGED <<circuitVars, linkVars, streamVars, streamWindow, socksVars, lockVars>>

-----------------------------------------------------------------------------
(* TorOutputStream.  Each method is synchronized. *)

\* flushCurrentOutputCell.  The cell is replaced only after it was sent.
FlushCurrentOutputCell(s) ==
    <<Call("takeStream", s), Call("awaitNode", Nobody), Call("sendData", Nobody),
      Call("newCell", s)>>

NewCell(t, s) ==
    /\ Does(t, "newCell", s)
    /\ buffered' = [buffered EXCEPT ![s] = FALSE]
    /\ Continue(t, <<>>)
    /\ UNCHANGED <<circuitVars, linkVars, streamClosed, relayEndReceived, outClosed,
                   windowVars, socksVars, lockVars>>

\* write: the IOException of checkOpen ends the outgoing thread.
Write(t, s) ==
    /\ Does(t, "write", s)
    /\ IF outClosed[s]
       THEN /\ outMonitor[s] = Free
            /\ todo' = [todo EXCEPT ![t] = <<Call("end", s)>>]
            /\ UNCHANGED outMonitor
       ELSE EnterMonitor(t, s, <<Call("fill", s)>>)
    /\ UNCHANGED <<dataVars, streamLock, relaySendLock, lockOrders>>

\* ... the loop that fills cells and flushes the full ones.
Fill(t, s) ==
    /\ Does(t, "fill", s)
    /\ buffered' = [buffered EXCEPT ![s] = TRUE]
    /\ \E body \in {<<>>, FlushCurrentOutputCell(s),
                    FlushCurrentOutputCell(s) \o <<Call("fill", s)>>} : Continue(t, body)
    /\ UNCHANGED <<circuitVars, linkVars, streamClosed, relayEndReceived, outClosed,
                   windowVars, socksVars, lockVars>>

Flush(t, s) ==
    /\ Does(t, "flush", s)
    /\ EnterMonitor(t, s, IF outClosed[s] \/ ~buffered[s] THEN <<>>
                          ELSE FlushCurrentOutputCell(s))
    /\ UNCHANGED <<dataVars, streamLock, relaySendLock, lockOrders>>

\* close: flush first, then close the stream, with the monitor held.
CloseOutput(t, s) ==
    /\ Does(t, "closeOutput", s)
    /\ EnterMonitor(t, s, IF outClosed[s] THEN <<>>
           ELSE (IF buffered[s] THEN FlushCurrentOutputCell(s) ELSE <<>>)
                  \o <<Call("outClosed", s), Call("close", s)>>)
    /\ UNCHANGED <<dataVars, streamLock, relaySendLock, lockOrders>>

OutputClosed(t, s) ==
    /\ Does(t, "outClosed", s)
    /\ outClosed' = [outClosed EXCEPT ![s] = TRUE]
    /\ buffered' = [buffered EXCEPT ![s] = FALSE]
    /\ Continue(t, <<>>)
    /\ UNCHANGED <<circuitVars, linkVars, streamClosed, relayEndReceived,
                   windowVars, socksVars, lockVars>>

-----------------------------------------------------------------------------
(* StreamImpl.close.  isClosed is read and written without a lock.             *)

\* The early return.  TorInputStream.close comes down to this call too.
CloseStream(t, s) ==
    /\ Does(t, "close", s)
    /\ Continue(t, IF streamClosed[s] THEN <<>>
                   ELSE <<Call("isClosed", s), Call("closeOutput", s),
                          Call("remove", s), Call("relayEnd", s)>>)
    /\ UNCHANGED <<dataVars, lockVars>>

StreamIsClosed(t, s) ==
    /\ Does(t, "isClosed", s)
    /\ streamClosed' = [streamClosed EXCEPT ![s] = TRUE]
    /\ Continue(t, <<>>)
    /\ UNCHANGED <<circuitVars, linkVars, relayEndReceived, outClosed, buffered,
                   windowVars, socksVars, lockVars>>

-----------------------------------------------------------------------------
(* CircuitIO. *)

\* Looks whether streams are left before it takes this one out.
RemoveStreamMutant(t, s) ==
    /\ Does(t, "remove", s)
    /\ CanTake(t, "stream")
    /\ streamMap' = streamMap \ {s}
    /\ Continue(t, IF streamMap = {} /\ isMarkedForClose
                   THEN <<Call("closeCircuit", Nobody)>> ELSE <<>>)
    /\ UNCHANGED <<status, circuitClosed, isMarkedForClose, bound, linkVars,
                   streamVars, windowVars, socksVars, lockVars>>

\* removeStream: the last stream of a marked circuit closes it.
RemoveStream(t, s) ==
    /\ Does(t, "remove", s)
    /\ CanTake(t, "stream")
    /\ streamMap' = streamMap \ {s}
    /\ Continue(t, IF streamMap' = {} /\ isMarkedForClose
                   THEN <<Call("closeCircuit", Nobody)>> ELSE <<>>)
    /\ UNCHANGED <<status, circuitClosed, isMarkedForClose, bound, linkVars,
                   streamVars, windowVars, socksVars, lockVars>>

\* markForClose.
MarkForClose(t) ==
    /\ Does(t, "mark", Nobody)
    /\ CanTake(t, "stream")
    /\ isMarkedForClose' = TRUE
    /\ Continue(t, IF ~isMarkedForClose /\ streamMap = {}
                   THEN <<Call("closeCircuit", Nobody)>> ELSE <<>>)
    /\ UNCHANGED <<status, circuitClosed, bound, streamMap, linkVars, streamVars,
                   windowVars, socksVars, lockVars>>

\* closeCircuit, which does not look at isClosed.
CloseCircuit(t) ==
    /\ Does(t, "closeCircuit", Nobody)
    /\ bound' = FALSE /\ status' = "DESTROYED" /\ circuitClosed' = TRUE
    /\ Continue(t, <<>>)
    /\ UNCHANGED <<isMarkedForClose, streamMap, linkVars, streamVars, windowVars,
                   socksVars, lockVars>>

\* Marks the circuit destroyed but forgets its streams.
DestroyCircuitMutant(t) ==
    /\ Does(t, "destroy", Nobody)
    /\ CanTake(t, "stream")
    /\ status' = "DESTROYED" /\ bound' = FALSE /\ circuitClosed' = TRUE
    /\ Continue(t, <<>>)
    /\ UNCHANGED <<isMarkedForClose, streamMap, linkVars, streamVars, windowVars,
                   socksVars, lockVars>>

\* destroyCircuit: every stream is closed, in any order, under streamLock.
DestroyCircuit(t) ==
    /\ Does(t, "destroy", Nobody)
    /\ CanTake(t, "stream")
    /\ IF circuitClosed
       THEN Continue(t, <<>>) /\ UNCHANGED <<status, bound, streamLock>>
       ELSE /\ status' = "DESTROYED" /\ bound' = FALSE
            /\ streamLock' = t
            /\ \E tmpList \in SetToSeqs(streamMap) :
                  Continue(t, Under(t, "stream",
                      [i \in DOMAIN tmpList |-> Call("close", tmpList[i])]
                        \o <<Call("closed", Nobody)>>))
    /\ UNCHANGED <<circuitClosed, isMarkedForClose, streamMap, linkVars, streamVars,
                   windowVars, socksVars, relaySendLock, outMonitor, lockOrders>>

Closed(t) ==
    /\ Does(t, "closed", Nobody)
    /\ circuitClosed' = TRUE
    /\ Continue(t, <<>>)
    /\ UNCHANGED <<status, isMarkedForClose, bound, streamMap, linkVars, streamVars,
                   windowVars, socksVars, lockVars>>

-----------------------------------------------------------------------------
(* The cell reading thread. *)

\* What the exit may send now.  It answers the streams it was asked to open, once;
\* a SENDME that finds the window open would change nothing here.
Cells ==
    LET Asked == {s \in Streams : phase[s] \notin {"none", "picked"}} IN
    {Call("connected", s) : s \in {r \in Asked : phase[r] = "opening"}}
      \union {Call("relayEndCell", s) : s \in {r \in Asked : ~relayEndReceived[r]}}
      \union {Call("deliver", s) : s \in Asked \intersect Talkers}
      \union {Call("relaySendme", s) : s \in {r \in Asked : ~streamWindow[r]}}
      \union {Call("circuitSendme", Nobody) : x \in {nodeWindow} \ {TRUE}}
      \union {Call("destroy", Nobody)}

\* ConnectionImpl.processCell: the circuit is looked up, then gets the cell.  A
\* circuit SENDME may be due before a DATA cell is delivered.
RecvCell ==
    /\ readerAlive /\ linkUp /\ bound /\ todo[Reader] = <<>>
    /\ \E c \in Cells :
        \/ todo' = [todo EXCEPT ![Reader] = <<c>>]
        \/ /\ c[1] = "deliver"
           /\ todo' = [todo EXCEPT ![Reader] = <<Call("sendOther", Nobody), c>>]
    /\ UNCHANGED <<dataVars, lockVars>>

\* StreamImpl.addInputCell for a DATA cell, which may send the stream's SENDME
\* with streamLock and the stream's windowLock held.
Deliver(s) ==
    /\ Does(Reader, "deliver", s)
    /\ CanTake(Reader, "stream")
    /\ \/ Continue(Reader, <<>>) /\ UNCHANGED streamLock
       \/ /\ s \in streamMap /\ ~streamClosed[s]
          /\ streamLock' = Reader
          /\ Continue(Reader, Under(Reader, "stream",
                 <<Call("sendOther", Nobody), Call("exitWindowLock", s)>>))
    /\ UNCHANGED <<dataVars, relaySendLock, outMonitor, lockOrders>>

ExitWindowLock(s) ==
    /\ Does(Reader, "exitWindowLock", s)
    /\ Continue(Reader, <<>>)
    /\ UNCHANGED <<dataVars, lockVars>>

\* The other branches of addInputCell: SENDME, END and CONNECTED.
RecvStreamCell(s) ==
    LET tracked == s \in streamMap /\ ~streamClosed[s]
        Sets(f, op) == f' = [f EXCEPT ![s] = @ \/ (tracked /\ Does(Reader, op, s))]
    IN
    /\ \E op \in {"relaySendme", "relayEndCell", "connected"} : Does(Reader, op, s)
    /\ streamLock = Free
    /\ Sets(streamWindow, "relaySendme")
    /\ Sets(relayEndReceived, "relayEndCell")
    /\ phase' = [phase EXCEPT ![s] =
          IF tracked /\ Does(Reader, "connected", s) /\ @ = "opening" THEN "answered" ELSE @]
    /\ Continue(Reader, <<>>)
    /\ UNCHANGED <<circuitVars, linkVars, streamClosed, outClosed, buffered, nodeWindow,
                   inEnded, outEnded, late, lockVars>>

\* processCircuitSendme.
RecvCircuitSendme ==
    /\ Does(Reader, "circuitSendme", Nobody)
    /\ nodeWindow' = TRUE
    /\ Continue(Reader, <<>>)
    /\ UNCHANGED <<circuitVars, linkVars, streamVars, streamWindow, socksVars, lockVars>>

\* The socket fails; readCellsLoop returns, and no circuit is told.
LinkFails ==
    /\ LinkMayFail /\ linkUp
    /\ linkUp' = FALSE
    /\ UNCHANGED <<circuitVars, readerAlive, streamVars, windowVars, socksVars, lockVars, todo>>

ReaderEnds ==
    /\ ~linkUp /\ readerAlive /\ todo[Reader] = <<>>
    /\ readerAlive' = FALSE
    /\ UNCHANGED <<circuitVars, linkUp, streamVars, windowVars, socksVars, lockVars, todo>>

-----------------------------------------------------------------------------
(* Opening a stream and running its SOCKS connection. *)

\* CircuitCreationTask takes the circuit for a request while it is connected and
\* not marked (canHandleExitTo); OpenExitStreamTask runs later.
PickCircuit(s) ==
    /\ phase[s] = "none"
    /\ status = "OPEN" /\ ~isMarkedForClose /\ streamLock = Free
    /\ phase' = [phase EXCEPT ![s] = "picked"]
    /\ UNCHANGED <<circuitVars, linkVars, streamVars, windowVars, inEnded, outEnded,
                   late, lockVars, todo>>

\* Hands out the stream id of circuit level cells.
CreateNewStreamMutant(s) ==
    /\ phase[s] = "picked"
    /\ streamLock = Free
    /\ streamMap' = streamMap \union {Nobody}
    /\ phase' = [phase EXCEPT ![s] = "opening"]
    /\ UNCHANGED <<status, circuitClosed, isMarkedForClose, bound, linkVars, streamVars,
                   windowVars, inEnded, outEnded, late, lockVars, todo>>

\* CircuitIO.createNewStream, which looks at no flag, and then RELAY_BEGIN.
CreateNewStream(s) ==
    /\ phase[s] = "picked"
    /\ streamLock = Free
    /\ streamMap' = streamMap \union {s}
    /\ late' = [late EXCEPT ![s] = isMarkedForClose \/ status # "OPEN"]
    /\ phase' = [phase EXCEPT ![s] = "opening"]
    /\ todo' = [todo EXCEPT ![Socks(s)] = <<Call("sendOther", Nobody)>>]
    /\ UNCHANGED <<status, circuitClosed, isMarkedForClose, bound, linkVars, streamVars,
                   windowVars, inEnded, outEnded, lockVars>>

\* waitForRelayConnected: the two SOCKS threads start when the exit connected.
StreamOpened(s) ==
    /\ phase[s] = "answered" /\ todo[Socks(s)] = <<>>
    /\ phase' = [phase EXCEPT ![s] = "connected"]
    /\ todo' = [todo EXCEPT ![Out(s)] = <<Call("awaitStream", s), Call("awaitNode", Nobody),
                                         Call("read", s)>>]
    /\ UNCHANGED <<circuitVars, linkVars, streamVars, windowVars, inEnded, outEnded,
                   late, lockVars>>

\* ... or it timed out, or the exit refused: the stream is taken off the circuit
\* (not closed), which a timeout or a retryable reason also marks for close.
OpenFails(s) ==
    /\ phase[s] = "opening" /\ todo[Socks(s)] = <<>>
    /\ phase' = [phase EXCEPT ![s] = "failed"]
    /\ \E after \in IF relayEndReceived[s] THEN {<<>>, <<Call("mark", Nobody)>>}
                                            ELSE {<<Call("mark", Nobody)>>} :
           todo' = [todo EXCEPT ![Socks(s)] = <<Call("remove", s)>> \o after]
    /\ UNCHANGED <<circuitVars, linkVars, streamVars, windowVars, inEnded, outEnded,
                   late, lockVars>>

\* outgoingTransferLoop: the SOCKS socket yields data, end of file or an error.
ReadSocket(s) ==
    /\ Does(Out(s), "read", s)
    /\ \/ /\ s \in Talkers
          /\ Continue(Out(s), <<Call("write", s), Call("flush", s), Call("awaitStream", s),
                                Call("awaitNode", Nobody), Call("read", s)>>)
       \/ Continue(Out(s), <<Call("closeOutput", s), Call("end", s)>>)
       \/ Continue(Out(s), <<Call("end", s)>>)
    /\ UNCHANGED <<dataVars, lockVars>>

OutgoingEnds(s) ==
    /\ Does(Out(s), "end", s)
    /\ outEnded' = [outEnded EXCEPT ![s] = TRUE]
    /\ Continue(Out(s), <<>>)
    /\ UNCHANGED <<circuitVars, linkVars, streamVars, windowVars, phase, inEnded, late, lockVars>>

\* incomingTransferLoop sees the end of TorInputStream ...
IncomingEof(s) ==
    /\ phase[s] = "connected" /\ ~inEnded[s]
    /\ relayEndReceived[s] \/ streamClosed[s]
    /\ inEnded' = [inEnded EXCEPT ![s] = TRUE]
    /\ UNCHANGED <<circuitVars, linkVars, streamVars, windowVars, phase, outEnded, late,
                   lockVars, todo>>

\* ... or fails to write to the SOCKS socket.
IncomingFails(s) ==
    /\ phase[s] = "connected" /\ ~inEnded[s]
    /\ inEnded' = [inEnded EXCEPT ![s] = TRUE]
    /\ UNCHANGED <<circuitVars, linkVars, streamVars, windowVars, phase, outEnded, late,
                   lockVars, todo>>

\* SocksStreamConnection.run: both threads are done, both directions are closed.
BothEnded(s) ==
    /\ phase[s] = "connected" /\ inEnded[s] /\ outEnded[s]
    /\ phase' = [phase EXCEPT ![s] = "closing"]
    /\ todo' = [todo EXCEPT ![Socks(s)] = <<Call("close", s), Call("closeOutput", s)>>]
    /\ UNCHANGED <<circuitVars, linkVars, streamVars, windowVars, inEnded, outEnded,
                   late, lockVars>>

\* CircuitCreationTask.expireOldCircuits finds the circuit dirty for too long.
ExpireCircuit ==
    /\ ~isMarkedForClose /\ status = "OPEN" /\ todo[Manager] = <<>>
    /\ streamLock = Free
    /\ todo' = [todo EXCEPT ![Manager] = <<Call("mark", Nobody)>>]
    /\ UNCHANGED <<dataVars, lockVars>>

-----------------------------------------------------------------------------
\* A call of thread t that is under way.
Step(t) ==
    /\ todo[t] # <<>>
    /\ \/ NoteOrder(t) \/ ThrowOnCycle(t) \/ Unlock(t)
       \/ AwaitNodeWindow(t) \/ TakeNodeWindow(t) \/ SendRelayCell(t)
       \/ MarkForClose(t) \/ CloseCircuit(t) \/ DestroyCircuit(t) \/ Closed(t)
       \/ \E s \in Streams \intersect {Head(todo[t])[2]} :
           \/ AwaitStreamWindow(t, s) \/ NewCell(t, s)
           \/ Write(t, s) \/ Fill(t, s) \/ Flush(t, s)
           \/ CloseOutput(t, s) \/ OutputClosed(t, s)
           \/ CloseStream(t, s) \/ StreamIsClosed(t, s) \/ SkipRelayEnd(t, s)
           \/ RemoveStream(t, s)

ReaderStep ==
    \/ Step(Reader)
    \/ RecvCircuitSendme \/ ReaderEnds
    \/ \E s \in Streams : Deliver(s) \/ ExitWindowLock(s) \/ RecvStreamCell(s)

SocksStep(s) == Step(Socks(s)) \/ CreateNewStream(s) \/ StreamOpened(s) \/ OpenFails(s) \/ BothEnded(s)

OutStep(s) == Step(Out(s)) \/ OutgoingEnds(s)

Environment ==
    \/ RecvCell \/ LinkFails \/ ExpireCircuit
    \/ \E s \in Streams : PickCircuit(s) \/ ReadSocket(s) \/ IncomingFails(s)

Next ==
    \/ Step(Manager) \/ ReaderStep
    \/ \E s \in Streams : SocksStep(s) \/ OutStep(s) \/ IncomingEof(s)
    \/ Environment

Spec == Init /\ [][Next]_vars

\* The JVM schedules every thread that can run.  Nothing obliges the peers to
\* send, the SOCKS client to write or the circuit to expire (Environment).
FairSpec ==
    /\ Spec
    /\ WF_vars(ReaderStep) /\ WF_vars(Step(Manager))
    /\ \A s \in Streams : WF_vars(SocksStep(s)) /\ WF_vars(OutStep(s)) /\ WF_vars(IncomingEof(s))

-----------------------------------------------------------------------------
(* Properties. *)

\* streamLock is taken under relaySendLock when a send fails, and relaySendLock
\* under streamLock when a delivery answers with a SENDME.  The throwing policy
\* of Threading turns the second order into an exception, so that no two threads
\* ever wait for each other on these two locks.
TrackedLocksNeverCycle ==
    ~ \E t, u \in Threads :
        /\ streamLock = t /\ NextLock(t) = "relaySend" /\ Allowed(t, "relaySend")
        /\ relaySendLock = u /\ NextLock(u) = "stream" /\ Allowed(u, "stream")
        /\ t # u

\* Some thread is about to take stream s off the circuit.
Leaving(s) ==
    \E t \in Threads : \E i \in DOMAIN todo[t] : todo[t][i] \in {Call("close", s), Call("remove", s)}

\* A closed circuit has no stream left that was opened while the circuit was in
\* use, unless a thread is just taking it off: destroyCircuit closes what it finds
\* under streamLock, closeCircuit runs only when the map is empty.  (Once the link
\* is down a PotentialDeadlockException may cut a close short.)
ClosedCircuitHasOnlyLateStreams ==
    linkUp /\ circuitClosed => \A s \in streamMap : late[s] \/ Leaving(s)

\* A circuit that is marked for close and has no stream left is closed:
\* whichever of markForClose and removeStream comes second under streamLock sees
\* what the first one did.
LastStreamCloses == isMarkedForClose /\ streamMap = {} ~> circuitClosed

\* Stream.java says of waitForSendWindow that "it blocks until both windows are
\* open or the stream is closed": a thread does not wait for the window of a
\* closed stream for ever.
WaitEndsWithStream ==
    \A s \in Streams :
        Does(Out(s), "awaitStream", s) /\ streamClosed[s] ~> ~Does(Out(s), "awaitStream", s)

\* CircuitNode.java says of waitForSendWindow that it will "block until the
\* circuit is destroyed or the window is incremented": a thread does not wait for
\* the window of a destroyed circuit for ever.
WaitEndsWithCircuit ==
    \A s \in Streams :
        Does(Out(s), "awaitNode", Nobody) /\ status = "DESTROYED"
            ~> ~Does(Out(s), "awaitNode", Nobody)
=============================================================================
