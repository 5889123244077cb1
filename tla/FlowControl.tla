---------------------------- MODULE FlowControl ----------------------------
(***************************************************************************)
(* Window flow control on one open circuit of the Orchid Tor client.       *)
(*                                                                         *)
(* The circuit has one exit hop (CircuitNodeImpl) and a set of streams     *)
(* (StreamImpl).  Three kinds of client threads touch the windows:         *)
(*                                                                         *)
(*   writer[s]   the outgoing thread of SocksStreamConnection, which       *)
(*               flushes RELAY_DATA cells through TorOutputStream;         *)
(*   reader      the one cell reading thread of the connection             *)
(*               (ConnectionImpl.readCellsLoop);                           *)
(*   the incoming thread of SocksStreamConnection, which empties           *)
(*   TorInputStream (AppRead).                                             *)
(*                                                                         *)
(* A critical section that cannot block is one step.  relaySendLock is     *)
(* therefore held between steps only by a writer that waits, inside        *)
(* CircuitIO.sendRelayCellTo, for the circuit window to open.  Waiting on a*)
(* monitor is a guard: every change of a window is followed by notifyAll.  *)
(*                                                                         *)
(* The exit is external.  It is the peer that the windows are agreed with: *)
(* it sends only what its windows allow and acknowledges what it receives. *)
(***************************************************************************)
EXTENDS Naturals, Integers, Sequences, FiniteSets

CONSTANTS
    Streams,        \* the streams open on the circuit
    CircuitLevel,   \* the stream id 0 of circuit level cells
    CircStart,      \* CIRCWINDOW_START
    CircInc,        \* CIRCWINDOW_INCREMENT
    StreamStart,    \* STREAMWINDOW_START
    StreamInc,      \* STREAMWINDOW_INCREMENT
    MaxUnflushed    \* STREAMWINDOW_MAX_UNFLUSHED

ASSUME LevelAssumption == CircuitLevel \notin Streams

ASSUME WindowAssumption ==
    /\ CircStart \in Nat /\ CircInc \in Nat \ {0} /\ CircInc <= CircStart
    /\ StreamStart \in Nat /\ StreamInc \in Nat \ {0} /\ StreamInc <= StreamStart
    /\ MaxUnflushed \in Nat

Nobody == CircuitLevel

VARIABLES
    nodePackageWindow,   \* CircuitNodeImpl.packageWindow of the exit hop
    nodeDeliverWindow,   \* CircuitNodeImpl.deliverWindow of the exit hop
    packageWindow,       \* StreamImpl.packageWindow of each stream
    deliverWindow,       \* StreamImpl.deliverWindow of each stream
    incomingCells,       \* size of TorInputStream.incomingCells of each stream
    writer,              \* program counter of each outgoing thread
    relaySendLock,       \* the writer that waits with the lock, or Nobody
    reader,              \* program counter of the cell reading thread
    readerCell,          \* the stream whose DATA cell it is delivering
    toExit, toClient,    \* the connection, one FIFO per direction
    exitWindow,          \* external: the exit's circuit package window
    exitStreamWindow,    \* external: its stream package windows
    exitUnacked,         \* external: DATA cells not yet answered by a SENDME
    exitStreamUnacked    \* external: the same per stream

clientVars == <<nodePackageWindow, nodeDeliverWindow, packageWindow,
                deliverWindow, incomingCells, writer, relaySendLock,
                reader, readerCell>>
exitVars   == <<exitWindow, exitStreamWindow, exitUnacked, exitStreamUnacked>>
vars       == <<clientVars, toExit, toClient, exitVars>>

Levels == Streams \union {CircuitLevel}
Cell   == [cmd : {"DATA"}, sid : Streams] \union [cmd : {"SENDME"}, sid : Levels]

Data(s)   == [cmd |-> "DATA", sid |-> s]
Sendme(l) == [cmd |-> "SENDME", sid |-> l]

WriterPc == {"loop", "loopNode", "read", "flush", "flushNode", "send", "waiting"}
ReaderPc == {"idle", "circuitSendme", "deliver", "consider", "streamSendme"}

TypeOK ==
    /\ nodePackageWindow \in Int
    /\ nodeDeliverWindow \in Int
    /\ packageWindow \in [Streams -> Int]
    /\ deliverWindow \in [Streams -> Int]
    /\ incomingCells \in [Streams -> Nat]
    /\ writer \in [Streams -> WriterPc]
    /\ relaySendLock \in Streams \union {Nobody}
    /\ reader \in ReaderPc
    /\ readerCell \in Streams \union {Nobody}
    /\ toExit \in Seq(Cell)
    /\ toClient \in Seq(Cell)
    /\ exitWindow \in Nat
    /\ exitStreamWindow \in [Streams -> Nat]
    /\ exitUnacked \in Nat
    /\ exitStreamUnacked \in [Streams -> Nat]

Init ==
    /\ nodePackageWindow = CircStart
    /\ nodeDeliverWindow = CircStart
    /\ packageWindow = [s \in Streams |-> StreamStart]
    /\ deliverWindow = [s \in Streams |-> StreamStart]
    /\ incomingCells = [s \in Streams |-> 0]
    /\ writer = [s \in Streams |-> "loop"]
    /\ relaySendLock = Nobody
    /\ reader = "idle"
    /\ readerCell = Nobody
    /\ toExit = <<>>
    /\ toClient = <<>>
    /\ exitWindow = CircStart
    /\ exitStreamWindow = [s \in Streams |-> StreamStart]
    /\ exitUnacked = 0
    /\ exitStreamUnacked = [s \in Streams |-> 0]

-----------------------------------------------------------------------------
(* The windows.  An operator named ...Mutant is a plausible mistake in the     *)
(* definition that follows it; it is used by no action.                        *)

\* A SENDME that opens nothing.
IncrementSendWindowMutant(w) == w

\* CircuitNodeImpl.incrementSendWindow.
IncrementSendWindow(w) == w + CircInc

\* The circuit increment in place of the stream's.
IncrementPackageWindowMutant(w) == w + CircInc

\* The SENDME branch of StreamImpl.addInputCell.
IncrementPackageWindow(w) == w + StreamInc


\* CircuitNodeImpl.considerSendingSendme: the window after a SENDME is due.
NodeSendmeCredit(w) == w + CircInc


\* StreamImpl.considerSendingSendme: the window after the SENDME.
StreamSendmeCredit(w) == w + StreamInc

\* Withholds the SENDME one cell too early.
TooManyUnflushedMutant(n) == n + 1 >= MaxUnflushed

\* StreamImpl.considerSendingSendme: the second early return.
TooManyUnflushed(n) == n >= MaxUnflushed

\* Reads from an empty queue.
CellsQueuedMutant(n) == TRUE

\* TorInputStream.getNextCell waits until a cell is there.
CellsQueued(n) == n > 0

-----------------------------------------------------------------------------
(* The outgoing thread of a stream. *)

\* StreamImpl.windowLock is held by the reader while it sends a stream SENDME.
WindowLockFree(s) == ~(reader = "streamSendme" /\ readerCell = s)

WriterGoto(s, pc) == writer' = [writer EXCEPT ![s] = pc]

\* StreamImpl.waitForSendWindow(false), first half: the stream's own window.
AwaitStreamWindow(s) ==
    /\ writer[s] = "loop"
    /\ WindowLockFree(s)
    /\ packageWindow[s] # 0
    /\ WriterGoto(s, "loopNode")
    /\ UNCHANGED <<nodePackageWindow, nodeDeliverWindow, packageWindow,
                   deliverWindow, incomingCells, relaySendLock, reader,
                   readerCell, toExit, toClient, exitVars>>

\* The circuit window is not looked at before relaySendLock is taken.
AwaitNodeWindowMutant(s) ==
    /\ writer[s] \in {"loopNode", "flushNode"}
    /\ WriterGoto(s, IF writer[s] = "loopNode" THEN "read" ELSE "send")
    /\ UNCHANGED <<nodePackageWindow, nodeDeliverWindow, packageWindow,
                   deliverWindow, incomingCells, relaySendLock, reader,
                   readerCell, toExit, toClient, exitVars>>

\* ... second half: CircuitNodeImpl.waitForSendWindow(false).
AwaitNodeWindow(s) ==
    /\ writer[s] \in {"loopNode", "flushNode"}
    /\ nodePackageWindow # 0
    /\ WriterGoto(s, IF writer[s] = "loopNode" THEN "read" ELSE "send")
    /\ UNCHANGED <<nodePackageWindow, nodeDeliverWindow, packageWindow,
                   deliverWindow, incomingCells, relaySendLock, reader,
                   readerCell, toExit, toClient, exitVars>>

\* The SOCKS socket yields bytes, TorOutputStream.write or flush has a cell.
ReadSocket(s) ==
    /\ writer[s] = "read"
    /\ WriterGoto(s, "flush")
    /\ UNCHANGED <<nodePackageWindow, nodeDeliverWindow, packageWindow,
                   deliverWindow, incomingCells, relaySendLock, reader,
                   readerCell, toExit, toClient, exitVars>>

\* StreamImpl.waitForSendWindow(true): takes a unit of the stream window.
TakeStreamWindow(s) ==
    /\ writer[s] = "flush"
    /\ WindowLockFree(s)
    /\ packageWindow[s] # 0
    /\ packageWindow' = [packageWindow EXCEPT ![s] = @ - 1]
    /\ WriterGoto(s, "flushNode")
    /\ UNCHANGED <<nodePackageWindow, nodeDeliverWindow, deliverWindow,
                   incomingCells, relaySendLock, reader, readerCell,
                   toExit, toClient, exitVars>>

\* CircuitIO.sendRelayCellTo got relaySendLock but the circuit window is shut:
\* CircuitNodeImpl.waitForSendWindowAndDecrement blocks, the lock stays held.
BlockInSend(s) ==
    /\ writer[s] = "send"
    /\ relaySendLock = Nobody
    /\ nodePackageWindow = 0
    /\ relaySendLock' = s
    /\ WriterGoto(s, "waiting")
    /\ UNCHANGED <<nodePackageWindow, nodeDeliverWindow, packageWindow,
                   deliverWindow, incomingCells, reader, readerCell,
                   toExit, toClient, exitVars>>

\* The circuit window is decremented without waiting for it to open.
SendDataMutant(s) ==
    /\ writer[s] = "send" /\ relaySendLock = Nobody
    /\ nodePackageWindow' = nodePackageWindow - 1
    /\ toExit' = Append(toExit, Data(s))
    /\ \E pc \in {"flush", "loop"} : WriterGoto(s, pc)
    /\ UNCHANGED <<nodeDeliverWindow, packageWindow, deliverWindow,
                   incomingCells, relaySendLock, reader, readerCell,
                   toClient, exitVars>>

\* CircuitIO.sendRelayCellTo for a DATA cell, window open: decrement, write the
\* cell, unlock.  Another cell of the same chunk may follow.
SendData(s) ==
    /\ \/ writer[s] = "send" /\ relaySendLock = Nobody
       \/ writer[s] = "waiting"
    /\ nodePackageWindow # 0
    /\ nodePackageWindow' = nodePackageWindow - 1
    /\ toExit' = Append(toExit, Data(s))
    /\ relaySendLock' = Nobody
    /\ \E pc \in {"flush", "loop"} : WriterGoto(s, pc)
    /\ UNCHANGED <<nodeDeliverWindow, packageWindow, deliverWindow,
                   incomingCells, reader, readerCell, toClient, exitVars>>

-----------------------------------------------------------------------------
(* The cell reading thread. *)

\* processRelayDataCell, circuit level: decrementDeliverWindow and
\* considerSendingSendme, which credits the window before the SENDME is sent.
RecvData(s) ==
    LET w    == nodeDeliverWindow - 1
        send == w <= CircStart - CircInc
    IN
    /\ reader = "idle"
    /\ toClient # <<>> /\ Head(toClient) = Data(s)
    /\ toClient' = Tail(toClient)
    /\ nodeDeliverWindow' = IF send THEN NodeSendmeCredit(w) ELSE w
    /\ reader' = IF send THEN "circuitSendme" ELSE "deliver"
    /\ readerCell' = s
    /\ UNCHANGED <<nodePackageWindow, packageWindow, deliverWindow,
                   incomingCells, writer, relaySendLock, toExit, exitVars>>

\* ... the circuit level SENDME, which needs relaySendLock.
SendCircuitSendme ==
    /\ reader = "circuitSendme"
    /\ relaySendLock = Nobody
    /\ toExit' = Append(toExit, Sendme(CircuitLevel))
    /\ reader' = "deliver"
    /\ UNCHANGED <<nodePackageWindow, nodeDeliverWindow, packageWindow,
                   deliverWindow, incomingCells, writer, relaySendLock,
                   readerCell, toClient, exitVars>>

\* StreamImpl.addInputCell: queue the cell and count it; a negative window is a
\* TorException, caught by readCellsLoop, and ends the delivery.
DeliverCell ==
    LET s == readerCell
        w == deliverWindow[s] - 1
    IN
    /\ reader = "deliver"
    /\ incomingCells' = [incomingCells EXCEPT ![s] = @ + 1]
    /\ deliverWindow' = [deliverWindow EXCEPT ![s] = w]
    /\ reader' = IF w < 0 THEN "idle" ELSE "consider"
    /\ readerCell' = IF w < 0 THEN Nobody ELSE s
    /\ UNCHANGED <<nodePackageWindow, nodeDeliverWindow, packageWindow, writer,
                   relaySendLock, toExit, toClient, exitVars>>

\* StreamImpl.considerSendingSendme: the two early returns.
ConsiderSendme ==
    LET s    == readerCell
        skip == \/ deliverWindow[s] > StreamStart - StreamInc
                \/ TooManyUnflushed(incomingCells[s])
    IN
    /\ reader = "consider"
    /\ reader' = IF skip THEN "idle" ELSE "streamSendme"
    /\ readerCell' = IF skip THEN Nobody ELSE s
    /\ UNCHANGED <<nodePackageWindow, nodeDeliverWindow, packageWindow,
                   deliverWindow, incomingCells, writer, relaySendLock,
                   toExit, toClient, exitVars>>

\* ... the stream level SENDME, sent with the stream's windowLock held.
SendStreamSendme ==
    /\ reader = "streamSendme"
    /\ relaySendLock = Nobody
    /\ toExit' = Append(toExit, Sendme(readerCell))
    /\ deliverWindow' = [deliverWindow EXCEPT ![readerCell] = StreamSendmeCredit(@)]
    /\ reader' = "idle"
    /\ readerCell' = Nobody
    /\ UNCHANGED <<nodePackageWindow, nodeDeliverWindow, packageWindow,
                   incomingCells, writer, relaySendLock, toClient, exitVars>>

\* processCircuitSendme and the SENDME branch of StreamImpl.addInputCell.
RecvSendme(l) ==
    /\ reader = "idle"
    /\ toClient # <<>> /\ Head(toClient) = Sendme(l)
    /\ toClient' = Tail(toClient)
    /\ IF l = CircuitLevel
       THEN /\ nodePackageWindow' = IncrementSendWindow(nodePackageWindow)
            /\ packageWindow' = packageWindow
       ELSE /\ packageWindow' = [packageWindow EXCEPT ![l] = IncrementPackageWindow(@)]
            /\ nodePackageWindow' = nodePackageWindow
    /\ UNCHANGED <<nodeDeliverWindow, deliverWindow, incomingCells, writer,
                   relaySendLock, reader, readerCell, toExit, exitVars>>

\* TorInputStream.getNextCell on behalf of the incoming thread.
AppRead(s) ==
    /\ CellsQueued(incomingCells[s])
    /\ incomingCells' = [incomingCells EXCEPT ![s] = @ - 1]
    /\ UNCHANGED <<nodePackageWindow, nodeDeliverWindow, packageWindow,
                   deliverWindow, writer, relaySendLock, reader, readerCell,
                   toExit, toClient, exitVars>>

-----------------------------------------------------------------------------
(* The exit relay, external. *)

ExitSendData(s) ==
    /\ exitWindow > 0 /\ exitStreamWindow[s] > 0
    /\ exitWindow' = exitWindow - 1
    /\ exitStreamWindow' = [exitStreamWindow EXCEPT ![s] = @ - 1]
    /\ toClient' = Append(toClient, Data(s))
    /\ UNCHANGED <<clientVars, toExit, exitUnacked, exitStreamUnacked>>

ExitRecvData(s) ==
    /\ toExit # <<>> /\ Head(toExit) = Data(s)
    /\ toExit' = Tail(toExit)
    /\ exitUnacked' = exitUnacked + 1
    /\ exitStreamUnacked' = [exitStreamUnacked EXCEPT ![s] = @ + 1]
    /\ UNCHANGED <<clientVars, toClient, exitWindow, exitStreamWindow>>

ExitRecvSendme(l) ==
    /\ toExit # <<>> /\ Head(toExit) = Sendme(l)
    /\ toExit' = Tail(toExit)
    /\ IF l = CircuitLevel
       THEN /\ exitWindow' = exitWindow + CircInc
            /\ exitStreamWindow' = exitStreamWindow
       ELSE /\ exitStreamWindow' = [exitStreamWindow EXCEPT ![l] = @ + StreamInc]
            /\ exitWindow' = exitWindow
    /\ UNCHANGED <<clientVars, toClient, exitUnacked, exitStreamUnacked>>

ExitSendCircuitSendme ==
    /\ exitUnacked >= CircInc
    /\ exitUnacked' = exitUnacked - CircInc
    /\ toClient' = Append(toClient, Sendme(CircuitLevel))
    /\ UNCHANGED <<clientVars, toExit, exitWindow, exitStreamWindow,
                   exitStreamUnacked>>

ExitSendStreamSendme(s) ==
    /\ exitStreamUnacked[s] >= StreamInc
    /\ exitStreamUnacked' = [exitStreamUnacked EXCEPT ![s] = @ - StreamInc]
    /\ toClient' = Append(toClient, Sendme(s))
    /\ UNCHANGED <<clientVars, toExit, exitWindow, exitStreamWindow,
                   exitUnacked>>

-----------------------------------------------------------------------------
WriterStep(s) ==
    \/ AwaitStreamWindow(s) \/ AwaitNodeWindow(s) \/ TakeStreamWindow(s)
    \/ BlockInSend(s) \/ SendData(s)

ReaderStep ==
    \/ \E s \in Streams : RecvData(s)
    \/ SendCircuitSendme \/ DeliverCell \/ ConsiderSendme \/ SendStreamSendme
    \/ \E l \in Levels : RecvSendme(l)

ExitAck ==
    \/ \E s \in Streams : ExitRecvData(s)
    \/ \E l \in Levels : ExitRecvSendme(l)
    \/ ExitSendCircuitSendme
    \/ \E s \in Streams : ExitSendStreamSendme(s)

Next ==
    \/ \E s \in Streams : WriterStep(s) \/ ReadSocket(s) \/ AppRead(s)
    \/ ReaderStep
    \/ ExitAck
    \/ \E s \in Streams : ExitSendData(s)

Spec == Init /\ [][Next]_vars

\* The threads are scheduled by the JVM and the exit answers.  A thread queued
\* on windowLock gets it when it is freed again and again (SF): the reader goes
\* back to the socket between two acquisitions.  Nothing obliges the SOCKS peer
\* or the exit to have data (ReadSocket, ExitSendData), or anyone to read.
FairSpec ==
    /\ Spec
    /\ \A s \in Streams : WF_vars(WriterStep(s))
    /\ \A s \in Streams : SF_vars(AwaitStreamWindow(s) \/ TakeStreamWindow(s))
    /\ WF_vars(ReaderStep)
    /\ WF_vars(\E s \in Streams : ExitRecvData(s))
    /\ WF_vars(\E l \in Levels : ExitRecvSendme(l))
    /\ WF_vars(ExitSendCircuitSendme)
    /\ \A s \in Streams : WF_vars(ExitSendStreamSendme(s))

-----------------------------------------------------------------------------
(* Properties. *)

\* The number of cells of the set C on the channel ch.
Count(ch, C) == Cardinality({i \in DOMAIN ch : ch[i] \in C})

AllData == [cmd : {"DATA"}, sid : Streams]

\* 1 when the condition holds: a unit of window in a thread's hands.
Unit(b) == IF b THEN 1 ELSE 0

\* A writer took a unit of the stream window and has not yet sent its cell.
InFlush(s) == writer[s] \in {"flushNode", "send", "waiting"}

\* The reader took a DATA cell of s off the connection and has not counted it
\* in the stream's deliver window.
Delivering(s) == reader \in {"circuitSendme", "deliver"} /\ readerCell = s

\* No circuit level credit is lost or made up on the way out: the package window
\* of CircuitNodeImpl, the DATA cells under way, those the exit has not yet
\* acknowledged and the SENDMEs coming back always add up to CIRCWINDOW_START.
NodePackageConserved ==
    nodePackageWindow + Count(toExit, AllData) + exitUnacked
      + CircInc * Count(toClient, {Sendme(CircuitLevel)}) = CircStart

\* The same for each StreamImpl.packageWindow, counting the unit that a writer
\* holds between waitForSendWindowAndDecrement and sendRelayCell.
StreamPackageConserved ==
    \A s \in Streams :
        packageWindow[s] + Unit(InFlush(s)) + Count(toExit, {Data(s)})
          + exitStreamUnacked[s]
          + StreamInc * Count(toClient, {Sendme(s)}) = StreamStart

\* CircuitNodeImpl.deliverWindow is what the exit may still send plus what is
\* under way: considerSendingSendme credits it before the SENDME is written.
NodeDeliverConserved ==
    nodeDeliverWindow =
        exitWindow + Count(toClient, AllData)
          + CircInc * (Count(toExit, {Sendme(CircuitLevel)})
                       + Unit(reader = "circuitSendme"))

\* The same for each StreamImpl.deliverWindow, counting the cell the reader holds.
StreamDeliverConserved ==
    \A s \in Streams :
        deliverWindow[s] =
            exitStreamWindow[s]
              + (Count(toClient, {Data(s)}) + Unit(Delivering(s)))
              + StreamInc * Count(toExit, {Sendme(s)})

\* No window credit is ever lost, made up or counted twice.
CreditConserved ==
    /\ NodePackageConserved
    /\ StreamPackageConserved
    /\ NodeDeliverConserved
    /\ StreamDeliverConserved

\* The reader is busy exactly when it has a stream's cell in hand, and it is
\* about to send a stream SENDME only if the window has room for the increment.
ReaderConsistent ==
    /\ reader # "idle" => readerCell \in Streams
    /\ reader = "streamSendme" =>
           deliverWindow[readerCell] <= StreamStart - StreamInc

\* With a peer that keeps to its windows the client never finds a deliver window
\* below zero: the TorException of StreamImpl.addInputCell is not raised, and no
\* window is pushed past its start value.
WindowsWithinBounds ==
    /\ nodePackageWindow \in 0..CircStart
    /\ nodeDeliverWindow \in 0..CircStart
    /\ \A s \in Streams : packageWindow[s] \in 0..StreamStart
    /\ \A s \in Streams : deliverWindow[s] \in 0..StreamStart
    /\ reader = "deliver" => deliverWindow[readerCell] > 0

\* The inductive invariant behind the theorems of FlowControlProofs.
IInv == TypeOK /\ ReaderConsistent /\ CreditConserved /\ WindowsWithinBounds

\* A writer that waits for the circuit window keeps relaySendLock.  The reader,
\* once it needs that lock to send a SENDME, cannot take the circuit SENDME that
\* would open the window: this cycle is the only way the circuit can stop while
\* the SOCKS peers still have data to send.
OnlyHoldAndWaitStops ==
    (\A s \in Streams : ~ENABLED WriterStep(s) /\ writer[s] # "read")
    /\ ~ENABLED ReaderStep /\ ~ENABLED ExitAck
        => /\ relaySendLock # Nobody
           /\ nodePackageWindow = 0
           /\ reader \in {"circuitSendme", "streamSendme"}

\* relaySendLock is never held by a thread that waits for the circuit window.
\* True of a circuit with a single stream: nobody else can use up the unit that
\* StreamImpl.waitForSendWindow saw before CircuitIO takes the lock.
NeverHoldsAndWaits == relaySendLock = Nobody

\* Every cell that a flush starts on a circuit with a single stream is sent: the
\* windows that are used up are opened again by the SENDMEs the reader processes.
FlushCompletes ==
    \A s \in Streams :
        /\ writer[s] = "flush" ~> InFlush(s)
        /\ InFlush(s) ~> ~InFlush(s)

\* A stream whose application never lets MaxUnflushed cells pile up stays open
\* in the incoming direction: the exit gets window again and again.  A SENDME is
\* considered only when a DATA cell arrives, so without the premise the window
\* can close for good even though the application later reads everything.
PromptReaderKeepsStreamOpen ==
    \A s \in Streams :
        [](incomingCells[s] < MaxUnflushed) => []<>(exitStreamWindow[s] > 0)
=============================================================================
