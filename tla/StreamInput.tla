---------------------------- MODULE StreamInput ----------------------------
(***************************************************************************)
(* TorInputStream: the bytes of a stream between the connection's reader   *)
(* thread, which adds cells, and the thread that reads the stream.  Bytes  *)
(* are counted, not represented.  The lock of the stream is held from the  *)
(* begin of a read to its end, except while it waits for a cell.           *)
(***************************************************************************)
EXTENDS Naturals, Sequences, SequencesExt

CONSTANTS
    CellSizes,  \* possible payload sizes of a RELAY_DATA cell; may include 0
    ReadSizes,  \* possible values of len in read(b, off, len)
    MaxQueue,   \* bound on the queue for model checking
    MaxBytes    \* bound on bytesReceived

ASSUME SizesAssumption == CellSizes \subseteq Nat /\ ReadSizes \subseteq Nat
ASSUME BoundsAssumption == MaxQueue \in Nat /\ MaxBytes \in Nat

VARIABLES
    incomingCells,
    availableBytes,
    bytesReceived,
    currentBuffer,  \* bytes remaining in it
    isEOF,
    isClosed,
    pc,             \* the reading thread: "idle", "reading" with the lock, "waiting"
    len,            \* of the read under way
    bytesRead,      \* by the read under way
    returned        \* history: bytes handed to the caller by all reads

bufferVars == <<incomingCells, availableBytes, bytesReceived, currentBuffer>>
readVars   == <<pc, len, bytesRead, returned>>
vars       == <<bufferVars, isEOF, isClosed, readVars>>

\* The cells on the queue: data with a payload of n bytes, the end, the sentinel.
DATA(n) == [command |-> "RELAY_DATA", size |-> n]
END == [command |-> "RELAY_END", size |-> 0]
CLOSE_SENTINEL == [command |-> "CLOSE_SENTINEL", size |-> 0]

Init ==
    /\ incomingCells = <<>> /\ availableBytes = 0 /\ bytesReceived = 0 /\ currentBuffer = 0
    /\ isEOF = FALSE /\ isClosed = FALSE
    /\ pc = "idle" /\ len = 0 /\ bytesRead = 0 /\ returned = 0

Unlocked == pc # "reading"

-----------------------------------------------------------------------------
(* The thread that receives cells, and close(). *)

\* The count of bytes to read is forgotten.
AddInputCellMutant(n) ==
    /\ Unlocked /\ ~isClosed
    /\ Len(incomingCells) < MaxQueue /\ bytesReceived + n <= MaxBytes
    /\ incomingCells' = Append(incomingCells, DATA(n))
    /\ bytesReceived' = bytesReceived + n
    /\ UNCHANGED <<availableBytes, currentBuffer, isEOF, isClosed, readVars>>

\* addInputCell.
AddInputCell(n) ==
    /\ Unlocked /\ ~isClosed
    /\ Len(incomingCells) < MaxQueue /\ bytesReceived + n <= MaxBytes
    /\ incomingCells' = Append(incomingCells, DATA(n))
    /\ bytesReceived' = bytesReceived + n
    /\ availableBytes' = availableBytes + n
    /\ UNCHANGED <<currentBuffer, isEOF, isClosed, readVars>>

\* addEndCell.
AddEndCell ==
    /\ Unlocked /\ ~isClosed
    /\ Len(incomingCells) < MaxQueue
    /\ incomingCells' = Append(incomingCells, END)
    /\ UNCHANGED <<availableBytes, bytesReceived, currentBuffer, isEOF, isClosed, readVars>>

\* Nobody who waits for a cell is told.
CloseMutant ==
    /\ Unlocked /\ ~isClosed
    /\ isClosed' = TRUE
    /\ UNCHANGED <<bufferVars, isEOF, readVars>>

\* close.
Close ==
    /\ Unlocked /\ ~isClosed
    /\ isClosed' = TRUE
    /\ incomingCells' = Append(incomingCells, CLOSE_SENTINEL)
    /\ UNCHANGED <<availableBytes, bytesReceived, currentBuffer, isEOF, readVars>>

-----------------------------------------------------------------------------
(* The thread that reads. *)

\* read: a closed stream throws and a read of nothing returns at once (no change);
\* any other read begins.
Read(n) ==
    /\ pc = "idle" /\ ~isClosed /\ n > 0
    /\ pc' = "reading" /\ len' = n /\ bytesRead' = 0
    /\ UNCHANGED <<bufferVars, isEOF, isClosed, returned>>

\* The read ends with count bytes; an exception or end of file hands over none.
Ends(count) ==
    /\ pc' = "idle" /\ len' = 0 /\ bytesRead' = 0
    /\ returned' = returned + count

\* getNextCell finds no cell: the lock is released.
Await ==
    /\ pc = "reading" /\ ~isEOF /\ currentBuffer = 0 /\ incomingCells = <<>>
    /\ pc' = "waiting"
    /\ UNCHANGED <<bufferVars, isEOF, isClosed, len, bytesRead, returned>>

\* notifyAll: it goes on when there is a cell.
Wake ==
    /\ pc = "waiting" /\ incomingCells # <<>>
    /\ pc' = "reading"
    /\ UNCHANGED <<bufferVars, isEOF, isClosed, len, bytesRead, returned>>

\* The waiting thread is interrupted: IOException.
InterruptRead ==
    /\ pc = "waiting"
    /\ Ends(0)
    /\ UNCHANGED <<bufferVars, isEOF, isClosed>>

\* refillBufferIfNeeded, one round of fillBuffer: the next cell is processed.
ProcessIncomingCell ==
    LET cell == Head(incomingCells) IN
    /\ pc = "reading" /\ ~isEOF /\ currentBuffer = 0 /\ incomingCells # <<>>
    /\ incomingCells' = Tail(incomingCells)
    /\ IF isClosed \/ cell = CLOSE_SENTINEL
       THEN Ends(0) /\ UNCHANGED <<currentBuffer, isEOF>>
       ELSE /\ UNCHANGED readVars
            /\ isEOF' = (cell = END)
            /\ currentBuffer' = cell.size
    /\ UNCHANGED <<availableBytes, bytesReceived, isClosed>>

\* The read goes on for as long as the caller's array has room.
ReadFromCurrentBufferMutant ==
    LET readLength == IF currentBuffer >= len - bytesRead THEN len - bytesRead ELSE currentBuffer IN
    /\ pc = "reading" /\ ~isEOF /\ currentBuffer > 0
    /\ currentBuffer' = currentBuffer - readLength
    /\ availableBytes' = availableBytes - readLength
    /\ IF bytesRead + readLength = len
       THEN Ends(bytesRead + readLength)
       ELSE bytesRead' = bytesRead + readLength /\ UNCHANGED <<pc, len, returned>>
    /\ UNCHANGED <<incomingCells, bytesReceived, isEOF, isClosed>>

\* readFromCurrentBuffer and what follows it in the loop of read.
ReadFromCurrentBuffer ==
    LET readLength == IF currentBuffer >= len - bytesRead THEN len - bytesRead ELSE currentBuffer IN
    /\ pc = "reading" /\ ~isEOF /\ currentBuffer > 0
    /\ currentBuffer' = currentBuffer - readLength
    /\ availableBytes' = availableBytes - readLength
    /\ IF bytesRead + readLength = len \/ availableBytes' = 0
       THEN Ends(bytesRead + readLength)
       ELSE bytesRead' = bytesRead + readLength /\ UNCHANGED <<pc, len, returned>>
    /\ UNCHANGED <<incomingCells, bytesReceived, isEOF, isClosed>>

\* The bytes read before the end of the stream are dropped.
EndOfFileMutant ==
    /\ pc = "reading" /\ isEOF
    /\ Ends(0)
    /\ UNCHANGED <<bufferVars, isEOF, isClosed>>

\* End of file: -1, or what was read before it.
EndOfFile ==
    /\ pc = "reading" /\ isEOF
    /\ Ends(bytesRead)
    /\ UNCHANGED <<bufferVars, isEOF, isClosed>>

Reader == Await \/ Wake \/ ProcessIncomingCell \/ ReadFromCurrentBuffer \/ EndOfFile

Next ==
    \/ \E n \in CellSizes : AddInputCell(n)
    \/ AddEndCell \/ Close
    \/ \E n \in ReadSizes : Read(n)
    \/ Reader \/ InterruptRead

Spec == Init /\ [][Next]_vars

\* A thread that holds the lock, or was notified, gets to run.
FairSpec == Spec /\ WF_vars(Reader)

-----------------------------------------------------------------------------
(* Properties *)

\* The types of the variables; availableBytes does not become negative, and a read
\* under way never exceeds the caller's len.
TypeOK ==
    /\ incomingCells \in Seq({DATA(n) : n \in CellSizes} \union {END, CLOSE_SENTINEL})
    /\ availableBytes \in Nat /\ bytesReceived \in 0..MaxBytes /\ currentBuffer \in Nat
    /\ isEOF \in BOOLEAN /\ isClosed \in BOOLEAN
    /\ pc \in {"idle", "reading", "waiting"}
    /\ len \in ReadSizes \union {0} /\ bytesRead \in 0..len
    /\ returned \in Nat

\* availableBytes is the "Number of unread data bytes in current buffer and in
\* RELAY_DATA cells on queue", as its comment says, until the stream is closed.
AvailableBytesAreThere ==
    ~isClosed =>
        availableBytes = currentBuffer + FoldSeq(LAMBDA cell, sum : sum + cell.size, 0, incomingCells)

\* A read waits only with empty hands and with nothing to read: once it has copied a
\* byte into the caller's array it returns what there is instead of waiting for more,
\* whatever mix of empty, small and end cells is queued.
WaitsEmptyHanded ==
    pc = "waiting" => bytesRead = 0 /\ (availableBytes = 0 \/ incomingCells # <<>>)

\* No byte is lost or duplicated: a byte received was returned by a read, is in the
\* array of the read under way, or is still available, also when a read ends with
\* an exception, an interrupt or the end of the stream.
NoByteLost ==
    bytesReceived = returned + bytesRead + availableBytes

\* close() ends a read that waits for a cell.
CloseEndsRead == (pc = "waiting" /\ isClosed) ~> (pc = "idle")
=============================================================================
