------------------------- MODULE FlowControlProofs -------------------------
(***************************************************************************)
(* Proofs about FlowControl for any set of streams and any window sizes.   *)
(***************************************************************************)
EXTENDS FlowControl, FiniteSetTheorems, TLAPS

\* Updating a function at one point keeps its type.
LEMMA ExceptType ==
    ASSUME NEW S, NEW T, NEW f \in [S -> T], NEW x, NEW v, x \in S => v \in T
    PROVE  [f EXCEPT ![x] = v] \in [S -> T]
  OBVIOUS

\* Adding to a natural number of a table.
LEMMA NatPlus ==
    ASSUME NEW S, NEW f \in [S -> Nat], NEW x \in S, NEW n \in Nat
    PROVE  f[x] + n \in Nat
  OBVIOUS

\* A credit that leaves one term of a sum enters another.
LEMMA MoveCredit ==
    ASSUME NEW d \in Int, NEW w \in Nat, NEW h \in Nat, NEW p \in Nat,
           NEW q \in Nat, NEW k \in Nat, d = w + h + p, p = q + k
    PROVE  d = (w + k) + h + q
  OBVIOUS

\* Taking no more than there is from a natural number of a table.
LEMMA NatMinus ==
    ASSUME NEW S, NEW f \in [S -> Nat], NEW x \in S, NEW n \in Nat, f[x] >= n
    PROVE  f[x] - n \in Nat
  OBVIOUS

\* The number of cells of a kind on a channel is a natural number.
LEMMA CountType ==
    ASSUME NEW T, NEW ch \in Seq(T), NEW C
    PROVE  /\ Count(ch, C) \in Nat
           /\ IsFiniteSet({i \in DOMAIN ch : ch[i] \in C})
<1> DEFINE S == {i \in DOMAIN ch : ch[i] \in C}
<1>1. DOMAIN ch = 1..Len(ch) /\ Len(ch) \in Nat
  OBVIOUS
<1>2. IsFiniteSet(1..Len(ch))
  BY <1>1, FS_Interval
<1>3. S \in SUBSET (1..Len(ch))
  BY <1>1
<1>4. IsFiniteSet(S)
  BY <1>2, <1>3, FS_Subset
<1> QED
  BY <1>4, FS_CardinalityType DEF Count

\* Nothing is on an empty channel.
LEMMA CountEmpty ==
    ASSUME NEW C
    PROVE  Count(<<>>, C) = 0
<1>1. {i \in DOMAIN <<>> : <<>>[i] \in C} = {}
  OBVIOUS
<1> QED
  BY <1>1, FS_EmptySet DEF Count

\* Writing a cell to a channel counts it once.
LEMMA CountAppend ==
    ASSUME NEW T, NEW ch \in Seq(T), NEW m \in T, NEW C
    PROVE  Count(Append(ch, m), C) = Count(ch, C) + (IF m \in C THEN 1 ELSE 0)
<1> DEFINE S == {i \in DOMAIN ch : ch[i] \in C}
           A == {i \in DOMAIN Append(ch, m) : Append(ch, m)[i] \in C}
           n == Len(ch) + 1
<1>1. IsFiniteSet(S) /\ Cardinality(S) \in Nat
  BY CountType, FS_CardinalityType
<1>2. n \notin S
  OBVIOUS
<1>3. A = IF m \in C THEN S \cup {n} ELSE S
  OBVIOUS
<1>4. Cardinality(S \cup {n}) = Cardinality(S) + 1
  BY <1>1, <1>2, FS_AddElement
<1>5. Count(ch, C) = Cardinality(S) /\ Count(Append(ch, m), C) = Cardinality(A)
  BY DEF Count
<1> HIDE DEF S, A, n
<1>6. CASE m \in C
  BY <1>1, <1>3, <1>4, <1>5, <1>6
<1>7. CASE m \notin C
  BY <1>1, <1>3, <1>5, <1>7
<1> QED
  BY <1>6, <1>7

\* Taking the first cell off a channel uncounts it once.
LEMMA CountTail ==
    ASSUME NEW T, NEW ch \in Seq(T), ch # <<>>, NEW C
    PROVE  Count(ch, C) = Count(Tail(ch), C) + (IF Head(ch) \in C THEN 1 ELSE 0)
<1> DEFINE S == {i \in DOMAIN ch : ch[i] \in C}
           R == {i \in DOMAIN Tail(ch) : Tail(ch)[i] \in C}
           f == [i \in R |-> i + 1]
<1>0. /\ Tail(ch) \in Seq(T) /\ Len(ch) \in Nat /\ Len(ch) > 0
      /\ Len(Tail(ch)) = Len(ch) - 1 /\ Head(ch) = ch[1]
      /\ DOMAIN ch = 1..Len(ch) /\ DOMAIN Tail(ch) = 1..(Len(ch) - 1)
      /\ \A i \in 1..(Len(ch) - 1) : Tail(ch)[i] = ch[i + 1]
  OBVIOUS
<1>1. IsFiniteSet(S) /\ IsFiniteSet(R) /\ Cardinality(R) \in Nat
      /\ Cardinality(S) \in Nat
  <2>1. IsFiniteSet(S)
    BY CountType
  <2>2. IsFiniteSet(R)
    BY <1>0, CountType
  <2> QED
    BY <2>1, <2>2, FS_CardinalityType
<1>2. f \in Bijection(R, S \ {1})
  <2>1. f \in [R -> S \ {1}]
    <3>1. \A i \in R : i + 1 \in S \ {1}
      BY <1>0
    <3> QED
      BY <3>1
  <2>2. \A a, b \in R : f[a] = f[b] => a = b
    BY <1>0
  <2>3. \A t \in S \ {1} : \E i \in R : f[i] = t
    <3> TAKE t \in S \ {1}
    <3>1. t - 1 \in R /\ (t - 1) + 1 = t
      BY <1>0
    <3> QED
      BY <3>1
  <2> QED
    BY <2>1, <2>2, <2>3 DEF Bijection, Injection, Surjection, IsInjective
<1>3. Cardinality(S \ {1}) = Cardinality(R)
  <2>1. ExistsBijection(R, S \ {1})
    BY <1>2, Zenon DEF ExistsBijection
  <2> HIDE DEF S, R, f
  <2> QED
    BY <1>1, <2>1, FS_Bijection, Zenon
<1>4. Cardinality(S \ {1}) = IF 1 \in S THEN Cardinality(S) - 1 ELSE Cardinality(S)
  BY <1>1, FS_RemoveElement
<1>5. 1 \in S <=> Head(ch) \in C
  BY <1>0
<1>6. Count(ch, C) = Cardinality(S) /\ Count(Tail(ch), C) = Cardinality(R)
  BY DEF Count
<1> HIDE DEF S, R
<1> QED
  BY <1>1, <1>3, <1>4, <1>5, <1>6

-----------------------------------------------------------------------------
(* The cells of FlowControl on its channels. *)

\* Cells are told apart by their command and their stream.
LEMMA CellFacts ==
    /\ \A s \in Streams : Data(s) \in Cell /\ Data(s) \in AllData
    /\ \A l \in Levels : Sendme(l) \in Cell /\ Sendme(l) \notin AllData
    /\ \A s, t \in Streams : Data(s) = Data(t) <=> s = t
    /\ \A l, k \in Levels : Sendme(l) = Sendme(k) <=> l = k
    /\ \A s, l : Data(s) # Sendme(l)
  BY DEF Data, Sendme, Cell, AllData, Levels

\* A product with a count, one cell later.
LEMMA TimesStep ==
    ASSUME NEW c \in Nat, NEW n \in Nat
    PROVE  /\ c * n \in Nat
           /\ c * (n + 1) = c * n + c
  OBVIOUS

\* What a channel holds after a DATA cell of s is written to it.
LEMMA AppendData ==
    ASSUME NEW ch \in Seq(Cell), NEW s \in Streams
    PROVE  /\ Append(ch, Data(s)) \in Seq(Cell)
           /\ Count(Append(ch, Data(s)), AllData) = Count(ch, AllData) + 1
           /\ \A t \in Streams : Count(Append(ch, Data(s)), {Data(t)})
                                   = Count(ch, {Data(t)}) + Unit(s = t)
           /\ \A l \in Levels : Count(Append(ch, Data(s)), {Sendme(l)})
                                  = Count(ch, {Sendme(l)})
<1>1. Data(s) \in Cell /\ Data(s) \in AllData
  BY CellFacts
<1>2. \A C : Count(Append(ch, Data(s)), C)
               = Count(ch, C) + (IF Data(s) \in C THEN 1 ELSE 0)
  BY <1>1, CountAppend
<1>3. \A C : Count(ch, C) \in Nat
  BY CountType
<1>4. \A t \in Streams : Data(s) \in {Data(t)} <=> s = t
  BY CellFacts
<1>5. \A l \in Levels : Data(s) \notin {Sendme(l)}
  BY CellFacts
<1> QED
  BY <1>1, <1>2, <1>3, <1>4, <1>5 DEF Unit

\* What a channel holds after a SENDME of level l is written to it.
LEMMA AppendSendme ==
    ASSUME NEW ch \in Seq(Cell), NEW l \in Levels
    PROVE  /\ Append(ch, Sendme(l)) \in Seq(Cell)
           /\ Count(Append(ch, Sendme(l)), AllData) = Count(ch, AllData)
           /\ \A t \in Streams : Count(Append(ch, Sendme(l)), {Data(t)})
                                   = Count(ch, {Data(t)})
           /\ \A k \in Levels : Count(Append(ch, Sendme(l)), {Sendme(k)})
                                  = Count(ch, {Sendme(k)}) + Unit(k = l)
<1>1. Sendme(l) \in Cell /\ Sendme(l) \notin AllData
  BY CellFacts
<1>2. \A C : Count(Append(ch, Sendme(l)), C)
               = Count(ch, C) + (IF Sendme(l) \in C THEN 1 ELSE 0)
  BY <1>1, CountAppend
<1>3. \A C : Count(ch, C) \in Nat
  BY CountType
<1>4. \A k \in Levels : Sendme(l) \in {Sendme(k)} <=> k = l
  BY CellFacts
<1>5. \A t \in Streams : Sendme(l) \notin {Data(t)}
  BY CellFacts
<1> QED
  BY <1>1, <1>2, <1>3, <1>4, <1>5 DEF Unit

\* What a channel held before a DATA cell of s was taken off it.
LEMMA TakeData ==
    ASSUME NEW ch \in Seq(Cell), NEW s \in Streams, ch # <<>>, Head(ch) = Data(s)
    PROVE  /\ Tail(ch) \in Seq(Cell)
           /\ Count(ch, AllData) = Count(Tail(ch), AllData) + 1
           /\ \A t \in Streams : Count(ch, {Data(t)})
                                   = Count(Tail(ch), {Data(t)}) + Unit(s = t)
           /\ \A l \in Levels : Count(ch, {Sendme(l)})
                                  = Count(Tail(ch), {Sendme(l)})
<1>1. Data(s) \in AllData
  BY CellFacts
<1>2. \A C : Count(ch, C) = Count(Tail(ch), C) + (IF Data(s) \in C THEN 1 ELSE 0)
  BY CountTail
<1>3. Tail(ch) \in Seq(Cell)
  OBVIOUS
<1>6. \A C : Count(Tail(ch), C) \in Nat
  BY <1>3, CountType
<1>4. \A t \in Streams : Data(s) \in {Data(t)} <=> s = t
  BY CellFacts
<1>5. \A l \in Levels : Data(s) \notin {Sendme(l)}
  BY CellFacts
<1> QED
  BY <1>1, <1>2, <1>3, <1>4, <1>5, <1>6 DEF Unit

\* What a channel held before a SENDME of level l was taken off it.
LEMMA TakeSendme ==
    ASSUME NEW ch \in Seq(Cell), NEW l \in Levels, ch # <<>>, Head(ch) = Sendme(l)
    PROVE  /\ Tail(ch) \in Seq(Cell)
           /\ Count(ch, AllData) = Count(Tail(ch), AllData)
           /\ \A t \in Streams : Count(ch, {Data(t)}) = Count(Tail(ch), {Data(t)})
           /\ \A k \in Levels : Count(ch, {Sendme(k)})
                                  = Count(Tail(ch), {Sendme(k)}) + Unit(k = l)
<1>1. Sendme(l) \notin AllData
  BY CellFacts
<1>2. \A C : Count(ch, C) = Count(Tail(ch), C) + (IF Sendme(l) \in C THEN 1 ELSE 0)
  BY CountTail
<1>3. Tail(ch) \in Seq(Cell)
  OBVIOUS
<1>6. \A C : Count(Tail(ch), C) \in Nat
  BY <1>3, CountType
<1>4. \A k \in Levels : Sendme(l) \in {Sendme(k)} <=> k = l
  BY CellFacts
<1>5. \A t \in Streams : Sendme(l) \notin {Data(t)}
  BY CellFacts
<1> QED
  BY <1>1, <1>2, <1>3, <1>4, <1>5, <1>6 DEF Unit

-----------------------------------------------------------------------------
(* Type correctness. *)

\* Every step keeps the types of the variables.
LEMMA TypeStep ==
    ASSUME TypeOK, [Next]_vars
    PROVE  TypeOK'
<1> USE WindowAssumption DEF TypeOK, WriterPc, ReaderPc, Nobody
<1>1. ASSUME NEW s \in Streams, AwaitStreamWindow(s)
      PROVE  TypeOK'
  BY <1>1 DEF AwaitStreamWindow, WriterGoto, exitVars
<1>2. ASSUME NEW s \in Streams, AwaitNodeWindow(s)
      PROVE  TypeOK'
  BY <1>2 DEF AwaitNodeWindow, WriterGoto, exitVars
<1>3. ASSUME NEW s \in Streams, ReadSocket(s)
      PROVE  TypeOK'
  BY <1>3 DEF ReadSocket, WriterGoto, exitVars
<1>4. ASSUME NEW s \in Streams, TakeStreamWindow(s)
      PROVE  TypeOK'
  <2>1. packageWindow[s] - 1 \in Int
    OBVIOUS
  <2>2. packageWindow' \in [Streams -> Int]
    BY <1>4, <2>1 DEF TakeStreamWindow
  <2> QED
    BY <1>4, <2>2 DEF TakeStreamWindow, WriterGoto, exitVars
<1>5. ASSUME NEW s \in Streams, BlockInSend(s)
      PROVE  TypeOK'
  BY <1>5 DEF BlockInSend, WriterGoto, exitVars
<1>6. ASSUME NEW s \in Streams, SendData(s)
      PROVE  TypeOK'
  <2>1. toExit' \in Seq(Cell)
    BY <1>6, AppendData DEF SendData
  <2>2. writer' \in [Streams -> WriterPc]
    <3>1. PICK pc \in {"flush", "loop"} : writer' = [writer EXCEPT ![s] = pc]
      BY <1>6, Zenon DEF SendData, WriterGoto
    <3>2. writer \in [Streams -> WriterPc] /\ pc \in WriterPc
      BY <3>1
    <3> HIDE DEF TypeOK, WriterPc
    <3> QED
      BY <3>1, <3>2, ExceptType
  <2>3. nodePackageWindow' \in Int
    BY <1>6 DEF SendData
  <2> QED
    BY <1>6, <2>1, <2>2, <2>3 DEF SendData, exitVars
<1>7. ASSUME NEW s \in Streams, RecvData(s)
      PROVE  TypeOK'
  <2>1. toClient' \in Seq(Cell)
    BY <1>7, TakeData DEF RecvData
  <2>2. nodeDeliverWindow' \in Int
    BY <1>7 DEF RecvData, NodeSendmeCredit
  <2> QED
    BY <1>7, <2>1, <2>2 DEF RecvData, exitVars
<1>8. CASE SendCircuitSendme
  <2>1. toExit' \in Seq(Cell)
    BY <1>8, AppendSendme DEF SendCircuitSendme, Levels
  <2> QED
    BY <1>8, <2>1 DEF SendCircuitSendme, exitVars
<1>9. CASE DeliverCell
  <2>1. incomingCells' \in [Streams -> Nat]
    <3>1. readerCell \in Streams => incomingCells[readerCell] + 1 \in Nat
      OBVIOUS
    <3> QED
      BY <1>9, <3>1, ExceptType DEF DeliverCell
  <2>2. deliverWindow' \in [Streams -> Int]
    <3>1. readerCell \in Streams => deliverWindow[readerCell] - 1 \in Int
      OBVIOUS
    <3> QED
      BY <1>9, <3>1, ExceptType DEF DeliverCell
  <2> QED
    BY <1>9, <2>1, <2>2 DEF DeliverCell, exitVars
<1>10. CASE ConsiderSendme
  BY <1>10 DEF ConsiderSendme, exitVars
<1>11. CASE SendStreamSendme
  <2>1. toExit' \in Seq(Cell)
    BY <1>11, AppendSendme DEF SendStreamSendme, Levels
  <2>2. deliverWindow' \in [Streams -> Int]
    <3>1. readerCell \in Streams => deliverWindow[readerCell] + StreamInc \in Int
      OBVIOUS
    <3> QED
      BY <1>11, <3>1, ExceptType DEF SendStreamSendme, StreamSendmeCredit
  <2> QED
    BY <1>11, <2>1, <2>2 DEF SendStreamSendme, exitVars
<1>12. ASSUME NEW l \in Levels, RecvSendme(l)
       PROVE  TypeOK'
  <2>1. toClient' \in Seq(Cell)
    BY <1>12, TakeSendme DEF RecvSendme
  <2>2. nodePackageWindow' \in Int
    BY <1>12 DEF RecvSendme, IncrementSendWindow
  <2>3. packageWindow' \in [Streams -> Int]
    BY <1>12 DEF RecvSendme, IncrementPackageWindow
  <2> QED
    BY <1>12, <2>1, <2>2, <2>3 DEF RecvSendme, exitVars
<1>13. ASSUME NEW s \in Streams, AppRead(s)
       PROVE  TypeOK'
  <2>1. incomingCells' \in [Streams -> Nat]
    <3>1. incomingCells[s] - 1 \in Nat
      <4>1. incomingCells \in [Streams -> Nat]
        OBVIOUS
      <4>2. incomingCells[s] > 0
        BY <1>13, Zenon DEF AppRead, CellsQueued
      <4> HIDE DEF TypeOK
      <4>3. incomingCells[s] >= 1
        BY <4>1, <4>2
      <4> QED
        BY <4>1, <4>3, NatMinus
    <3> QED
      BY <1>13, <3>1, ExceptType DEF AppRead
  <2> QED
    BY <1>13, <2>1 DEF AppRead, exitVars
<1>14. ASSUME NEW s \in Streams, ExitSendData(s)
       PROVE  TypeOK'
  <2>1. toClient' \in Seq(Cell)
    BY <1>14, AppendData DEF ExitSendData
  <2>2. exitWindow' \in Nat
    BY <1>14 DEF ExitSendData
  <2>3. exitStreamWindow' \in [Streams -> Nat]
    BY <1>14 DEF ExitSendData
  <2> QED
    BY <1>14, <2>1, <2>2, <2>3 DEF ExitSendData, clientVars
<1>15. ASSUME NEW s \in Streams, ExitRecvData(s)
       PROVE  TypeOK'
  <2>1. toExit' \in Seq(Cell)
    BY <1>15, TakeData DEF ExitRecvData
  <2>2. exitStreamUnacked' \in [Streams -> Nat]
    <3>1. exitStreamUnacked[s] + 1 \in Nat
      <4>1. exitStreamUnacked \in [Streams -> Nat]
        OBVIOUS
      <4> HIDE DEF TypeOK
      <4> QED
        BY <4>1, NatPlus
    <3> QED
      BY <1>15, <3>1, ExceptType DEF ExitRecvData
  <2>3. exitUnacked' \in Nat
    BY <1>15 DEF ExitRecvData
  <2> QED
    BY <1>15, <2>1, <2>2, <2>3 DEF ExitRecvData, clientVars
<1>16. ASSUME NEW l \in Levels, ExitRecvSendme(l)
       PROVE  TypeOK'
  <2>1. toExit' \in Seq(Cell)
    BY <1>16, TakeSendme DEF ExitRecvSendme
  <2>2. exitWindow' \in Nat
    BY <1>16 DEF ExitRecvSendme
  <2>3. exitStreamWindow' \in [Streams -> Nat]
    <3>1. l \in Streams => exitStreamWindow[l] + StreamInc \in Nat
      <4>1. exitStreamWindow \in [Streams -> Nat] /\ StreamInc \in Nat
        BY DEF WindowAssumption
      <4> HIDE DEF TypeOK
      <4> QED
        BY <4>1, NatPlus
    <3>2. CASE l = CircuitLevel
      BY <1>16, <3>2 DEF ExitRecvSendme
    <3>3. CASE l # CircuitLevel
      <4>1. exitStreamWindow \in [Streams -> Nat]
        OBVIOUS
      <4>2. exitStreamWindow' = [exitStreamWindow EXCEPT ![l] = exitStreamWindow[l] + StreamInc]
        BY <1>16, <3>3, Zenon DEF ExitRecvSendme
      <4> HIDE DEF TypeOK
      <4> QED
        BY <3>1, <4>1, <4>2, ExceptType
    <3> QED
      BY <3>2, <3>3
  <2> QED
    BY <1>16, <2>1, <2>2, <2>3 DEF ExitRecvSendme, clientVars
<1>17. CASE ExitSendCircuitSendme
  <2>1. toClient' \in Seq(Cell)
    BY <1>17, AppendSendme DEF ExitSendCircuitSendme, Levels
  <2>2. exitUnacked' \in Nat
    <3>1. exitUnacked \in Nat /\ CircInc \in Nat
      BY DEF WindowAssumption
    <3>2. exitUnacked >= CircInc /\ exitUnacked' = exitUnacked - CircInc
      BY <1>17, Zenon DEF ExitSendCircuitSendme
    <3> HIDE DEF TypeOK
    <3> QED
      BY <3>1, <3>2
  <2> QED
    BY <1>17, <2>1, <2>2 DEF ExitSendCircuitSendme, clientVars
<1>18. ASSUME NEW s \in Streams, ExitSendStreamSendme(s)
       PROVE  TypeOK'
  <2>1. toClient' \in Seq(Cell)
    BY <1>18, AppendSendme DEF ExitSendStreamSendme, Levels
  <2>2. exitStreamUnacked' \in [Streams -> Nat]
    <3>1. exitStreamUnacked[s] - StreamInc \in Nat
      <4>1. exitStreamUnacked \in [Streams -> Nat] /\ StreamInc \in Nat
        BY DEF WindowAssumption
      <4>2. exitStreamUnacked[s] >= StreamInc
        BY <1>18, Zenon DEF ExitSendStreamSendme
      <4> HIDE DEF TypeOK
      <4> QED
        BY <4>1, <4>2, NatMinus
    <3> QED
      BY <1>18, <3>1, ExceptType DEF ExitSendStreamSendme
  <2> QED
    BY <1>18, <2>1, <2>2 DEF ExitSendStreamSendme, clientVars
<1>19. CASE UNCHANGED vars
  BY <1>19 DEF vars, clientVars, exitVars
<1> QED
  BY <1>1, <1>2, <1>3, <1>4, <1>5, <1>6, <1>7, <1>8, <1>9, <1>10, <1>11, <1>12,
     <1>13, <1>14, <1>15, <1>16, <1>17, <1>18, <1>19
     DEF Next, WriterStep, ReaderStep, ExitAck

\* The variables keep their types: Count is applied to sequences of cells and
\* window arithmetic to integers in every reachable state.
THEOREM TypeCorrect == Spec => []TypeOK
<1>1. Init => TypeOK
  BY LevelAssumption, WindowAssumption DEF Init, TypeOK, WriterPc, ReaderPc, Cell
<1>2. TypeOK /\ [Next]_vars => TypeOK'
  BY TypeStep
<1> QED
  BY <1>1, <1>2, PTL DEF Spec

-----------------------------------------------------------------------------
(* Conservation of window credit. *)

\* Counts are natural numbers in every state, and so are their products.
LEMMA Counts ==
    ASSUME TypeOK
    PROVE  /\ \A C : Count(toExit, C) \in Nat /\ Count(toClient, C) \in Nat
           /\ \A C : CircInc * Count(toExit, C) \in Nat
           /\ \A C : CircInc * Count(toClient, C) \in Nat
           /\ \A C : StreamInc * Count(toExit, C) \in Nat
           /\ \A C : StreamInc * Count(toClient, C) \in Nat
<1>1. \A C : Count(toExit, C) \in Nat /\ Count(toClient, C) \in Nat
  BY CountType DEF TypeOK
<1> QED
  BY <1>1, TimesStep, WindowAssumption

\* What the circuit level equations speak of.
nodeState == <<nodePackageWindow, nodeDeliverWindow, reader, toExit, toClient,
               exitWindow, exitUnacked>>

\* Every step keeps the circuit level package equation.
LEMMA NodePackageStep ==
    ASSUME TypeOK, NodePackageConserved, ReaderConsistent, Next
    PROVE  NodePackageConserved'
<1> DEFINE d  == Count(toExit, AllData)
           m  == Count(toClient, {Sendme(CircuitLevel)})
<1>0. /\ d \in Nat /\ m \in Nat /\ CircInc * m \in Nat /\ CircuitLevel \in Levels
      /\ CircInc \in Nat /\ CircStart \in Nat
      /\ nodePackageWindow \in Int /\ exitUnacked \in Nat
      /\ toExit \in Seq(Cell) /\ toClient \in Seq(Cell)
      /\ nodePackageWindow + d + exitUnacked + CircInc * m = CircStart
  BY Counts, WindowAssumption DEF Levels, TypeOK, NodePackageConserved
<1>00. toExit \in Seq(Cell) /\ toClient \in Seq(Cell)
  BY DEF TypeOK
<1>1. ASSUME NEW s \in Streams, SendData(s)
      PROVE  NodePackageConserved'
  <2>1. Count(toExit', AllData) = d + 1
    BY <1>0, <1>1, AppendData DEF SendData
  <2>2. /\ nodePackageWindow' = nodePackageWindow - 1
        /\ exitUnacked' = exitUnacked /\ toClient' = toClient
    BY <1>1 DEF SendData, exitVars
  <2> HIDE DEF d
  <2> QED
    BY <1>0, <2>1, <2>2 DEF NodePackageConserved
<1>2. ASSUME NEW s \in Streams, RecvData(s)
      PROVE  NodePackageConserved'
  <2>0. toClient # <<>> /\ Head(toClient) = Data(s) /\ toClient' = Tail(toClient)
    BY <1>2 DEF RecvData
  <2>1. \A l \in Levels : Count(toClient, {Sendme(l)}) = Count(toClient', {Sendme(l)})
    BY <1>00, <2>0, TakeData
  <2>2. Count(toClient', {Sendme(CircuitLevel)}) = m
    BY <1>0, <2>1
  <2> QED
    BY <1>0, <1>2, <2>2 DEF RecvData, NodePackageConserved, exitVars
<1>3. ASSUME NEW l \in Levels,
             toExit' = Append(toExit, Sendme(l)),
             UNCHANGED <<nodePackageWindow, toClient, exitUnacked>>
      PROVE  NodePackageConserved'
  <2>1. Count(toExit', AllData) = d
    BY <1>0, <1>3, AppendSendme
  <2> QED
    BY <1>0, <1>3, <2>1 DEF NodePackageConserved
<1>4. ASSUME NEW l \in Levels, RecvSendme(l)
      PROVE  NodePackageConserved'
  <2> DEFINE n == Count(toClient', {Sendme(CircuitLevel)})
  <2>0. toClient # <<>> /\ Head(toClient) = Sendme(l) /\ toClient' = Tail(toClient)
    BY <1>4 DEF RecvSendme
  <2>1. /\ toClient' \in Seq(Cell)
        /\ \A k \in Levels : Count(toClient, {Sendme(k)})
                               = Count(toClient', {Sendme(k)}) + Unit(k = l)
    BY <1>00, <2>0, TakeSendme
  <2>6. m = n + Unit(CircuitLevel = l)
    BY <1>0, <2>1
  <2>2. n \in Nat /\ CircInc * n \in Nat /\ CircInc * (n + 1) = CircInc * n + CircInc
    <3>1. n \in Nat
      BY <2>1, CountType
    <3> QED
      BY <1>0, <3>1, TimesStep
  <2>3. toExit' = toExit /\ exitUnacked' = exitUnacked
    BY <1>4 DEF RecvSendme, exitVars
  <2> HIDE DEF n, m, d
  <2>4. CASE l = CircuitLevel
    <3>1. CircInc * m = CircInc * n + CircInc
      BY <2>6, <2>2, <2>4 DEF Unit
    <3>2. nodePackageWindow' = nodePackageWindow + CircInc
      BY <1>4, <2>4 DEF RecvSendme, IncrementSendWindow
    <3>3. nodePackageWindow' + d + exitUnacked + CircInc * n = CircStart
      BY <1>0, <2>2, <3>1, <3>2
    <3> QED
      BY <2>3, <3>3 DEF NodePackageConserved, n, d
  <2>5. CASE l # CircuitLevel
    <3>1. m = n
      BY <2>6, <2>2, <2>5 DEF Unit
    <3>2. nodePackageWindow' = nodePackageWindow
      BY <1>4, <2>5 DEF RecvSendme
    <3> QED
      BY <1>0, <2>3, <3>1, <3>2 DEF NodePackageConserved, n, d
  <2> QED
    BY <2>4, <2>5
<1>5. ASSUME NEW s \in Streams, ExitSendData(s)
      PROVE  NodePackageConserved'
  <2>0. toClient' = Append(toClient, Data(s))
    BY <1>5 DEF ExitSendData
  <2>1. \A l \in Levels : Count(toClient', {Sendme(l)}) = Count(toClient, {Sendme(l)})
    BY <1>00, <2>0, AppendData
  <2>2. Count(toClient', {Sendme(CircuitLevel)}) = m
    BY <1>0, <2>1
  <2> QED
    BY <1>0, <1>5, <2>2 DEF ExitSendData, NodePackageConserved, clientVars
<1>6. ASSUME NEW s \in Streams, ExitRecvData(s)
      PROVE  NodePackageConserved'
  <2> DEFINE n == Count(toExit', AllData)
  <2>1. d = n + 1 /\ toExit' \in Seq(Cell)
    BY <1>0, <1>6, TakeData DEF ExitRecvData
  <2>2. n \in Nat
    BY <2>1, CountType
  <2>3. /\ exitUnacked' = exitUnacked + 1 /\ toClient' = toClient
        /\ nodePackageWindow' = nodePackageWindow
    BY <1>6 DEF ExitRecvData, clientVars
  <2> HIDE DEF n, m, d
  <2>4. nodePackageWindow + n + (exitUnacked + 1) + CircInc * m = CircStart
    BY <1>0, <2>1, <2>2
  <2> QED
    BY <2>3, <2>4 DEF NodePackageConserved, n, m
<1>7. ASSUME NEW l \in Levels, ExitRecvSendme(l)
      PROVE  NodePackageConserved'
  <2>1. d = Count(toExit', AllData)
    BY <1>0, <1>7, TakeSendme DEF ExitRecvSendme
  <2> QED
    BY <1>0, <1>7, <2>1 DEF ExitRecvSendme, NodePackageConserved, clientVars
<1>8. CASE ExitSendCircuitSendme
  <2> DEFINE n == Count(toClient', {Sendme(CircuitLevel)})
  <2>1. n = m + 1
    BY <1>0, <1>8, AppendSendme DEF ExitSendCircuitSendme, Unit
  <2>2. CircInc * (m + 1) = CircInc * m + CircInc
    BY <1>0, TimesStep
  <2>3. /\ exitUnacked' = exitUnacked - CircInc /\ toExit' = toExit
        /\ nodePackageWindow' = nodePackageWindow
    BY <1>8 DEF ExitSendCircuitSendme, clientVars
  <2> HIDE DEF n, m, d
  <2>4. nodePackageWindow + d + (exitUnacked - CircInc) + CircInc * n = CircStart
    BY <1>0, <2>1, <2>2
  <2> QED
    BY <2>3, <2>4 DEF NodePackageConserved, n, d
<1>9. ASSUME NEW s \in Streams, ExitSendStreamSendme(s)
      PROVE  NodePackageConserved'
  <2>1. CircuitLevel # s /\ s \in Levels
    BY LevelAssumption DEF Levels
  <2>2. Count(toClient', {Sendme(CircuitLevel)}) = m + Unit(CircuitLevel = s)
    BY <1>0, <1>9, <2>1, AppendSendme DEF ExitSendStreamSendme
  <2>3. Count(toClient', {Sendme(CircuitLevel)}) = m
    BY <1>0, <2>1, <2>2 DEF Unit
  <2> QED
    BY <1>0, <1>9, <2>3 DEF ExitSendStreamSendme, NodePackageConserved, clientVars
<1>10. CASE UNCHANGED nodeState
  BY <1>10 DEF nodeState, NodePackageConserved
<1> QED
  <2>1. CASE \E s \in Streams : WriterStep(s) \/ ReadSocket(s) \/ AppRead(s)
    BY <1>1, <1>10, <2>1 DEF WriterStep, AwaitStreamWindow, AwaitNodeWindow,
       ReadSocket, TakeStreamWindow, BlockInSend, AppRead, exitVars, nodeState
  <2>2. CASE ReaderStep
    <3>1. CASE SendCircuitSendme
      BY <1>0, <1>3, <3>1 DEF SendCircuitSendme, exitVars
    <3>2. CASE SendStreamSendme
      BY <1>3, <3>2 DEF SendStreamSendme, exitVars, ReaderConsistent, Levels
    <3>3. CASE DeliverCell \/ ConsiderSendme
      BY <3>3 DEF DeliverCell, ConsiderSendme, exitVars, NodePackageConserved
    <3> QED
      BY <1>2, <1>4, <2>2, <3>1, <3>2, <3>3 DEF ReaderStep
  <2>3. CASE ExitAck
    BY <1>6, <1>7, <1>8, <1>9, <2>3 DEF ExitAck
  <2>4. CASE \E s \in Streams : ExitSendData(s)
    BY <1>5, <2>4
  <2> QED
    BY <2>1, <2>2, <2>3, <2>4 DEF Next

\* What the package equation of stream t speaks of.
PackageOf(t)  == packageWindow[t] + Unit(InFlush(t))
DataTo(t)     == Count(toExit, {Data(t)})
UnackedOf(t)  == exitStreamUnacked[t]
SendmesFor(t) == Count(toClient, {Sendme(t)})

\* The terms of the equation are numbers.
LEMMA PackageTerms ==
    ASSUME TypeOK, NEW t \in Streams
    PROVE  /\ PackageOf(t) \in Int /\ DataTo(t) \in Nat
           /\ UnackedOf(t) \in Nat /\ SendmesFor(t) \in Nat
<1>1. DataTo(t) \in Nat /\ SendmesFor(t) \in Nat
  BY Counts DEF DataTo, SendmesFor
<1>2. packageWindow[t] \in Int /\ exitStreamUnacked[t] \in Nat
  BY DEF TypeOK
<1>3. Unit(InFlush(t)) \in Nat
  BY DEF Unit
<1>4. PackageOf(t) \in Int
  BY <1>2, <1>3 DEF PackageOf
<1> QED
  BY <1>1, <1>2, <1>4, Zenon DEF UnackedOf

\* What each step does to the terms of the package equation of stream t.
LEMMA PackageEffect ==
    ASSUME TypeOK, ReaderConsistent, Next, NEW t \in Streams
    PROVE  \/ /\ PackageOf(t)' = PackageOf(t)
              /\ DataTo(t)' = DataTo(t)
              /\ UnackedOf(t)' = UnackedOf(t)
              /\ SendmesFor(t)' = SendmesFor(t)
           \/ /\ PackageOf(t)' = PackageOf(t) - 1
              /\ DataTo(t)' = DataTo(t) + 1
              /\ UnackedOf(t)' = UnackedOf(t)
              /\ SendmesFor(t)' = SendmesFor(t)
           \/ /\ PackageOf(t)' = PackageOf(t)
              /\ DataTo(t) = DataTo(t)' + 1
              /\ UnackedOf(t)' = UnackedOf(t) + 1
              /\ SendmesFor(t)' = SendmesFor(t)
           \/ /\ PackageOf(t)' = PackageOf(t)
              /\ DataTo(t)' = DataTo(t)
              /\ UnackedOf(t)' = UnackedOf(t) - StreamInc
              /\ SendmesFor(t)' = SendmesFor(t) + 1
           \/ /\ PackageOf(t)' = PackageOf(t) + StreamInc
              /\ DataTo(t)' = DataTo(t)
              /\ UnackedOf(t)' = UnackedOf(t)
              /\ SendmesFor(t) = SendmesFor(t)' + 1
<1>0. /\ toExit \in Seq(Cell) /\ toClient \in Seq(Cell)
      /\ t \in Levels /\ CircuitLevel \in Levels /\ t # CircuitLevel
  BY LevelAssumption DEF TypeOK, Levels
<1>00. DataTo(t) \in Nat /\ SendmesFor(t) \in Nat
  BY PackageTerms
<1>1. ASSUME NEW s \in Streams,
             \/ AwaitStreamWindow(s) \/ AwaitNodeWindow(s) \/ ReadSocket(s)
             \/ BlockInSend(s)
      PROVE  /\ PackageOf(t)' = PackageOf(t) /\ DataTo(t)' = DataTo(t)
             /\ UnackedOf(t)' = UnackedOf(t) /\ SendmesFor(t)' = SendmesFor(t)
  <2>0. writer \in [Streams -> WriterPc]
    BY DEF TypeOK
  <2>3. \E pc : WriterGoto(s, pc) /\ (writer[s] \in {"flushNode", "send", "waiting"}
                                       <=> pc \in {"flushNode", "send", "waiting"})
    BY <1>1 DEF AwaitStreamWindow, AwaitNodeWindow, ReadSocket, BlockInSend
  <2>4. InFlush(t)' = InFlush(t)
    BY <2>0, <2>3 DEF WriterGoto, InFlush
  <2>1. packageWindow' = packageWindow /\ InFlush(t)' = InFlush(t)
    BY <1>1, <2>4 DEF AwaitStreamWindow, AwaitNodeWindow, ReadSocket, BlockInSend
  <2>2. UNCHANGED <<toExit, toClient, exitStreamUnacked>>
    BY <1>1 DEF AwaitStreamWindow, AwaitNodeWindow, ReadSocket, BlockInSend, exitVars
  <2> QED
    BY <2>1, <2>2 DEF PackageOf, DataTo, UnackedOf, SendmesFor
<1>2. ASSUME NEW s \in Streams, TakeStreamWindow(s)
      PROVE  /\ PackageOf(t)' = PackageOf(t) /\ DataTo(t)' = DataTo(t)
             /\ UnackedOf(t)' = UnackedOf(t) /\ SendmesFor(t)' = SendmesFor(t)
  <2>1. PackageOf(t)' = PackageOf(t)
    <3>1. writer \in [Streams -> WriterPc] /\ packageWindow \in [Streams -> Int]
      BY DEF TypeOK
    <3>2. /\ writer[s] = "flush"
          /\ writer' = [writer EXCEPT ![s] = "flushNode"]
          /\ packageWindow' = [packageWindow EXCEPT ![s] = packageWindow[s] - 1]
      BY <1>2 DEF TakeStreamWindow, WriterGoto
    <3>3. CASE s = t
      <4>1. ~InFlush(t) /\ InFlush(t)' /\ packageWindow'[t] = packageWindow[t] - 1
        BY <3>1, <3>2, <3>3 DEF InFlush
      <4> QED
        BY <3>1, <4>1 DEF PackageOf, Unit
    <3>4. CASE s # t
      BY <3>1, <3>2, <3>4 DEF PackageOf, InFlush
    <3> QED
      BY <3>3, <3>4
  <2> QED
    BY <1>2, <2>1 DEF TakeStreamWindow, DataTo, UnackedOf, SendmesFor, exitVars
<1>3. ASSUME NEW s \in Streams, SendData(s)
      PROVE  /\ PackageOf(t)' = PackageOf(t) - Unit(s = t)
             /\ DataTo(t)' = DataTo(t) + Unit(s = t)
             /\ UnackedOf(t)' = UnackedOf(t) /\ SendmesFor(t)' = SendmesFor(t)
  <2>1. PackageOf(t)' = PackageOf(t) - Unit(s = t)
    <3>1. writer \in [Streams -> WriterPc] /\ packageWindow \in [Streams -> Int]
      BY DEF TypeOK
    <3>2. /\ writer[s] \in {"send", "waiting"} /\ packageWindow' = packageWindow
          /\ \/ writer' = [writer EXCEPT ![s] = "flush"]
             \/ writer' = [writer EXCEPT ![s] = "loop"]
      BY <1>3 DEF SendData, WriterGoto
    <3>3. CASE s = t
      <4>1. InFlush(t) /\ ~InFlush(t)'
        BY <3>1, <3>2, <3>3 DEF InFlush
      <4> QED
        BY <3>1, <3>2, <3>3, <4>1 DEF PackageOf, Unit
    <3>4. CASE s # t
      <4>1. InFlush(t)' = InFlush(t)
        BY <3>1, <3>2, <3>4 DEF InFlush
      <4> QED
        BY <3>1, <3>2, <3>4, <4>1 DEF PackageOf, Unit
    <3> QED
      BY <3>3, <3>4
  <2>2. toExit' = Append(toExit, Data(s))
    BY <1>3 DEF SendData
  <2>3. DataTo(t)' = DataTo(t) + Unit(s = t)
    BY <1>0, <2>2, AppendData DEF DataTo
  <2> QED
    BY <1>3, <2>1, <2>3 DEF SendData, UnackedOf, SendmesFor, exitVars
<1>4. ASSUME NEW s \in Streams, RecvData(s)
      PROVE  /\ PackageOf(t)' = PackageOf(t) /\ DataTo(t)' = DataTo(t)
             /\ UnackedOf(t)' = UnackedOf(t) /\ SendmesFor(t)' = SendmesFor(t)
  <2>1. toClient # <<>> /\ Head(toClient) = Data(s) /\ toClient' = Tail(toClient)
    BY <1>4 DEF RecvData
  <2>2. SendmesFor(t)' = SendmesFor(t)
    BY <1>0, <2>1, TakeData DEF SendmesFor
  <2> QED
    BY <1>4, <2>2 DEF RecvData, PackageOf, InFlush, DataTo, UnackedOf, exitVars
<1>5. ASSUME NEW l \in Levels, toExit' = Append(toExit, Sendme(l)),
             UNCHANGED <<packageWindow, writer, toClient, exitStreamUnacked>>
      PROVE  /\ PackageOf(t)' = PackageOf(t) /\ DataTo(t)' = DataTo(t)
             /\ UnackedOf(t)' = UnackedOf(t) /\ SendmesFor(t)' = SendmesFor(t)
  <2>1. DataTo(t)' = DataTo(t)
    BY <1>0, <1>5, AppendSendme DEF DataTo
  <2> QED
    BY <1>5, <2>1 DEF PackageOf, InFlush, UnackedOf, SendmesFor
<1>6. ASSUME NEW l \in Levels, RecvSendme(l)
      PROVE  /\ PackageOf(t)' = PackageOf(t) + (IF l = t THEN StreamInc ELSE 0)
             /\ DataTo(t)' = DataTo(t)
             /\ UnackedOf(t)' = UnackedOf(t)
             /\ SendmesFor(t) = SendmesFor(t)' + Unit(t = l)
  <2>1. toClient # <<>> /\ Head(toClient) = Sendme(l) /\ toClient' = Tail(toClient)
    BY <1>6 DEF RecvSendme
  <2>2. SendmesFor(t) = SendmesFor(t)' + Unit(t = l)
    BY <1>0, <2>1, TakeSendme DEF SendmesFor
  <2>3. packageWindow'[t] = packageWindow[t] + (IF l = t THEN StreamInc ELSE 0)
    BY <1>0, <1>6, WindowAssumption DEF RecvSendme, IncrementPackageWindow, TypeOK
  <2>4. /\ UNCHANGED <<toExit, writer, exitStreamUnacked>>
        /\ packageWindow[t] \in Int /\ Unit(InFlush(t)) \in Int
        /\ StreamInc \in Int
    BY <1>6, WindowAssumption DEF RecvSendme, exitVars, TypeOK, Unit
  <2>5. InFlush(t)' = InFlush(t)
    BY <2>4 DEF InFlush
  <2>6. PackageOf(t)' = PackageOf(t) + (IF l = t THEN StreamInc ELSE 0)
    BY <2>3, <2>4, <2>5 DEF PackageOf
  <2> QED
    BY <2>2, <2>4, <2>6 DEF DataTo, UnackedOf
<1>7. ASSUME NEW s \in Streams, AppRead(s)
      PROVE  /\ PackageOf(t)' = PackageOf(t) /\ DataTo(t)' = DataTo(t)
             /\ UnackedOf(t)' = UnackedOf(t) /\ SendmesFor(t)' = SendmesFor(t)
  BY <1>7 DEF AppRead, PackageOf, InFlush, DataTo, UnackedOf, SendmesFor, exitVars
<1>8. CASE DeliverCell \/ ConsiderSendme
  BY <1>8 DEF DeliverCell, ConsiderSendme, PackageOf, InFlush, DataTo, UnackedOf,
              SendmesFor, exitVars
<1>9. ASSUME NEW s \in Streams, ExitSendData(s)
      PROVE  /\ PackageOf(t)' = PackageOf(t) /\ DataTo(t)' = DataTo(t)
             /\ UnackedOf(t)' = UnackedOf(t) /\ SendmesFor(t)' = SendmesFor(t)
  <2>1. toClient' = Append(toClient, Data(s))
    BY <1>9 DEF ExitSendData
  <2>2. SendmesFor(t)' = SendmesFor(t)
    BY <1>0, <2>1, AppendData DEF SendmesFor
  <2> QED
    BY <1>9, <2>2 DEF ExitSendData, PackageOf, InFlush, DataTo, UnackedOf, clientVars
<1>10. ASSUME NEW s \in Streams, ExitRecvData(s)
       PROVE  /\ PackageOf(t)' = PackageOf(t)
              /\ DataTo(t) = DataTo(t)' + Unit(s = t)
              /\ UnackedOf(t)' = UnackedOf(t) + Unit(s = t)
              /\ SendmesFor(t)' = SendmesFor(t)
  <2>1. toExit # <<>> /\ Head(toExit) = Data(s) /\ toExit' = Tail(toExit)
    BY <1>10 DEF ExitRecvData
  <2>2. DataTo(t) = DataTo(t)' + Unit(s = t)
    BY <1>0, <2>1, TakeData DEF DataTo
  <2>3. UnackedOf(t)' = UnackedOf(t) + Unit(s = t)
    <3>1. /\ exitStreamUnacked \in [Streams -> Nat]
          /\ exitStreamUnacked' = [exitStreamUnacked EXCEPT ![s] = exitStreamUnacked[s] + 1]
      BY <1>10 DEF ExitRecvData, TypeOK
    <3> QED
      BY <3>1 DEF UnackedOf, Unit
  <2> QED
    BY <1>10, <2>2, <2>3 DEF ExitRecvData, PackageOf, InFlush, SendmesFor, clientVars
<1>11. ASSUME NEW l \in Levels, ExitRecvSendme(l)
       PROVE  /\ PackageOf(t)' = PackageOf(t) /\ DataTo(t)' = DataTo(t)
              /\ UnackedOf(t)' = UnackedOf(t) /\ SendmesFor(t)' = SendmesFor(t)
  <2>1. toExit # <<>> /\ Head(toExit) = Sendme(l) /\ toExit' = Tail(toExit)
    BY <1>11 DEF ExitRecvSendme
  <2>2. DataTo(t)' = DataTo(t)
    BY <1>0, <2>1, TakeSendme DEF DataTo
  <2> QED
    BY <1>11, <2>2 DEF ExitRecvSendme, PackageOf, InFlush, UnackedOf, SendmesFor,
                       clientVars
<1>12. CASE ExitSendCircuitSendme
  <2>1. toClient' = Append(toClient, Sendme(CircuitLevel))
    BY <1>12 DEF ExitSendCircuitSendme
  <2>2. SendmesFor(t)' = SendmesFor(t) + Unit(t = CircuitLevel)
    BY <1>0, <2>1, AppendSendme DEF SendmesFor
  <2>3. SendmesFor(t)' = SendmesFor(t)
    BY <1>0, <1>00, <2>2 DEF Unit
  <2> QED
    BY <1>12, <2>3 DEF ExitSendCircuitSendme, PackageOf, InFlush, DataTo, UnackedOf,
                       clientVars
<1>13. ASSUME NEW s \in Streams, ExitSendStreamSendme(s)
       PROVE  /\ PackageOf(t)' = PackageOf(t) /\ DataTo(t)' = DataTo(t)
              /\ UnackedOf(t)' = UnackedOf(t) - (IF s = t THEN StreamInc ELSE 0)
              /\ SendmesFor(t)' = SendmesFor(t) + Unit(t = s)
  <2>1. toClient' = Append(toClient, Sendme(s)) /\ s \in Levels
    BY <1>13 DEF ExitSendStreamSendme, Levels
  <2>2. SendmesFor(t)' = SendmesFor(t) + Unit(t = s)
    BY <1>0, <2>1, AppendSendme DEF SendmesFor
  <2>3. UnackedOf(t)' = UnackedOf(t) - (IF s = t THEN StreamInc ELSE 0)
    <3>1. /\ exitStreamUnacked \in [Streams -> Nat] /\ StreamInc \in Nat
          /\ exitStreamUnacked' =
                [exitStreamUnacked EXCEPT ![s] = exitStreamUnacked[s] - StreamInc]
      BY <1>13, WindowAssumption DEF ExitSendStreamSendme, TypeOK
    <3> QED
      BY <3>1 DEF UnackedOf
  <2>4. PackageOf(t)' = PackageOf(t) /\ DataTo(t)' = DataTo(t)
    BY <1>13 DEF ExitSendStreamSendme, PackageOf, InFlush, DataTo, clientVars
  <2> QED
    BY <2>2, <2>3, <2>4
<1>14. CASE SendCircuitSendme
  BY <1>0, <1>5, <1>14 DEF SendCircuitSendme, exitVars
<1>15. CASE SendStreamSendme
  <2>1. readerCell \in Levels
    BY <1>15 DEF SendStreamSendme, ReaderConsistent, Levels
  <2> QED
    BY <1>5, <1>15, <2>1 DEF SendStreamSendme, exitVars
<1>16. PackageOf(t) \in Int /\ UnackedOf(t) \in Nat
  BY PackageTerms
<1> QED
  <2>1. CASE \E s \in Streams : WriterStep(s) \/ ReadSocket(s) \/ AppRead(s)
    <3>1. PICK s \in Streams : WriterStep(s) \/ ReadSocket(s) \/ AppRead(s)
      BY <2>1
    <3>2. CASE SendData(s)
      BY <1>00, <1>16, <1>3, <3>2 DEF Unit
    <3> QED
      BY <1>1, <1>2, <1>7, <3>1, <3>2 DEF WriterStep
  <2>2. CASE ReaderStep
    <3>1. ASSUME NEW l \in Levels, RecvSendme(l), l = t
          PROVE  /\ PackageOf(t)' = PackageOf(t) + StreamInc
                 /\ DataTo(t)' = DataTo(t) /\ UnackedOf(t)' = UnackedOf(t)
                 /\ SendmesFor(t) = SendmesFor(t)' + 1
      BY <1>6, <3>1 DEF Unit
    <3>2. ASSUME NEW l \in Levels, RecvSendme(l), l # t
          PROVE  /\ PackageOf(t)' = PackageOf(t)
                 /\ DataTo(t)' = DataTo(t) /\ UnackedOf(t)' = UnackedOf(t)
                 /\ SendmesFor(t)' = SendmesFor(t)
      <4>1. SendmesFor(t)' \in Nat
        <5>1. toClient' \in Seq(Cell)
          BY <1>0, <3>2, TakeSendme DEF RecvSendme
        <5> QED
          BY <5>1, CountType DEF SendmesFor
      <4> QED
        BY <1>6, <1>16, <3>2, <4>1 DEF Unit
    <3> QED
      BY <1>4, <1>8, <1>14, <1>15, <2>2, <3>1, <3>2 DEF ReaderStep
  <2>3. CASE ExitAck
    <3>1. ASSUME NEW s \in Streams, ExitRecvData(s)
          PROVE  /\ PackageOf(t)' = PackageOf(t)
                 /\ SendmesFor(t)' = SendmesFor(t)
                 /\ \/ DataTo(t)' = DataTo(t) /\ UnackedOf(t)' = UnackedOf(t)
                    \/ DataTo(t) = DataTo(t)' + 1 /\ UnackedOf(t)' = UnackedOf(t) + 1
      <4>1. DataTo(t)' \in Nat
        <5>1. toExit' \in Seq(Cell)
          BY <1>0, <3>1, TakeData DEF ExitRecvData
        <5> QED
          BY <5>1, CountType DEF DataTo
      <4> QED
        BY <1>10, <1>16, <3>1, <4>1 DEF Unit
    <3>2. ASSUME NEW s \in Streams, ExitSendStreamSendme(s)
          PROVE  /\ PackageOf(t)' = PackageOf(t)
                 /\ DataTo(t)' = DataTo(t)
                 /\ \/ /\ UnackedOf(t)' = UnackedOf(t)
                       /\ SendmesFor(t)' = SendmesFor(t)
                    \/ /\ UnackedOf(t)' = UnackedOf(t) - StreamInc
                       /\ SendmesFor(t)' = SendmesFor(t) + 1
      BY <1>00, <1>13, <1>16, <3>2 DEF Unit
    <3> QED
      BY <1>11, <1>12, <2>3, <3>1, <3>2 DEF ExitAck
  <2>4. CASE \E s \in Streams : ExitSendData(s)
    BY <1>9, <2>4
  <2> QED
    BY <2>1, <2>2, <2>3, <2>4 DEF Next

\* Every step keeps the package equation of every stream.
LEMMA StreamPackageStep ==
    ASSUME TypeOK, TypeOK', ReaderConsistent, StreamPackageConserved, Next
    PROVE  StreamPackageConserved'
<1> SUFFICES ASSUME NEW t \in Streams
             PROVE  PackageOf(t)' + DataTo(t)' + UnackedOf(t)'
                      + StreamInc * SendmesFor(t)' = StreamStart
  BY DEF StreamPackageConserved, PackageOf, DataTo, UnackedOf, SendmesFor
<1>1. PackageOf(t) + DataTo(t) + UnackedOf(t) + StreamInc * SendmesFor(t) = StreamStart
  BY DEF StreamPackageConserved, PackageOf, DataTo, UnackedOf, SendmesFor
<1>2. /\ PackageOf(t) \in Int /\ DataTo(t) \in Nat
      /\ UnackedOf(t) \in Nat /\ SendmesFor(t) \in Nat
  BY PackageTerms
<1>3. DataTo(t)' \in Nat /\ SendmesFor(t)' \in Nat
  BY CountType DEF TypeOK, DataTo, SendmesFor
<1>4. /\ StreamInc \in Nat /\ StreamStart \in Nat
      /\ StreamInc * SendmesFor(t) \in Nat /\ StreamInc * SendmesFor(t)' \in Nat
      /\ StreamInc * (SendmesFor(t) + 1) = StreamInc * SendmesFor(t) + StreamInc
      /\ StreamInc * (SendmesFor(t)' + 1) = StreamInc * SendmesFor(t)' + StreamInc
  BY <1>2, <1>3, TimesStep, WindowAssumption
<1> QED
  BY <1>1, <1>2, <1>3, <1>4, PackageEffect

\* What the circuit level deliver equation speaks of.
DataBack  == Count(toClient, AllData)
CreditOut == Count(toExit, {Sendme(CircuitLevel)}) + Unit(reader = "circuitSendme")

\* Every step keeps the circuit level deliver equation.
LEMMA NodeDeliverStep ==
    ASSUME TypeOK, TypeOK', ReaderConsistent, NodeDeliverConserved, Next
    PROVE  NodeDeliverConserved'
<1> DEFINE Same == /\ DataBack' = DataBack /\ CreditOut' = CreditOut
                   /\ nodeDeliverWindow' = nodeDeliverWindow
                   /\ exitWindow' = exitWindow
<1>0. /\ toExit \in Seq(Cell) /\ toClient \in Seq(Cell) /\ CircuitLevel \in Levels
      /\ toExit' \in Seq(Cell) /\ toClient' \in Seq(Cell)
  BY DEF TypeOK, Levels
<1>00. /\ DataBack \in Nat /\ CreditOut \in Nat /\ exitWindow \in Nat
       /\ DataBack' \in Nat /\ CreditOut' \in Nat /\ nodeDeliverWindow \in Int
       /\ CircInc \in Nat
       /\ nodeDeliverWindow = exitWindow + DataBack + CircInc * CreditOut
  <2>1. \A C : /\ Count(toExit, C) \in Nat /\ Count(toClient, C) \in Nat
               /\ Count(toExit', C) \in Nat /\ Count(toClient', C) \in Nat
    BY <1>0, CountType
  <2>2. DataBack \in Nat /\ CreditOut \in Nat /\ DataBack' \in Nat /\ CreditOut' \in Nat
    BY <2>1 DEF DataBack, CreditOut, Unit
  <2>3. exitWindow \in Nat /\ nodeDeliverWindow \in Int /\ CircInc \in Nat
    BY WindowAssumption DEF TypeOK
  <2>4. nodeDeliverWindow = exitWindow + DataBack + CircInc * CreditOut
    BY DEF NodeDeliverConserved, DataBack, CreditOut
  <2> QED
    BY <2>2, <2>3, <2>4
<1>1. Same => NodeDeliverConserved'
  BY <1>00 DEF NodeDeliverConserved, DataBack, CreditOut
<1>2. ASSUME NEW s \in Streams, WriterStep(s) \/ ReadSocket(s) \/ AppRead(s)
      PROVE  Same
  <2>1. CASE SendData(s)
    <3>1. toExit' = Append(toExit, Data(s))
      BY <2>1 DEF SendData
    <3>2. Count(toExit', {Sendme(CircuitLevel)}) = Count(toExit, {Sendme(CircuitLevel)})
      BY <1>0, <3>1, AppendData
    <3> QED
      BY <2>1, <3>2 DEF SendData, DataBack, CreditOut, exitVars
  <2> QED
    BY <1>2, <2>1 DEF WriterStep, AwaitStreamWindow, AwaitNodeWindow, ReadSocket,
       TakeStreamWindow, BlockInSend, AppRead, exitVars, DataBack, CreditOut
<1>3. ASSUME NEW s \in Streams, RecvData(s)
      PROVE  NodeDeliverConserved'
  <2>1. /\ toClient # <<>> /\ Head(toClient) = Data(s) /\ toClient' = Tail(toClient)
        /\ toExit' = toExit /\ exitWindow' = exitWindow /\ reader = "idle"
    BY <1>3 DEF RecvData, exitVars
  <2>2. DataBack = DataBack' + 1
    BY <1>0, <2>1, TakeData DEF DataBack
  <2>3. \/ /\ nodeDeliverWindow' = nodeDeliverWindow - 1 + CircInc
           /\ reader' = "circuitSendme"
        \/ /\ nodeDeliverWindow' = nodeDeliverWindow - 1
           /\ reader' = "deliver"
    BY <1>3 DEF RecvData, NodeSendmeCredit
  <2>4. Count(toExit, {Sendme(CircuitLevel)}) \in Nat
    BY <1>0, CountType
  <2>5. \/ /\ nodeDeliverWindow' = nodeDeliverWindow - 1 + CircInc
           /\ CreditOut' = CreditOut + 1
        \/ /\ nodeDeliverWindow' = nodeDeliverWindow - 1
           /\ CreditOut' = CreditOut
    BY <2>1, <2>3, <2>4 DEF CreditOut, Unit
  <2>6. /\ CircInc * (CreditOut + 1) = CircInc * CreditOut + CircInc
        /\ CircInc * CreditOut \in Nat
    BY <1>00, TimesStep
  <2>7. nodeDeliverWindow' = exitWindow + DataBack' + CircInc * CreditOut'
    <3>1. CASE /\ nodeDeliverWindow' = nodeDeliverWindow - 1 + CircInc
               /\ CreditOut' = CreditOut + 1
      <4>1. CircInc * CreditOut' = CircInc * CreditOut + CircInc
        BY <2>6, <3>1
      <4> QED
        BY <1>00, <2>2, <2>6, <3>1, <4>1
    <3>2. CASE /\ nodeDeliverWindow' = nodeDeliverWindow - 1
               /\ CreditOut' = CreditOut
      BY <1>00, <2>2, <2>6, <3>2
    <3> QED
      BY <2>5, <3>1, <3>2
  <2> QED
    BY <2>1, <2>7 DEF NodeDeliverConserved, DataBack, CreditOut
<1>4. CASE SendCircuitSendme
  <2>1. toExit' = Append(toExit, Sendme(CircuitLevel))
    BY <1>4 DEF SendCircuitSendme
  <2>2. Count(toExit', {Sendme(CircuitLevel)})
          = Count(toExit, {Sendme(CircuitLevel)}) + 1
    BY <1>0, <2>1, AppendSendme DEF Unit
  <2>3. Count(toExit, {Sendme(CircuitLevel)}) \in Nat
    BY <1>0, CountType
  <2>4. CreditOut' = CreditOut
    BY <1>4, <2>2, <2>3 DEF SendCircuitSendme, CreditOut, Unit
  <2>5. Same
    BY <1>4, <2>4 DEF SendCircuitSendme, DataBack, exitVars
  <2> QED
    BY <1>1, <2>5
<1>5. CASE SendStreamSendme
  <2>1. /\ toExit' = Append(toExit, Sendme(readerCell))
        /\ readerCell \in Levels /\ readerCell # CircuitLevel
    BY <1>5, LevelAssumption DEF SendStreamSendme, ReaderConsistent, Levels
  <2>2. Count(toExit', {Sendme(CircuitLevel)})
          = Count(toExit, {Sendme(CircuitLevel)}) + Unit(CircuitLevel = readerCell)
    BY <1>0, <2>1, AppendSendme
  <2>3. Count(toExit, {Sendme(CircuitLevel)}) \in Nat
    BY <1>0, CountType
  <2>4. CreditOut' = CreditOut
    BY <1>5, <2>1, <2>2, <2>3 DEF SendStreamSendme, CreditOut, Unit
  <2>5. Same
    BY <1>5, <2>4 DEF SendStreamSendme, DataBack, exitVars
  <2> QED
    BY <1>1, <2>5
<1>6. CASE DeliverCell \/ ConsiderSendme
  <2>1. reader # "circuitSendme" /\ reader' # "circuitSendme"
    BY <1>6 DEF DeliverCell, ConsiderSendme
  <2>2. Same
    BY <1>6, <2>1 DEF DeliverCell, ConsiderSendme, DataBack, CreditOut, exitVars
  <2> QED
    BY <1>1, <2>2
<1>7. ASSUME NEW l \in Levels, RecvSendme(l)
      PROVE  NodeDeliverConserved'
  <2>1. toClient # <<>> /\ Head(toClient) = Sendme(l) /\ toClient' = Tail(toClient)
    BY <1>7 DEF RecvSendme
  <2>2. DataBack' = DataBack
    BY <1>0, <2>1, TakeSendme DEF DataBack
  <2>3. Same
    BY <1>7, <2>2 DEF RecvSendme, CreditOut, exitVars
  <2> QED
    BY <1>1, <2>3
<1>8. ASSUME NEW s \in Streams, ExitSendData(s)
      PROVE  NodeDeliverConserved'
  <2>1. /\ toClient' = Append(toClient, Data(s)) /\ toExit' = toExit
        /\ exitWindow' = exitWindow - 1 /\ reader' = reader
        /\ nodeDeliverWindow' = nodeDeliverWindow
    BY <1>8 DEF ExitSendData, clientVars
  <2>2. DataBack' = DataBack + 1
    BY <1>0, <2>1, AppendData DEF DataBack
  <2>3. CreditOut' = CreditOut
    BY <2>1 DEF CreditOut
  <2>4. nodeDeliverWindow' = exitWindow' + DataBack' + CircInc * CreditOut'
    <3>1. CircInc * CreditOut \in Nat
      BY <1>00, TimesStep
    <3> QED
      BY <1>00, <2>1, <2>2, <2>3, <3>1
  <2> QED
    BY <2>4 DEF NodeDeliverConserved, DataBack, CreditOut
<1>9. ASSUME NEW s \in Streams, ExitRecvData(s)
      PROVE  NodeDeliverConserved'
  <2>1. toExit # <<>> /\ Head(toExit) = Data(s) /\ toExit' = Tail(toExit)
    BY <1>9 DEF ExitRecvData
  <2>2. Count(toExit, {Sendme(CircuitLevel)}) = Count(toExit', {Sendme(CircuitLevel)})
    BY <1>0, <2>1, TakeData
  <2>3. Same
    BY <1>9, <2>2 DEF ExitRecvData, DataBack, CreditOut, clientVars
  <2> QED
    BY <1>1, <2>3
<1>10. ASSUME NEW l \in Levels, ExitRecvSendme(l)
       PROVE  NodeDeliverConserved'
  <2>1. /\ toExit # <<>> /\ Head(toExit) = Sendme(l) /\ toExit' = Tail(toExit)
        /\ reader' = reader /\ nodeDeliverWindow' = nodeDeliverWindow
        /\ toClient' = toClient
        /\ exitWindow' = exitWindow + (IF l = CircuitLevel THEN CircInc ELSE 0)
    BY <1>10, WindowAssumption DEF ExitRecvSendme, clientVars, TypeOK
  <2>2. Count(toExit, {Sendme(CircuitLevel)})
          = Count(toExit', {Sendme(CircuitLevel)}) + Unit(CircuitLevel = l)
    BY <1>0, <2>1, TakeSendme
  <2>3. /\ Count(toExit, {Sendme(CircuitLevel)}) \in Nat
        /\ Count(toExit', {Sendme(CircuitLevel)}) \in Nat
    BY <1>0, CountType
  <2>4. CreditOut = CreditOut' + Unit(CircuitLevel = l)
    BY <2>1, <2>2, <2>3 DEF CreditOut, Unit
  <2>5. /\ CircInc * (CreditOut' + 1) = CircInc * CreditOut' + CircInc
        /\ CircInc * CreditOut' \in Nat
    BY <1>00, TimesStep
  <2>6. DataBack' = DataBack
    BY <2>1 DEF DataBack
  <2>7. nodeDeliverWindow' = exitWindow' + DataBack' + CircInc * CreditOut'
    <3>1. CASE l = CircuitLevel
      BY <1>00, <2>1, <2>4, <2>5, <2>6, <3>1 DEF Unit
    <3>2. CASE l # CircuitLevel
      BY <1>00, <2>1, <2>4, <2>5, <2>6, <3>2 DEF Unit
    <3> QED
      BY <3>1, <3>2
  <2> QED
    BY <2>7 DEF NodeDeliverConserved, DataBack, CreditOut
<1>11. ASSUME NEW l \in Levels, toClient' = Append(toClient, Sendme(l)),
              UNCHANGED <<nodeDeliverWindow, reader, toExit, exitWindow>>
       PROVE  NodeDeliverConserved'
  <2>1. DataBack' = DataBack
    BY <1>0, <1>11, AppendSendme DEF DataBack
  <2>2. Same
    BY <1>11, <2>1 DEF CreditOut
  <2> QED
    BY <1>1, <2>2
<1>12. CASE ExitSendCircuitSendme
  BY <1>0, <1>11, <1>12 DEF ExitSendCircuitSendme, clientVars
<1>13. ASSUME NEW s \in Streams, ExitSendStreamSendme(s)
       PROVE  NodeDeliverConserved'
  BY <1>11, <1>13 DEF ExitSendStreamSendme, clientVars, Levels
<1> HIDE DEF Same
<1> QED
  BY <1>1, <1>2, <1>3, <1>4, <1>5, <1>6, <1>7, <1>8, <1>9, <1>10, <1>12, <1>13
     DEF Next, ReaderStep, ExitAck

\* What the deliver equation of stream t speaks of.
HeldFor(t)    == Count(toClient, {Data(t)}) + Unit(Delivering(t))
SendmesOut(t) == Count(toExit, {Sendme(t)})

\* Every step keeps the deliver equation of every stream.
LEMMA StreamDeliverStep ==
    ASSUME TypeOK, TypeOK', ReaderConsistent, StreamDeliverConserved, Next
    PROVE  StreamDeliverConserved'
<1> SUFFICES ASSUME NEW t \in Streams
             PROVE  deliverWindow'[t] = exitStreamWindow'[t] + HeldFor(t)'
                                          + StreamInc * SendmesOut(t)'
  BY DEF StreamDeliverConserved, HeldFor, SendmesOut
<1> DEFINE Goal == deliverWindow'[t] = exitStreamWindow'[t] + HeldFor(t)'
                                         + StreamInc * SendmesOut(t)'
           Same == /\ HeldFor(t)' = HeldFor(t) /\ SendmesOut(t)' = SendmesOut(t)
                   /\ deliverWindow'[t] = deliverWindow[t]
                   /\ exitStreamWindow'[t] = exitStreamWindow[t]
<1>0. /\ toExit \in Seq(Cell) /\ toClient \in Seq(Cell) /\ CircuitLevel \in Levels
      /\ toExit' \in Seq(Cell) /\ toClient' \in Seq(Cell)
      /\ t \in Levels /\ t # CircuitLevel
  BY LevelAssumption DEF TypeOK, Levels
<1>c. /\ Count(toExit, {Sendme(t)}) \in Nat /\ Count(toClient, {Data(t)}) \in Nat
      /\ Count(toExit', {Sendme(t)}) \in Nat /\ Count(toClient', {Data(t)}) \in Nat
  BY <1>0, CountType
<1>n. /\ HeldFor(t) \in Nat /\ SendmesOut(t) \in Nat
      /\ HeldFor(t)' \in Nat /\ SendmesOut(t)' \in Nat
      /\ deliverWindow[t] \in Int /\ exitStreamWindow[t] \in Nat
      /\ StreamInc \in Nat
      /\ StreamInc * SendmesOut(t) \in Nat /\ StreamInc * SendmesOut(t)' \in Nat
      /\ StreamInc * (SendmesOut(t) + 1) = StreamInc * SendmesOut(t) + StreamInc
      /\ StreamInc * (SendmesOut(t)' + 1) = StreamInc * SendmesOut(t)' + StreamInc
  <2>1. /\ HeldFor(t) \in Nat /\ SendmesOut(t) \in Nat
        /\ HeldFor(t)' \in Nat /\ SendmesOut(t)' \in Nat
    BY <1>c DEF HeldFor, SendmesOut, Unit
  <2>2. deliverWindow[t] \in Int /\ exitStreamWindow[t] \in Nat /\ StreamInc \in Nat
    BY WindowAssumption DEF TypeOK
  <2> QED
    BY <2>1, <2>2, TimesStep
<1>e. deliverWindow[t] = exitStreamWindow[t] + HeldFor(t) + StreamInc * SendmesOut(t)
  BY DEF StreamDeliverConserved, HeldFor, SendmesOut
<1>1. Same => Goal
  BY <1>e
<1>2. ASSUME NEW s \in Streams, WriterStep(s) \/ ReadSocket(s) \/ AppRead(s)
      PROVE  Same
  <2>1. CASE SendData(s)
    <3>1. toExit' = Append(toExit, Data(s))
      BY <2>1 DEF SendData
    <3>2. SendmesOut(t)' = SendmesOut(t)
      BY <1>0, <3>1, AppendData DEF SendmesOut
    <3> QED
      BY <2>1, <3>2 DEF SendData, HeldFor, Delivering, exitVars
  <2> QED
    BY <1>2, <2>1 DEF WriterStep, AwaitStreamWindow, AwaitNodeWindow, ReadSocket,
       TakeStreamWindow, BlockInSend, AppRead, exitVars, HeldFor, Delivering, SendmesOut
<1>3. ASSUME NEW s \in Streams, RecvData(s)
      PROVE  Same
  <2>1. /\ toClient # <<>> /\ Head(toClient) = Data(s) /\ toClient' = Tail(toClient)
        /\ reader = "idle" /\ reader' \in {"circuitSendme", "deliver"}
        /\ readerCell' = s
    BY <1>3 DEF RecvData
  <2>2. Count(toClient, {Data(t)}) = Count(toClient', {Data(t)}) + Unit(s = t)
    BY <1>0, <2>1, TakeData
  <2>3. Unit(Delivering(t)) = 0 /\ Unit(Delivering(t))' = Unit(s = t)
    BY <2>1 DEF Delivering, Unit
  <2>4. HeldFor(t)' = HeldFor(t)
    BY <1>c, <2>2, <2>3 DEF HeldFor, Unit
  <2> QED
    BY <1>3, <2>4 DEF RecvData, SendmesOut, exitVars
<1>4. ASSUME SendCircuitSendme
      PROVE  Goal
  <2>1. toExit' = Append(toExit, Sendme(CircuitLevel))
    BY <1>4 DEF SendCircuitSendme
  <2>2. Count(toExit', {Sendme(t)}) = Count(toExit, {Sendme(t)}) + Unit(t = CircuitLevel)
    BY <1>0, <2>1, AppendSendme
  <2>3. SendmesOut(t)' = SendmesOut(t)
    BY <1>0, <1>c, <2>2 DEF SendmesOut, Unit
  <2>4. HeldFor(t)' = HeldFor(t)
    BY <1>4 DEF SendCircuitSendme, HeldFor, Delivering
  <2>5. Same
    BY <1>4, <2>3, <2>4 DEF SendCircuitSendme, exitVars
  <2> QED
    BY <1>1, <2>5
<1>5. ASSUME DeliverCell
      PROVE  Goal
  <2>1. /\ toExit' = toExit /\ toClient' = toClient
        /\ exitStreamWindow' = exitStreamWindow
        /\ reader = "deliver" /\ reader' \notin {"circuitSendme", "deliver"}
        /\ deliverWindow' =
             [deliverWindow EXCEPT ![readerCell] = deliverWindow[readerCell] - 1]
        /\ deliverWindow \in [Streams -> Int]
    BY <1>5 DEF DeliverCell, exitVars, TypeOK
  <2>2. SendmesOut(t)' = SendmesOut(t)
    BY <2>1 DEF SendmesOut
  <2>3. CASE readerCell = t
    <3>1. Delivering(t) /\ ~Delivering(t)'
      BY <2>1, <2>3 DEF Delivering
    <3>2. HeldFor(t)' = HeldFor(t) - 1
      BY <1>c, <2>1, <3>1 DEF HeldFor, Unit
    <3>3. deliverWindow'[t] = deliverWindow[t] - 1
      BY <2>1, <2>3
    <3>4. exitStreamWindow'[t] = exitStreamWindow[t]
      BY <2>1
    <3> QED
      BY <1>n, <1>e, <2>2, <3>2, <3>3, <3>4
  <2>4. CASE readerCell # t
    <3>1. ~Delivering(t) /\ ~Delivering(t)'
      BY <2>1, <2>4 DEF Delivering
    <3>2. HeldFor(t)' = HeldFor(t)
      BY <2>1, <3>1 DEF HeldFor, Unit
    <3>3. deliverWindow'[t] = deliverWindow[t]
      BY <2>1, <2>4
    <3> QED
      BY <1>1, <2>1, <2>2, <3>2, <3>3
  <2> QED
    BY <2>3, <2>4
<1>6. ASSUME ConsiderSendme
      PROVE  Goal
  <2>1. reader = "consider" /\ reader' \in {"idle", "streamSendme"}
    BY <1>6 DEF ConsiderSendme
  <2>2. HeldFor(t)' = HeldFor(t)
    BY <1>6, <2>1 DEF ConsiderSendme, HeldFor, Delivering
  <2>3. Same
    BY <1>6, <2>2 DEF ConsiderSendme, SendmesOut, exitVars
  <2> QED
    BY <1>1, <2>3
<1>7. ASSUME SendStreamSendme
      PROVE  Goal
  <2>1. /\ toExit' = Append(toExit, Sendme(readerCell)) /\ toClient' = toClient
        /\ readerCell \in Levels /\ readerCell \in Streams
        /\ reader = "streamSendme" /\ reader' = "idle"
        /\ exitStreamWindow' = exitStreamWindow
        /\ deliverWindow' =
             [deliverWindow EXCEPT ![readerCell] = deliverWindow[readerCell] + StreamInc]
        /\ deliverWindow \in [Streams -> Int]
    BY <1>7 DEF SendStreamSendme, StreamSendmeCredit, ReaderConsistent, Levels,
                exitVars, TypeOK
  <2>2. SendmesOut(t)' = SendmesOut(t) + Unit(t = readerCell)
    BY <1>0, <2>1, AppendSendme DEF SendmesOut
  <2>3. HeldFor(t)' = HeldFor(t)
    BY <2>1 DEF HeldFor, Delivering
  <2>4. exitStreamWindow'[t] = exitStreamWindow[t]
    BY <2>1
  <2>5. CASE readerCell = t
    <3>1. deliverWindow'[t] = deliverWindow[t] + StreamInc
      BY <2>1, <2>5
    <3>2. SendmesOut(t)' = SendmesOut(t) + 1
      BY <2>2, <2>5 DEF Unit
    <3>3. StreamInc * SendmesOut(t)' = StreamInc * SendmesOut(t) + StreamInc
      BY <1>n, <3>2
    <3> QED
      BY <1>n, <1>e, <2>3, <2>4, <3>1, <3>3
  <2>6. CASE readerCell # t
    <3>1. deliverWindow'[t] = deliverWindow[t]
      BY <2>1, <2>6
    <3>2. SendmesOut(t)' = SendmesOut(t)
      BY <1>n, <2>2, <2>6 DEF Unit
    <3> QED
      BY <1>1, <2>3, <2>4, <3>1, <3>2
  <2> QED
    BY <2>5, <2>6
<1>8. ASSUME NEW l \in Levels, RecvSendme(l)
      PROVE  Same
  <2>1. toClient # <<>> /\ Head(toClient) = Sendme(l) /\ toClient' = Tail(toClient)
    BY <1>8 DEF RecvSendme
  <2>2. Count(toClient, {Data(t)}) = Count(toClient', {Data(t)})
    BY <1>0, <2>1, TakeSendme
  <2> QED
    BY <1>8, <2>2 DEF RecvSendme, HeldFor, Delivering, SendmesOut, exitVars
<1>9. ASSUME NEW s \in Streams, ExitSendData(s)
      PROVE  Goal
  <2>1. /\ toClient' = Append(toClient, Data(s)) /\ toExit' = toExit
        /\ reader' = reader /\ readerCell' = readerCell
        /\ deliverWindow' = deliverWindow
        /\ exitStreamWindow' = [exitStreamWindow EXCEPT ![s] = exitStreamWindow[s] - 1]
        /\ exitStreamWindow \in [Streams -> Nat]
    BY <1>9 DEF ExitSendData, clientVars, TypeOK
  <2>2. Count(toClient', {Data(t)}) = Count(toClient, {Data(t)}) + Unit(s = t)
    BY <1>0, <2>1, AppendData
  <2>3. Unit(Delivering(t))' = Unit(Delivering(t)) /\ Unit(Delivering(t)) \in Nat
    BY <2>1 DEF Delivering, Unit
  <2>4. HeldFor(t)' = HeldFor(t) + Unit(s = t)
    BY <1>c, <2>2, <2>3 DEF HeldFor, Unit
  <2>5. exitStreamWindow'[t] = exitStreamWindow[t] - Unit(s = t)
    BY <2>1 DEF Unit
  <2>6. SendmesOut(t)' = SendmesOut(t) /\ deliverWindow'[t] = deliverWindow[t]
    BY <2>1 DEF SendmesOut
  <2> QED
    BY <1>n, <1>e, <2>4, <2>5, <2>6 DEF Unit
<1>10. ASSUME NEW s \in Streams, ExitRecvData(s)
       PROVE  Same
  <2>1. toExit # <<>> /\ Head(toExit) = Data(s) /\ toExit' = Tail(toExit)
    BY <1>10 DEF ExitRecvData
  <2>2. SendmesOut(t)' = SendmesOut(t)
    BY <1>0, <2>1, TakeData DEF SendmesOut
  <2> QED
    BY <1>10, <2>2 DEF ExitRecvData, HeldFor, Delivering, clientVars
<1>11. ASSUME NEW l \in Levels, ExitRecvSendme(l)
       PROVE  Goal
  <2>1. /\ toExit # <<>> /\ Head(toExit) = Sendme(l) /\ toExit' = Tail(toExit)
        /\ toClient' = toClient /\ reader' = reader /\ readerCell' = readerCell
        /\ deliverWindow' = deliverWindow
    BY <1>11 DEF ExitRecvSendme, clientVars
  <2>2. SendmesOut(t) = SendmesOut(t)' + Unit(t = l)
    BY <1>0, <2>1, TakeSendme DEF SendmesOut
  <2>3. HeldFor(t)' = HeldFor(t) /\ deliverWindow'[t] = deliverWindow[t]
    BY <2>1 DEF HeldFor, Delivering
  <2>4. CASE l = t
    <3>1. exitStreamWindow'[t] = exitStreamWindow[t] + StreamInc
      <4>1. exitStreamWindow' = [exitStreamWindow EXCEPT ![t] = exitStreamWindow[t] + StreamInc]
        BY <1>0, <1>11, <2>4, Zenon DEF ExitRecvSendme
      <4>2. exitStreamWindow \in [Streams -> Nat]
        BY DEF TypeOK
      <4> QED
        BY <4>1, <4>2
    <3>2. StreamInc * SendmesOut(t) = StreamInc * SendmesOut(t)' + StreamInc
      BY <1>n, <2>2, <2>4 DEF Unit
    <3>3. deliverWindow[t] = (exitStreamWindow[t] + StreamInc) + HeldFor(t)
                               + StreamInc * SendmesOut(t)'
      BY <1>n, <1>e, <3>2, MoveCredit
    <3> QED
      BY <2>3, <3>1, <3>3
  <2>5. CASE l # t
    <3>1. exitStreamWindow'[t] = exitStreamWindow[t]
      BY <1>11, <2>5 DEF ExitRecvSendme, TypeOK
    <3>2. SendmesOut(t)' = SendmesOut(t)
      <4>1. SendmesOut(t)' \in Nat /\ Unit(t = l) = 0
        BY <1>n, <2>5, Zenon DEF Unit
      <4> QED
        BY <2>2, <4>1
    <3> QED
      BY <1>1, <2>3, <3>1, <3>2
  <2> QED
    BY <2>4, <2>5
<1>12. ASSUME NEW l \in Levels, toClient' = Append(toClient, Sendme(l)),
              UNCHANGED <<deliverWindow, reader, readerCell, toExit, exitStreamWindow>>
       PROVE  Same
  <2>1. Count(toClient', {Data(t)}) = Count(toClient, {Data(t)})
    BY <1>0, <1>12, AppendSendme
  <2> QED
    BY <1>12, <2>1 DEF HeldFor, Delivering, SendmesOut
<1>13. ASSUME ExitSendCircuitSendme
       PROVE  Same
  BY <1>0, <1>12, <1>13 DEF ExitSendCircuitSendme, clientVars
<1>14. ASSUME NEW s \in Streams, ExitSendStreamSendme(s)
       PROVE  Same
  BY <1>12, <1>14 DEF ExitSendStreamSendme, clientVars, Levels
<1> HIDE DEF Same, Goal
<1>15. Goal
  BY <1>1, <1>2, <1>3, <1>4, <1>5, <1>6, <1>7, <1>8, <1>9, <1>10, <1>11, <1>13, <1>14
     DEF Next, ReaderStep, ExitAck
<1> QED
  BY <1>15 DEF Goal

-----------------------------------------------------------------------------
(* Safety. *)

\* A cell in the reader's hands belongs to a stream, and a stream SENDME in
\* preparation fits in the window.
LEMMA ReaderStepConsistent ==
    ASSUME TypeOK, ReaderConsistent, Next
    PROVE  ReaderConsistent'
<1>1. ASSUME NEW s \in Streams, RecvData(s)
      PROVE  ReaderConsistent'
  BY <1>1 DEF RecvData, ReaderConsistent
<1>2. CASE DeliverCell
  BY <1>2 DEF DeliverCell, ReaderConsistent, Nobody
<1>3. CASE ConsiderSendme
  <2>1. deliverWindow[readerCell] \in Int
    BY <1>3 DEF ConsiderSendme, ReaderConsistent, TypeOK
  <2>2. StreamStart - StreamInc \in Int
    BY WindowAssumption
  <2> QED
    BY <1>3, <2>1, <2>2 DEF ConsiderSendme, ReaderConsistent
<1>4. CASE SendStreamSendme
  BY <1>4 DEF SendStreamSendme, ReaderConsistent
<1>5. CASE SendCircuitSendme
  BY <1>5 DEF SendCircuitSendme, ReaderConsistent
<1>6. CASE UNCHANGED <<reader, readerCell, deliverWindow>>
  BY <1>6 DEF ReaderConsistent
<1>7. CASE \E s \in Streams : WriterStep(s) \/ ReadSocket(s) \/ AppRead(s)
  BY <1>6, <1>7 DEF WriterStep, AwaitStreamWindow, AwaitNodeWindow, ReadSocket,
                    TakeStreamWindow, BlockInSend, SendData, AppRead
<1>8. CASE \E l \in Levels : RecvSendme(l)
  BY <1>6, <1>8 DEF RecvSendme
<1>9. CASE ExitAck \/ \E s \in Streams : ExitSendData(s)
  BY <1>6, <1>9 DEF ExitAck, ExitRecvData, ExitRecvSendme, ExitSendCircuitSendme,
                    ExitSendStreamSendme, ExitSendData, clientVars
<1> QED
  BY <1>1, <1>2, <1>3, <1>4, <1>5, <1>7, <1>8, <1>9 DEF Next, ReaderStep

\* The side of the window bounds that follows from conservation.
CreditBounds ==
    /\ nodePackageWindow <= CircStart
    /\ nodeDeliverWindow >= 0
    /\ \A s \in Streams : packageWindow[s] <= StreamStart
    /\ \A s \in Streams : deliverWindow[s] >= 0
    /\ \A s \in Streams : Delivering(s) => deliverWindow[s] > 0

\* Conservation bounds the windows on one side.
LEMMA ConservationBounds == TypeOK /\ CreditConserved => CreditBounds
<1> SUFFICES ASSUME TypeOK, CreditConserved
             PROVE  CreditBounds
  OBVIOUS
<1>1. nodePackageWindow <= CircStart
  <2>1. /\ Count(toExit, AllData) \in Nat
        /\ CircInc * Count(toClient, {Sendme(CircuitLevel)}) \in Nat
    BY Counts
  <2> QED
    BY <2>1, WindowAssumption DEF TypeOK, CreditConserved, NodePackageConserved
<1>2. nodeDeliverWindow >= 0
  <2>1. /\ Count(toClient, AllData) \in Nat
        /\ CircInc * CreditOut \in Nat
    <3>1. CreditOut \in Nat
      BY Counts DEF CreditOut, Unit
    <3> QED
      BY <3>1, Counts, TimesStep, WindowAssumption
  <2>2. nodeDeliverWindow = exitWindow + Count(toClient, AllData) + CircInc * CreditOut
    BY DEF CreditConserved, NodeDeliverConserved, CreditOut
  <2> QED
    BY <2>1, <2>2 DEF TypeOK
<1>3. ASSUME NEW s \in Streams
      PROVE  packageWindow[s] <= StreamStart
  <2>1. /\ PackageOf(s) \in Int /\ DataTo(s) \in Nat /\ UnackedOf(s) \in Nat
        /\ StreamInc * SendmesFor(s) \in Nat
    BY PackageTerms, TimesStep, WindowAssumption
  <2>2. PackageOf(s) + DataTo(s) + UnackedOf(s) + StreamInc * SendmesFor(s) = StreamStart
    BY DEF CreditConserved, StreamPackageConserved, PackageOf, DataTo, UnackedOf,
           SendmesFor
  <2>3. PackageOf(s) <= StreamStart
    BY <2>1, <2>2, WindowAssumption
  <2>4. packageWindow[s] \in Int /\ packageWindow[s] <= PackageOf(s)
    BY DEF TypeOK, PackageOf, Unit
  <2> QED
    BY <2>1, <2>3, <2>4, WindowAssumption
<1>4. ASSUME NEW s \in Streams
      PROVE  deliverWindow[s] >= 0 /\ (Delivering(s) => deliverWindow[s] > 0)
  <2>1. /\ Count(toClient, {Data(s)}) \in Nat /\ exitStreamWindow[s] \in Nat
        /\ StreamInc * SendmesOut(s) \in Nat
    BY Counts DEF SendmesOut, TypeOK
  <2>2. HeldFor(s) \in Nat /\ (Delivering(s) => HeldFor(s) > 0)
    BY <2>1 DEF HeldFor, Unit
  <2>3. deliverWindow[s] = exitStreamWindow[s] + HeldFor(s) + StreamInc * SendmesOut(s)
    BY DEF CreditConserved, StreamDeliverConserved, HeldFor, SendmesOut
  <2> QED
    BY <2>1, <2>2, <2>3
<1> QED
  BY <1>1, <1>2, <1>3, <1>4 DEF CreditBounds

\* The other side of the bounds is kept by every step.
LEMMA WindowStep ==
    ASSUME TypeOK, ReaderConsistent, WindowsWithinBounds, Next
    PROVE  /\ nodePackageWindow' >= 0
           /\ nodeDeliverWindow' <= CircStart
           /\ \A s \in Streams : packageWindow'[s] >= 0
           /\ \A s \in Streams : deliverWindow'[s] <= StreamStart
<1>0. /\ nodePackageWindow \in Int /\ nodePackageWindow >= 0
      /\ nodeDeliverWindow \in Int /\ nodeDeliverWindow <= CircStart
      /\ packageWindow \in [Streams -> Int] /\ deliverWindow \in [Streams -> Int]
      /\ \A s \in Streams : packageWindow[s] >= 0
      /\ \A s \in Streams : deliverWindow[s] <= StreamStart
      /\ CircInc \in Nat /\ CircStart \in Nat /\ StreamInc \in Nat /\ StreamStart \in Nat
  BY WindowAssumption DEF TypeOK, WindowsWithinBounds
<1>1. nodePackageWindow' >= 0
  <2>1. ASSUME NEW s \in Streams, SendData(s)
        PROVE  nodePackageWindow' >= 0
    BY <1>0, <2>1 DEF SendData
  <2>2. ASSUME NEW l \in Levels, RecvSendme(l)
        PROVE  nodePackageWindow' >= 0
    BY <1>0, <2>2 DEF RecvSendme, IncrementSendWindow
  <2>3. CASE UNCHANGED nodePackageWindow
    BY <1>0, <2>3
  <2> QED
    BY <2>1, <2>2, <2>3 DEF Next, WriterStep, AwaitStreamWindow, AwaitNodeWindow,
       ReadSocket, TakeStreamWindow, BlockInSend, AppRead, ReaderStep, RecvData,
       SendCircuitSendme, DeliverCell, ConsiderSendme, SendStreamSendme, ExitAck,
       ExitRecvData, ExitRecvSendme, ExitSendCircuitSendme, ExitSendStreamSendme,
       ExitSendData, clientVars
<1>2. nodeDeliverWindow' <= CircStart
  <2>1. ASSUME NEW s \in Streams, RecvData(s)
        PROVE  nodeDeliverWindow' <= CircStart
    BY <1>0, <2>1 DEF RecvData, NodeSendmeCredit
  <2>2. CASE UNCHANGED nodeDeliverWindow
    BY <1>0, <2>2
  <2> QED
    BY <2>1, <2>2 DEF Next, WriterStep, AwaitStreamWindow, AwaitNodeWindow,
       ReadSocket, TakeStreamWindow, BlockInSend, SendData, AppRead, ReaderStep,
       SendCircuitSendme, DeliverCell, ConsiderSendme, SendStreamSendme, RecvSendme,
       ExitAck, ExitRecvData, ExitRecvSendme, ExitSendCircuitSendme,
       ExitSendStreamSendme, ExitSendData, clientVars
<1>3. ASSUME NEW t \in Streams
      PROVE  packageWindow'[t] >= 0
  <2>1. ASSUME NEW s \in Streams, TakeStreamWindow(s)
        PROVE  packageWindow'[t] >= 0
    BY <1>0, <2>1 DEF TakeStreamWindow
  <2>2. ASSUME NEW l \in Levels, RecvSendme(l)
        PROVE  packageWindow'[t] >= 0
    <3>1. \/ packageWindow' = packageWindow
          \/ packageWindow' = [packageWindow EXCEPT ![l] = packageWindow[l] + StreamInc]
      BY <2>2 DEF RecvSendme, IncrementPackageWindow
    <3>2. CASE l = t
      BY <1>0, <3>1, <3>2
    <3>3. CASE l # t
      BY <1>0, <3>1, <3>3
    <3> QED
      BY <3>2, <3>3
  <2>3. CASE UNCHANGED packageWindow
    BY <1>0, <2>3
  <2> QED
    BY <2>1, <2>2, <2>3 DEF Next, WriterStep, AwaitStreamWindow, AwaitNodeWindow,
       ReadSocket, BlockInSend, SendData, AppRead, ReaderStep, RecvData,
       SendCircuitSendme, DeliverCell, ConsiderSendme, SendStreamSendme, ExitAck,
       ExitRecvData, ExitRecvSendme, ExitSendCircuitSendme, ExitSendStreamSendme,
       ExitSendData, clientVars
<1>4. ASSUME NEW t \in Streams
      PROVE  deliverWindow'[t] <= StreamStart
  <2>1. CASE DeliverCell
    BY <1>0, <2>1 DEF DeliverCell
  <2>2. CASE SendStreamSendme
    <3>1. deliverWindow[readerCell] <= StreamStart - StreamInc /\ readerCell \in Streams
      BY <2>2 DEF SendStreamSendme, ReaderConsistent
    <3>2. deliverWindow' =
            [deliverWindow EXCEPT ![readerCell] = deliverWindow[readerCell] + StreamInc]
      BY <2>2 DEF SendStreamSendme, StreamSendmeCredit
    <3> QED
      BY <1>0, <3>1, <3>2
  <2>3. CASE UNCHANGED deliverWindow
    BY <1>0, <2>3
  <2> QED
    BY <2>1, <2>2, <2>3 DEF Next, WriterStep, AwaitStreamWindow, AwaitNodeWindow,
       ReadSocket, TakeStreamWindow, BlockInSend, SendData, AppRead, ReaderStep,
       RecvData, SendCircuitSendme, ConsiderSendme, RecvSendme, ExitAck,
       ExitRecvData, ExitRecvSendme, ExitSendCircuitSendme, ExitSendStreamSendme,
       ExitSendData, clientVars
<1> QED
  BY <1>1, <1>2, <1>3, <1>4

\* The inductive invariant holds initially.
LEMMA InitIInv == Init => IInv
<1> SUFFICES ASSUME Init
             PROVE  IInv
  OBVIOUS
<1>1. TypeOK
  BY LevelAssumption, WindowAssumption
     DEF Init, TypeOK, WriterPc, ReaderPc, Cell, Nobody
<1>2. ReaderConsistent
  BY DEF Init, ReaderConsistent
<1>3. /\ \A C : Count(toExit, C) = 0 /\ Count(toClient, C) = 0
      /\ CircInc * 0 = 0 /\ StreamInc * 0 = 0
  BY CountEmpty, WindowAssumption DEF Init
<1>4. NodePackageConserved
  BY <1>3, WindowAssumption DEF Init, NodePackageConserved
<1>5. StreamPackageConserved
  BY <1>3, WindowAssumption DEF Init, StreamPackageConserved, Unit, InFlush
<1>6. NodeDeliverConserved
  BY <1>3, WindowAssumption DEF Init, NodeDeliverConserved, Unit
<1>7. StreamDeliverConserved
  BY <1>3, WindowAssumption DEF Init, StreamDeliverConserved, Unit, Delivering
<1>8. WindowsWithinBounds
  BY WindowAssumption DEF Init, WindowsWithinBounds
<1> QED
  BY <1>1, <1>2, <1>4, <1>5, <1>6, <1>7, <1>8 DEF IInv, CreditConserved

\* The inductive invariant is kept by every step.
LEMMA StepIInv == IInv /\ [Next]_vars => IInv'
<1> SUFFICES ASSUME IInv, [Next]_vars
             PROVE  IInv'
  OBVIOUS
<1> USE DEF IInv
<1>1. CASE Next
  <2>1. TypeOK'
    BY <1>1, TypeStep
  <2>2. ReaderConsistent'
    BY <1>1, ReaderStepConsistent
  <2>3. CreditConserved'
    BY <1>1, <2>1, NodePackageStep, StreamPackageStep, NodeDeliverStep,
       StreamDeliverStep DEF CreditConserved
  <2>4. CreditBounds'
    BY <2>1, <2>3, ConservationBounds, PTL
  <2>5. /\ nodePackageWindow' >= 0
        /\ nodeDeliverWindow' <= CircStart
        /\ \A s \in Streams : packageWindow'[s] >= 0
        /\ \A s \in Streams : deliverWindow'[s] <= StreamStart
    BY <1>1, WindowStep
  <2>6. reader' = "deliver" => readerCell' \in Streams /\ Delivering(readerCell)'
    BY <2>2 DEF ReaderConsistent, Delivering
  <2>7. WindowsWithinBounds'
    <3>1. /\ nodePackageWindow' \in Int /\ nodeDeliverWindow' \in Int
          /\ \A s \in Streams : packageWindow'[s] \in Int /\ deliverWindow'[s] \in Int
          /\ CircStart \in Nat /\ StreamStart \in Nat
      BY <2>1, WindowAssumption DEF TypeOK
    <3>2. nodePackageWindow' \in 0..CircStart /\ nodeDeliverWindow' \in 0..CircStart
      BY <2>4, <2>5, <3>1 DEF CreditBounds
    <3>3. \A s \in Streams : packageWindow'[s] \in 0..StreamStart
      BY <2>4, <2>5, <3>1 DEF CreditBounds
    <3>4. \A s \in Streams : deliverWindow'[s] \in 0..StreamStart
      BY <2>4, <2>5, <3>1 DEF CreditBounds
    <3>5. reader' = "deliver" => deliverWindow'[readerCell'] > 0
      BY <2>4, <2>6 DEF CreditBounds
    <3> QED
      BY <3>2, <3>3, <3>4, <3>5 DEF WindowsWithinBounds
  <2> QED
    BY <2>1, <2>2, <2>3, <2>7
<1>2. CASE UNCHANGED vars
  BY <1>2 DEF vars, clientVars, exitVars, TypeOK, ReaderConsistent, CreditConserved,
     NodePackageConserved, StreamPackageConserved, NodeDeliverConserved,
     StreamDeliverConserved, WindowsWithinBounds, InFlush, Delivering
<1> QED
  BY <1>1, <1>2

\* For any number of streams and any window sizes no window credit is lost, made
\* up or counted twice between the windows of CircuitNodeImpl and StreamImpl, the
\* cells under way and the peer.
THEOREM CreditIsConserved == Spec => []CreditConserved
<1>1. IInv => CreditConserved
  BY DEF IInv
<1> QED
  BY InitIInv, StepIInv, <1>1, PTL DEF Spec

\* For any number of streams and any window sizes the windows stay between zero
\* and their start values, and StreamImpl.addInputCell never finds a deliver
\* window of zero when a DATA cell arrives: its TorException is unreachable.
THEOREM WindowsStayWithinBounds == Spec => []WindowsWithinBounds
<1>1. IInv => WindowsWithinBounds
  BY DEF IInv
<1> QED
  BY InitIInv, StepIInv, <1>1, PTL DEF Spec

-----------------------------------------------------------------------------
(* A circuit with a single stream. *)

\* The only writer has seen the circuit window open and still finds it so.
SoleWriter ==
    \A s \in Streams : /\ writer[s] = "send" => nodePackageWindow # 0
                       /\ writer[s] # "waiting"

\* A thread that holds relaySendLock in CircuitIO.sendRelayCellTo never waits for
\* the circuit window if the circuit carries at most one stream.
THEOREM SoleSenderNeverHoldsAndWaits ==
    ASSUME \A s, t \in Streams : s = t
    PROVE  Spec => []NeverHoldsAndWaits
<1> DEFINE J == SoleWriter /\ NeverHoldsAndWaits
<1>1. Init => J
  BY DEF Init, SoleWriter, NeverHoldsAndWaits
<1>2. IInv /\ J /\ [Next]_vars => J'
  <2> SUFFICES ASSUME IInv, J, [Next]_vars
               PROVE  J'
    OBVIOUS
  <2>0. /\ writer \in [Streams -> WriterPc] /\ CircInc \in Nat \ {0}
        /\ nodePackageWindow \in Int /\ nodePackageWindow >= 0
    BY WindowAssumption DEF IInv, TypeOK, WindowsWithinBounds
  <2> USE DEF SoleWriter, NeverHoldsAndWaits
  <2>1. ASSUME NEW s \in Streams, AwaitStreamWindow(s) \/ AwaitNodeWindow(s)
        PROVE  J'
    BY <2>0, <2>1 DEF AwaitStreamWindow, AwaitNodeWindow, WriterGoto
  <2>2. ASSUME NEW s \in Streams, ReadSocket(s) \/ TakeStreamWindow(s)
        PROVE  J'
    BY <2>0, <2>2 DEF ReadSocket, TakeStreamWindow, WriterGoto
  <2>3. ASSUME NEW s \in Streams, BlockInSend(s)
        PROVE  J'
    BY <2>0, <2>3 DEF BlockInSend
  <2>4. ASSUME NEW s \in Streams, SendData(s)
        PROVE  J'
    <3>1. \A t \in Streams : writer'[t] \in {"flush", "loop"}
      BY <2>0, <2>4 DEF SendData, WriterGoto
    <3> QED
      BY <2>4, <3>1 DEF SendData
  <2>5. ASSUME NEW l \in Levels, RecvSendme(l)
        PROVE  J'
    BY <2>0, <2>5 DEF RecvSendme, IncrementSendWindow
  <2>6. CASE UNCHANGED <<writer, relaySendLock, nodePackageWindow>>
    BY <2>6
  <2>7. CASE UNCHANGED vars
    BY <2>6, <2>7 DEF vars, clientVars
  <2> QED
    BY <2>1, <2>2, <2>3, <2>4, <2>5, <2>6, <2>7 DEF Next, WriterStep, AppRead,
       ReaderStep, RecvData, SendCircuitSendme, DeliverCell, ConsiderSendme,
       SendStreamSendme, ExitAck, ExitRecvData, ExitRecvSendme,
       ExitSendCircuitSendme, ExitSendStreamSendme, ExitSendData, clientVars
<1> QED
  BY InitIInv, StepIInv, <1>1, <1>2, PTL DEF Spec
=============================================================================
