--------------------------- MODULE Moodpd_proofs ---------------------------
(***************************************************************************)
(* The buffered writer and the event loop, for every set of vector lengths,*)
(* every size of the port's queue and every bound.  The writer's           *)
(* invariants are inductive, and it implements the byte stream.  The loop  *)
(* uses the writer only through write() and flush(), so all that is proved *)
(* of the writer holds of the daemon; and it neither sleeps on work nor    *)
(* blocks in recvfrom, and writes exactly the frames that are due.         *)
(***************************************************************************)
EXTENDS Moodpd, SequenceTheorems, FlattenLemmas

-----------------------------------------------------------------------------
(* The writer *)

(* The conjunction that is inductive: the deque says what comes next, the  *)
(* descriptor what came before, and the types bound every index.           *)
WriterInv ==
    /\ WriterTypeOK
    /\ ExactlyOnceInOrder
    /\ BufferIsTheRest

(* The first k bytes of a vector are k adjacent places of the stream. *)
LEMMA FirstBytesPlaces ==
    ASSUME NEW c \in Chunk, NEW k \in Nat
    PROVE  /\ FirstBytes(c, k) \in Seq(Nat)
           /\ Len(FirstBytes(c, k)) = k
           /\ \A i \in 1..k : FirstBytes(c, k)[i] = c.at + i - 1
<1>1. FirstBytes(c, k) \in [1..k -> Nat]
    BY DEF FirstBytes, Chunk
<1>2. FirstBytes(c, k) \in Seq(Nat) /\ Len(FirstBytes(c, k)) = k
    BY <1>1, SeqDef, LenProperties
<1> QED
    BY <1>2 DEF FirstBytes

(* A successful ::write extends the device by the bytes of the front       *)
(* vector, and the port's queue keeps within its size.                     *)
LEMMA SendExtendsDevice ==
    ASSUME WriterTypeOK, buffer # <<>>,
           NEW k \in Taken(Head(buffer).len), Send(k)
    PROVE  /\ k \in Nat
           /\ k <= Head(buffer).len
           /\ device' \in Seq(Nat)
           /\ Len(device') = Len(device) + k
           /\ \A i \in 1..Len(device) : device'[i] = device[i]
           /\ \A i \in 1..k : device'[Len(device) + i] = buffer[1].at + i - 1
           /\ unsent' \in 0..KernelRoom
<1> DEFINE c == Head(buffer)
<1>1. c \in Chunk /\ c = buffer[1]
    BY HeadTailProperties DEF WriterTypeOK
<1>2. k \in Nat /\ k <= c.len /\ unsent' \in 0..KernelRoom
    BY <1>1, WriterAssumption DEF Taken, Room, Send, WriterTypeOK, Chunk
<1>3. /\ FirstBytes(c, k) \in Seq(Nat)
      /\ Len(FirstBytes(c, k)) = k
      /\ \A i \in 1..k : FirstBytes(c, k)[i] = c.at + i - 1
    BY <1>1, <1>2, FirstBytesPlaces
<1>4. device' = device \o FirstBytes(c, k) /\ device \in Seq(Nat)
    BY DEF Send, WriterTypeOK
<1> HIDE DEF c
<1>5. /\ device' \in Seq(Nat)
      /\ Len(device') = Len(device) + k
      /\ \A i \in 1..(Len(device) + k) : device'[i] =
            IF i <= Len(device) THEN device[i]
                                ELSE FirstBytes(c, k)[i - Len(device)]
    BY <1>3, <1>4, ConcatProperties
<1>6. Len(device) \in Nat
    BY <1>4, LenProperties
<1>7. \A i \in 1..Len(device) : device'[i] = device[i]
    BY <1>2, <1>5, <1>6
<1>8. \A i \in 1..k : device'[Len(device) + i] = buffer[1].at + i - 1
  <2> SUFFICES ASSUME NEW i \in 1..k
               PROVE  device'[Len(device) + i] = buffer[1].at + i - 1
      OBVIOUS
  <2>1. device'[Len(device) + i] = FirstBytes(c, k)[Len(device) + i - Len(device)]
      BY <1>2, <1>5, <1>6, SMTT(30)
  <2>2. Len(device) + i - Len(device) = i
      BY <1>2, <1>6
  <2> QED
      BY <1>1, <1>3, <2>1, <2>2
<1> QED
    BY <1>1, <1>2, <1>5, <1>7, <1>8 DEF c

-----------------------------------------------------------------------------
(* One lemma per action that touches the deque *)

\* The new writer's empty deque satisfies the invariant.
LEMMA WriterInvInit == WriterInit => WriterInv
BY WriterAssumption, EmptySeq
   DEF WriterInit, WriterInv, WriterTypeOK, ExactlyOnceInOrder, BufferIsTheRest

\* write() puts the new vector after every buffered one.
LEMMA WritePreserves ==
    ASSUME WriterInv, NEW n \in Sizes, Write(n)
    PROVE  WriterInv'
<1> DEFINE c == [at |-> accepted + 1, len |-> n]
<1>1. n \in Nat \ {0} /\ c \in Chunk /\ c.at = accepted + 1 /\ c.len = n
    BY WriterAssumption DEF WriterInv, WriterTypeOK, Chunk
<1>2. buffer \in Seq(Chunk) /\ buffer' = Append(buffer, c)
    BY DEF WriterInv, WriterTypeOK, Write, PushBack
<1> HIDE DEF c
<1>3. /\ buffer' \in Seq(Chunk)
      /\ Len(buffer') = Len(buffer) + 1
      /\ \A i \in 1..Len(buffer) : buffer'[i] = buffer[i]
      /\ buffer'[Len(buffer) + 1] = c
      /\ buffer' # <<>>
    BY <1>1, <1>2, AppendProperties
<1>4. Len(buffer) \in Nat /\ \A i \in 1..Len(buffer) : buffer[i] \in Chunk
    BY <1>2, LenProperties, ElementOfSeq
<1>5. WriterTypeOK'
    BY <1>1, <1>3 DEF WriterInv, WriterTypeOK, Write
<1>6. ExactlyOnceInOrder'
    BY DEF WriterInv, ExactlyOnceInOrder, Write
<1>7. accepted \in Nat /\ accepted' = accepted + n /\ device' = device
    BY DEF WriterInv, WriterTypeOK, Write
<1>8. buffer'[1].at = Len(device) + 1
  <2>1. CASE buffer = <<>>
      BY <1>1, <1>3, <2>1, EmptySeq DEF WriterInv, BufferIsTheRest
  <2>2. CASE buffer # <<>>
    <3>1. 1 \in 1..Len(buffer)
        BY <1>2, <2>2, EmptySeq
    <3> QED
        BY <1>3, <2>2, <3>1 DEF WriterInv, BufferIsTheRest
  <2> QED
      BY <2>1, <2>2
<1>9. ASSUME NEW i \in 1..(Len(buffer') - 1)
      PROVE  buffer'[i + 1].at = buffer'[i].at + buffer'[i].len
  <2>1. i \in 1..Len(buffer) /\ buffer'[i] = buffer[i]
      BY <1>3, <1>4
  <2>2. CASE i = Len(buffer)
    <3>1. buffer # <<>>
        BY <1>4, <2>1, EmptySeq
    <3> QED
        BY <1>1, <1>3, <2>1, <2>2, <3>1 DEF WriterInv, BufferIsTheRest
  <2>3. CASE i # Len(buffer)
    <3>1. i \in 1..(Len(buffer) - 1) /\ i + 1 \in 1..Len(buffer)
        BY <1>4, <2>1, <2>3
    <3> QED
        BY <1>3, <2>1, <3>1 DEF WriterInv, BufferIsTheRest
  <2> QED
      BY <2>2, <2>3
<1>10. ASSUME NEW i \in 1..Len(buffer')
       PROVE  buffer'[i].at + buffer'[i].len <= accepted' + 1
  <2>1. CASE i = Len(buffer) + 1
      BY <1>1, <1>3, <1>7, <2>1
  <2>2. CASE i # Len(buffer) + 1
    <3>1. i \in 1..Len(buffer) /\ buffer'[i] = buffer[i]
        BY <1>3, <1>4, <2>2
    <3>2. buffer[i].at + buffer[i].len <= accepted + 1
        BY <3>1 DEF WriterInv, BufferIsTheRest
    <3>3. buffer[i].at \in Nat /\ buffer[i].len \in Nat
        BY <1>4, <3>1 DEF Chunk
    <3> QED
        BY <1>1, <1>7, <3>1, <3>2, <3>3
  <2> QED
      BY <2>1, <2>2
<1>11. buffer'[Len(buffer')].at + buffer'[Len(buffer')].len = accepted' + 1
  <2>1. buffer'[Len(buffer')] = c
      BY <1>3
  <2>2. c.at + c.len = accepted' + 1
      BY <1>1, <1>7
  <2> QED
      BY <2>1, <2>2
<1> QED
    BY <1>3, <1>5, <1>6, <1>7, <1>8, <1>9, <1>10, <1>11
    DEF WriterInv, BufferIsTheRest

\* The bytes ::write takes are the next ones of the stream.
LEMMA SendInOrder ==
    ASSUME WriterInv, buffer # <<>>,
           NEW k \in Taken(Head(buffer).len), Send(k)
    PROVE  ExactlyOnceInOrder'
<1>1. /\ k \in Nat
      /\ Len(device') = Len(device) + k
      /\ \A i \in 1..Len(device) : device'[i] = device[i]
      /\ \A i \in 1..k : device'[Len(device) + i] = buffer[1].at + i - 1
    BY SendExtendsDevice DEF WriterInv
<1>2. Len(device) \in Nat
    BY LenProperties DEF WriterInv, WriterTypeOK
<1>3. buffer[1].at = Len(device) + 1
    BY DEF WriterInv, BufferIsTheRest
<1>4. SUFFICES ASSUME NEW i \in 1..Len(device')
               PROVE  device'[i] = i
    BY DEF ExactlyOnceInOrder
<1>5. CASE i <= Len(device)
    BY <1>1, <1>2, <1>5 DEF WriterInv, ExactlyOnceInOrder
<1>6. CASE i > Len(device)
  <2>1. i - Len(device) \in 1..k /\ Len(device) + (i - Len(device)) = i
      BY <1>1, <1>2, <1>6
  <2>2. device'[i] = buffer[1].at + (i - Len(device)) - 1
      BY <1>1, <2>1
  <2> QED
      BY <1>2, <1>3, <2>2
<1> QED
    BY <1>1, <1>2, <1>5, <1>6

\* Popping the front vector leaves the vectors behind it.
LEMMA FlushWholePreserves ==
    ASSUME WriterInv, FlushWhole
    PROVE  WriterInv'
<1> DEFINE k == Head(buffer).len
<1>1. /\ buffer # <<>> /\ buffer \in Seq(Chunk)
      /\ k \in Taken(k) /\ Send(k) /\ buffer' = Tail(buffer)
      /\ accepted' = accepted /\ accepted \in Nat
    BY DEF FlushWhole, WriterInv, WriterTypeOK
<1>2. /\ k = buffer[1].len /\ k \in Nat
      /\ Len(buffer) \in Nat \ {0}
      /\ \A i \in 1..Len(buffer) : buffer[i] \in Chunk
  <2>1. /\ Len(buffer) \in Nat \ {0}
        /\ \A i \in 1..Len(buffer) : buffer[i] \in Chunk
      BY <1>1, EmptySeq, ElementOfSeq
  <2>2. Head(buffer) = buffer[1] /\ Head(buffer) \in Chunk
      BY <1>1, HeadTailProperties
  <2> QED
      BY <2>1, <2>2 DEF Chunk
<1> HIDE DEF k
<1>3. /\ device' \in Seq(Nat) /\ Len(device') = Len(device) + k
      /\ unsent' \in 0..KernelRoom
    BY <1>1, SendExtendsDevice DEF WriterInv, k
<1>4. /\ buffer' \in Seq(Chunk) /\ Len(buffer') = Len(buffer) - 1
      /\ \A i \in 1..Len(buffer') : buffer'[i] = buffer[i + 1]
    BY <1>1, HeadTailProperties
<1>5. WriterTypeOK'
    BY <1>3, <1>4 DEF WriterInv, WriterTypeOK, FlushWhole
<1>6. ExactlyOnceInOrder'
    BY <1>1, SendInOrder DEF k
<1>7. Len(device) \in Nat /\ buffer[1].at = Len(device) + 1
    BY <1>1, LenProperties DEF WriterInv, WriterTypeOK, BufferIsTheRest
<1>8. CASE buffer' = <<>>
  <2>1. Len(buffer') = 0 /\ Len(buffer) = 1
      BY <1>2, <1>4, <1>8, EmptySeq
  <2>2. buffer[1].at + buffer[1].len = accepted + 1
      BY <1>1, <2>1 DEF WriterInv, BufferIsTheRest
  <2>3. accepted' = Len(device')
      BY <1>1, <1>2, <1>3, <1>7, <2>2, SMTT(30)
  <2> QED
      BY <1>5, <1>6, <1>8, <2>1, <2>3 DEF WriterInv, BufferIsTheRest
<1>9. CASE buffer' # <<>>
  <2>1. Len(buffer') \in Nat \ {0}
      BY <1>4, <1>9, EmptySeq
  <2>2. 1 \in 1..(Len(buffer) - 1) /\ 1 \in 1..Len(buffer')
      BY <1>2, <1>4, <2>1
  <2>3. buffer'[1].at = Len(device') + 1
    <3>1. buffer[1 + 1].at = buffer[1].at + buffer[1].len
        BY <2>2 DEF WriterInv, BufferIsTheRest
    <3>2. buffer'[1] = buffer[1 + 1]
        BY <1>4, <2>2
    <3> QED
        BY <1>2, <1>3, <1>7, <3>1, <3>2, SMTT(30)
  <2>4. buffer'[Len(buffer')] = buffer[Len(buffer)]
    <3>1. Len(buffer') \in 1..Len(buffer') /\ Len(buffer') + 1 = Len(buffer)
        BY <1>2, <1>4, <2>1
    <3> QED
        BY <1>4, <3>1
  <2>5. buffer[Len(buffer)].at + buffer[Len(buffer)].len = accepted + 1
      BY <1>1 DEF WriterInv, BufferIsTheRest
  <2>6. ASSUME NEW i \in 1..(Len(buffer') - 1)
        PROVE  buffer'[i + 1].at = buffer'[i].at + buffer'[i].len
    <3>1. /\ i \in 1..Len(buffer') /\ i + 1 \in 1..Len(buffer')
          /\ i + 1 \in 1..(Len(buffer) - 1)
        BY <1>2, <1>4
    <3>2. buffer[(i + 1) + 1].at = buffer[i + 1].at + buffer[i + 1].len
        BY <3>1 DEF WriterInv, BufferIsTheRest
    <3> QED
        BY <1>4, <3>1, <3>2
  <2>7. ASSUME NEW i \in 1..Len(buffer')
        PROVE  buffer'[i].at + buffer'[i].len <= accepted' + 1
    <3>1. i + 1 \in 1..Len(buffer)
        BY <1>2, <1>4
    <3>2. buffer[i + 1].at + buffer[i + 1].len <= accepted + 1
        BY <3>1 DEF WriterInv, BufferIsTheRest
    <3> QED
        BY <1>1, <1>4, <3>2
  <2> QED
      BY <1>1, <1>5, <1>6, <1>9, <2>3, <2>4, <2>5, <2>6, <2>7
      DEF WriterInv, BufferIsTheRest
<1> QED
    BY <1>8, <1>9

\* Erasing what was taken leaves the rest of the front vector in place.
LEMMA FlushPartPreserves ==
    ASSUME WriterInv, NEW k \in 0..MaxAccepted, FlushPart(k)
    PROVE  WriterInv'
<1> DEFINE c == Head(buffer)
           e == Erase(c, k)
<1>1. /\ buffer # <<>> /\ buffer \in Seq(Chunk)
      /\ k \in Taken(c.len) /\ k < c.len /\ Send(k)
      /\ buffer' = [buffer EXCEPT ![1] = Erase(buffer[1], k)]
      /\ accepted' = accepted /\ accepted \in Nat
    BY DEF FlushPart, WriterInv, WriterTypeOK
<1>2. /\ c = buffer[1] /\ c \in Chunk
      /\ Len(buffer) \in Nat \ {0} /\ 1 \in 1..Len(buffer)
      /\ \A i \in 1..Len(buffer) : buffer[i] \in Chunk
    BY <1>1, HeadTailProperties, EmptySeq, ElementOfSeq
<1>3. /\ k \in Nat /\ device' \in Seq(Nat) /\ Len(device') = Len(device) + k
      /\ unsent' \in 0..KernelRoom
    BY <1>1, SendExtendsDevice DEF WriterInv
<1>4. e \in Chunk /\ e.at = c.at + k /\ e.at + e.len = c.at + c.len
    BY <1>1, <1>2, <1>3, SMTT(30) DEF Erase, Chunk
<1>5. buffer' = [buffer EXCEPT ![1] = e]
    BY <1>1, <1>2
<1>6. ExactlyOnceInOrder'
    BY <1>1, SendInOrder
<1> HIDE DEF c, e
<1>7. /\ buffer' \in Seq(Chunk) /\ Len(buffer') = Len(buffer)
      /\ \A i \in 1..Len(buffer) : buffer'[i] = IF i = 1 THEN e ELSE buffer[i]
    BY <1>1, <1>2, <1>4, <1>5, ExceptSeq
<1>8. buffer' # <<>>
    BY <1>2, <1>7, EmptySeq
<1>9. WriterTypeOK'
    BY <1>3, <1>7 DEF WriterInv, WriterTypeOK, FlushPart
<1>10. \A i \in 1..Len(buffer) :
          buffer'[i].at + buffer'[i].len = buffer[i].at + buffer[i].len
    BY <1>2, <1>4, <1>7
<1>11. buffer'[1].at = Len(device') + 1
  <2>1. Len(device) \in Nat /\ buffer[1].at = Len(device) + 1
      BY <1>1, LenProperties DEF WriterInv, WriterTypeOK, BufferIsTheRest
  <2> QED
      BY <1>2, <1>3, <1>4, <1>7, <2>1
<1>12. ASSUME NEW i \in 1..(Len(buffer') - 1)
       PROVE  buffer'[i + 1].at = buffer'[i].at + buffer'[i].len
  <2>1. i \in 1..Len(buffer) /\ i + 1 \in 1..Len(buffer) /\ i + 1 # 1
      BY <1>2, <1>7
  <2>2. buffer[i + 1].at = buffer[i].at + buffer[i].len
      BY <1>7 DEF WriterInv, BufferIsTheRest
  <2> QED
      BY <1>7, <1>10, <2>1, <2>2
<1>13. buffer'[Len(buffer)].at + buffer'[Len(buffer)].len = accepted + 1
    BY <1>1, <1>2, <1>10 DEF WriterInv, BufferIsTheRest
<1>14. ASSUME NEW i \in 1..Len(buffer)
       PROVE  buffer'[i].at + buffer'[i].len <= accepted + 1
    BY <1>10 DEF WriterInv, BufferIsTheRest
<1> QED
    BY <1>1, <1>6, <1>7, <1>8, <1>9, <1>11, <1>12, <1>13, <1>14
    DEF WriterInv, BufferIsTheRest

\* Every operation of the writer, and the draining port, keep it.
LEMMA WriterInvNext == WriterInv /\ [WriterNext]_writerVars => WriterInv'
<1> SUFFICES ASSUME WriterInv, [WriterNext]_writerVars
             PROVE  WriterInv'
    OBVIOUS
<1> USE DEF WriterInv, WriterTypeOK, ExactlyOnceInOrder, BufferIsTheRest
<1>1. ASSUME NEW n \in Sizes, Write(n) PROVE WriterInv'
    BY <1>1, WritePreserves
<1>2. CASE Flush
    BY <1>2 DEF Flush
<1>3. CASE FlushWhole
    BY <1>3, FlushWholePreserves
<1>4. ASSUME NEW k \in 0..MaxAccepted, FlushPart(k) PROVE WriterInv'
    BY <1>4, FlushPartPreserves
<1>5. CASE FlushDone
    BY <1>5 DEF FlushDone
<1>6. CASE WriteFailed
    BY <1>6 DEF WriteFailed
<1>7. CASE Exit
    BY <1>7 DEF Exit
<1>8. CASE Drain
    BY <1>8, WriterAssumption DEF Drain
<1>9. CASE UNCHANGED writerVars
    BY <1>9 DEF writerVars
<1> QED
    BY <1>1, <1>2, <1>3, <1>4, <1>5, <1>6, <1>7, <1>8, <1>9
    DEF WriterNext, FlushTurn

-----------------------------------------------------------------------------
(* The writer's guarantees *)

\* The writer's state keeps its types and its three-part invariant.
THEOREM WriterInvariant == WriterSpec => []WriterInv
<1>1. WriterInit => WriterInv
    BY WriterInvInit
<1>2. WriterInv /\ [WriterNext]_writerVars => WriterInv'
    BY WriterInvNext
<1> QED
    BY <1>1, <1>2, PTL DEF WriterSpec

\* Whatever ::write takes, the state of class NonblockWriter is well typed and
\* the port's queue is never overfilled.
THEOREM WriterTypes == WriterSpec => []WriterTypeOK
<1>1. WriterInv => WriterTypeOK
    BY DEF WriterInv
<1> QED
    BY <1>1, WriterInvariant, PTL

\* write() and flush() give the port every byte at most once and in order.
THEOREM WriterInOrder == WriterSpec => []ExactlyOnceInOrder
<1>1. WriterInv => ExactlyOnceInOrder
    BY DEF WriterInv
<1> QED
    BY <1>1, WriterInvariant, PTL

\* The deque is exactly what the port has not taken.
THEOREM WriterKeepsTheRest == WriterSpec => []BufferIsTheRest
<1>1. WriterInv => BufferIsTheRest
    BY DEF WriterInv
<1> QED
    BY <1>1, WriterInvariant, PTL

-----------------------------------------------------------------------------
(* The writer implements the stream *)

\* A ::write that took k bytes is the stream's transfer of k bytes.
LEMMA SendIsTransfer ==
    ASSUME WriterInv, buffer # <<>>, writer = "flushing",
           NEW k \in Taken(Head(buffer).len) \ {0}, Send(k),
           accepted' = accepted, writer' # "exited"
    PROVE  Stream!Next
<1>1. k \in Nat /\ k <= Head(buffer).len
    BY SendExtendsDevice DEF WriterInv
<1>2. buffer \in Seq(Chunk) /\ Len(device) \in Nat /\ accepted \in Nat
    BY LenProperties DEF WriterInv, WriterTypeOK
<1>3. /\ Head(buffer) = buffer[1] /\ buffer[1] \in Chunk
      /\ 1 \in 1..Len(buffer)
    BY <1>2, HeadTailProperties, EmptySeq
<1>4. /\ buffer[1].at = Len(device) + 1
      /\ buffer[1].at + buffer[1].len <= accepted + 1
    BY <1>3 DEF WriterInv, BufferIsTheRest
<1>5. k \in 1..(accepted - Len(device)) /\ Len(device) + k <= accepted
    BY <1>1, <1>2, <1>3, <1>4, SMTT(30) DEF Chunk
<1>6. device' = device \o [i \in 1..k |-> Len(device) + i]
  <2>1. FirstBytes(Head(buffer), k) = [i \in 1..k |-> Len(device) + i]
    <3>1. \A i \in 1..k : buffer[1].at + i - 1 = Len(device) + i
        BY <1>1, <1>2, <1>4
    <3> QED
        BY <1>3, <3>1 DEF FirstBytes
  <2> QED
      BY <2>1 DEF Send
<1>7. Stream!Transfer(k)
    BY <1>5, <1>6 DEF Stream!Transfer
<1> QED
    BY <1>5, <1>7 DEF Stream!Next, Stream!TransferSome

\* A ::write that took nothing changes nothing the stream shows.
LEMMA SendNothing ==
    ASSUME WriterInv, Send(0)
    PROVE  device' = device
<1>1. FirstBytes(Head(buffer), 0) = <<>>
    BY DEF FirstBytes
<1>2. device \in Seq(Nat)
    BY DEF WriterInv, WriterTypeOK
<1> QED
    BY <1>1, <1>2, ConcatEmptySeq DEF Send

\* write() accepts, each ::write transfers, the exit stops, and the rest is
\* invisible to the stream.
LEMMA WriterStepIsStreamStep ==
    WriterInv /\ [WriterNext]_writerVars => [Stream!Next]_(Stream!vars)
<1> SUFFICES ASSUME WriterInv, [WriterNext]_writerVars
             PROVE  [Stream!Next]_(Stream!vars)
    OBVIOUS
<1>1. ASSUME NEW n \in Sizes, Write(n) PROVE Stream!Next
  <2>1. n \in 1..MaxAccepted /\ Stream!Accept(n)
      BY <1>1, WriterAssumption
      DEF Write, Stream!Accept, WriterInv, WriterTypeOK
  <2> QED
      BY <2>1 DEF Stream!Next
<1>2. CASE Flush
    BY <1>2 DEF Flush, Stream!vars
<1>3. CASE FlushWhole
  <2>1. /\ buffer # <<>> /\ buffer \in Seq(Chunk) /\ Send(Head(buffer).len)
        /\ Head(buffer).len \in Taken(Head(buffer).len)
        /\ accepted' = accepted /\ writer = "flushing" /\ writer' = "flushing"
      BY <1>3 DEF FlushWhole, WriterInv, WriterTypeOK
  <2>2. Head(buffer) \in Chunk
      BY <2>1, HeadTailProperties
  <2>3. Head(buffer).len # 0
      BY <2>2 DEF Chunk
  <2> QED
      BY <2>1, <2>3, SendIsTransfer
<1>4. ASSUME NEW k \in 0..MaxAccepted, FlushPart(k)
      PROVE  [Stream!Next]_(Stream!vars)
  <2>1. /\ buffer # <<>> /\ Send(k) /\ k \in Taken(Head(buffer).len)
        /\ accepted' = accepted /\ writer = "flushing" /\ writer' = "ready"
      BY <1>4 DEF FlushPart
  <2>2. CASE k = 0
    <3>1. device' = device
        BY <2>1, <2>2, SendNothing
    <3> QED
        BY <2>1, <3>1 DEF Stream!vars
  <2>3. CASE k # 0
      BY <2>1, <2>3, SendIsTransfer
  <2> QED
      BY <2>2, <2>3
<1>5. CASE FlushDone
    BY <1>5 DEF FlushDone, Stream!vars
<1>6. CASE WriteFailed
    BY <1>6 DEF WriteFailed, Stream!Next, Stream!Stop
<1>7. CASE Exit
    BY <1>7 DEF Exit, Stream!Next, Stream!Stop
<1>8. CASE Drain
    BY <1>8 DEF Drain, Stream!vars
<1>9. CASE UNCHANGED writerVars
    BY <1>9 DEF writerVars, Stream!vars
<1> QED
    BY <1>1, <1>2, <1>3, <1>4, <1>5, <1>6, <1>7, <1>8, <1>9
    DEF WriterNext, FlushTurn

\* Buffering, short writes and retries are invisible in the stream of bytes
\* that reaches the port: every step of the writer is a step of LampStream or
\* changes nothing LampStream shows.
THEOREM WriterImplementsStream == WriterSpec => ImplementsStream
<1>1. WriterInit => Stream!Init
    BY DEF WriterInit, Stream!Init
<1>2. WriterInv /\ [WriterNext]_writerVars => [Stream!Next]_(Stream!vars)
    BY WriterStepIsStreamStep
<1> QED
    BY <1>1, <1>2, WriterInvariant, PTL
    DEF WriterSpec, ImplementsStream, Stream!Spec

-----------------------------------------------------------------------------
(* The loop is a user of the writer *)

\* Handing a frame to the lamp is the writer's write() (writeCommand).
LEMMA SendFrameIsWrite ==
    ASSUME NEW id, NEW kind \in FrameKinds, Send1(id, kind)
    PROVE  WriterNext
BY MoodpdAssumption DEF Send1, WriterNext

\* Each handler of run() calls the writer once or leaves it alone.
LEMMA DaemonUsesWriter == Daemon => [WriterNext]_writerVars
<1>1. CASE Start
    BY <1>1, MoodpdAssumption DEF Start, WriterNext, FrameKinds
<1>2. CASE Register
    BY <1>2 DEF Register
<1>3. CASE PollReturns
    BY <1>3 DEF PollReturns
<1>4. CASE PollFails
    BY <1>4 DEF PollFails, WriterNext
<1>5. CASE FdWentBad
    BY <1>5 DEF FdWentBad, WriterNext
<1>6. CASE SkipIdle
    BY <1>6 DEF SkipIdle
<1>7. CASE RecvFails
    BY <1>7 DEF RecvFails
<1>8. CASE RecvPacket
  <2>1. CASE UNCHANGED <<writerVars, commands>>
      BY <2>1
  <2>2. CASE ~UNCHANGED <<writerVars, commands>>
    <3>1. /\ Understood(Head(udpq).messages[1])
          /\ Send1(Head(udpq).id, Head(udpq).messages[1])
        BY <1>8, <2>2 DEF RecvPacket
    <3>2. Head(udpq).messages[1] \in FrameKinds
        BY <3>1 DEF Understood, FrameKinds
    <3> QED
        BY <3>1, <3>2, SendFrameIsWrite
  <2> QED
      BY <2>1, <2>2
<1>9. CASE ServeLamp
    BY <1>9 DEF ServeLamp, WriterNext
<1>10. CASE ReadKey
    BY <1>10 DEF ReadKey
<1>11. CASE ReadKeyFails
    BY <1>11 DEF ReadKeyFails
<1>12. CASE OscReceiveFails
    BY <1>12 DEF OscReceiveFails
<1>13. CASE OscReceive
    BY <1>13 DEF OscReceive
<1>14. CASE OscMessage
  <2>1. CASE Head(messages) \in {"rgb", "ori"}
    <3>1. Send1(Last(taken).packet.id, Head(messages))
        BY <1>14, <2>1 DEF OscMessage
    <3>2. Head(messages) \in FrameKinds
        BY <2>1 DEF FrameKinds
    <3> QED
        BY <3>1, <3>2, SendFrameIsWrite
  <2>2. CASE Head(messages) \notin {"rgb", "ori"}
      BY <1>14, <2>2 DEF OscMessage
  <2> QED
      BY <2>1, <2>2
<1>15. CASE OscMessagesDone
    BY <1>15 DEF OscMessagesDone
<1>16. CASE Flushing
    BY <1>16 DEF Flushing, WriterNext
<1> QED
    BY <1>1, <1>2, <1>3, <1>4, <1>5, <1>6, <1>7, <1>8, <1>9, <1>10, <1>11,
       <1>12, <1>13, <1>14, <1>15, <1>16 DEF Daemon

\* So does every step: clients, lamp and keys never touch the writer, and the
\* port only drains.
LEMMA NextUsesWriter == [Next]_moodpdVars => [WriterNext]_writerVars
<1>1. CASE Daemon
    BY <1>1, DaemonUsesWriter
<1>2. CASE DatagramArrives
    BY <1>2 DEF DatagramArrives
<1>3. CASE LampTalks
    BY <1>3 DEF LampTalks
<1>4. CASE KeyTyped
    BY <1>4 DEF KeyTyped
<1>5. CASE FdGoesBad
    BY <1>5 DEF FdGoesBad
<1>6. CASE PortDrains
    BY <1>6 DEF PortDrains, WriterNext
<1>7. CASE UNCHANGED moodpdVars
    BY <1>7 DEF moodpdVars
<1> QED
    BY <1>1, <1>2, <1>3, <1>4, <1>5, <1>6, <1>7 DEF Next

\* run(), parseMessage() and the constructor touch the deque, the port and the
\* process's end only as class NonblockWriter allows.
THEOREM MoodpdUsesWriter == Spec => WriterSpec
<1>1. Init => WriterInit
    BY DEF Init
<1>2. [Next]_moodpdVars => [WriterNext]_writerVars
    BY NextUsesWriter
<1> QED
    BY <1>1, <1>2, PTL DEF Spec, WriterSpec

\* Whatever arrives on the sockets, the terminal and the lamp's port, in any
\* interleaving with the port's draining, the lamp gets every byte the handlers
\* wrote at most once and in the order of the writes.
THEOREM MoodpdInOrder == Spec => []ExactlyOnceInOrder
BY MoodpdUsesWriter, WriterInOrder, PTL

\* The same of the deque: it is what the port has not taken.
THEOREM MoodpdKeepsTheRest == Spec => []BufferIsTheRest
BY MoodpdUsesWriter, WriterKeepsTheRest, PTL

\* The daemon's output is the byte stream of LampStream.
THEOREM MoodpdImplementsStream == Spec => ImplementsStream
BY MoodpdUsesWriter, WriterImplementsStream, PTL

-----------------------------------------------------------------------------
(* The loop's own state *)

\* The entry behind an fd's is an fd or the top of the loop.
LEMMA AfterInLoop ==
    ASSUME NEW fd \in Fds
    PROVE  After(fd) \in {"serial", "stdin", "osc", "top"}
BY DEF After, Fds

\* Going on to the next fd keeps the types of the loop's variables.
LEMMA LeaveTypes ==
    ASSUME TypeOK, NEW fd \in Fds, Leave(fd)
    PROVE  /\ pc' \in {"serial", "stdin", "osc", "top"}
           /\ watched' \subseteq Fds
           /\ events' = events
           /\ revents' \in [Fds -> SUBSET {"in", "out", "bad"}]
BY AfterInLoop DEF Leave, TypeOK

\* A malformed datagram is a datagram of either socket.
LEMMA NoiseIsPacket ==
    ASSUME NEW kinds
    PROVE  Noise \in Packet(kinds)
BY MoodpdAssumption, EmptySeq DEF Noise, Packet

\* Taking a datagram off a receive queue leaves a receive queue.
LEMMA QueueTail ==
    ASSUME NEW S, NEW q \in Seq(S), q # <<>>
    PROVE  Head(q) \in S /\ Tail(q) \in Seq(S)
BY HeadTailProperties

\* The types hold when the constructor calls run().
LEMMA TypeInit == Init => TypeOK
<1> SUFFICES ASSUME Init PROVE TypeOK
    OBVIOUS
<1>1. WriterTypeOK
    BY WriterInvInit DEF Init, WriterInv
<1>2. /\ <<>> \in Seq(OscKinds) /\ <<>> \in Seq(Packet({"color", "raw"}))
      /\ <<>> \in Seq(Packet(OscKinds))
    BY EmptySeq
<1>3. /\ pc = "start" /\ watched \subseteq Fds /\ bad \subseteq Fds
      /\ logMask \in {{}, {"error"}, {"error", "info"}}
      /\ allowRawMode \in BOOLEAN /\ oscOpen \in BOOLEAN
      /\ lampSays \in BOOLEAN /\ typed \in {"none", "v", "r"}
    BY DEF Init
<1>4. /\ events \in [Fds -> SUBSET {"in", "out"}]
      /\ revents \in [Fds -> SUBSET {"in", "out", "bad"}]
    BY DEF Init
<1>5. sent \in 0..MaxPackets /\ faults \in 0..MaxFaults
    BY MoodpdAssumption DEF Init
<1>6. messages = <<>> /\ udpq = <<>> /\ oscq = <<>>
    BY DEF Init
<1> QED
    BY <1>1, <1>2, <1>3, <1>4, <1>5, <1>6 DEF TypeOK

\* Every handler of run() keeps the types, given that the writer keeps its own.
LEMMA DaemonTypes == TypeOK /\ Daemon /\ WriterTypeOK' => TypeOK'
<1> SUFFICES ASSUME TypeOK, Daemon, WriterTypeOK'
             PROVE  TypeOK'
    OBVIOUS
<1> USE DEF TypeOK
<1>0. "sock" \in Fds /\ "serial" \in Fds /\ "stdin" \in Fds /\ "osc" \in Fds
    BY DEF Fds
<1>1. CASE Start
    BY <1>1 DEF Start, modeVars, kernelVars
<1>2. CASE Register
  <2>1. watched' \subseteq Fds /\ events' \in [Fds -> SUBSET {"in", "out"}]
      BY <1>2 DEF Register, EventsFor, Fds
  <2> QED
      BY <1>2, <2>1 DEF Register, modeVars, kernelVars
<1>3. CASE PollReturns
  <2>1. \A fd \in Fds : Ready(fd) \subseteq {"in", "out", "bad"}
      BY DEF Ready
  <2>2. revents' \in [Fds -> SUBSET {"in", "out", "bad"}]
      BY <1>3, <2>1 DEF PollReturns
  <2>3. events' \in [Fds -> SUBSET {"in", "out"}]
      BY <1>3 DEF PollReturns
  <2> QED
      BY <1>0, <1>3, <2>2, <2>3 DEF PollReturns, modeVars, kernelVars
<1>4. CASE PollFails
    BY <1>4, MoodpdAssumption DEF PollFails, Fault, loopVars, modeVars, kernelVars
<1>5. CASE FdWentBad
    BY <1>5 DEF FdWentBad, loopVars, modeVars, kernelVars
<1>6. CASE SkipIdle
  <2>1. PICK fd \in {"sock", "stdin", "osc"} : Leave(fd)
      BY <1>6 DEF SkipIdle
  <2> QED
      BY <1>0, <1>6, <2>1, LeaveTypes DEF SkipIdle, modeVars, kernelVars
<1>7. CASE RecvFails
    BY <1>0, <1>7, LeaveTypes, MoodpdAssumption
    DEF RecvFails, Fault, modeVars, kernelVars
<1>8. CASE RecvPacket
  <2>1. udpq' \in Seq(Packet({"color", "raw"}))
      BY <1>8, QueueTail DEF RecvPacket
  <2> QED
      BY <1>0, <1>8, <2>1, LeaveTypes DEF RecvPacket, modeVars
<1>9. CASE ServeLamp
  <2>1. lampSays' \in BOOLEAN /\ faults' \in 0..MaxFaults
      BY <1>9, MoodpdAssumption DEF ServeLamp, Fault
  <2> QED
      BY <1>0, <1>9, <2>1, LeaveTypes DEF ServeLamp, modeVars
<1>10. CASE ReadKey
  <2>1. logMask' \in {{}, {"error"}, {"error", "info"}}
    <3>1. NextLogMask \in {{}, {"error"}, {"error", "info"}}
      <4>1. CASE logMask = {}
          BY <4>1 DEF NextLogMask
      <4>2. CASE logMask = {"error"}
          BY <4>2 DEF NextLogMask
      <4>3. CASE logMask = {"error", "info"}
          BY <4>3 DEF NextLogMask
      <4> QED
          BY <4>1, <4>2, <4>3
    <3> QED
        BY <1>10, <3>1 DEF ReadKey
  <2>2. allowRawMode' \in BOOLEAN /\ typed' \in {"none", "v", "r"}
      BY <1>10 DEF ReadKey
  <2> QED
      BY <1>0, <1>10, <2>1, <2>2, LeaveTypes DEF ReadKey
<1>11. CASE ReadKeyFails
    BY <1>0, <1>11, LeaveTypes, MoodpdAssumption
    DEF ReadKeyFails, Fault, modeVars, kernelVars
<1>12. CASE OscReceiveFails
  <2>1. oscOpen' \in BOOLEAN /\ oscq' \in Seq(Packet(OscKinds))
      BY <1>12, EmptySeq DEF OscReceiveFails
  <2>2. faults' \in 0..MaxFaults
      BY <1>12, MoodpdAssumption DEF OscReceiveFails, Fault
  <2>3. /\ pc' \in {"serial", "stdin", "osc", "top"}
        /\ watched' \subseteq Fds /\ events' = events
        /\ revents' \in [Fds -> SUBSET {"in", "out", "bad"}]
      BY <1>0, <1>12, LeaveTypes DEF OscReceiveFails
  <2> QED
      BY <1>0, <1>12, <2>1, <2>2, <2>3 DEF OscReceiveFails
<1>13. CASE OscReceive
  <2>1. Head(oscq) \in Packet(OscKinds) /\ oscq' \in Seq(Packet(OscKinds))
      BY <1>13, QueueTail DEF OscReceive
  <2>2. messages' \in Seq(OscKinds)
      BY <1>13, <2>1, EmptySeq DEF OscReceive, Packet
  <2> QED
      BY <1>13, <2>1, <2>2 DEF OscReceive, modeVars
<1>14. CASE OscMessage
  <2>1. messages' \in Seq(OscKinds)
      BY <1>14, QueueTail DEF OscMessage
  <2> QED
      BY <1>14, <2>1 DEF OscMessage, modeVars, kernelVars
<1>15. CASE OscMessagesDone
    BY <1>0, <1>15, LeaveTypes DEF OscMessagesDone, modeVars, kernelVars
<1>16. CASE Flushing
    BY <1>16 DEF Flushing, loopVars, modeVars, kernelVars
<1> QED
    BY <1>1, <1>2, <1>3, <1>4, <1>5, <1>6, <1>7, <1>8, <1>9, <1>10, <1>11,
       <1>12, <1>13, <1>14, <1>15, <1>16 DEF Daemon

\* A queue that takes one more packet.
LEMMA QueueGrows ==
    ASSUME NEW S, NEW q \in Seq(S), NEW p \in S
    PROVE  Append(q, p) \in Seq(S)
BY AppendProperties

\* An arriving datagram keeps the types of the receive queues.
LEMMA ArrivalTypes ==
    ASSUME TypeOK, NoiseArrives \/ UdpArrives \/ OscArrives
    PROVE  /\ udpq' \in Seq(Packet({"color", "raw"}))
           /\ oscq' \in Seq(Packet(OscKinds))
           /\ sent' \in 0..MaxPackets
<1> USE DEF TypeOK
<1>1. CASE NoiseArrives
  <2>1. Noise \in Packet({"color", "raw"}) /\ Noise \in Packet(OscKinds)
      BY NoiseIsPacket
  <2>2. /\ Append(udpq, Noise) \in Seq(Packet({"color", "raw"}))
        /\ Append(oscq, Noise) \in Seq(Packet(OscKinds))
      BY <2>1, QueueGrows
  <2> QED
      BY <1>1, <2>2 DEF NoiseArrives
<1>2. CASE UdpArrives
  <2>1. PICK kind \in {"color", "raw"} :
            udpq' = Append(udpq, [id |-> sent + 1, messages |-> <<kind>>, ok |-> TRUE])
      BY <1>2 DEF UdpArrives
  <2>2. sent + 1 \in 0..MaxPackets
      BY <1>2, MoodpdAssumption DEF UdpArrives
  <2>3. <<kind>> \in Seq({"color", "raw"})
      OBVIOUS
  <2>4. [id |-> sent + 1, messages |-> <<kind>>, ok |-> TRUE]
            \in Packet({"color", "raw"})
      BY <2>2, <2>3 DEF Packet
  <2> QED
      BY <1>2, <2>1, <2>2, <2>4, QueueGrows DEF UdpArrives
<1>3. CASE OscArrives
  <2>1. PICK list \in OscContents, ok \in BOOLEAN :
            oscq' = Append(oscq, [id |-> sent + 1, messages |-> list, ok |-> ok])
      BY <1>3 DEF OscArrives
  <2>2. sent + 1 \in 0..MaxPackets
      BY <1>3, MoodpdAssumption DEF OscArrives
  <2>3. [id |-> sent + 1, messages |-> list, ok |-> ok] \in Packet(OscKinds)
      BY <2>2, MoodpdAssumption DEF Packet
  <2> QED
      BY <1>3, <2>1, <2>2, <2>3, QueueGrows DEF OscArrives
<1> QED
    BY <1>1, <1>2, <1>3

\* Every step keeps the types.
LEMMA TypeNext == TypeOK /\ [Next]_moodpdVars /\ WriterTypeOK' => TypeOK'
<1> SUFFICES ASSUME TypeOK, [Next]_moodpdVars, WriterTypeOK'
             PROVE  TypeOK'
    OBVIOUS
<1> USE DEF TypeOK
<1>1. CASE Daemon
    BY <1>1, DaemonTypes
<1>2. CASE DatagramArrives
    BY <1>2, ArrivalTypes DEF DatagramArrives, loopVars, modeVars
<1>3. CASE LampTalks
    BY <1>3 DEF LampTalks, loopVars, modeVars
<1>4. CASE KeyTyped
    BY <1>4 DEF KeyTyped, loopVars, modeVars
<1>5. CASE FdGoesBad
    BY <1>5, MoodpdAssumption DEF FdGoesBad, Fault, loopVars, modeVars
<1>6. CASE PortDrains
    BY <1>6 DEF PortDrains, loopVars, modeVars, kernelVars
<1>7. CASE UNCHANGED moodpdVars
    BY <1>7 DEF moodpdVars, loopVars, modeVars, kernelVars
<1> QED
    BY <1>1, <1>2, <1>3, <1>4, <1>5, <1>6, <1>7 DEF Next

\* The daemon's state keeps its types through every handler and failure.
THEOREM MoodpdTypes == Spec => []TypeOK
<1>1. Init => TypeOK
    BY TypeInit
<1>2. TypeOK /\ [Next]_moodpdVars /\ WriterTypeOK' => TypeOK'
    BY TypeNext
<1>3. Spec => []WriterTypeOK
    BY MoodpdUsesWriter, WriterTypes, PTL
<1> QED
    BY <1>1, <1>2, <1>3, PTL DEF Spec

-----------------------------------------------------------------------------
(* Sleeping in poll and receiving *)

(* While the loop is in poll nobody but the kernel acts, so the array built *)
(* at the top of the loop is still right; and what poll said of sock holds  *)
(* until sock is served, since nobody else takes its datagrams.             *)
LoopInv ==
    /\ pc = "poll" =>
        /\ writer # "flushing"
        /\ "sock" \in watched /\ "serial" \in watched
        /\ oscOpen => "osc" \in watched
        /\ events["sock"] = {"in"} /\ events["osc"] = {"in"}
        /\ StdinIsTty /\ "stdin" \notin bad =>
            "stdin" \in watched /\ events["stdin"] = {"in"}
        /\ buffer # <<>> => "out" \in events["serial"]
    /\ pc = "sock" =>
        /\ revents["sock"] \subseteq {"in", "bad"}
        /\ "in" \in revents["sock"] => udpq # <<>>

\* A handler that leaves its fd is neither in poll nor before sock.
LEMMA LeaveEstablishesLoopInv ==
    ASSUME NEW fd \in Fds, Leave(fd)
    PROVE  LoopInv'
<1>1. pc' # "poll" /\ pc' # "sock"
    BY AfterInLoop DEF Leave
<1> QED
    BY <1>1 DEF LoopInv

\* Every handler keeps what the loop knows of its revents.
LEMMA DaemonKeepsLoopInv == LoopInv /\ Daemon => LoopInv'
<1> SUFFICES ASSUME LoopInv, Daemon
             PROVE  LoopInv'
    OBVIOUS
<1>0. "sock" \in Fds /\ "serial" \in Fds /\ "stdin" \in Fds /\ "osc" \in Fds
    BY DEF Fds
<1>1. CASE Start
    BY <1>1 DEF Start, LoopInv
<1>2. CASE Register
  <2>1. /\ writer = "ready" /\ writer' = writer /\ buffer' = buffer
        /\ pc' = "poll" /\ oscOpen' = oscOpen /\ bad' = bad
      BY <1>2 DEF Register, Running, writerVars, modeVars, kernelVars
  <2>2. /\ "sock" \in watched' /\ "serial" \in watched'
        /\ oscOpen => "osc" \in watched'
        /\ StdinIsTty /\ "stdin" \notin bad => "stdin" \in watched'
      BY <1>2 DEF Register, IsATty
  <2>3. /\ events'["sock"] = {"in"} /\ events'["osc"] = {"in"}
        /\ events'["stdin"] = {"in"}
        /\ buffer # <<>> => "out" \in events'["serial"]
      BY <1>0, <1>2 DEF Register, EventsFor, WantsOut
  <2> QED
      BY <2>1, <2>2, <2>3 DEF LoopInv
<1>3. CASE PollReturns
  <2>1. /\ pc' = "sock" /\ udpq' = udpq /\ revents'["sock"] = Ready("sock")
        /\ pc = "poll"
      BY <1>0, <1>3 DEF PollReturns, kernelVars
  <2>2. /\ Ready("sock") \subseteq {"in", "bad"}
        /\ "in" \in Ready("sock") => udpq # <<>>
      BY <2>1 DEF LoopInv, Ready, Possible
  <2> QED
      BY <2>1, <2>2 DEF LoopInv
<1>4. CASE PollFails
    BY <1>4 DEF PollFails, Exit, LoopInv, loopVars, modeVars, kernelVars
<1>5. CASE FdWentBad
    BY <1>5 DEF FdWentBad, Exit, LoopInv, loopVars, modeVars, kernelVars
<1>6. CASE SkipIdle
  <2>1. PICK fd \in {"sock", "stdin", "osc"} : Leave(fd)
      BY <1>6 DEF SkipIdle
  <2> QED
      BY <1>0, <2>1, LeaveEstablishesLoopInv
<1>7. CASE RecvFails
    BY <1>0, <1>7, LeaveEstablishesLoopInv DEF RecvFails
<1>8. CASE RecvPacket
    BY <1>0, <1>8, LeaveEstablishesLoopInv DEF RecvPacket
<1>9. CASE ServeLamp
    BY <1>0, <1>9, LeaveEstablishesLoopInv DEF ServeLamp
<1>10. CASE ReadKey
    BY <1>0, <1>10, LeaveEstablishesLoopInv DEF ReadKey
<1>11. CASE ReadKeyFails
    BY <1>0, <1>11, LeaveEstablishesLoopInv DEF ReadKeyFails
<1>12. CASE OscReceiveFails
    BY <1>0, <1>12, LeaveEstablishesLoopInv DEF OscReceiveFails
<1>13. CASE OscReceive
    BY <1>13 DEF OscReceive, LoopInv
<1>14. CASE OscMessage
    BY <1>14 DEF OscMessage, LoopInv
<1>15. CASE OscMessagesDone
    BY <1>0, <1>15, LeaveEstablishesLoopInv DEF OscMessagesDone
<1>16. CASE Flushing
  <2>1. writer = "flushing"
      BY <1>16 DEF Flushing, FlushTurn, FlushWhole, FlushPart, FlushDone, WriteFailed
  <2> QED
      BY <1>16, <2>1 DEF Flushing, LoopInv, loopVars, modeVars, kernelVars
<1> QED
    BY <1>1, <1>2, <1>3, <1>4, <1>5, <1>6, <1>7, <1>8, <1>9, <1>10, <1>11,
       <1>12, <1>13, <1>14, <1>15, <1>16 DEF Daemon

\* A queue that a datagram joins is not empty.
LEMMA ArrivalsOnlyAdd ==
    ASSUME TypeOK, NoiseArrives \/ UdpArrives \/ OscArrives, udpq # <<>>
    PROVE  udpq' # <<>>
<1>1. \A p : Append(udpq, p) # <<>>
    BY DEF TypeOK
<1> QED
    BY <1>1 DEF NoiseArrives, UdpArrives, OscArrives

\* Every step keeps it: between poll and the handler datagrams only come.
LEMMA LoopInvNext == TypeOK /\ LoopInv /\ [Next]_moodpdVars => LoopInv'
<1> SUFFICES ASSUME TypeOK, LoopInv, [Next]_moodpdVars
             PROVE  LoopInv'
    OBVIOUS
<1>1. CASE Daemon
    BY <1>1, DaemonKeepsLoopInv
<1>2. CASE DatagramArrives
  <2>1. udpq # <<>> => udpq' # <<>>
      BY <1>2, ArrivalsOnlyAdd DEF DatagramArrives
  <2> QED
      BY <1>2, <2>1 DEF DatagramArrives, LoopInv, writerVars, loopVars, modeVars
<1>3. CASE LampTalks
    BY <1>3 DEF LampTalks, LoopInv, writerVars, loopVars, modeVars
<1>4. CASE KeyTyped
    BY <1>4 DEF KeyTyped, LoopInv, writerVars, loopVars, modeVars
<1>5. CASE FdGoesBad
    BY <1>5 DEF FdGoesBad, LoopInv, writerVars, loopVars, modeVars
<1>6. CASE PortDrains
    BY <1>6 DEF PortDrains, Drain, LoopInv, loopVars, modeVars, kernelVars
<1>7. CASE UNCHANGED moodpdVars
    BY <1>7 DEF moodpdVars, LoopInv, writerVars, loopVars, modeVars, kernelVars
<1> QED
    BY <1>1, <1>2, <1>3, <1>4, <1>5, <1>6, <1>7 DEF Next

\* What the loop knows of its revents holds always.
LEMMA LoopInvariant == Spec => []LoopInv
<1>1. Init => LoopInv
    BY DEF Init, LoopInv
<1>2. TypeOK /\ LoopInv /\ [Next]_moodpdVars => LoopInv'
    BY LoopInvNext
<1> QED
    BY <1>1, <1>2, MoodpdTypes, PTL DEF Spec

\* poll is entered with every open socket watched, with the terminal watched
\* unless it hung up, and with POLLOUT asked for whenever the buffer holds
\* bytes: no wake-up is lost, in any interleaving.
THEOREM LoopNeverSleepsOnWork == Spec => []NeverSleepsOnWork
<1>1. TypeOK /\ LoopInv => NeverSleepsOnWork
  <2> SUFFICES ASSUME TypeOK, LoopInv, pc = "poll", \A fd \in Fds : Ready(fd) = {}
               PROVE  /\ udpq = <<>>
                      /\ oscOpen => oscq = <<>>
                      /\ StdinIsTty /\ "stdin" \notin bad => typed = "none"
                      /\ buffer # <<>> => Room < WakeRoom
      BY DEF NeverSleepsOnWork
  <2>1. /\ Ready("sock") = {} /\ Ready("osc") = {}
        /\ Ready("serial") = {} /\ Ready("stdin") = {}
      BY DEF Fds
  <2>2. udpq = <<>>
    <3>1. "in" \notin Possible["sock"]
        BY <2>1 DEF Ready, LoopInv
    <3> QED
        BY <3>1 DEF Possible
  <2>3. ASSUME oscOpen PROVE oscq = <<>>
    <3>1. "in" \notin Possible["osc"]
        BY <2>1, <2>3 DEF Ready, LoopInv
    <3> QED
        BY <3>1 DEF Possible
  <2>4. ASSUME buffer # <<>> PROVE Room < WakeRoom
    <3>1. "out" \notin Possible["serial"]
        BY <2>1, <2>4 DEF Ready, LoopInv
    <3>2. ~(Room >= WakeRoom)
        BY <3>1 DEF Possible
    <3>3. Room \in Int /\ WakeRoom \in Int
        BY WriterAssumption, MoodpdAssumption DEF Room, TypeOK, WriterTypeOK
    <3> QED
        BY <3>2, <3>3
  <2>5. ASSUME StdinIsTty, "stdin" \notin bad PROVE typed = "none"
    <3>1. "in" \notin Possible["stdin"]
        BY <2>1, <2>5 DEF Ready, LoopInv
    <3> QED
        BY <3>1 DEF Possible
  <2> QED
      BY <2>2, <2>3, <2>4, <2>5
<1> QED
    BY <1>1, MoodpdTypes, LoopInvariant, PTL

\* The blocking recvfrom on sock is only called with a datagram waiting.
THEOREM LoopRecvNeverBlocks == Spec => []RecvNeverBlocks
<1>1. LoopInv => RecvNeverBlocks
    BY DEF LoopInv, RecvNeverBlocks, Serving, Idle
<1> QED
    BY <1>1, LoopInvariant, PTL

-----------------------------------------------------------------------------
(* Raw mode *)

(* Without a terminal nothing can press r: stdin is not in the array, so it *)
(* is never served.                                                         *)
RawInv ==
    /\ "stdin" \in watched => StdinIsTty
    /\ pc = "stdin" => "stdin" \in watched
    /\ allowRawMode => StdinIsTty
    /\ RawOnlyFromTerminal

\* The frames handed to the lamp are a sequence, of whatever.
CommandsAreSeq == \E S : commands \in Seq(S)

\* A frame that is handed to the lamp joins the others at the end.
LEMMA OneMoreCommand ==
    ASSUME CommandsAreSeq, NEW c, commands' = Append(commands, c)
    PROVE  /\ CommandsAreSeq'
           /\ \A i \in DOMAIN commands' : commands'[i] = c \/
                 (i \in DOMAIN commands /\ commands'[i] = commands[i])
<1>1. PICK S : commands \in Seq(S)
    BY DEF CommandsAreSeq
<1>2. commands \in Seq(S \cup {c}) /\ c \in S \cup {c}
    BY <1>1, SeqMonotonic
<1>3. commands' \in Seq(S \cup {c})
    BY <1>2, AppendProperties
<1> HIDE DEF CommandsAreSeq
<1>4. \A i \in DOMAIN commands' : commands'[i] = c \/
        (i \in DOMAIN commands /\ commands'[i] = commands[i])
    BY <1>2, AppendProperties
<1> QED
    BY <1>3, <1>4 DEF CommandsAreSeq

\* Handing over a frame that is not a raw one, or one in raw mode, is allowed.
LEMMA SendKeepsRawInv ==
    ASSUME CommandsAreSeq, RawOnlyFromTerminal, NEW id, NEW kind, Send1(id, kind),
           kind = "raw" => StdinIsTty
    PROVE  CommandsAreSeq' /\ RawOnlyFromTerminal'
<1>1. commands' = Append(commands, [id |-> id, kind |-> kind])
    BY DEF Send1
<1>2. CommandsAreSeq'
    BY <1>1, OneMoreCommand
<1>3. ASSUME NEW i \in DOMAIN commands', commands'[i].kind = "raw" PROVE StdinIsTty
    BY <1>1, <1>3, OneMoreCommand DEF RawOnlyFromTerminal
<1> QED
    BY <1>2, <1>3 DEF RawOnlyFromTerminal

\* What a step that hands over nothing keeps.
LEMMA NothingSent ==
    ASSUME CommandsAreSeq, RawOnlyFromTerminal, commands' = commands
    PROVE  CommandsAreSeq' /\ RawOnlyFromTerminal'
BY DEF CommandsAreSeq, RawOnlyFromTerminal

\* Going on to the next fd comes to stdin only if it is watched.
LEMMA LeaveKeepsWatch ==
    ASSUME RawInv, NEW fd \in Fds, Leave(fd)
    PROVE  /\ "stdin" \in watched' => StdinIsTty
           /\ pc' = "stdin" => "stdin" \in watched'
BY DEF RawInv, Leave, After, Fds

\* Each handler keeps raw mode where the terminal is.
LEMMA DaemonKeepsRawInv == RawInv /\ CommandsAreSeq /\ Daemon => RawInv' /\ CommandsAreSeq'
<1> SUFFICES ASSUME RawInv, CommandsAreSeq, Daemon
             PROVE  RawInv' /\ CommandsAreSeq'
    OBVIOUS
<1> USE DEF history, loopVars, modeVars
<1>0. "sock" \in Fds /\ "serial" \in Fds /\ "stdin" \in Fds /\ "osc" \in Fds
    BY DEF Fds
<1>a. RawOnlyFromTerminal
    BY DEF RawInv
<1>1. CASE Start
    BY <1>1, <1>a, NothingSent DEF Start, RawInv
<1>2. CASE Register
    BY <1>2, <1>a, NothingSent DEF Register, RawInv, IsATty
<1>3. CASE PollReturns
    BY <1>3, <1>a, NothingSent DEF PollReturns, RawInv
<1>4. CASE PollFails
    BY <1>4, <1>a, NothingSent DEF PollFails, RawInv
<1>5. CASE FdWentBad
    BY <1>5, <1>a, NothingSent DEF FdWentBad, RawInv
<1>6. CASE SkipIdle
  <2>1. PICK fd \in Fds : Leave(fd)
      BY <1>6, <1>0 DEF SkipIdle
  <2> QED
      BY <1>6, <2>1, <1>a, LeaveKeepsWatch, NothingSent DEF SkipIdle, RawInv
<1>7. CASE RecvFails
    BY <1>7, <1>0, <1>a, LeaveKeepsWatch, NothingSent DEF RecvFails, RawInv
<1>8. CASE RecvPacket
  <2>1. CommandsAreSeq' /\ RawOnlyFromTerminal'
    <3>1. CASE commands' = commands
        BY <3>1, <1>a, NothingSent
    <3>2. CASE /\ Understood(Head(udpq).messages[1])
               /\ Send1(Head(udpq).id, Head(udpq).messages[1])
        BY <3>2, <1>a, SendKeepsRawInv DEF Understood, RawInv
    <3> QED
        BY <1>8, <3>1, <3>2 DEF RecvPacket
  <2>2. Leave("sock") /\ allowRawMode' = allowRawMode
      BY <1>8 DEF RecvPacket
  <2> QED
      BY <2>1, <2>2, <1>0, LeaveKeepsWatch DEF RawInv
<1>9. CASE ServeLamp
  <2>1. Leave("serial") /\ allowRawMode' = allowRawMode /\ commands' = commands
      BY <1>9 DEF ServeLamp
  <2> QED
      BY <2>1, <1>0, <1>a, LeaveKeepsWatch, NothingSent DEF RawInv
<1>10. CASE ReadKey
  <2>1. Leave("stdin") /\ commands' = commands /\ StdinIsTty
      BY <1>10 DEF ReadKey, Serving, RawInv
  <2> QED
      BY <2>1, <1>0, <1>a, LeaveKeepsWatch, NothingSent DEF RawInv
<1>11. CASE ReadKeyFails
    BY <1>11, <1>0, <1>a, LeaveKeepsWatch, NothingSent DEF ReadKeyFails, RawInv
<1>12. CASE OscReceiveFails
    BY <1>12, <1>0, <1>a, LeaveKeepsWatch, NothingSent DEF OscReceiveFails, RawInv
<1>13. CASE OscReceive
    BY <1>13, <1>a, NothingSent DEF OscReceive, RawInv
<1>14. CASE OscMessage
  <2>1. CommandsAreSeq' /\ RawOnlyFromTerminal'
    <3>1. CASE Head(messages) \in {"rgb", "ori"}
        BY <1>14, <3>1, <1>a, SendKeepsRawInv DEF OscMessage
    <3>2. CASE Head(messages) \notin {"rgb", "ori"}
        BY <1>14, <3>2, <1>a, NothingSent DEF OscMessage
    <3> QED
        BY <3>1, <3>2
  <2> QED
      BY <1>14, <2>1 DEF OscMessage, RawInv
<1>15. CASE OscMessagesDone
    BY <1>15, <1>0, <1>a, LeaveKeepsWatch, NothingSent DEF OscMessagesDone, RawInv
<1>16. CASE Flushing
    BY <1>16, <1>a, NothingSent DEF Flushing, RawInv
<1> QED
    BY <1>1, <1>2, <1>3, <1>4, <1>5, <1>6, <1>7, <1>8, <1>9, <1>10, <1>11,
       <1>12, <1>13, <1>14, <1>15, <1>16 DEF Daemon

\* Clients, lamp, terminal and kernel hand over nothing and switch nothing.
LEMMA RawInvNext == RawInv /\ CommandsAreSeq /\ [Next]_moodpdVars => RawInv' /\ CommandsAreSeq'
<1> SUFFICES ASSUME RawInv, CommandsAreSeq, [Next]_moodpdVars
             PROVE  RawInv' /\ CommandsAreSeq'
    OBVIOUS
<1>1. CASE Daemon
    BY <1>1, DaemonKeepsRawInv
<1>2. CASE UNCHANGED <<loopVars, modeVars, history>>
    BY <1>2, NothingSent DEF RawInv, history, loopVars, modeVars
<1> QED
    BY <1>1, <1>2 DEF Next, DatagramArrives, LampTalks, KeyTyped, FdGoesBad, PortDrains,
       moodpdVars

\* A daemon started without a terminal never hands a raw frame to the lamp,
\* whatever arrives on its sockets and whatever fails.
THEOREM LoopRawOnlyFromTerminal == Spec => []RawOnlyFromTerminal
<1>1. Init => RawInv /\ CommandsAreSeq
  <2>1. ASSUME Init PROVE commands \in Seq({})
      BY <2>1 DEF Init
  <2> QED
      BY <2>1 DEF Init, RawInv, RawOnlyFromTerminal, CommandsAreSeq
<1>2. RawInv /\ CommandsAreSeq /\ [Next]_moodpdVars => RawInv' /\ CommandsAreSeq'
    BY RawInvNext
<1>3. RawInv => RawOnlyFromTerminal
    BY DEF RawInv
<1> QED
    BY <1>1, <1>2, <1>3, PTL DEF Spec

-----------------------------------------------------------------------------
(* What is due *)

Frame == [id : Nat, kind : FrameKinds]

\* A message calls for one frame or none.
LEMMA FrameOfType ==
    ASSUME NEW id \in Nat, NEW kind, NEW raw
    PROVE  FrameOf(id, kind, raw) \in Seq(Frame)
<1>1. CASE kind \in {"color", "rgb", "ori"} \/ (kind = "raw" /\ raw)
  <2>1. [id |-> id, kind |-> kind] \in Frame
      BY <1>1 DEF Frame, FrameKinds
  <2>2. <<[id |-> id, kind |-> kind]>> \in Seq(Frame)
      BY <2>1
  <2> QED
      BY <1>1, <2>2 DEF FrameOf
<1>2. CASE ~(kind \in {"color", "rgb", "ori"} \/ (kind = "raw" /\ raw))
    BY <1>2, EmptySeq DEF FrameOf
<1> QED
    BY <1>1, <1>2

\* The sequence that Frames flattens.
LEMMA FrameListType ==
    ASSUME NEW id \in Nat, NEW K, NEW kinds \in Seq(K), NEW raw
    PROVE  [i \in DOMAIN kinds |-> FrameOf(id, kinds[i], raw)] \in Seq(Seq(Frame))
<1>1. DOMAIN kinds = 1..Len(kinds) /\ Len(kinds) \in Nat
    BY LenProperties
<1>2. \A i \in 1..Len(kinds) : FrameOf(id, kinds[i], raw) \in Seq(Frame)
    BY FrameOfType
<1> QED
    BY <1>1, <1>2, IsASeq

\* The frames of a message list are those of its first message, then the rest's.
LEMMA FramesHeadTail ==
    ASSUME NEW id \in Nat, NEW K, NEW kinds \in Seq(K), NEW raw, kinds # <<>>
    PROVE  Frames(id, kinds, raw) =
               FrameOf(id, Head(kinds), raw) \o Frames(id, Tail(kinds), raw)
<1> DEFINE s == [i \in DOMAIN kinds |-> FrameOf(id, kinds[i], raw)]
           t == [i \in DOMAIN Tail(kinds) |-> FrameOf(id, Tail(kinds)[i], raw)]
<1>1. PICK n \in Nat : Len(kinds) = n + 1
  <2>1. Len(kinds) \in Nat /\ Len(kinds) # 0
      BY LenProperties, EmptySeq
  <2>2. Len(kinds) - 1 \in Nat /\ Len(kinds) = (Len(kinds) - 1) + 1
      BY <2>1
  <2> QED
      BY <2>2
<1>2. /\ Head(kinds) = kinds[1] /\ Tail(kinds) \in Seq(K) /\ Len(Tail(kinds)) = n
      /\ \A i \in 1..n : Tail(kinds)[i] = kinds[i + 1]
    BY <1>1, HeadTailProperties
<1>3. s \in Seq(Seq(Frame)) /\ t \in Seq(Seq(Frame))
    BY <1>2, FrameListType
<1>4. /\ DOMAIN kinds = 1..(n + 1) /\ Len(s) = n + 1
      /\ DOMAIN Tail(kinds) = 1..n /\ Len(t) = n
    BY <1>1, <1>2, LenProperties
<1>5. s # <<>> /\ Head(s) = FrameOf(id, Head(kinds), raw)
    BY <1>2, <1>4
<1>6. Tail(s) = t
  <2>1. Tail(s) \in Seq(Seq(Frame)) /\ Len(Tail(s)) = n
        /\ \A i \in 1..n : Tail(s)[i] = s[i + 1]
    <3> HIDE DEF s
    <3>1. /\ Tail(s) \in Seq(Seq(Frame)) /\ Len(Tail(s)) = Len(s) - 1
          /\ \A i \in 1..Len(Tail(s)) : Tail(s)[i] = s[i + 1]
        BY <1>3, <1>5, HeadTailProperties
    <3> QED
        BY <1>4, <3>1
  <2>2. \A i \in 1..n : s[i + 1] = t[i]
      BY <1>2, <1>4
  <2>3. \A i \in 1..n : Tail(s)[i] = t[i]
      BY <2>1, <2>2
  <2> HIDE DEF s, t
  <2> QED
      BY <1>3, <1>4, <2>1, <2>3, SeqEqual
<1>7. FlattenSeq(s) = Head(s) \o FlattenSeq(Tail(s))
  <2> HIDE DEF s
  <2> QED
      BY <1>3, <1>5, FlattenHeadTail
<1>8. FlattenSeq(s) = FrameOf(id, Head(kinds), raw) \o FlattenSeq(t)
    BY <1>5, <1>6, <1>7
<1> QED
    BY <1>8 DEF Frames

\* No messages, no frames.
LEMMA FramesOfNothing == \A id, raw : Frames(id, <<>>, raw) = <<>>
<1> TAKE id, raw
<1>1. [i \in DOMAIN <<>> |-> FrameOf(id, <<>>[i], raw)] = <<>>
    OBVIOUS
<1> QED
    BY <1>1, FlattenEmpty DEF Frames

\* The frames of a single message.
LEMMA FramesOfOne ==
    ASSUME NEW id \in Nat, NEW kind, NEW raw
    PROVE  Frames(id, <<kind>>, raw) = FrameOf(id, kind, raw)
<1> DEFINE m == <<kind>>
<1>1. m \in Seq({kind}) /\ m # <<>> /\ Head(m) = kind /\ Tail(m) = <<>>
    OBVIOUS
<1> HIDE DEF m
<1>2. Frames(id, m, raw) = FrameOf(id, Head(m), raw) \o Frames(id, Tail(m), raw)
    BY <1>1, FramesHeadTail
<1>3. Frames(id, m, raw) = FrameOf(id, kind, raw)
  <2>1. Frames(id, Tail(m), raw) = <<>> /\ Head(m) = kind
      BY <1>1, FramesOfNothing
  <2>2. FrameOf(id, kind, raw) \o <<>> = FrameOf(id, kind, raw)
      BY FrameOfType, ConcatEmptySeq
  <2> QED
      BY <1>2, <2>1, <2>2
<1> QED
    BY <1>3 DEF m

\* The frames of a message list are a sequence of frames.
LEMMA FramesType ==
    ASSUME NEW id \in Nat, NEW K, NEW kinds \in Seq(K), NEW raw
    PROVE  Frames(id, kinds, raw) \in Seq(Frame)
BY FrameListType, FlattenType DEF Frames

\* An OSC message is no raw message, so raw mode makes no difference to it.
LEMMA OscNeverRaw ==
    ASSUME NEW id, NEW kinds \in Seq(OscKinds), NEW raw
    PROVE  Frames(id, kinds, raw) = Frames(id, kinds, FALSE)
<1>1. \A i \in DOMAIN kinds : kinds[i] # "raw"
    BY ElementOfSeq, LenProperties DEF OscKinds
<1>2. [i \in DOMAIN kinds |-> FrameOf(id, kinds[i], raw)] =
      [i \in DOMAIN kinds |-> FrameOf(id, kinds[i], FALSE)]
    BY <1>1 DEF FrameOf
<1> QED
    BY <1>2 DEF Frames

\* The datagrams as the clients send them: what is well formed on the colour
\* socket is one message, and only a malformed datagram has no number.
ColourDatagrams ==
    {Noise} \cup [id : 1..MaxPackets, messages : {<<"color">>, <<"raw">>}, ok : {TRUE}]
OscDatagrams ==
    {Noise} \cup [id : 1..MaxPackets, messages : Seq(OscKinds), ok : BOOLEAN]
Received == [packet : Packet(FrameKinds \cup OscKinds), raw : BOOLEAN]

\* A received datagram calls for a sequence of frames.
LEMMA CalledType ==
    ASSUME NEW t \in Received
    PROVE  Called(t) \in Seq(Frame)
<1>1. t.packet.id \in Nat /\ t.packet.messages \in Seq(FrameKinds \cup OscKinds)
    BY MoodpdAssumption DEF Received, Packet
<1> QED
    BY <1>1, FramesType, EmptySeq DEF Called

LEMMA CalledListType ==
    ASSUME NEW s \in Seq(Received)
    PROVE  [i \in DOMAIN s |-> Called(s[i])] \in Seq(Seq(Frame))
<1>1. DOMAIN s = 1..Len(s) /\ Len(s) \in Nat
    BY LenProperties
<1>2. \A i \in 1..Len(s) : Called(s[i]) \in Seq(Frame)
    BY CalledType, ElementOfSeq
<1> QED
    BY <1>1, <1>2, IsASeq

\* One datagram more calls for its frames after all the others'.
LEMMA CalledByOneMore ==
    ASSUME NEW s \in Seq(Received), NEW t \in Received
    PROVE  CalledByAll(Append(s, t)) = CalledByAll(s) \o Called(t)
<1> DEFINE c == [i \in DOMAIN s |-> Called(s[i])]
           u == Append(s, t)
           d == [i \in DOMAIN u |-> Called(u[i])]
<1>1. /\ u \in Seq(Received) /\ Len(u) = Len(s) + 1 /\ Len(s) \in Nat
      /\ u[Len(s) + 1] = t /\ \A i \in 1..Len(s) : u[i] = s[i]
    BY AppendProperties, LenProperties
<1>2. DOMAIN s = 1..Len(s) /\ DOMAIN u = 1..(Len(s) + 1)
    BY <1>1, LenProperties
<1>3. c \in Seq(Seq(Frame)) /\ d \in Seq(Seq(Frame)) /\ Called(t) \in Seq(Frame)
    BY <1>1, CalledListType, CalledType
<1>4. d = Append(c, Called(t))
  <2>1. Len(c) = Len(s) /\ Len(d) = Len(s) + 1
      BY <1>1, <1>2
  <2>2. /\ \A i \in 1..Len(s) : d[i] = c[i]
        /\ d[Len(s) + 1] = Called(t)
      BY <1>1, <1>2
  <2> HIDE DEF c, d
  <2>3. /\ Append(c, Called(t)) \in Seq(Seq(Frame))
        /\ Len(Append(c, Called(t))) = Len(s) + 1
        /\ \A i \in 1..Len(s) : Append(c, Called(t))[i] = c[i]
        /\ Append(c, Called(t))[Len(s) + 1] = Called(t)
    <3>1. /\ Append(c, Called(t)) \in Seq(Seq(Frame))
          /\ Len(Append(c, Called(t))) = Len(c) + 1
          /\ \A i \in 1..Len(c) : Append(c, Called(t))[i] = c[i]
          /\ Append(c, Called(t))[Len(c) + 1] = Called(t)
        BY <1>3, AppendProperties
    <3> QED
        BY <2>1, <3>1
  <2>4. \A i \in 1..(Len(s) + 1) : d[i] = Append(c, Called(t))[i]
      BY <1>1, <2>2, <2>3
  <2> QED
      BY <1>3, <2>1, <2>3, <2>4, SeqEqual
<1>5. FlattenSeq(Append(c, Called(t))) = FlattenSeq(c) \o Called(t)
  <2> HIDE DEF c
  <2> QED
      BY <1>3, FlattenAppend
<1> QED
    BY <1>4, <1>5 DEF CalledByAll

\* The daemon's history and queues hold what the clients send; messages of a
\* packet are at hand only in the loop over them; and what is due was written.
DueInv ==
    /\ udpq \in Seq(ColourDatagrams) /\ oscq \in Seq(OscDatagrams)
    /\ taken \in Seq(Received)
    /\ commands \in Seq(Frame)
    /\ pc # "messages" => messages = <<>>
    /\ messages # <<>> => taken # <<>>
    /\ ExactlyDue

\* What a step that takes nothing, hands over nothing and pops nothing keeps.
LEMMA NothingDue ==
    ASSUME DueInv, UNCHANGED <<messages, history>>,
           udpq' \in Seq(ColourDatagrams), oscq' \in Seq(OscDatagrams),
           pc' # pc => pc' # "messages" /\ messages = <<>>
    PROVE  DueInv'
BY DEF DueInv, ExactlyDue, StillToCome, CalledByAll, Called, history

\* A datagram that calls for exactly the frames handed over, or left in
\* messages, when it is taken.
LEMMA TakenIsDue ==
    ASSUME DueInv, messages = <<>>, NEW p, p.id # 0, Take(p),
           [packet |-> p, raw |-> allowRawMode] \in Received,
           NEW now \in Seq(Frame), commands' = commands \o now,
           NEW later \in Seq(Frame), StillToCome' = later,
           Called([packet |-> p, raw |-> allowRawMode]) = now \o later
    PROVE  /\ taken' \in Seq(Received) /\ taken' # <<>>
           /\ Last(taken') = [packet |-> p, raw |-> allowRawMode]
           /\ commands' \in Seq(Frame)
           /\ ExactlyDue'
<1> DEFINE t == [packet |-> p, raw |-> allowRawMode]
<1>1. taken' = Append(taken, t) /\ taken \in Seq(Received) /\ t \in Received
    BY DEF Take, DueInv
<1>2. taken' \in Seq(Received) /\ taken' # <<>> /\ Last(taken') = t
  <2> HIDE DEF t
  <2>1. /\ taken' \in Seq(Received) /\ Len(taken') = Len(taken) + 1
        /\ taken'[Len(taken) + 1] = t
      BY <1>1, AppendProperties
  <2>2. Len(taken) \in Nat
      BY <1>1, LenProperties
  <2>3. taken' # <<>>
      BY <2>1, <2>2, EmptySeq
  <2> QED
      BY <2>1, <2>3 DEF Last
<1>3. CalledByAll(taken') = CalledByAll(taken) \o Called(t)
  <2> HIDE DEF t
  <2> QED
      BY <1>1, CalledByOneMore
<1>4. commands \in Seq(Frame) /\ CalledByAll(taken) = commands
  <2>1. commands \in Seq(Frame) /\ CalledByAll(taken) = commands \o <<>>
      BY DEF DueInv, ExactlyDue, StillToCome
  <2> QED
      BY <2>1, ConcatEmptySeq
<1>5. commands \o (now \o later) = (commands \o now) \o later
    BY <1>4, ConcatAssociative, SMTT(30)
<1>6. CalledByAll(taken') = commands' \o StillToCome'
    BY <1>3, <1>4, <1>5
<1>7. commands' \in Seq(Frame)
    BY <1>4, ConcatProperties
<1> QED
    BY <1>2, <1>6, <1>7 DEF ExactlyDue, CalledByAll, Called

\* What is taken off a queue is of the kind that was put there.
LEMMA QueueHeadTail ==
    ASSUME NEW S, NEW q \in Seq(S), q # <<>>
    PROVE  Head(q) \in S /\ Tail(q) \in Seq(S)
BY HeadTailProperties

\* The datagrams of both sockets fit the history.
LEMMA DatagramsAreReceived ==
    ASSUME TypeOK, NEW p \in ColourDatagrams \cup OscDatagrams
    PROVE  /\ [packet |-> p, raw |-> allowRawMode] \in Received
           /\ p.id = 0 => ~p.ok
<1>1. CASE p = Noise
  <2>1. p \in Packet(FrameKinds \cup OscKinds)
      BY <1>1, NoiseIsPacket
  <2> QED
      BY <1>1, <2>1 DEF Noise, Received, TypeOK
<1>2. CASE p # Noise
  <2>1. p.id \in 1..MaxPackets /\ p.ok \in BOOLEAN
      BY <1>2 DEF ColourDatagrams, OscDatagrams
  <2>2. p.messages \in Seq(FrameKinds \cup OscKinds)
    <3>1. CASE p \in OscDatagrams
      <4>1. p.messages \in Seq(OscKinds)
          BY <1>2, <3>1 DEF OscDatagrams
      <4> QED
          BY <4>1, SeqMonotonic
    <3>2. CASE p \in ColourDatagrams
      <4>1. PICK k \in {"color", "raw"} : p.messages = <<k>>
          BY <1>2, <3>2 DEF ColourDatagrams
      <4>2. k \in FrameKinds \cup OscKinds
          BY DEF FrameKinds
      <4>3. <<k>> \in Seq(FrameKinds \cup OscKinds)
          BY <4>2
      <4> QED
          BY <4>1, <4>3
    <3> QED
        BY <3>1, <3>2
  <2>3. p = [id |-> p.id, messages |-> p.messages, ok |-> p.ok]
      BY <1>2 DEF ColourDatagrams, OscDatagrams
  <2>4. p \in Packet(FrameKinds \cup OscKinds)
      BY <2>1, <2>2, <2>3, MoodpdAssumption DEF Packet
  <2> QED
      BY <2>1, <2>4 DEF Received, TypeOK
<1> QED
    BY <1>1, <1>2

\* parseMessage hands over a frame exactly when the datagram calls for one.
LEMMA RecvKeepsDue == TypeOK /\ DueInv /\ RecvPacket => DueInv'
<1> SUFFICES ASSUME TypeOK, DueInv, RecvPacket
             PROVE  DueInv'
    OBVIOUS
<1> DEFINE p == Head(udpq)
           t == [packet |-> p, raw |-> allowRawMode]
           due == FrameOf(p.id, p.messages[1], allowRawMode)
<1>1. p \in ColourDatagrams /\ udpq' \in Seq(ColourDatagrams) /\ oscq' = oscq
    BY QueueHeadTail DEF RecvPacket, DueInv
<1>2. t \in Received /\ (p.id = 0 => ~p.ok)
    BY <1>1, DatagramsAreReceived
<1>3. pc = "sock" /\ pc' # "messages" /\ messages = <<>> /\ messages' = <<>>
    BY AfterInLoop DEF RecvPacket, Serving, DueInv, Leave, Fds
<1>4. Take(p)
    BY DEF RecvPacket
<1>5. StillToCome = <<>> /\ StillToCome' = <<>>
    BY <1>3 DEF StillToCome
<1>6. CASE p.id = 0
  <2>1. commands' = commands /\ taken' = taken
      BY <1>2, <1>4, <1>6 DEF RecvPacket, Take
  <2> QED
      BY <1>1, <1>3, <2>1, NothingDue DEF history, DueInv
<1>7. CASE p.id # 0
  <2>1. /\ p.id \in Nat /\ p.ok
        /\ p.messages = <<"color">> \/ p.messages = <<"raw">>
    <3>1. p # Noise
        BY <1>7 DEF Noise
    <3>2. p \in [id : 1..MaxPackets, messages : {<<"color">>, <<"raw">>}, ok : {TRUE}]
        BY <1>1, <3>1 DEF ColourDatagrams
    <3> HIDE DEF p
    <3>3. p.id \in 1..MaxPackets /\ p.ok /\ p.messages \in {<<"color">>, <<"raw">>}
        BY <3>2
    <3> QED
        BY <3>3, MoodpdAssumption
  <2>2. due \in Seq(Frame)
      BY <2>1, FrameOfType
  <2>3. commands' = commands \o due
    <3>1. commands \in Seq(Frame)
        BY DEF DueInv
    <3>2. CASE Understood(p.messages[1])
      <4>1. commands' = Append(commands, [id |-> p.id, kind |-> p.messages[1]])
          BY <2>1, <3>2 DEF RecvPacket, Send1
      <4>2. due = <<[id |-> p.id, kind |-> p.messages[1]]>>
          BY <2>1, <3>2 DEF FrameOf, Understood
      <4>3. [id |-> p.id, kind |-> p.messages[1]] \in Frame
          BY <2>1 DEF Frame, FrameKinds
      <4> QED
          BY <3>1, <4>1, <4>2, <4>3, AppendIsConcat
    <3>3. CASE ~Understood(p.messages[1])
      <4>1. commands' = commands
          BY <3>3 DEF RecvPacket
      <4>2. due = <<>>
          BY <2>1, <3>3 DEF FrameOf, Understood
      <4> QED
          BY <3>1, <4>1, <4>2, ConcatEmptySeq
    <3> QED
        BY <3>2, <3>3
  <2>4. Called(t) = due \o <<>>
    <3>1. Called(t) = Frames(p.id, p.messages, allowRawMode)
        BY <2>1 DEF Called
    <3>2. PICK kind : p.messages = <<kind>> /\ p.messages[1] = kind
        BY <2>1
    <3>3. Frames(p.id, p.messages, allowRawMode) = due
        BY <2>1, <3>2, FramesOfOne
    <3> QED
        BY <2>2, <3>1, <3>3, ConcatEmptySeq
  <2>5. <<>> \in Seq(Frame)
      BY EmptySeq
  <2>6. taken' \in Seq(Received) /\ commands' \in Seq(Frame) /\ ExactlyDue'
    <3> HIDE DEF p, due
    <3> QED
        BY <1>2, <1>3, <1>4, <1>5, <1>7, <2>2, <2>3, <2>4, <2>5, TakenIsDue
  <2> QED
      BY <1>1, <1>3, <2>6 DEF DueInv
<1> QED
    BY <1>6, <1>7

\* A packet's frames wait in its message list until the loop pops them.
LEMMA OscReceiveKeepsDue == TypeOK /\ DueInv /\ OscReceive => DueInv'
<1> SUFFICES ASSUME TypeOK, DueInv, OscReceive
             PROVE  DueInv'
    OBVIOUS
<1> DEFINE p == Head(oscq)
           t == [packet |-> p, raw |-> allowRawMode]
<1>1. p \in OscDatagrams /\ oscq' \in Seq(OscDatagrams) /\ udpq' = udpq
    BY QueueHeadTail DEF OscReceive, DueInv
<1>2. t \in Received /\ (p.id = 0 => ~p.ok)
    BY <1>1, DatagramsAreReceived
<1>3. pc = "osc" /\ pc' = "messages" /\ messages = <<>> /\ commands' = commands
    BY DEF OscReceive, Serving, DueInv
<1>4. Take(p) /\ messages' = IF p.ok THEN p.messages ELSE <<>>
    BY DEF OscReceive
<1>5. CASE p.id = 0
  <2>1. messages' = messages /\ taken' = taken /\ StillToCome = <<>> /\ StillToCome' = <<>>
      BY <1>2, <1>3, <1>4, <1>5 DEF Take, StillToCome
  <2> QED
      BY <1>1, <1>3, <2>1 DEF DueInv, ExactlyDue, CalledByAll, Called
<1>6. CASE p.id # 0
  <2>1. p.id \in Nat /\ p.messages \in Seq(OscKinds) /\ p.ok \in BOOLEAN
    <3>1. p # Noise
        BY <1>6 DEF Noise
    <3>2. p \in [id : 1..MaxPackets, messages : Seq(OscKinds), ok : BOOLEAN]
        BY <1>1, <3>1 DEF OscDatagrams
    <3> HIDE DEF p
    <3>3. p.id \in 1..MaxPackets /\ p.ok \in BOOLEAN /\ p.messages \in Seq(OscKinds)
        BY <3>2
    <3> QED
        BY <3>3, MoodpdAssumption
  <2>2. taken' = Append(taken, t) /\ taken \in Seq(Received)
      BY <1>4, <1>6 DEF Take, DueInv
  <2>3. Last(taken').packet.id = p.id
    <3> HIDE DEF t
    <3>1. /\ Len(taken') = Len(taken) + 1
          /\ taken'[Len(taken) + 1] = t
        BY <1>2, <2>2, AppendProperties
    <3>2. Last(taken') = t
        BY <3>1 DEF Last
    <3> QED
        BY <3>2 DEF t
  <2>4. StillToCome' = Called(t)
    <3>1. CASE messages' = <<>>
      <4>1. Called(t) = <<>>
          BY <1>4, <3>1, FramesOfNothing DEF Called
      <4> QED
          BY <3>1, <4>1 DEF StillToCome
    <3>2. CASE messages' # <<>>
      <4>1. p.ok /\ messages' = p.messages
          BY <1>4, <2>1, <3>2
      <4>2. StillToCome' = Frames(p.id, p.messages, FALSE)
          BY <2>3, <3>2, <4>1 DEF StillToCome, Frames, FrameOf
      <4>3. Called(t) = Frames(p.id, p.messages, allowRawMode)
          BY <4>1 DEF Called
      <4>4. Frames(p.id, p.messages, allowRawMode) = Frames(p.id, p.messages, FALSE)
        <5> HIDE DEF p
        <5> QED
            BY <2>1, OscNeverRaw
      <4> QED
          BY <4>2, <4>3, <4>4
    <3> QED
        BY <3>1, <3>2
  <2>5. Called(t) \in Seq(Frame) /\ <<>> \in Seq(Frame) /\ commands \in Seq(Frame)
      BY <1>2, CalledType, EmptySeq DEF DueInv
  <2>6. commands' = commands \o <<>> /\ Called(t) = <<>> \o Called(t)
      BY <1>3, <2>5, ConcatEmptySeq
  <2>7. taken' \in Seq(Received) /\ taken' # <<>> /\ ExactlyDue'
    <3> HIDE DEF p
    <3> QED
        BY <1>2, <1>3, <1>4, <1>6, <2>4, <2>5, <2>6, TakenIsDue
  <2> QED
      BY <1>1, <1>3, <2>5, <2>7 DEF DueInv
<1> QED
    BY <1>5, <1>6

\* popMessage: the first frame to come, if the message has one, is handed over.
LEMMA OscMessageKeepsDue == TypeOK /\ DueInv /\ OscMessage => DueInv'
<1> SUFFICES ASSUME TypeOK, DueInv, OscMessage
             PROVE  DueInv'
    OBVIOUS
<1> DEFINE id == Last(taken).packet.id
           kind == Head(messages)
           now == FrameOf(id, kind, FALSE)
           rest == Frames(id, Tail(messages), FALSE)
<1>1. /\ messages # <<>> /\ messages' = Tail(messages) /\ taken' = taken
      /\ pc = "messages" /\ pc' = pc /\ udpq' = udpq /\ oscq' = oscq
    BY DEF OscMessage, kernelVars
<1>2. messages \in Seq(OscKinds) /\ kind \in OscKinds /\ Tail(messages) \in Seq(OscKinds)
    BY <1>1, QueueTail DEF TypeOK
<1>3. taken \in Seq(Received) /\ taken # <<>> /\ commands \in Seq(Frame)
    BY <1>1 DEF DueInv
<1>4. id \in Nat
  <2>1. Last(taken) \in Received
    <3>1. Len(taken) \in 1..Len(taken)
        BY <1>3, LenProperties, EmptySeq
    <3> QED
        BY <1>3, <3>1, ElementOfSeq DEF Last
  <2> QED
      BY <2>1, MoodpdAssumption DEF Received, Packet
<1>5. now \in Seq(Frame) /\ rest \in Seq(Frame)
  <2> HIDE DEF id
  <2> QED
      BY <1>2, <1>4, FrameOfType, FramesType
<1>6. StillToCome = now \o rest
  <2>1. StillToCome = Frames(id, messages, FALSE)
      BY <1>1 DEF StillToCome
  <2> HIDE DEF id
  <2> QED
      BY <1>1, <1>2, <1>4, <2>1, FramesHeadTail
<1>7. StillToCome' = rest
  <2>1. CASE Tail(messages) = <<>>
      BY <1>1, <2>1, FramesOfNothing DEF StillToCome
  <2>2. CASE Tail(messages) # <<>>
      BY <1>1, <2>2 DEF StillToCome, Frames, FrameOf
  <2> QED
      BY <2>1, <2>2
<1>8. commands' = commands \o now
  <2>1. CASE kind \in {"rgb", "ori"}
    <3>1. commands' = Append(commands, [id |-> id, kind |-> kind])
        BY <2>1 DEF OscMessage, Send1
    <3>2. now = <<[id |-> id, kind |-> kind]>>
        BY <2>1 DEF FrameOf
    <3>3. [id |-> id, kind |-> kind] \in Frame
        BY <1>4, <2>1 DEF Frame, FrameKinds
    <3> QED
        BY <1>3, <3>1, <3>2, <3>3, AppendIsConcat
  <2>2. CASE kind \notin {"rgb", "ori"}
    <3>1. commands' = commands
        BY <2>2 DEF OscMessage
    <3>2. now = <<>>
        BY <1>2, <2>2 DEF FrameOf, OscKinds
    <3> QED
        BY <1>3, <3>1, <3>2, ConcatEmptySeq
  <2> QED
      BY <2>1, <2>2
<1>9. ExactlyDue'
  <2> HIDE DEF now, rest
  <2>1. CalledByAll(taken) = commands \o (now \o rest)
      BY <1>6 DEF DueInv, ExactlyDue
  <2>2. commands \o (now \o rest) = (commands \o now) \o rest
      BY <1>3, <1>5, ConcatAssociative, SMTT(30)
  <2>3. CalledByAll(taken) = commands' \o StillToCome'
      BY <1>7, <1>8, <2>1, <2>2
  <2> QED
      BY <1>1, <2>3 DEF ExactlyDue, CalledByAll, Called
<1>10. commands' \in Seq(Frame)
    BY <1>3, <1>5, <1>8, ConcatProperties
<1> QED
    BY <1>1, <1>3, <1>9, <1>10 DEF DueInv

\* The handlers that take no datagram and pop no message change nothing that
\* is due.
LEMMA DaemonKeepsDue == TypeOK /\ DueInv /\ Daemon => DueInv'
<1> SUFFICES ASSUME TypeOK, DueInv, Daemon
             PROVE  DueInv'
    OBVIOUS
<1>1. CASE RecvPacket
    BY <1>1, RecvKeepsDue
<1>2. CASE OscReceive
    BY <1>2, OscReceiveKeepsDue
<1>3. CASE OscMessage
    BY <1>3, OscMessageKeepsDue
<1>4. CASE ~(RecvPacket \/ OscReceive \/ OscMessage \/ Start)
  <2>1. UNCHANGED <<messages, history>>
      BY <1>4 DEF Daemon, Register, PollReturns, PollFails, FdWentBad,
         SkipIdle, RecvFails, ServeLamp, ReadKey, ReadKeyFails, OscReceiveFails,
         OscMessagesDone, Flushing, loopVars
  <2>2. udpq' = udpq /\ (oscq' = oscq \/ oscq' = <<>>)
      BY <1>4 DEF Daemon, Register, PollReturns, PollFails, FdWentBad,
         SkipIdle, RecvFails, ServeLamp, ReadKey, ReadKeyFails, OscReceiveFails,
         OscMessagesDone, Flushing, kernelVars
  <2>3. \A fd \in Fds : Leave(fd) => pc' # "messages"
      BY AfterInLoop DEF Leave
  <2>4. pc' # pc => pc' # "messages" /\ messages = <<>>
    <3>1. "sock" \in Fds /\ "serial" \in Fds /\ "stdin" \in Fds /\ "osc" \in Fds
        BY DEF Fds
    <3>2. CASE PollReturns \/ Register
        BY <3>2 DEF PollReturns, Register, DueInv
    <3>3. CASE \E fd \in Fds : Leave(fd)
      <4>1. pc = "messages" => messages = <<>>
          BY <1>4, <3>3 DEF Daemon, Register, PollReturns, PollFails, FdWentBad,
             SkipIdle, RecvFails, ServeLamp, ReadKey, ReadKeyFails,
             OscReceiveFails, OscMessagesDone, Flushing, Serving, loopVars, Leave,
             After, Fds
      <4> QED
          BY <2>3, <3>3, <4>1 DEF DueInv
    <3>4. CASE UNCHANGED loopVars
        BY <3>4 DEF loopVars
    <3> QED
        BY <1>4, <3>1, <3>2, <3>3, <3>4 DEF Daemon, PollFails, FdWentBad,
           SkipIdle, RecvFails, ServeLamp, ReadKey, ReadKeyFails,
           OscReceiveFails, OscMessagesDone, Flushing
  <2>5. udpq' \in Seq(ColourDatagrams) /\ oscq' \in Seq(OscDatagrams)
      BY <2>2, EmptySeq DEF DueInv
  <2> QED
      BY <2>1, <2>4, <2>5, NothingDue
<1>5. CASE Start
  <2>1. /\ UNCHANGED <<messages, history>> /\ udpq' = udpq /\ oscq' = oscq
        /\ pc = "start" /\ pc' = "top"
      BY <1>5 DEF Start, kernelVars
  <2> QED
      BY <2>1, NothingDue DEF DueInv
<1> QED
    BY <1>1, <1>2, <1>3, <1>4, <1>5

\* What arrives waits in a queue, numbered or not, and calls for nothing yet.
LEMMA ArrivalsKeepDatagrams ==
    ASSUME TypeOK, DueInv, NoiseArrives \/ UdpArrives \/ OscArrives
    PROVE  udpq' \in Seq(ColourDatagrams) /\ oscq' \in Seq(OscDatagrams)
<1>1. udpq \in Seq(ColourDatagrams) /\ oscq \in Seq(OscDatagrams)
    BY DEF DueInv
<1>2. CASE NoiseArrives
  <2>1. Noise \in ColourDatagrams /\ Noise \in OscDatagrams
      BY DEF ColourDatagrams, OscDatagrams
  <2>2. /\ Append(udpq, Noise) \in Seq(ColourDatagrams)
        /\ Append(oscq, Noise) \in Seq(OscDatagrams)
      BY <1>1, <2>1, QueueGrows
  <2> QED
      BY <1>1, <1>2, <2>2 DEF NoiseArrives
<1>3. CASE UdpArrives
  <2>1. PICK kind \in {"color", "raw"} :
            udpq' = Append(udpq, [id |-> sent + 1, messages |-> <<kind>>, ok |-> TRUE])
      BY <1>3 DEF UdpArrives
  <2>2. sent + 1 \in 1..MaxPackets
      BY <1>3, MoodpdAssumption DEF UdpArrives, TypeOK
  <2>3. <<kind>> \in {<<"color">>, <<"raw">>}
      OBVIOUS
  <2>4. [id |-> sent + 1, messages |-> <<kind>>, ok |-> TRUE] \in ColourDatagrams
      BY <2>2, <2>3 DEF ColourDatagrams
  <2> QED
      BY <1>1, <1>3, <2>1, <2>4, QueueGrows DEF UdpArrives
<1>4. CASE OscArrives
  <2>1. PICK list \in OscContents, ok \in BOOLEAN :
            oscq' = Append(oscq, [id |-> sent + 1, messages |-> list, ok |-> ok])
      BY <1>4 DEF OscArrives
  <2>2. sent + 1 \in 1..MaxPackets
      BY <1>4, MoodpdAssumption DEF OscArrives, TypeOK
  <2>3. [id |-> sent + 1, messages |-> list, ok |-> ok] \in OscDatagrams
      BY <2>2, MoodpdAssumption DEF OscDatagrams
  <2> QED
      BY <1>1, <1>4, <2>1, <2>3, QueueGrows DEF OscArrives
<1> QED
    BY <1>2, <1>3, <1>4

\* Every step keeps what is due.
LEMMA DueInvNext == TypeOK /\ DueInv /\ [Next]_moodpdVars => DueInv'
<1> SUFFICES ASSUME TypeOK, DueInv, [Next]_moodpdVars
             PROVE  DueInv'
    OBVIOUS
<1>1. CASE Daemon
    BY <1>1, DaemonKeepsDue
<1>2. CASE DatagramArrives
  <2>1. pc' = pc /\ UNCHANGED <<messages, history>>
      BY <1>2 DEF DatagramArrives, loopVars
  <2> QED
      BY <1>2, <2>1, ArrivalsKeepDatagrams, NothingDue DEF DatagramArrives
<1>3. CASE UNCHANGED <<loopVars, history, udpq, oscq>>
  <2>1. pc' = pc /\ UNCHANGED <<messages, history>>
      BY <1>3 DEF loopVars
  <2> QED
      BY <1>3, <2>1, NothingDue DEF DueInv
<1> QED
    BY <1>1, <1>2, <1>3 DEF Next, LampTalks, KeyTyped, FdGoesBad, PortDrains,
       kernelVars, moodpdVars

\* From both sockets, through every handler, short write, malformed packet and
\* failure, the lamp is handed exactly the frames the received datagrams call
\* for, in the order of receipt, whatever the sizes and however many datagrams.
THEOREM LoopWritesExactlyDue == Spec => []ExactlyDue
<1>1. Init => DueInv
  <2> SUFFICES ASSUME Init PROVE DueInv
      OBVIOUS
  <2>1. /\ udpq = <<>> /\ oscq = <<>> /\ taken = <<>> /\ commands = <<>>
        /\ messages = <<>>
      BY DEF Init
  <2>2. CalledByAll(taken) = <<>>
    <3>1. [i \in DOMAIN <<>> |-> Called(<<>>[i])] = <<>>
        OBVIOUS
    <3> QED
        BY <2>1, <3>1, FlattenEmpty DEF CalledByAll
  <2>3. commands \o StillToCome = <<>>
      BY <2>1 DEF StillToCome
  <2>4. /\ <<>> \in Seq(ColourDatagrams) /\ <<>> \in Seq(OscDatagrams)
        /\ <<>> \in Seq(Received) /\ <<>> \in Seq(Frame)
      BY EmptySeq
  <2> QED
      BY <2>1, <2>2, <2>3, <2>4 DEF DueInv, ExactlyDue
<1>2. TypeOK /\ DueInv /\ [Next]_moodpdVars => DueInv'
    BY DueInvNext
<1>3. DueInv => ExactlyDue
    BY DEF DueInv
<1> QED
    BY <1>1, <1>2, <1>3, MoodpdTypes, PTL DEF Spec
=============================================================================
