--------------------------- MODULE NonblockWriter ---------------------------
(***************************************************************************)
(* The buffered writer of src/src/utils.h (class NonblockWriter) as the    *)
(* daemon uses it: over the lamp's serial port, opened non-blocking, with  *)
(* SerialIO's error callback, which ends the process.                      *)
(*                                                                         *)
(* write() appends one vector to a deque and calls flush(); flush() offers *)
(* the front vector to ::write until the deque is empty or a call takes    *)
(* less than it was offered.  Every ::write is a step of its own, because  *)
(* the serial port drains between two of them.                             *)
(*                                                                         *)
(* A buffered vector is an interval of the accepted stream (LampStream):   *)
(* its first byte's place and its length.                                  *)
(***************************************************************************)
EXTENDS Naturals, Sequences

CONSTANTS
    Sizes,        \* the lengths of the vectors handed to write()
    KernelRoom,   \* how many bytes the serial port's output queue holds
    MaxAccepted   \* bound: how many bytes are ever handed to write()

ASSUME WriterAssumption ==
    /\ Sizes \subseteq Nat \ {0}     \* no caller passes an empty vector
    /\ KernelRoom \in Nat \ {0}
    /\ MaxAccepted \in Nat

VARIABLES
    buffer,       \* the deque of vectors
    accepted,     \* history: how many bytes write() was given
    device,       \* history: the places of the bytes ::write took, in order
    unsent,       \* bytes in the port's output queue, not on the wire yet
    writer        \* "ready", inside flush(), or the process has exited

writerVars == <<buffer, accepted, device, unsent, writer>>

Chunk == [at : Nat \ {0}, len : Nat \ {0}]

WriterInit ==
    /\ buffer = <<>>
    /\ accepted = 0
    /\ device = <<>>
    /\ unsent = 0
    /\ writer = "ready"

-----------------------------------------------------------------------------
(* ::write on the non-blocking port *)

Room == KernelRoom - unsent

\* What ::write may return when offered n bytes: a full queue takes none
\* (EAGAIN, which writeToFile turns into 0), any other takes at least one.
Taken(n) ==
    IF Room = 0 THEN {0} ELSE {k \in 1..n : k <= Room}

\* The places of the first k bytes of chunk c.
FirstBytes(c, k) == [i \in 1..k |-> c.at + i - 1]

Send(k) ==
    /\ device' = device \o FirstBytes(Head(buffer), k)
    /\ unsent' = unsent + k

-----------------------------------------------------------------------------
(* The class's operations *)

\* Mutated forms: the vector goes to the wrong end of the deque; the bytes
\* that remain are taken from the wrong end of the vector, or are one short.
PushFront(n) == buffer' = <<[at |-> accepted + 1, len |-> n]>> \o buffer
EraseBack(c, k) == [at |-> c.at, len |-> c.len - k]
EraseOneTooMany(c, k) == [at |-> c.at + k + 1, len |-> c.len - k - 1]

PushBack(n) == buffer' = Append(buffer, [at |-> accepted + 1, len |-> n])

\* erase(begin, begin + k)
Erase(c, k) == [at |-> c.at + k, len |-> c.len - k]

\* write(): buffer the data, then flush.
Write(n) ==
    /\ writer = "ready"
    /\ accepted + n <= MaxAccepted
    /\ PushBack(n)
    /\ accepted' = accepted + n
    /\ writer' = "flushing"
    /\ UNCHANGED <<device, unsent>>

\* flush(), as the event loop calls it when the port takes bytes again.
Flush ==
    /\ writer = "ready"
    /\ writer' = "flushing"
    /\ UNCHANGED <<buffer, accepted, device, unsent>>

\* ::write took the whole front vector: pop it and go round again.
FlushWhole ==
    /\ writer = "flushing"
    /\ buffer # <<>>
    /\ Head(buffer).len \in Taken(Head(buffer).len)
    /\ Send(Head(buffer).len)
    /\ buffer' = Tail(buffer)
    /\ UNCHANGED <<accepted, writer>>

\* ::write took k bytes, fewer than offered: keep the rest, return false.
FlushPart(k) ==
    /\ writer = "flushing"
    /\ buffer # <<>>
    /\ k \in Taken(Head(buffer).len)
    /\ k < Head(buffer).len
    /\ Send(k)
    /\ buffer' = [buffer EXCEPT ![1] = Erase(@, k)]
    /\ writer' = "ready"
    /\ UNCHANGED accepted

\* Nothing left to write: return true.
FlushDone ==
    /\ writer = "flushing"
    /\ buffer = <<>>
    /\ writer' = "ready"
    /\ UNCHANGED <<buffer, accepted, device, unsent>>

\* ::write failed with anything but EAGAIN: SerialIO::writeFailed exits.
WriteFailed ==
    /\ writer = "flushing"
    /\ buffer # <<>>
    /\ writer' = "exited"
    /\ UNCHANGED <<buffer, accepted, device, unsent>>

\* The process ends for a reason of its own, outside the writer.
Exit ==
    /\ writer = "ready"
    /\ writer' = "exited"
    /\ UNCHANGED <<buffer, accepted, device, unsent>>

\* The port puts a byte on the wire, whatever the process does.
Drain ==
    /\ unsent > 0
    /\ unsent' = unsent - 1
    /\ UNCHANGED <<buffer, accepted, device, writer>>

\* One turn of flush()'s loop.
FlushTurn ==
    \/ FlushWhole
    \/ \E k \in 0..MaxAccepted : FlushPart(k)
    \/ FlushDone

WriterNext ==
    \/ \E n \in Sizes : Write(n)
    \/ Flush
    \/ FlushTurn
    \/ WriteFailed
    \/ Exit
    \/ Drain

WriterSpec == WriterInit /\ [][WriterNext]_writerVars

-----------------------------------------------------------------------------
(* Properties *)

\* The types of the writer's state.
WriterTypeOK ==
    /\ buffer \in Seq(Chunk)
    /\ accepted \in Nat
    /\ device \in Seq(Nat)
    /\ unsent \in 0..KernelRoom
    /\ writer \in {"ready", "flushing", "exited"}

\* Across any mix of whole, short and refused ::write calls the lamp gets
\* every byte at most once and in the order write() was given them: the i-th
\* byte on the descriptor is byte i of the accepted stream.
ExactlyOnceInOrder == \A i \in 1..Len(device) : device[i] = i

\* The deque always holds exactly the part of the accepted stream that the
\* descriptor has not taken, as adjacent vectors: nothing is lost when flush()
\* erases, pops or gives up, and nothing that was sent stays behind.
BufferIsTheRest ==
    /\ buffer = <<>> => accepted = Len(device)
    /\ buffer # <<>> =>
        /\ buffer[1].at = Len(device) + 1
        /\ buffer[Len(buffer)].at + buffer[Len(buffer)].len = accepted + 1
    /\ \A i \in 1..(Len(buffer) - 1) :
        buffer[i + 1].at = buffer[i].at + buffer[i].len
    /\ \A i \in 1..Len(buffer) : buffer[i].at + buffer[i].len <= accepted + 1

Stream == INSTANCE LampStream WITH stopped <- writer = "exited"

\* The deque, the short writes and the retries are invisible from outside:
\* the writer is the byte stream of LampStream.
ImplementsStream == Stream!Spec
=============================================================================
