----------------------------- MODULE OscMessage -----------------------------
(***************************************************************************)
(* Message and its ArgReader (src/oscpkt/oscpkt.hh), byte by byte: a       *)
(* sender pushes arguments and packs the message; the receiver builds one  *)
(* from the bytes, matches its address and pops arguments.  The bytes may  *)
(* also be another program's.                                              *)
(*                                                                         *)
(* A value is its type tag and its bytes: those of a number with the most  *)
(* significant first, of a string without the 0, of a blob without the     *)
(* size.                                                                   *)
(***************************************************************************)
EXTENDS PatternMatch

CONSTANTS
    Addresses, Values,   \* what senders put into messages
    Tests,               \* the patterns a receiver matches with
    PopTags,             \* the types it asks for
    ForeignBytes,        \* packets of other programs
    MaxArgs, MaxPops     \* bounds: arguments pushed, calls of popXXX

MaxInt == 2147483647    \* the largest int of 32 bits

TrueTag == 84
FalseTag == 70
Int32Tag == 105
FloatTag == 102
Int64Tag == 104
DoubleTag == 100
StringTag == 115
BlobTag == 98
Bools == {TrueTag, FalseTag}
PodSize == [tag \in {Int32Tag, FloatTag, Int64Tag, DoubleTag} |->
               IF tag \in {Int32Tag, FloatTag} THEN 4 ELSE 8]

\* What pushXXX is given: a string without a 0 in it; a number of its size; and
\* a string or blob that is not "insane", as the code's assertions put it.
Value ==
    {v \in [tag : Bools \cup DOMAIN PodSize \cup {StringTag, BlobTag}, bytes : Seq(0..255)] :
        /\ v.tag \in Bools => v.bytes = <<>>
        /\ v.tag \in DOMAIN PodSize => Len(v.bytes) = PodSize[v.tag]
        /\ v.tag = StringTag => v.bytes \in Seq(1..255)
        /\ Len(v.bytes) < MaxInt}

\* A packet comes in words, PacketReader refuses others, and an int can count its
\* bytes; there is no popFalse.
ASSUME MessageAssumption ==
    /\ Addresses \subseteq Seq(1..255)
    /\ Values \subseteq Value
    /\ ForeignBytes \subseteq {raw \in Seq(0..255) : Len(raw) % 4 = 0 /\ Len(raw) < MaxInt}
    /\ FalseTag \notin PopTags

VARIABLES
    out,       \* the sender's message
    in,        \* the receiver's; its storage holds the whole packet
    reader,    \* the ArgReader: error and index of the next argument
    pushed,    \* history: the values pushed
    asked,     \* history: the tags of the popXXX calls (a popBool's is TrueTag)
    popped     \* history: what they returned, as long as there was no error

messageVars == <<out, in, reader, pushed, asked, popped>>

NoMessage == [address |-> <<>>, tags |-> <<>>, arguments |-> <<>>, storage |-> <<>>,
              err |-> "none"]

ErrorIn(err, error) == IF err = "none" THEN error ELSE err

Ceil4(n) == 4 * ((n + 3) \div 4)
Zeros(n) == [i \in 1..n |-> 0]
Padded(bytes) == bytes \o Zeros(Ceil4(Len(bytes)) - Len(bytes))
CString(s) == Append(s, 0)

\* pod2bytes and bytes2pod of 32 bits, most significant byte first.
Int32Bytes(v) ==
    <<(v \div 16777216) % 256, (v \div 65536) % 256, (v \div 256) % 256, v % 256>>
Int32Of(b) ==
    (IF b[1] < 128 THEN b[1] ELSE b[1] - 256) * 16777216 + b[2] * 65536 + b[3] * 256 + b[4]

-----------------------------------------------------------------------------
(* Writing *)

InitMessage(address) ==
    [NoMessage EXCEPT !.address = address,
                      !.err = IF At(address, 1) = Slash THEN "none" ELSE "address"]

\* Mutated form: a string is stored without its 0.
StoredBare(value) ==
    IF value.tag = BlobTag THEN Int32Bytes(Len(value.bytes)) \o value.bytes ELSE value.bytes

\* What pushXXX adds to the storage.
Stored(value) ==
    CASE value.tag = StringTag -> CString(value.bytes)
      [] value.tag = BlobTag   -> Int32Bytes(Len(value.bytes)) \o value.bytes
      [] OTHER                 -> value.bytes

\* The size pushBool notes is that of the storage; nobody reads it.
Push(m, value) ==
    [m EXCEPT !.tags = Append(@, value.tag),
              !.arguments = Append(@, [pos |-> Len(m.storage),
                                       size |-> IF value.tag \in Bools THEN Len(m.storage)
                                                ELSE Len(Stored(value))]),
              !.storage = @ \o Padded(Stored(value))]

\* Several calls of pushXXX in a row.
PushAll(m, values) ==
    LET after[k \in 0..Len(values)] ==
            IF k = 0 THEN m ELSE Push(after[k - 1], values[k])
    IN  after[Len(values)]

Packed(m) ==
    IF m.err # "none" THEN <<>>
    ELSE Padded(CString(m.address)) \o Padded(CString(<<Comma>> \o m.tags)) \o m.storage

-----------------------------------------------------------------------------
(* buildFromRawData.  Places in the bytes count from 0. *)

\* Mutated form: what is behind an end need not be 0.
AnyPadding(raw, p) == TRUE

ZeroPadding(raw, p) == \A i \in (p + 1)..Ceil4(p) : At(raw, i) = 0

\* memchr: the place of the first 0 from p on, Len(raw) if there is none.
EndOfText(raw, p) == Min({i \in p..Len(raw) : i = Len(raw) \/ raw[i + 1] = 0})

HasText(raw, p, first) ==
    LET end == EndOfText(raw, p)
    IN  /\ end < Len(raw)
        /\ ZeroPadding(raw, end + 1)
        /\ At(raw, p + 1) = first

\* 4 + the unsigned size, in 32 bits: the last four sizes wrap to 0..3, and -1
\* stands for one that is larger than any packet here.
BlobSize(raw, p) ==
    LET size == Int32Of(SubSeq(raw, p + 1, p + 4))
    IN  IF size \in -4..Len(raw) THEN size + 4 ELSE -1

\* getArgSize: the bytes of the argument at p, -1 if it is malformed; first what
\* its type and the bytes there say of it, then whether so many are there.
ClaimedSize(raw, tag, p) ==
    CASE tag \in Bools          -> 0
      [] tag \in DOMAIN PodSize -> PodSize[tag]
      [] tag = StringTag -> IF EndOfText(raw, p) = Len(raw) THEN -1
                            ELSE EndOfText(raw, p) - p + 1
      [] tag = BlobTag   -> IF p = Len(raw) THEN -1 ELSE BlobSize(raw, p)
      [] OTHER           -> -1

ArgSize(raw, tag, p) ==
    LET size == ClaimedSize(raw, tag, p)
    IN  IF size = -1 \/ p + size > Len(raw) \/ ~ZeroPadding(raw, p + size) THEN -1 ELSE size

\* One turn of the loop over the type tags.
ScanArg(scan, tag, raw) ==
    LET size == ArgSize(raw, tag, scan.pos)
    IN  IF scan.bad \/ size = -1 THEN [scan EXCEPT !.bad = TRUE]
        ELSE [scan EXCEPT !.arguments = Append(@, [pos |-> scan.pos, size |-> size]),
                          !.pos = @ + Ceil4(size)]

\* The whole loop: from the first argument on, one turn for each type tag.
ScanArgs(raw, tags, argsAt) ==
    LET scan[k \in 0..Len(tags)] ==
            IF k = 0 THEN [pos |-> argsAt, arguments |-> <<>>, bad |-> FALSE]
            ELSE ScanArg(scan[k - 1], tags[k], raw)
    IN  scan[Len(tags)]

Built(raw) ==
    LET tagsAt == Ceil4(EndOfText(raw, 0) + 1)
        argsAt == Ceil4(EndOfText(raw, tagsAt) + 1)
        tags == SubSeq(raw, tagsAt + 2, EndOfText(raw, tagsAt))
        scan == ScanArgs(raw, tags, argsAt)
        addressed == [NoMessage EXCEPT !.storage = raw,
                                       !.address = SubSeq(raw, 1, EndOfText(raw, 0))]
    IN  IF ~HasText(raw, 0, Slash) THEN [NoMessage EXCEPT !.storage = raw, !.err = "address"]
        ELSE IF ~HasText(raw, tagsAt, Comma) THEN [addressed EXCEPT !.err = "tags"]
        ELSE [addressed EXCEPT
                 !.tags = tags, !.arguments = scan.arguments,
                 !.err = IF scan.bad \/ scan.pos # Len(raw) THEN "arguments" ELSE "none"]

-----------------------------------------------------------------------------
(* ArgReader *)

Reader(m, matches, test) ==
    [idx |-> 0, err |-> ErrorIn(m.err, IF matches THEN "none" ELSE "pattern"), test |-> test]

\* The argument's bytes, without a string's 0 and a blob's size.
ValueAt(m, i) ==
    LET arg == m.arguments[i]
        tag == m.tags[i]
        from == arg.pos + 1 + (IF tag = BlobTag THEN 4 ELSE 0)
        to == arg.pos + arg.size - (IF tag = StringTag THEN 1 ELSE 0)
    IN  [tag |-> tag, bytes |-> SubSeq(m.storage, from, to)]

\* popBool, asked for as TrueTag, takes both truth values.
TagFits(m, i, tag) == m.tags[i] = tag \/ (tag = TrueTag /\ m.tags[i] = FalseTag)

AnyType == 0

\* popXXX, and pop() as AnyType.  After an error popBool and pop() still move on.
Pop(m, r, tag) ==
    LET left == r.idx < Len(m.arguments)
        fits == left /\ r.err = "none" /\ (tag = AnyType \/ TagFits(m, r.idx + 1, tag))
    IN  [r EXCEPT
            !.idx = IF fits \/ tag = TrueTag \/ (tag = AnyType /\ left) THEN @ + 1 ELSE @,
            !.err = IF fits THEN @ ELSE ErrorIn(@, IF left THEN "type" ELSE "not enough")]

\* Mutated form: arguments may be left.
SomeLeft(m, r) == Len(m.arguments) >= r.idx

\* nbArgRemaining() is 0; it may be past it.
NoneLeft(m, r) == Len(m.arguments) - r.idx = 0

IsOkNoMoreArgs(m, r) == r.err = "none" /\ NoneLeft(m, r)

-----------------------------------------------------------------------------
(* A sender and a receiver *)

NoReader == [idx |-> 0, err |-> "none", test |-> <<>>]

MessageInit ==
    /\ out = NoMessage /\ in = NoMessage /\ reader = NoReader
    /\ pushed = <<>> /\ asked = <<>> /\ popped = <<>>

Received == in # NoMessage

NewMessage ==
    /\ out = NoMessage /\ ~Received
    /\ \E address \in Addresses : out' = InitMessage(address)
    /\ UNCHANGED <<in, reader, pushed, asked, popped>>

PushArg ==
    /\ out # NoMessage /\ ~Received
    /\ Len(pushed) < MaxArgs
    /\ \E value \in Values :
        /\ out' = Push(out, value)
        /\ pushed' = Append(pushed, value)
    /\ UNCHANGED <<in, reader, asked, popped>>

\* A message with an error is not written at all.
Arrives ==
    /\ ~Received
    /\ \/ out # NoMessage /\ out.err = "none" /\ in' = Built(Packed(out))
       \/ out = NoMessage /\ \E raw \in ForeignBytes : in' = Built(raw)
    /\ UNCHANGED <<out, reader, pushed, asked, popped>>

\* match(test); arg() is a match with a test that matches.
Match ==
    /\ Received
    /\ reader = NoReader
    /\ \E test \in Tests :
        reader' = Reader(in, FullPatternMatch(test, in.address), test)
    /\ UNCHANGED <<out, in, pushed, asked, popped>>

PopArg ==
    /\ reader # NoReader
    /\ Len(asked) < MaxPops
    /\ \E tag \in PopTags :
        /\ reader' = Pop(in, reader, tag)
        /\ asked' = Append(asked, tag)
        /\ popped' = IF reader'.err = "none" THEN Append(popped, ValueAt(in, reader.idx + 1))
                     ELSE popped
    /\ UNCHANGED <<out, in, pushed>>

MessageNext == NewMessage \/ PushArg \/ Arrives \/ Match \/ PopArg

-----------------------------------------------------------------------------
(* Properties *)

FromSender == Received /\ out # NoMessage

\* Whatever is pushed in whatever order, empty strings and blobs included, the
\* receiver accepts the message and finds each value at its place.
ArrivesAsPushed ==
    FromSender /\ reader = NoReader =>
        /\ in.err = "none"
        /\ <<in.address, in.tags>> = <<out.address, out.tags>>
        /\ pushed = [i \in DOMAIN in.arguments |-> ValueAt(in, i)]

\* getArgSize can have let the size of a blob wrap around.
SizeWrapped(m) ==
    \E i \in DOMAIN m.arguments : m.tags[i] = BlobTag /\ m.arguments[i].size < 4

\* What the receiver accepts it has understood to the last byte: written again,
\* the values it reads are the packet, sizes, padding and all.
AcceptedIsCanonical ==
    Received /\ reader = NoReader /\ in.err = "none" /\ ~SizeWrapped(in) =>
        Packed(PushAll(InitMessage(in.address),
                       [i \in DOMAIN in.arguments |-> ValueAt(in, i)]))
        = in.storage

\* The chain of calls the documentation recommends ends in true exactly if the
\* address matched and the calls are those for the message's arguments, one
\* each; and what they returned is what was pushed.  That although popBool and
\* pop() move on after an error, past the end even.
ChainTellsTheTruth ==
    reader # NoReader =>
        /\ IsOkNoMoreArgs(in, reader) <=>
            /\ in.err = "none" /\ FullPatternMatch(reader.test, in.address)
            /\ Len(asked) = Len(in.tags)
            /\ \A i \in DOMAIN asked :
                asked[i] \in {AnyType, IF in.tags[i] \in Bools THEN TrueTag ELSE in.tags[i]}
        /\ FromSender => IsPrefix(popped, pushed)

\* The comment on getArgSize's test: "blob so large that it did overflow".  It
\* says that such a blob is rejected, so an accepted one has its size before it.
BlobsHaveTheirSize == Received /\ in.err = "none" => ~SizeWrapped(in)
=============================================================================
