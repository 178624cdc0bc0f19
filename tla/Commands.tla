------------------------------ MODULE Commands ------------------------------
(***************************************************************************)
(* The frames the daemon writes to the lamp, and what they say             *)
(* (src/src/main.cpp: run, parseMessage).  When it writes them is Moodpd's *)
(* matter; here each request is answered by a frame or by none.            *)
(*                                                                         *)
(* A frame is a letter, the digits behind it, each by its value, and a     *)
(* newline; or the bytes of a raw message.  An int has 32 bits.            *)
(***************************************************************************)
EXTENDS OscMessage

Blanks == (9..13) \cup {32}     \* isspace()
Plus == 43

MaxPacketSize == 1024     \* MOODPD_MAXPACKETSIZE
HeaderSize == 5           \* sizeof(moodpd_packet): magic and type

NoFrame == [kind |-> "none", digits |-> <<>>, bytes |-> <<>>]

-----------------------------------------------------------------------------
(* sscanf and printf *)

DigitValue == [c \in (48..57) \cup (65..70) \cup (97..102) |->
                  IF c < 58 THEN c - 48 ELSE IF c < 71 THEN c - 55 ELSE c - 87]

\* %02x: at least two digits, and eight of them for a negative number.
Hex(v) ==
    IF v \in 0..255 THEN <<v \div 16, v % 16>>
    ELSE [i \in 1..8 |-> (v \div 16^(8 - i)) % 16]

\* How many characters at the front of text, at most max, are in S.
Run(text, S, max) ==
    Max({k \in 0..Min({max, Len(text)}) : \A j \in 1..k : text[j] \in S})

Drop(text, n) == SubSeq(text, n + 1, Len(text))

\* The digits the width of %02x leaves room for.
FieldWidth(signed) == IF signed THEN 1 ELSE 2

\* Whether a sign stands in front.
HasSign(text) == text # <<>> /\ Head(text) \in {Plus, Dash}

WithoutSign(text) == IF HasSign(text) THEN Tail(text) ELSE text

\* The number that the first n digits stand for.
Number(text, n) ==
    LET value[k \in 0..n] == IF k = 0 THEN 0 ELSE 16 * value[k - 1] + DigitValue[text[k]]
    IN  value[n]

\* One %02x of sscanf: blanks, then a sign and digits, two characters at most (a
\* "0x" in front of a number is left out).
Scan(text) ==
    LET t == Drop(text, Run(text, Blanks, Len(text)))
        u == WithoutSign(t)
        n == Run(u, DOMAIN DigitValue, FieldWidth(HasSign(t)))
    IN  [ok |-> n > 0, rest |-> Drop(u, n),
         value |-> IF HasSign(t) /\ Head(t) = Dash THEN -Number(u, n) ELSE Number(u, n)]

-----------------------------------------------------------------------------
(* Datagrams: run, parseMessage *)

\* recvfrom cuts a datagram to its buffer: sz, for a message behind a header.
BytesTaken(message) == Min({HeaderSize + Len(message), MaxPacketSize})

\* Mutated form: a datagram may end with its header.
ShorterThanHeader(sz) == sz < HeaderSize

TooShort(sz) == sz <= HeaderSize

\* msgsize
MessageSize(message) == BytesTaken(message) - HeaderSize

\* Mutated form: buf[sz] is left as it was.
NotTerminated(message, stale) == SubSeq(message, 1, MessageSize(message)) \o stale

\* The buffer from the message on: what was received of it, the 0 put behind
\* it, and what was on the stack, which may be an earlier datagram.
Buffer(message, stale) == SubSeq(message, 1, MessageSize(message)) \o << 0 >> \o stale

\* A C string ends before the first 0.
TextIn(bytes) == SubSeq(bytes, 1, Run(bytes, 1..255, Len(bytes)))

\* writeCommandF: "i", the numbers, a newline.
Writes(numbers) ==
    [kind |-> "i", digits |-> FlattenSeq([k \in DOMAIN numbers |-> Hex(numbers[k])]),
     bytes |-> <<>>]

\* chomp() only takes newlines from the end, which sscanf would not read.
ColourOf(text) ==
    LET r == Scan(text)
        g == Scan(r.rest)
        b == Scan(g.rest)
    IN  IF r.ok /\ g.ok /\ b.ok THEN Writes(<<r.value, g.value, b.value>>) ELSE NoFrame

ColorFrame(message, stale) ==
    IF TooShort(BytesTaken(message)) THEN NoFrame ELSE ColourOf(TextIn(Buffer(message, stale)))

RawFrame(message, stale) ==
    IF TooShort(BytesTaken(message)) THEN NoFrame
    ELSE [kind |-> "raw", digits |-> <<>>,
          bytes |-> SubSeq(Buffer(message, stale), 1, MessageSize(message))]

-----------------------------------------------------------------------------
(* OSC messages *)

LampsPath == <<47, 109, 111, 111, 100, 112, 100, 47, 108, 97, 109, 112, 115, 47>>  \* /moodpd/lamps/
RgbPath == <<47, 114, 103, 98>>                                                    \* /rgb
OriPath == <<47, 111, 114, 105>>                                                   \* /ori

\* match(test).popInt32(r).popInt32(g).popInt32(b).isOkNoMoreArgs()
HasThreeInts(m, test) ==
    LET PopInt32(reading) == Pop(m, reading, Int32Tag)
        matched == Reader(m, FullPatternMatch(test, m.address), test)
    IN  IsOkNoMoreArgs(m, PopInt32(PopInt32(PopInt32(matched))))

Ints(m) == [i \in DOMAIN m.arguments |-> Int32Of(ValueAt(m, i).bytes)]

\* Mutated form: nothing keeps a value from being negative.
ClampAbove(v) == Min({255, v})

Clamp(v) == Min({255, Max({v, 0})})

\* No number at the front of the name, or a negative one, is lamp 0.
LampIndex(name) ==
    LET scanned == Scan(name)
    IN  IF scanned.ok /\ scanned.value \in 0..255 THEN scanned.value ELSE 0

\* r+180, where an int wraps around.
HalfTurn(r) ==
    IF r > MaxInt - 180 THEN (r - MaxInt) + (178 - MaxInt) ELSE r + 180

\* The division and the remainder of C round towards zero.
CRem(a, n) == IF a < 0 /\ a % n # 0 THEN (a % n) - n ELSE a % n
CDiv(a, n) == IF a < 0 THEN -((-a) \div n) ELSE a \div n

\* Mutated form: the half turn is added to the remainder.
OriTurnedLate(r) == CDiv((CRem(r, 360) + 180) * 255, 360)

Ori(r) == CDiv(CRem(HalfTurn(r), 360) * 255, 360)

OscFrame(m) ==
    IF HasThreeInts(m, LampsPath \o <<Star>> \o RgbPath)
    THEN Writes([k \in 1..3 |-> Clamp(Ints(m)[k])] \o <<LampIndex(Drop(m.address, Len(LampsPath)))>>)
    ELSE IF HasThreeInts(m, OriPath) THEN Writes([k \in 1..3 |-> Ori(Ints(m)[k])])
    ELSE NoFrame
=============================================================================
