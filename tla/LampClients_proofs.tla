------------------------- MODULE LampClients_proofs -------------------------
(***************************************************************************)
(* What a sender pushes is what the receiver reads, what a receiver accepts*)
(* it has understood, and the chain of popXXX calls tells the truth: the   *)
(* lemmas of OscMessage_proofs, along the steps of the specification.  The *)
(* arithmetic of the commands, for every int.  And what a frame is, along  *)
(* the steps: which of the two addresses a message is for, by the literals *)
(* of its pattern; what three ints become on their way; the digits that    *)
(* %02x writes and sscanf reads; what is in the buffer behind a message;   *)
(* and so the bytes of every frame.                                        *)
(***************************************************************************)
EXTENDS LampClients, OscMessage_proofs, PatternMatch_proofs

Ints32 == (-MaxInt - 1)..MaxInt

\* What the arithmetic needs to know of the largest int.
LEMMA MaxIntIsLarge == MaxInt \in Int /\ MaxInt > 360
BY SMT DEF MaxInt

\* The least and the greatest of two numbers.
LEMMA MinMaxOfTwo ==
    ASSUME NEW a \in Int, NEW b \in Int
    PROVE  /\ Min({a, b}) = IF a <= b THEN a ELSE b
           /\ Max({a, b}) = IF a <= b THEN b ELSE a
<1>1. CASE a <= b
  <2>1. \A x \in {a, b} : (\A y \in {a, b} : x <= y) <=> x = a
      BY <1>1
  <2>2. \A x \in {a, b} : (\A y \in {a, b} : x >= y) <=> x = b
      BY <1>1
  <2> QED
      BY <1>1, <2>1, <2>2 DEF Min, Max
<1>2. CASE ~(a <= b)
  <2>1. \A x \in {a, b} : (\A y \in {a, b} : x <= y) <=> x = b
      BY <1>2
  <2>2. \A x \in {a, b} : (\A y \in {a, b} : x >= y) <=> x = a
      BY <1>2
  <2> QED
      BY <1>2, <2>1, <2>2 DEF Min, Max
<1> QED
    BY <1>1, <1>2

\* Clamping a colour of an OSC message gives the nearest byte.
THEOREM ClampIsNearest == \A v \in Int : IsNearest(Clamp(v), v)
<1> SUFFICES ASSUME NEW v \in Int PROVE IsNearest(Clamp(v), v)
    OBVIOUS
<1>1. PICK w \in Int : w = Max({v, 0}) /\ w = IF v <= 0 THEN 0 ELSE v
    BY MinMaxOfTwo
<1>2. Clamp(v) = IF 255 <= w THEN 255 ELSE w
    BY <1>1, MinMaxOfTwo DEF Clamp
<1> QED
    BY <1>1, <1>2 DEF IsNearest

\* The two digits of a byte, as %02x writes them, spell it.
THEOREM HexSpells ==
    \A v \in 0..255 : /\ Hex(v) \in Seq(0..15) /\ Len(Hex(v)) = 2
                      /\ 16 * Hex(v)[1] + Hex(v)[2] = v
<1> SUFFICES ASSUME NEW v \in 0..255
             PROVE  /\ Hex(v) \in Seq(0..15) /\ Len(Hex(v)) = 2
                    /\ 16 * Hex(v)[1] + Hex(v)[2] = v
    BY Zenon
<1>1. Hex(v) = <<v \div 16, v % 16>>
    BY DEF Hex
<1>2. PICK d \in 0..15, e \in 0..15 : d = v \div 16 /\ e = v % 16
    OBVIOUS
<1>3. v = 16 * d + e
    BY <1>2
<1> QED
    BY <1>1, <1>2, <1>3

\* The orientation's half turn and scaling: from -180 degrees on, up to where
\* the int overflows, the angle's way from south becomes its part of a byte.
THEOREM OriTurns ==
    \A r \in -180..(MaxInt - 180) :
        /\ Ori(r) \in 0..254
        /\ 360 * Ori(r) <= 255 * ((r + 180) % 360)
        /\ 255 * ((r + 180) % 360) < 360 * (Ori(r) + 1)
<1> SUFFICES ASSUME NEW r \in -180..(MaxInt - 180)
             PROVE  /\ Ori(r) \in 0..254
                    /\ 360 * Ori(r) <= 255 * ((r + 180) % 360)
                    /\ 255 * ((r + 180) % 360) < 360 * (Ori(r) + 1)
    OBVIOUS
<1>1. HalfTurn(r) = r + 180 /\ r + 180 \in Nat
  <2>1. MaxInt \in Int /\ MaxInt > 360
      BY MaxIntIsLarge
  <2>2. r \in Int /\ -180 <= r /\ r <= MaxInt - 180
      BY <2>1, SMT
  <2>3. HalfTurn(r) = r + 180
      BY <2>1, <2>2, SMT DEF HalfTurn
  <2> QED
      BY <2>2, <2>3, SMT
<1>2. PICK a \in 0..359 : a = (r + 180) % 360
    BY <1>1
<1>3. CRem(HalfTurn(r), 360) = a
    BY <1>1, <1>2 DEF CRem
<1>4. Ori(r) = (a * 255) \div 360
  <2>1. Ori(r) = CDiv(a * 255, 360)
      BY <1>3 DEF Ori
  <2> QED
      BY <2>1 DEF CDiv
<1> QED
    BY <1>2, <1>4

\* Below -180 degrees, or behind the overflow, the result is negative or zero:
\* the number the lamp gets is no angle's.
THEOREM OriTurnsBackwards ==
    \A r \in Ints32 : r < -180 \/ r > MaxInt - 180 => Ori(r) \in -254..0
<1> SUFFICES ASSUME NEW r \in Ints32, r < -180 \/ r > MaxInt - 180
             PROVE  Ori(r) \in -254..0
    OBVIOUS
<1>1. HalfTurn(r) \in Int /\ HalfTurn(r) < 0
  <2>1. MaxInt \in Int /\ MaxInt > 360
      BY MaxIntIsLarge
  <2>2. r \in Int /\ r <= MaxInt
      BY <2>1, SMT DEF Ints32
  <2>3. CASE r > MaxInt - 180
    <3>1. HalfTurn(r) = (r - MaxInt) + (178 - MaxInt)
        BY <2>3, SMT DEF HalfTurn
    <3> QED
        BY <2>1, <2>2, <3>1, SMT
  <2>4. CASE r < -180
    <3>1. HalfTurn(r) = r + 180
        BY <2>1, <2>2, <2>4, SMT DEF HalfTurn
    <3> QED
        BY <2>2, <2>4, <3>1, SMT
  <2> QED
      BY <2>3, <2>4
<1>2. PICK a \in -359..0 : a = CRem(HalfTurn(r), 360)
    BY <1>1 DEF CRem
<1>3. Ori(r) = CDiv(a * 255, 360)
    BY <1>2 DEF Ori
<1>4. CASE a = 0
    BY <1>3, <1>4 DEF CDiv
<1>5. CASE a < 0
  <2>1. Ori(r) = -((-(a * 255)) \div 360)
      BY <1>3, <1>5 DEF CDiv
  <2>2. (-(a * 255)) \div 360 \in 0..254
      BY <1>2
  <2> QED
      BY <2>1, <2>2
<1> QED
    BY <1>2, <1>4, <1>5

-----------------------------------------------------------------------------
(* What is pushed arrives *)

(* The sender's message carries what was pushed, and the receiver's is it.  *)
SenderInv ==
    /\ pushed \in Seq(Value)
    /\ \/ out = NoMessage /\ pushed = <<>>
       \/ \E a \in Addresses : Carries(out, a, pushed)

ArrivedInv == FromSender => Arrived(in, out, pushed) /\ out.err = "none"

LEMMA InitSender == Init => SenderInv /\ ArrivedInv
BY EmptySeq DEF Init, MessageInit, SenderInv, ArrivedInv, FromSender, Received

LEMMA NewMessageSends ==
    ASSUME SenderInv, NewMessage
    PROVE  SenderInv'
<1>1. PICK a \in Addresses : out' = InitMessage(a)
    BY DEF NewMessage
<1>2. pushed = <<>>
  <2>1. CASE \E b \in Addresses : Carries(out, b, pushed)
    <3>1. out = NoMessage /\ out.tags = <<>> /\ Len(out.tags) = Len(pushed)
        BY <2>1 DEF NewMessage, NoMessage, Carries
    <3>2. Len(pushed) = 0
        BY <3>1
    <3> QED
        BY <3>2, EmptySeq DEF SenderInv
  <2> QED
      BY <2>1 DEF SenderInv
<1>3. Carries(InitMessage(a), a, <<>>)
    BY CarriesNothing, MessageAssumption
<1>4. pushed' = <<>>
    BY <1>2 DEF NewMessage
<1> QED
    BY <1>1, <1>3, <1>4, EmptySeq DEF SenderInv

LEMMA PushArgSends ==
    ASSUME SenderInv, PushArg
    PROVE  SenderInv'
<1>1. PICK v \in Values : out' = Push(out, v) /\ pushed' = Append(pushed, v)
    BY DEF PushArg
<1>2. v \in Value
    BY MessageAssumption
<1>3. PICK a \in Addresses : Carries(out, a, pushed)
    BY DEF PushArg, SenderInv
<1>4. pushed \in Seq(Value)
    BY DEF SenderInv
<1>5. Carries(Push(out, v), a, Append(pushed, v))
    BY <1>2, <1>3, <1>4, CarriesOneMore
<1>6. Append(pushed, v) \in Seq(Value)
    BY <1>2, <1>4, AppendProperties
<1> QED
    BY <1>1, <1>5, <1>6 DEF SenderInv

LEMMA ArrivesIntact ==
    ASSUME SenderInv, Arrives
    PROVE  ArrivedInv'
<1> SUFFICES ASSUME out' # NoMessage PROVE Arrived(in', out', pushed') /\ out'.err = "none"
    BY DEF ArrivedInv, FromSender
<1>1. out # NoMessage /\ out' = out /\ pushed' = pushed
    BY DEF Arrives
<1>2. out.err = "none" /\ in' = Built(Packed(out))
    BY <1>1 DEF Arrives
<1>3. PICK a \in Addresses : Carries(out, a, pushed)
    BY <1>1 DEF SenderInv
<1>4. a \in Seq(1..255) /\ pushed \in Seq(Value)
    BY MessageAssumption DEF SenderInv
<1> QED
    BY <1>1, <1>2, <1>3, <1>4, SentArrives

LEMMA StepSender ==
    ASSUME SenderInv, ArrivedInv, [Next]_vars
    PROVE  SenderInv' /\ ArrivedInv'
<1>1. ASSUME UNCHANGED <<out, pushed>> PROVE SenderInv'
    BY <1>1 DEF SenderInv
<1>2. ASSUME UNCHANGED <<out, pushed, in>> PROVE ArrivedInv'
    BY <1>2 DEF ArrivedInv, FromSender, Received
<1>3. ASSUME ~Received' PROVE ArrivedInv'
    BY <1>3 DEF ArrivedInv, FromSender
<1>4. CASE NewMessage
  <2>1. ~Received'
      BY <1>4 DEF NewMessage, Received
  <2> QED
      BY <1>3, <1>4, <2>1, NewMessageSends
<1>5. CASE PushArg
  <2>1. ~Received'
      BY <1>5 DEF PushArg, Received
  <2> QED
      BY <1>3, <1>5, <2>1, PushArgSends
<1>6. CASE Arrives
  <2>1. UNCHANGED <<out, pushed>>
      BY <1>6 DEF Arrives
  <2> QED
      BY <1>1, <1>6, <2>1, ArrivesIntact
<1>7. CASE Match \/ PopArg \/ UNCHANGED messageVars \/ UNCHANGED vars
  <2>1. UNCHANGED <<out, pushed, in>>
      BY <1>7 DEF Match, PopArg, messageVars, vars
  <2> QED
      BY <1>1, <1>2, <2>1
<1> QED
    BY <1>4, <1>5, <1>6, <1>7 DEF Next, MessageNext

\* Every message of a sender carries what was pushed into it, and what arrives of
\* it is what was sent.
THEOREM SpecSender == Spec => [](SenderInv /\ ArrivedInv)
<1>1. Init => SenderInv /\ ArrivedInv
    BY InitSender
<1>2. SenderInv /\ ArrivedInv /\ [Next]_vars => (SenderInv /\ ArrivedInv)'
    BY StepSender
<1> QED
    BY <1>1, <1>2, PTL DEF Spec

\* Whatever is pushed, in whatever order, the receiver accepts the message and
\* finds each value at its place: buildFromRawData reads what packMessage writes.
THEOREM SentIsReceived == Spec => []ArrivesAsPushed
<1>1. SenderInv /\ ArrivedInv => ArrivesAsPushed
  <2> SUFFICES ASSUME SenderInv, ArrivedInv, FromSender
               PROVE  /\ in.err = "none"
                      /\ <<in.address, in.tags>> = <<out.address, out.tags>>
                      /\ pushed = [i \in DOMAIN in.arguments |-> ValueAt(in, i)]
      BY DEF ArrivesAsPushed
  <2>1. Arrived(in, out, pushed)
      BY DEF ArrivedInv
  <2>2. in.err = "none" /\ in.address = out.address /\ in.tags = out.tags
      BY <2>1 DEF Arrived
  <2>3. DOMAIN in.arguments = 1..Len(pushed)
    <3>1. in.arguments \in Seq([pos : Nat, size : Nat]) /\ Len(in.arguments) = Len(pushed)
        BY <2>1 DEF Arrived, MessageRecord
    <3> QED
        BY <3>1, LenProperties
  <2>4. pushed = [i \in 1..Len(pushed) |-> pushed[i]]
    <3>1. pushed \in Seq(Value)
        BY DEF SenderInv
    <3> QED
        BY <3>1, LenProperties
  <2>5. \A i \in 1..Len(pushed) : ValueAt(in, i) = pushed[i]
      BY <2>1 DEF Arrived
  <2> QED
      BY <2>2, <2>3, <2>4, <2>5
<1> QED
    BY <1>1, SpecSender, PTL

-----------------------------------------------------------------------------
(* What is accepted is understood *)

\* The receiver has built its message from a packet, if no sender's message.
ForeignInv == Received /\ out = NoMessage => \E raw : IsPacket(raw) /\ in = Built(raw)

LEMMA StepForeign ==
    ASSUME ForeignInv, [Next]_vars
    PROVE  ForeignInv'
<1>1. ASSUME UNCHANGED <<out, in>> PROVE ForeignInv'
    BY <1>1 DEF ForeignInv, Received
<1>2. ASSUME ~Received' PROVE ForeignInv'
    BY <1>2 DEF ForeignInv
<1>3. CASE NewMessage
  <2>1. ~Received'
      BY <1>3 DEF NewMessage, Received
  <2> QED
      BY <1>2, <2>1
<1>4. CASE PushArg
  <2>1. ~Received'
      BY <1>4 DEF PushArg, Received
  <2> QED
      BY <1>2, <2>1
<1>5. CASE Arrives
  <2> SUFFICES ASSUME out' = NoMessage PROVE \E raw : IsPacket(raw) /\ in' = Built(raw)
      BY DEF ForeignInv
  <2>1. PICK raw \in ForeignBytes : in' = Built(raw)
      BY <1>5 DEF Arrives
  <2>2. IsPacket(raw)
      BY MessageAssumption DEF IsPacket, Byte
  <2> QED
      BY <2>1, <2>2
<1>6. CASE Match \/ PopArg \/ UNCHANGED messageVars \/ UNCHANGED vars
  <2>1. UNCHANGED <<out, in>>
      BY <1>6 DEF Match, PopArg, messageVars, vars
  <2> QED
      BY <1>1, <2>1
<1> QED
    BY <1>3, <1>4, <1>5, <1>6 DEF Next, MessageNext

\* What the receiver holds, if no sender of the library sent it, is what
\* buildFromRawData made of some packet.
THEOREM SpecForeign == Spec => []ForeignInv
<1>1. Init => ForeignInv
    BY DEF Init, MessageInit, ForeignInv, Received
<1>2. ForeignInv /\ [Next]_vars => ForeignInv'
    BY StepForeign
<1> QED
    BY <1>1, <1>2, PTL DEF Spec

\* The values the receiver reads of a sender's message are those pushed.
LEMMA ReadsWhatWasPushed ==
    ASSUME SenderInv, ArrivedInv, FromSender
    PROVE  ValuesOf(in) = pushed
<1>1. Arrived(in, out, pushed)
    BY DEF ArrivedInv
<1>2. DOMAIN in.arguments = 1..Len(pushed)
  <2>1. in.arguments \in Seq([pos : Nat, size : Nat]) /\ Len(in.arguments) = Len(pushed)
      BY <1>1 DEF Arrived, MessageRecord
  <2> QED
      BY <2>1, LenProperties
<1>3. pushed = [i \in 1..Len(pushed) |-> pushed[i]]
  <2>1. pushed \in Seq(Value)
      BY DEF SenderInv
  <2> QED
      BY <2>1, LenProperties
<1>4. \A i \in 1..Len(pushed) : ValueAt(in, i) = pushed[i]
    BY <1>1 DEF Arrived
<1> QED
    BY <1>2, <1>3, <1>4 DEF ValuesOf

\* What buildFromRawData accepts, from whatever program, is what pushXXX and
\* packMessage write of the values it finds: it has understood every byte.
THEOREM AcceptedIsUnderstood == Spec => []AcceptedIsCanonical
<1>1. SenderInv /\ ArrivedInv /\ ForeignInv => AcceptedIsCanonical
  <2> SUFFICES ASSUME SenderInv, ArrivedInv, ForeignInv,
                      Received, in.err = "none", ~SizeWrapped(in)
               PROVE  Packed(PushAll(InitMessage(in.address), ValuesOf(in))) = in.storage
      BY DEF AcceptedIsCanonical, ValuesOf
  <2>1. CASE out = NoMessage
    <3>1. PICK raw : IsPacket(raw) /\ in = Built(raw)
        BY <2>1 DEF ForeignInv
    <3>2. PICK m : m = Built(raw) /\ m = in
        BY <3>1
    <3>3. Packed(PushAll(InitMessage(m.address), ValuesOf(m))) = m.storage
        BY <3>1, <3>2, WrittenAgain
    <3> QED
        BY <3>2, <3>3
  <2>2. CASE out # NoMessage
    <3>1. FromSender
        BY <2>2 DEF FromSender
    <3>2. Arrived(in, out, pushed) /\ out.err = "none"
        BY <3>1 DEF ArrivedInv
    <3>3. PICK a \in Addresses : Carries(out, a, pushed)
        BY <2>2 DEF SenderInv
    <3>4. a \in Seq(1..255) /\ pushed \in Seq(Value) /\ At(a, 1) = Slash
        BY <3>2, <3>3, MessageAssumption DEF SenderInv, Carries
    <3>5. in.address = a /\ in.storage = Packed(out)
        BY <3>2, <3>3 DEF Arrived, Carries
    <3>6. ValuesOf(in) = pushed
        BY <3>1, ReadsWhatWasPushed
    <3>7. PICK again : again = PushAll(InitMessage(a), pushed) /\ Carries(again, a, pushed)
        BY <3>4, PushAllCarries
    <3>8. Packed(again) = Packed(out)
        BY <3>3, <3>4, <3>7, CarriesSame
    <3> QED
        BY <3>5, <3>6, <3>7, <3>8
  <2> QED
      BY <2>1, <2>2
<1> QED
    BY <1>1, SpecSender, SpecForeign, PTL

-----------------------------------------------------------------------------
(* The chain of calls tells the truth *)

\* What an accepted message has received.
ShapeInv == Received /\ in.err = "none" => Shaped(in)

LEMMA ShapeFollows ==
    ASSUME SenderInv, ArrivedInv, ForeignInv
    PROVE  ShapeInv
<1> SUFFICES ASSUME Received, in.err = "none" PROVE Shaped(in)
    BY DEF ShapeInv
<1>1. CASE out = NoMessage
  <2>1. PICK raw : IsPacket(raw) /\ in = Built(raw)
      BY <1>1 DEF ForeignInv
  <2> QED
      BY <2>1, AcceptedIsShaped
<1>2. CASE out # NoMessage
  <2>1. Arrived(in, out, pushed)
      BY <1>2 DEF ArrivedInv, FromSender
  <2>2. in.tags \in Seq(Byte) /\ in.arguments \in Seq([pos : Nat, size : Nat])
        /\ Len(in.arguments) = Len(pushed) /\ in.tags = out.tags
      BY <2>1 DEF Arrived, MessageRecord
  <2>3. Len(out.tags) = Len(pushed)
      BY <1>2 DEF SenderInv, Carries
  <2> QED
      BY <2>2, <2>3 DEF Shaped
<1> QED
    BY <1>1, <1>2

\* No error so far: each call took the next argument.
AllFit ==
    /\ in.err = "none" /\ FullPatternMatch(reader.test, in.address)
    /\ reader.idx = Len(asked) /\ Len(popped) = Len(asked) /\ Len(asked) <= Len(in.arguments)
    /\ \A i \in 1..Len(asked) : Fits(in, i, asked[i])

\* An error: there is a reason for it, and no later call takes it away.
SomeMisfit ==
    \/ in.err # "none"
    \/ ~FullPatternMatch(reader.test, in.address)
    \/ Len(asked) > Len(in.tags)
    \/ \E i \in 1..Len(asked) : i <= Len(in.tags) /\ ~Fits(in, i, asked[i])

\* The values returned, n of them.
Returned(n) == n \in Nat /\ popped = [i \in 1..n |-> ValueAt(in, i)]

SomeReturned == \E n : Returned(n) /\ (n > 0 => in.err = "none" /\ n <= Len(in.arguments))

IsReader == \E idx \in Nat : \E err, test : ReaderIs(reader, idx, err, test)

NotAsked == reader = NoReader => asked = <<>> /\ popped = <<>>

SoFar ==
    reader # NoReader =>
        /\ Received
        /\ reader.err = "none" => AllFit
        /\ reader.err # "none" => SomeMisfit

ChainInv == asked \in Seq(PopTags) /\ SomeReturned /\ IsReader /\ NotAsked /\ SoFar

\* What agrees with a sequence as far as it goes is a prefix of it.
LEMMA PrefixOf ==
    ASSUME NEW S, NEW s \in Seq(S), NEW n \in Nat, n <= Len(s),
           NEW w, w = [i \in 1..n |-> w[i]], \A i \in 1..n : w[i] = s[i]
    PROVE  IsPrefix(w, s)
<1>1. PICK len \in Nat : len = Len(s) /\ n <= len
    BY LenProperties
<1>2. ASSUME NEW i \in 1..n PROVE s[i] \in S
  <2>1. i \in 1..Len(s)
      BY <1>1
  <2> QED
      BY <2>1, ElementOfSeq
<1>3. w \in [1..n -> S]
    BY <1>2
<1>4. PICK t \in Seq(S) : t = w
    BY <1>3, SeqDef
<1>5. Len(t) = n
    BY <1>3, <1>4, LenProperties
<1>6. \A i \in 1..n : t[i] = s[i]
    BY <1>4
<1>7. SubSeq(s, 1, n) \in Seq(S)
    BY <1>2, SubSeqProperties
<1>8. Len(SubSeq(s, 1, n)) = n
    BY <1>2, SubSeqProperties
<1>9. \A i \in 1..n : SubSeq(s, 1, n)[i] = s[i]
    BY <1>2, SubSeqProperties
<1>10. PICK u \in Seq(S) : u = SubSeq(s, 1, n) /\ Len(u) = n /\ \A i \in 1..n : u[i] = s[i]
    BY <1>7, <1>8, <1>9, Zenon
<1>11. t = u
    BY <1>5, <1>6, <1>10, SeqEqual
<1>12. SubSeq(t, 1, n) = t
    BY <1>5, SubSeqFull
<1> QED
    BY <1>1, <1>4, <1>5, <1>10, <1>11, <1>12 DEF IsPrefix

LEMMA InitChain == Init => ChainInv
<1> SUFFICES ASSUME Init PROVE ChainInv
    OBVIOUS
<1>1. reader = NoReader /\ asked = <<>> /\ popped = <<>>
    BY DEF Init, MessageInit
<1>2. asked \in Seq(PopTags)
    BY <1>1, EmptySeq
<1>3. Returned(0)
    BY <1>1 DEF Returned
<1>4. IsReader
    BY <1>1, Zenon DEF NoReader, IsReader, ReaderIs
<1>5. SomeReturned
    BY <1>3 DEF SomeReturned
<1>6. NotAsked /\ SoFar
    BY <1>1 DEF NotAsked, SoFar
<1> QED
    BY <1>2, <1>4, <1>5, <1>6 DEF ChainInv

LEMMA MatchKeepsChain ==
    ASSUME ChainInv, ShapeInv, Match
    PROVE  ChainInv'
<1>1. UNCHANGED <<in, asked, popped>> /\ Received /\ reader = NoReader
    BY DEF Match
<1>2. asked = <<>> /\ popped = <<>> /\ Len(asked) = 0 /\ Len(popped) = 0
    BY <1>1 DEF ChainInv, NotAsked
<1>3. PICK test \in Tests : reader' = Reader(in, FullPatternMatch(test, in.address), test)
    BY DEF Match
<1>4. PICK err : err = ErrorIn(in.err, IF FullPatternMatch(test, in.address) THEN "none" ELSE "pattern")
    OBVIOUS
<1>5. reader' = [idx |-> 0, err |-> err, test |-> test]
    BY <1>3, <1>4 DEF Reader
<1>6. reader'.idx = 0 /\ reader'.err = err /\ reader'.test = test
    BY <1>5
<1>7. ASSUME err = "none" PROVE in.err = "none" /\ FullPatternMatch(test, in.address)
    BY <1>4, <1>7 DEF ErrorIn
<1>8. ASSUME err # "none" PROVE in.err # "none" \/ ~FullPatternMatch(test, in.address)
    BY <1>4, <1>8 DEF ErrorIn
<1>9. reader'.err = "none" => AllFit'
  <2> SUFFICES ASSUME reader'.err = "none" PROVE AllFit'
      OBVIOUS
  <2>1. in.err = "none" /\ FullPatternMatch(test, in.address)
      BY <1>6, <1>7
  <2>2. 0 <= Len(in.arguments)
    <3>1. Shaped(in)
        BY <1>1, <2>1 DEF ShapeInv
    <3> QED
        BY <3>1, LenProperties DEF Shaped
  <2> QED
      BY <1>1, <1>2, <1>6, <2>1, <2>2 DEF AllFit
<1>10. reader'.err # "none" => SomeMisfit'
    BY <1>1, <1>6, <1>8 DEF SomeMisfit
<1>11. Received'
    BY <1>1 DEF Received
<1>12. asked' \in Seq(PopTags)
    BY <1>1 DEF ChainInv
<1>13. SomeReturned'
    BY <1>1 DEF ChainInv, SomeReturned, Returned
<1>14. IsReader'
    BY <1>5, Zenon DEF IsReader, ReaderIs
<1>15. asked' = <<>> /\ popped' = <<>>
    BY <1>1, <1>2
<1>16. NotAsked'
    BY <1>15 DEF NotAsked
<1>17. SoFar'
    BY <1>9, <1>10, <1>11 DEF SoFar
<1> QED
    BY <1>9, <1>10, <1>11, <1>12, <1>13, <1>14, <1>16, <1>17 DEF ChainInv

LEMMA PopKeepsChain ==
    ASSUME ChainInv, ShapeInv, PopArg
    PROVE  ChainInv'
<1>1. UNCHANGED <<out, in, pushed>> /\ reader # NoReader /\ Received
    BY DEF PopArg, ChainInv, SoFar
<1>2. PICK tag \in PopTags :
        /\ reader' = Pop(in, reader, tag) /\ asked' = Append(asked, tag)
        /\ popped' = IF reader'.err = "none" THEN Append(popped, ValueAt(in, reader.idx + 1))
                     ELSE popped
    BY DEF PopArg
<1>3. tag # FalseTag
    BY MessageAssumption
<1>4. PICK idx, err, test : idx \in Nat /\ ReaderIs(reader, idx, err, test)
    BY DEF ChainInv, IsReader
<1>5. reader.idx = idx /\ reader.err = err /\ reader.test = test
    BY <1>4, ReaderHas
<1>6. PICK k \in Nat : k = Len(asked)
  <2>1. asked \in Seq(PopTags)
      BY DEF ChainInv
  <2> QED
      BY <2>1, LenProperties
<1>7. /\ asked' \in Seq(PopTags) /\ Len(asked') = k + 1 /\ asked'[k + 1] = tag
      /\ \A i \in 1..k : asked'[i] = asked[i]
  <2>1. asked \in Seq(PopTags)
      BY DEF ChainInv
  <2>2. PICK more : more = Append(asked, tag)
      BY Zenon
  <2>3. /\ more \in Seq(PopTags) /\ Len(more) = k + 1 /\ more[k + 1] = tag
        /\ \A i \in 1..k : more[i] = asked[i]
      BY <1>6, <2>1, <2>2, AppendProperties
  <2> QED
      BY <1>2, <2>2, <2>3
<1>8. PICK n \in Nat : Returned(n) /\ (n > 0 => in.err = "none" /\ n <= Len(in.arguments))
    BY DEF ChainInv, SomeReturned, Returned
<1>9. CASE err = "none"
  <2>1. /\ in.err = "none" /\ FullPatternMatch(test, in.address)
        /\ idx = k /\ Len(popped) = k /\ k <= Len(in.arguments)
        /\ \A i \in 1..k : Fits(in, i, asked[i])
      BY <1>1, <1>5, <1>6, <1>9 DEF ChainInv, SoFar, AllFit
  <2>2. PICK len \in Nat : len = Len(in.arguments) /\ len = Len(in.tags)
    <3>1. Shaped(in)
        BY <1>1, <2>1 DEF ShapeInv
    <3> QED
        BY <3>1, LenProperties DEF Shaped
  <2>3. n = k /\ popped = [i \in 1..k |-> ValueAt(in, i)]
    <3>1. popped = [i \in 1..n |-> ValueAt(in, i)]
        BY <1>8 DEF Returned
    <3>2. Len(popped) = n
        BY <3>1
    <3> QED
        BY <2>1, <3>1, <3>2
  <2>4. ReaderIs(reader, k, "none", test)
      BY <1>4, <1>9, <2>1
  <2>5. Len(in.arguments) = len /\ Len(in.tags) = len
      BY <2>2
  <2>6. k <= len
      BY <2>1, <2>2
  <2>7. /\ k < len /\ Fits(in, k + 1, tag) => ReaderIs(reader', k + 1, "none", test)
        /\ ~(k < len /\ Fits(in, k + 1, tag)) =>
            \E next \in Nat : \E error :
                error # "none" /\ ReaderIs(reader', next, error, test)
    <3>1. Len(in.arguments) = len
        BY <2>5
    <3>2. PICK next : next = Pop(in, reader, tag)
        OBVIOUS
    <3>3. /\ k < len /\ Fits(in, k + 1, tag) => ReaderIs(next, k + 1, "none", test)
          /\ ~(k < len /\ Fits(in, k + 1, tag)) =>
            \E to \in Nat : \E error : error # "none" /\ ReaderIs(next, to, error, test)
        BY <1>3, <2>4, <3>1, <3>2, PopGood, Zenon
    <3> QED
        BY <1>2, <3>2, <3>3
  <2>8. CASE k < len /\ Fits(in, k + 1, tag)
    <3>1. ReaderIs(reader', k + 1, "none", test)
        BY <2>8, <2>7
    <3>2. reader'.idx = k + 1 /\ reader'.err = "none" /\ reader'.test = test
        BY <3>1, ReaderHas
    <3>3. reader' # NoReader
        BY <3>2 DEF NoReader
    <3>4. popped' = [i \in 1..(k + 1) |-> ValueAt(in, i)]
      <4>1. popped' = Append(popped, ValueAt(in, k + 1))
          BY <1>2, <1>5, <2>1, <3>2
      <4>2. Append([i \in 1..k |-> ValueAt(in, i)], ValueAt(in, k + 1))
            = [i \in 1..(k + 1) |-> ValueAt(in, i)]
          OBVIOUS
      <4> QED
          BY <2>3, <4>1, <4>2
    <3>5. Len(popped') = k + 1
        BY <3>4
    <3>6. ASSUME NEW i \in 1..(k + 1) PROVE Fits(in, i, asked'[i])
      <4>1. CASE i = k + 1
          BY <1>7, <2>1, <2>8, <4>1
      <4>2. CASE i \in 1..k
          BY <1>7, <2>1, <4>2
      <4> QED
          BY <4>1, <4>2
    <3>7. AllFit'
      <4>1. k + 1 <= Len(in.arguments)
          BY <2>1, <2>2, <2>8
      <4> QED
          BY <1>1, <1>7, <2>1, <3>2, <3>5, <3>6, <4>1 DEF AllFit, Fits
    <3>8. Returned(k + 1)' /\ k + 1 \in Nat
        BY <1>1, <3>4 DEF Returned
    <3>9. SomeReturned'
        BY <1>1, <2>1, <2>8, <2>5, <3>8 DEF SomeReturned
    <3>10. IsReader'
        BY <3>1 DEF IsReader
    <3>11. NotAsked' /\ SoFar'
        BY <1>1, <3>2, <3>3, <3>7 DEF NotAsked, SoFar, Received
    <3> QED
        BY <1>7, <3>9, <3>10, <3>11 DEF ChainInv
  <2>9. CASE ~(k < len /\ Fits(in, k + 1, tag))
    <3>1. PICK next, error : next \in Nat /\ error # "none" /\ ReaderIs(reader', next, error, test)
        BY <2>9, <2>7
    <3>2. reader'.err # "none" /\ reader'.test = test
        BY <3>1, ReaderHas
    <3>3. reader' # NoReader
      <4>1. NoReader.err = "none"
          BY DEF NoReader
      <4> QED
          BY <3>2, <4>1
    <3>4. SomeMisfit'
      <4>1. CASE k >= len
        <5>1. k + 1 > len
            BY <2>6, <4>1
        <5>2. Len(asked') > Len(in.tags)
            BY <1>7, <2>5, <5>1
        <5> QED
            BY <1>1, <5>2 DEF SomeMisfit
      <4>2. CASE ~Fits(in, k + 1, tag) /\ k < len
        <5>1. k + 1 \in 1..(k + 1) /\ k + 1 <= Len(in.tags) /\ ~Fits(in, k + 1, asked'[k + 1])
          <6>1. k + 1 \in 1..(k + 1) /\ k + 1 <= len
              BY <2>6, <4>2
          <6>2. ~Fits(in, k + 1, tag)
              BY <4>2
          <6> QED
              BY <1>7, <2>5, <6>1, <6>2
        <5>2. \E i \in 1..Len(asked') : i <= Len(in.tags) /\ ~Fits(in, i, asked'[i])
            BY <1>7, <5>1
        <5> QED
            BY <1>1, <5>2 DEF SomeMisfit, Fits
      <4> QED
          BY <2>9, <2>6, <4>1, <4>2
    <3>5. popped' = popped
        BY <1>2, <3>2
    <3>6. SomeReturned'
        BY <1>1, <1>8, <3>5 DEF SomeReturned, Returned
    <3>7. IsReader'
        BY <3>1 DEF IsReader
    <3>8. NotAsked' /\ SoFar'
        BY <1>1, <3>2, <3>3, <3>4 DEF NotAsked, SoFar, Received
    <3> QED
        BY <1>7, <3>6, <3>7, <3>8 DEF ChainInv
  <2> QED
      BY <2>8, <2>9
<1>10. CASE err # "none"
  <2>1. PICK next \in Nat : ReaderIs(reader', next, err, test)
      BY <1>2, <1>4, <1>10, PopBad
  <2>2. reader'.err # "none" /\ reader'.test = reader.test
      BY <1>5, <1>10, <2>1, ReaderHas
  <2>3. reader' # NoReader
      BY <2>2 DEF NoReader
  <2>4. SomeMisfit
      BY <1>1, <1>5, <1>10 DEF ChainInv, SoFar
  <2>5. SomeMisfit'
    <3>1. CASE in.err # "none" \/ ~FullPatternMatch(reader.test, in.address)
        BY <1>1, <2>2, <3>1 DEF SomeMisfit
    <3>2. CASE Len(asked) > Len(in.tags)
      <4>1. CASE in.err # "none"
          BY <1>1, <4>1 DEF SomeMisfit
      <4>2. CASE in.err = "none"
        <5>1. Len(in.tags) \in Nat
          <6>1. Shaped(in)
              BY <1>1, <4>2 DEF ShapeInv
          <6> QED
              BY <6>1, LenProperties DEF Shaped
        <5>2. Len(asked') > Len(in.tags)
            BY <1>6, <1>7, <3>2, <5>1
        <5> QED
            BY <1>1, <5>2 DEF SomeMisfit
      <4> QED
          BY <4>1, <4>2
    <3>3. CASE \E i \in 1..Len(asked) : i <= Len(in.tags) /\ ~Fits(in, i, asked[i])
      <4>1. PICK i \in 1..k : i <= Len(in.tags) /\ ~Fits(in, i, asked[i])
          BY <1>6, <3>3
      <4>2. i \in 1..(k + 1) /\ asked'[i] = asked[i]
          BY <1>7
      <4>3. \E j \in 1..Len(asked') : j <= Len(in.tags) /\ ~Fits(in, j, asked'[j])
          BY <1>7, <4>1, <4>2
      <4> QED
          BY <1>1, <4>3 DEF SomeMisfit, Fits
    <3> QED
        BY <2>4, <3>1, <3>2, <3>3 DEF SomeMisfit
  <2>6. popped' = popped
      BY <1>2, <2>2
  <2>7. SomeReturned'
      BY <1>1, <1>8, <2>6 DEF SomeReturned, Returned
  <2>8. IsReader'
      BY <2>1 DEF IsReader
  <2>9. NotAsked' /\ SoFar'
      BY <1>1, <2>2, <2>3, <2>5 DEF NotAsked, SoFar, Received
  <2> QED
      BY <1>7, <2>7, <2>8, <2>9 DEF ChainInv
<1> QED
    BY <1>9, <1>10

LEMMA StepChain ==
    ASSUME ChainInv, ShapeInv, [Next]_vars
    PROVE  ChainInv'
<1>1. CASE NewMessage \/ PushArg \/ Arrives
  <2>1. ~Received /\ UNCHANGED <<reader, asked, popped>>
      BY <1>1 DEF NewMessage, PushArg, Arrives
  <2>2. reader = NoReader /\ asked = <<>> /\ popped = <<>>
      BY <2>1 DEF ChainInv, SoFar, NotAsked
  <2>3. SomeReturned'
    <3>1. popped' = <<>>
        BY <2>1, <2>2
    <3>2. Returned(0)'
        BY <3>1 DEF Returned
    <3> QED
        BY <3>2 DEF SomeReturned
  <2>4. reader' = NoReader /\ asked' = <<>> /\ popped' = <<>>
      BY <2>1, <2>2
  <2>5. IsReader'
      BY <2>4, Zenon DEF NoReader, IsReader, ReaderIs
  <2>6. asked' \in Seq(PopTags)
      BY <2>4, EmptySeq
  <2> QED
      BY <2>3, <2>4, <2>5, <2>6 DEF ChainInv, NotAsked, SoFar
<1>2. CASE Match
    BY <1>2, MatchKeepsChain
<1>3. CASE PopArg
    BY <1>3, PopKeepsChain
<1>4. CASE UNCHANGED messageVars \/ UNCHANGED vars
  <2>1. UNCHANGED <<in, reader, asked, popped>>
      BY <1>4 DEF messageVars, vars
  <2> QED
      BY <2>1 DEF ChainInv, SomeReturned, IsReader, NotAsked, SoFar, Returned, AllFit, SomeMisfit, Received, Fits
<1> QED
    BY <1>1, <1>2, <1>3, <1>4 DEF Next, MessageNext

\* An ArgReader without an error has taken the next argument with every call; one
\* with an error has a reason for it that no later call takes away.
THEOREM SpecChain == Spec => []ChainInv
<1>1. Init => ChainInv
    BY InitChain
<1>2. SenderInv /\ ArrivedInv /\ ForeignInv => ShapeInv
    BY ShapeFollows
<1>3. ChainInv /\ ShapeInv /\ [Next]_vars => ChainInv'
    BY StepChain
<1> QED
    BY <1>1, <1>2, <1>3, SpecSender, SpecForeign, PTL DEF Spec

\* The chain match().popXXX()...isOkNoMoreArgs() is true exactly if the address
\* matched and the calls are those for the message's arguments, one each; and
\* what the calls returned is what was pushed.
THEOREM ChainIsTrue == Spec => []ChainTellsTheTruth
<1>1. SenderInv /\ ArrivedInv /\ ForeignInv /\ ChainInv => ChainTellsTheTruth
  <2> SUFFICES ASSUME SenderInv, ArrivedInv, ForeignInv, ChainInv, reader # NoReader
               PROVE  /\ IsOkNoMoreArgs(in, reader) <=>
                            /\ in.err = "none" /\ FullPatternMatch(reader.test, in.address)
                            /\ Len(asked) = Len(in.tags)
                            /\ \A i \in DOMAIN asked :
                                asked[i] \in {AnyType, IF in.tags[i] \in Bools THEN TrueTag
                                                       ELSE in.tags[i]}
                      /\ FromSender => IsPrefix(popped, pushed)
      BY DEF ChainTellsTheTruth
  <2>1. ShapeInv
      BY ShapeFollows
  <2>2. Received
      BY DEF ChainInv, SoFar
  <2>3. PICK k \in Nat : k = Len(asked) /\ DOMAIN asked = 1..k
    <3>1. asked \in Seq(PopTags)
        BY DEF ChainInv
    <3> QED
        BY <3>1, LenProperties
  <2>4. ASSUME IsOkNoMoreArgs(in, reader)
        PROVE  /\ in.err = "none" /\ FullPatternMatch(reader.test, in.address)
               /\ k = Len(in.tags) /\ \A i \in 1..k : Fits(in, i, asked[i])
    <3>1. reader.err = "none" /\ Len(in.arguments) - reader.idx = 0
        BY <2>4 DEF IsOkNoMoreArgs, NoneLeft
    <3>2. AllFit
        BY <3>1 DEF ChainInv, SoFar
    <3>3. PICK len \in Nat : len = Len(in.arguments) /\ len = Len(in.tags)
      <4>1. Shaped(in)
          BY <2>1, <2>2, <3>2 DEF ShapeInv, AllFit
      <4> QED
          BY <4>1, LenProperties DEF Shaped
    <3> QED
        BY <2>3, <3>1, <3>2, <3>3 DEF AllFit
  <2>5. ASSUME in.err = "none", FullPatternMatch(reader.test, in.address),
               k = Len(in.tags), \A i \in 1..k : Fits(in, i, asked[i])
        PROVE  IsOkNoMoreArgs(in, reader)
    <3>1. ~SomeMisfit
        BY <2>3, <2>5 DEF SomeMisfit
    <3>2. reader.err = "none" /\ AllFit
        BY <3>1 DEF ChainInv, SoFar
    <3>3. Len(in.arguments) = k
        BY <2>1, <2>2, <2>5 DEF ShapeInv, Shaped
    <3>4. reader.idx = k
        BY <2>3, <3>2 DEF AllFit
    <3> QED
        BY <3>2, <3>3, <3>4 DEF IsOkNoMoreArgs, NoneLeft
  <2>6. FromSender => IsPrefix(popped, pushed)
    <3> SUFFICES ASSUME FromSender PROVE IsPrefix(popped, pushed)
        OBVIOUS
    <3>1. PICK n \in Nat : /\ popped = [i \in 1..n |-> ValueAt(in, i)]
                           /\ n > 0 => n <= Len(in.arguments)
        BY DEF ChainInv, SomeReturned, Returned
    <3>2. PICK values \in Seq(Value) : values = pushed
        BY DEF SenderInv
    <3>3. PICK len \in Nat : len = Len(values) /\ len = Len(in.arguments)
      <4>1. Len(in.arguments) = Len(pushed)
          BY DEF ArrivedInv, Arrived
      <4> QED
          BY <3>2, <4>1, LenProperties
    <3>4. n <= len
        BY <3>1, <3>3
    <3>5. \A i \in 1..len : ValueAt(in, i) = values[i]
        BY <3>2, <3>3 DEF ArrivedInv, Arrived
    <3>6. \A i \in 1..n : popped[i] = values[i]
        BY <3>1, <3>4, <3>5
    <3>7. popped = [i \in 1..n |-> popped[i]]
        BY <3>1
    <3> QED
        BY <3>2, <3>3, <3>4, <3>6, <3>7, PrefixOf, Zenon
  <2> QED
      BY <2>3, <2>4, <2>5, <2>6 DEF Fits
<1> QED
    BY <1>1, SpecSender, SpecForeign, SpecChain, PTL

-----------------------------------------------------------------------------
(* What the frame is *)

\* What the clients send.
LEMMA ClientsSend ==
    /\ \A message \in Texts \cup Messages : message \in Seq(0..255)
    /\ \A stale \in Stale : stale \in Seq(0..255)
    /\ \A name \in Names : name \in Chars
    /\ \A pattern \in Patterns : pattern \in Chars
    /\ \A path \in Paths : path \in Chars
    /\ \A args \in ArgLists : args \in Seq(Value)
    /\ \A v \in Numbers : v \in (-MaxInt - 1)..MaxInt
    /\ \A c \in Controllers : c \in 0..127
    /\ \A position \in Positions : position \in 0..127
<1>1. /\ Names \subseteq Chars /\ Patterns \subseteq Chars /\ Paths \subseteq Chars
      /\ ArgLists \subseteq Seq(Value) /\ Numbers \subseteq (-MaxInt - 1)..MaxInt
      /\ Controllers \subseteq 0..127 /\ Positions \subseteq 0..127
    BY ClientsAssumption, Zenon DEF Chars
<1>2. Texts \subseteq Seq(0..255) /\ Messages \subseteq Seq(0..255) /\ Stale \subseteq Seq(0..255)
    BY ClientsAssumption, Zenon
<1> QED
    BY <1>1, <1>2, Zenon

\* What the daemon writes for each kind of request.
ColorFramed ==
    request.kind = "color" =>
        request.message \in Texts /\ \E stale \in Stale : frame = ColorFrame(request.message, stale)

RawFramed ==
    request.kind = "raw" =>
        request.message \in Messages /\ \E stale \in Stale : frame = RawFrame(request.message, stale)

RgbFramed ==
    request.kind = "rgb" =>
        /\ request.name \in Names
        /\ \E v \in Numbers : request.numbers = <<v, 255, v>>
        /\ frame = OscFrame(RgbMessage(request.name, request.numbers))

OriFramed ==
    request.kind = "ori" =>
        /\ \E v \in Numbers, w \in Numbers : request.numbers = <<v, w, v>>
        /\ frame = OscFrame(Osc(OriPath, [k \in 1..3 |-> Int32(request.numbers[k])]))

OtherFramed ==
    request.kind = "other" =>
        /\ request.args \in ArgLists
        /\ \E address \in {OriPath, LampsPath \o <<48>> \o RgbPath} :
              frame = OscFrame(Osc(address, request.args))

\* What the bridge makes of a knob, with what it remembers of the others.
MoveFramed ==
    request.kind = "moved" =>
        /\ request.controller \in 0..127 /\ ForMoodlamp(request.controller)
        /\ request.position \in 0..127
        /\ controllerState[request.controller] = request.position * 2
        /\ frame = OscFrame(RgbMessage(LampName(NumberFor(request.controller)),
                [k \in 1..3 |-> controllerState[FirstOf(request.controller) + k - 1]]))

Asked == request.kind = "match" => request.pattern \in Patterns /\ request.path \in Paths

\* The frame is what the daemon makes of the request, and of what the bridge
\* remembers; nothing that came before it matters.
FrameInv ==
    /\ controllerState \in [0..127 -> 0..254]
    /\ ColorFramed /\ RawFramed /\ RgbFramed /\ OriFramed /\ OtherFramed /\ MoveFramed /\ Asked

\* A step that makes a request of one kind has to frame that kind only.
LEMMA OtherKinds ==
    /\ request'.kind # "color" => ColorFramed'
    /\ request'.kind # "raw" => RawFramed'
    /\ request'.kind # "rgb" => RgbFramed'
    /\ request'.kind # "ori" => OriFramed'
    /\ request'.kind # "other" => OtherFramed'
    /\ request'.kind # "moved" => MoveFramed'
    /\ request'.kind # "match" => Asked'
BY DEF ColorFramed, RawFramed, RgbFramed, OriFramed, OtherFramed, MoveFramed, Asked

LEMMA MovedKeepsFrame ==
    ASSUME FrameInv, NEW c \in Controllers, NEW position \in Positions, Moved(c, position)
    PROVE  FrameInv'
<1>1. c \in 0..127 /\ position \in 0..127 /\ position * 2 \in 0..254
  <2>1. c \in 0..127 /\ position \in 0..127
      BY ClientsAssumption, ZenonT(60)
  <2> QED
      BY <2>1
<1>2. controllerState' \in [0..127 -> 0..254] /\ controllerState'[c] = position * 2
    BY <1>1, Zenon DEF FrameInv, Moved
<1>3. CASE ForMoodlamp(c)
  <2>1. request' = [kind |-> "moved", controller |-> c, position |-> position]
      BY <1>3 DEF Moved
  <2>2. request'.kind = "moved" /\ request'.controller = c /\ request'.position = position
      BY <2>1
  <2>3. frame' = OscFrame(RgbMessage(LampName(NumberFor(c)),
                [k \in 1..3 |-> controllerState'[FirstOf(c) + k - 1]]))
      BY <1>3 DEF Moved, AsStored
  <2> QED
      BY <1>1, <1>2, <1>3, <2>2, <2>3, OtherKinds, Zenon DEF FrameInv, MoveFramed
<1>4. CASE ~ForMoodlamp(c)
  <2>1. request'.kind = "dali"
      BY <1>4 DEF Moved
  <2> QED
      BY <1>2, <2>1, OtherKinds, Zenon DEF FrameInv
<1> QED
    BY <1>3, <1>4

\* FrameInv, part by part.
LEMMA FrameParts ==
    FrameInv =>
        /\ controllerState \in [0..127 -> 0..254]
        /\ ColorFramed /\ RawFramed /\ RgbFramed /\ OriFramed /\ OtherFramed /\ MoveFramed /\ Asked
BY Zenon DEF FrameInv

\* What says nothing but what the frame is stays true while nothing is asked.
LEMMA FrameStays ==
    ASSUME FrameInv, UNCHANGED <<controllerState, request, frame>>
    PROVE  FrameInv'
<1>1. controllerState' = controllerState /\ request' = request /\ frame' = frame
    OBVIOUS
<1>2. /\ controllerState \in [0..127 -> 0..254]
      /\ ColorFramed /\ RawFramed /\ RgbFramed /\ OriFramed /\ OtherFramed /\ MoveFramed /\ Asked
    BY FrameParts, Zenon
<1>3. ColorFramed' /\ RawFramed' /\ Asked'
    BY <1>1, <1>2 DEF ColorFramed, RawFramed, Asked
<1>4. RgbFramed'
    BY <1>1, <1>2, Zenon DEF RgbFramed
<1>5. OriFramed'
    BY <1>1, <1>2, Zenon DEF OriFramed
<1>6. OtherFramed'
    BY <1>1, <1>2, Zenon DEF OtherFramed
<1>7. MoveFramed'
    BY <1>1, <1>2, Zenon DEF MoveFramed
<1> QED
    BY <1>1, <1>2, <1>3, <1>4, <1>5, <1>6, <1>7, ZenonT(60) DEF FrameInv

\* Along the steps, the frame is what was asked for.
LEMMA SpecFrame == Spec => []FrameInv
<1>1. Init => FrameInv
    BY DEF Init, FrameInv, ColorFramed, RawFramed, RgbFramed, OriFramed, OtherFramed, MoveFramed,
           Asked
<1>2. FrameInv /\ [Next]_vars => FrameInv'
  <2> SUFFICES ASSUME FrameInv, [Next]_vars PROVE FrameInv'
      OBVIOUS
  <2>1. CASE \E c \in Controllers, position \in Positions : Moved(c, position)
      BY <2>1, MovedKeepsFrame
  <2>2. CASE ColorSent /\ UNCHANGED controllerState
    <3>1. PICK message \in Texts, stale \in Stale :
            request' = [kind |-> "color", message |-> message] /\ frame' = ColorFrame(message, stale)
        BY <2>2 DEF ColorSent
    <3>2. request'.kind = "color" /\ request'.message = message
        BY <3>1
    <3> QED
        BY <2>2, <3>1, <3>2, OtherKinds, Zenon DEF FrameInv, ColorFramed
  <2>3. CASE RawSent /\ UNCHANGED controllerState
    <3>1. PICK message \in Messages, stale \in Stale :
            request' = [kind |-> "raw", message |-> message] /\ frame' = RawFrame(message, stale)
        BY <2>3 DEF RawSent
    <3>2. request'.kind = "raw" /\ request'.message = message
        BY <3>1
    <3> QED
        BY <2>3, <3>1, <3>2, OtherKinds, Zenon DEF FrameInv, RawFramed
  <2>4. CASE RgbSent /\ UNCHANGED controllerState
    <3>1. PICK name \in Names, v \in Numbers :
            /\ request' = [kind |-> "rgb", name |-> name, numbers |-> <<v, 255, v>>]
            /\ frame' = OscFrame(RgbMessage(name, request'.numbers))
        BY <2>4 DEF RgbSent
    <3>2. request'.kind = "rgb" /\ request'.name = name /\ request'.numbers = <<v, 255, v>>
        BY <3>1
    <3> QED
        BY <2>4, <3>1, <3>2, OtherKinds, Zenon DEF FrameInv, RgbFramed
  <2>5. CASE OriSent /\ UNCHANGED controllerState
    <3>1. PICK v \in Numbers, w \in Numbers :
            /\ request' = [kind |-> "ori", numbers |-> <<v, w, v>>]
            /\ frame' = OscFrame(Osc(OriPath, [k \in 1..3 |-> Int32(request'.numbers[k])]))
        BY <2>5 DEF OriSent
    <3>2. request'.kind = "ori" /\ request'.numbers = <<v, w, v>>
        BY <3>1
    <3> QED
        BY <2>5, <3>1, <3>2, OtherKinds, Zenon DEF FrameInv, OriFramed
  <2>6. CASE OtherOscSent /\ UNCHANGED controllerState
    <3>1. PICK args \in ArgLists, address \in {OriPath, LampsPath \o <<48>> \o RgbPath} :
            request' = [kind |-> "other", args |-> args] /\ frame' = OscFrame(Osc(address, args))
        BY <2>6, Zenon DEF OtherOscSent
    <3>2. request'.kind = "other" /\ request'.args = args
        BY <3>1
    <3> QED
        BY <2>6, <3>1, <3>2, OtherKinds, Zenon DEF FrameInv, OtherFramed
  <2>7. CASE Matched /\ UNCHANGED controllerState
    <3>1. PICK pattern \in Patterns, path \in Paths :
            request' = [kind |-> "match", pattern |-> pattern, path |-> path]
        BY <2>7 DEF Matched
    <3>2. request'.kind = "match" /\ request'.pattern = pattern /\ request'.path = path
        BY <3>1
    <3> QED
        BY <2>7, <3>1, <3>2, OtherKinds, Zenon DEF FrameInv, Asked
  <2>8. CASE UNCHANGED <<controllerState, request, frame>>
      BY <2>8, FrameStays
  <2> QED
      BY <2>1, <2>2, <2>3, <2>4, <2>5, <2>6, <2>7, <2>8 DEF Next, vars
<1> QED
    BY <1>1, <1>2, PTL DEF Spec

\* fullPatternMatch accepts what a pattern means, whatever the pattern and the
\* path: a C string has no 0 in it.
THEOREM FullMatchIsTrue == Spec => []MatchIsMeant
<1>1. FrameInv => MatchIsMeant
    BY ClientsSend, FullMatchUnderstood, Zenon DEF FrameInv, Asked, MatchIsMeant
<1> QED
    BY <1>1, SpecFrame, PTL

\* partialPatternMatch accepts what the beginning of a pattern means.
THEOREM PartialMatchIsTrue == Spec => []PartialIsMeant
<1>1. FrameInv => PartialIsMeant
    BY ClientsSend, PartialMatchUnderstood, Zenon DEF FrameInv, Asked, PartialIsMeant
<1> QED
    BY <1>1, SpecFrame, PTL

\* What the test of the pattern matcher expects of the directory of a path that
\* matches, whatever the pattern and the path.
THEOREM DirectoryMatchIsTrue == Spec => []DirectoryMatches
<1>1. FrameInv => DirectoryMatches
    BY ClientsSend, DirectoryUnderstood, Zenon DEF FrameInv, Asked, DirectoryMatches
<1> QED
    BY <1>1, SpecFrame, PTL

-----------------------------------------------------------------------------
(* The daemon's two patterns *)

\* The pattern of the addresses of colours.
RgbPattern == LampsPath \o <<Star>> \o RgbPath

\* The path of orientations has no special characters.
LEMMA OriLiteral == OriPath \in Chars /\ Len(OriPath) = 4 /\ \A p \in 1..4 : LiteralAt(OriPath, p)
<1>1. OriPath \in Chars /\ Len(OriPath) = 4 /\ DOMAIN OriPath = 1..4
    BY DEF OriPath, Chars
<1>2. OriPath[1] = 47 /\ OriPath[2] = 111 /\ OriPath[3] = 114 /\ OriPath[4] = 105
    BY DEF OriPath
<1>3. At(OriPath, 2) = 111
    BY <1>1, <1>2 DEF At
<1> QED
    BY <1>1, <1>2, <1>3 DEF LiteralAt, Star, Question, LBracket, LBrace, Slash

\* What stands in a sequence behind another.
LEMMA JoinedSecond ==
    ASSUME NEW S, NEW a \in Seq(S), NEW b \in Seq(S), NEW i \in 1..Len(b)
    PROVE  Joined(a, b)[Len(a) + i] = b[i]
BY JoinedPlaces

\* The front of two parts is the first of them.
LEMMA JoinedFirst ==
    ASSUME NEW S, NEW a \in Seq(S), NEW b \in Seq(S), NEW i \in 1..Len(a)
    PROVE  Joined(a, b)[i] = a[i]
BY JoinedPlaces

\* ab is a and behind it b, with their lengths.
IsPair(ab, a, b, n, j) ==
    /\ Len(ab) = n + j
    /\ \A i \in 1..n : ab[i] = a[i]
    /\ \A i \in 1..j : ab[n + i] = b[i]

\* abc is a, b and c, of n, j and k characters, one behind the other.
IsTriple(abc, a, b, c, n, j, k) ==
    /\ Len(abc) = n + j + k
    /\ \A i \in 1..n : abc[i] = a[i]
    /\ \A i \in 1..j : abc[n + i] = b[i]
    /\ \A i \in 1..k : abc[n + j + i] = c[i]

\* Two sequences, one behind the other.
LEMMA TwoParts ==
    ASSUME NEW S, NEW a \in Seq(S), NEW b \in Seq(S),
           NEW n \in Nat, Len(a) = n, NEW j \in Nat, Len(b) = j
    PROVE  Joined(a, b) \in Seq(S) /\ IsPair(Joined(a, b), a, b, n, j)
<1>0. PICK ab : ab = Joined(a, b)
    OBVIOUS
<1>1. ab \in Seq(S)
    BY <1>0, JoinedPlaces
<1>2. Len(ab) = n + j
    BY <1>0, JoinedLen
<1>3. ASSUME NEW i \in 1..n PROVE ab[i] = a[i]
  <2>1. i \in 1..Len(a)
      OBVIOUS
  <2>2. Joined(a, b)[i] = a[i]
      BY <2>1, JoinedFirst
  <2> QED
      BY <1>0, <2>2
<1>4. ASSUME NEW i \in 1..j PROVE ab[n + i] = b[i]
  <2>1. i \in 1..Len(b)
      OBVIOUS
  <2>2. Joined(a, b)[Len(a) + i] = b[i]
      BY <2>1, JoinedSecond, Zenon
  <2> QED
      BY <1>0, <2>2
<1> QED
    BY <1>0, <1>1, <1>2, <1>3, <1>4 DEF IsPair

\* What stands where in two sequences with something between them.
LEMMA Between ==
    ASSUME NEW S, NEW a \in Seq(S), NEW b \in Seq(S), NEW c \in Seq(S),
           NEW n \in Nat, Len(a) = n, NEW j \in Nat, Len(b) = j, NEW k \in Nat, Len(c) = k
    PROVE  a \o b \o c \in Seq(S) /\ IsTriple(a \o b \o c, a, b, c, n, j, k)
<1>1. PICK ab : ab = Joined(a, b)
    OBVIOUS
<1>2. PICK abc : abc = Joined(ab, c)
    OBVIOUS
<1>3. abc = a \o b \o c
    BY <1>1, <1>2 DEF Joined
<1>4. PICK nj \in Nat : nj = n + j
    OBVIOUS
<1>5. ab \in Seq(S) /\ IsPair(ab, a, b, n, j)
    BY <1>1, TwoParts
<1>6. Len(ab) = nj
    BY <1>4, <1>5 DEF IsPair
<1>7. abc \in Seq(S) /\ IsPair(abc, ab, c, nj, k)
    BY <1>2, <1>5, <1>6, TwoParts
<1>8. Len(abc) = n + j + k /\ \A i \in 1..n : abc[i] = a[i]
    BY <1>4, <1>5, <1>7 DEF IsPair
<1>9. \A i \in 1..j : abc[n + i] = b[i]
  <2> TAKE i \in 1..j
  <2>1. n + i \in 1..nj
      BY <1>4
  <2>2. abc[n + i] = ab[n + i]
      BY <1>7, <2>1 DEF IsPair
  <2> QED
      BY <1>5, <2>2 DEF IsPair
<1>10. \A i \in 1..k : abc[n + j + i] = c[i]
    BY <1>4, <1>7 DEF IsPair
<1> QED
    BY <1>3, <1>7, <1>8, <1>9, <1>10, Zenon DEF IsTriple

\* The paths, character by character.
LEMMA PathsAre ==
    /\ LampsPath \in Chars /\ Len(LampsPath) = 14
    /\ LampsPath[1] = Slash /\ LampsPath[2] = 109 /\ LampsPath[8] = Slash /\ LampsPath[14] = Slash
    /\ \A i \in 1..14 : i \notin {1, 8, 14} => LampsPath[i] \in 97..122
    /\ RgbPath \in Chars /\ Len(RgbPath) = 4
    /\ RgbPath[1] = Slash /\ \A i \in 2..4 : RgbPath[i] \in 97..122
    /\ <<Star>> \in Chars /\ Len(<<Star>>) = 1 /\ <<Star>>[1] = Star
<1>1. LampsPath \in Chars /\ Len(LampsPath) = 14
    BY DEF LampsPath, Chars
<1>2. LampsPath[1] = Slash /\ LampsPath[2] = 109 /\ LampsPath[8] = Slash /\ LampsPath[14] = Slash
    BY DEF LampsPath, Slash
<1>3. \A i \in 1..14 : i \notin {1, 8, 14} => LampsPath[i] \in 97..122
  <2>1. \A i \in {2, 3, 4, 5, 6, 7} : LampsPath[i] \in 97..122
      BY DEF LampsPath
  <2>2. \A i \in {9, 10, 11, 12, 13} : LampsPath[i] \in 97..122
      BY DEF LampsPath
  <2>3. \A i \in 1..14 : i \notin {1, 8, 14} => i \in {2, 3, 4, 5, 6, 7} \cup {9, 10, 11, 12, 13}
      OBVIOUS
  <2> QED
      BY <2>1, <2>2, <2>3
<1>4. RgbPath \in Chars /\ Len(RgbPath) = 4 /\ RgbPath[1] = Slash
    BY DEF RgbPath, Chars, Slash
<1>5. \A i \in 2..4 : RgbPath[i] \in 97..122
    BY DEF RgbPath
<1>6. <<Star>> \in Chars /\ Len(<<Star>>) = 1 /\ <<Star>>[1] = Star
    BY DEF Chars, Star
<1> QED
    BY <1>1, <1>2, <1>3, <1>4, <1>5, <1>6

\* The pattern of colours, character by character.
LEMMA RgbPatternIs ==
    /\ RgbPattern \in Chars /\ Len(RgbPattern) = 19 /\ RgbPattern[15] = Star
    /\ \A i \in 1..14 : RgbPattern[i] = LampsPath[i]
    /\ \A i \in 1..4 : RgbPattern[15 + i] = RgbPath[i]
    /\ \A p \in 1..19 : p # 15 => LiteralAt(RgbPattern, p)
<1>1. /\ RgbPattern \in Chars /\ Len(RgbPattern) = 19
      /\ \A i \in 1..14 : RgbPattern[i] = LampsPath[i]
      /\ \A i \in 1..1 : RgbPattern[14 + i] = <<Star>>[i]
      /\ \A i \in 1..4 : RgbPattern[15 + i] = RgbPath[i]
  <2>1. PICK n \in Nat, j \in Nat, k \in Nat : n = 14 /\ j = 1 /\ k = 4
      OBVIOUS
  <2>2. PICK x \in Chars, y \in Chars, z \in Chars :
            /\ x = LampsPath /\ y = <<Star>> /\ z = RgbPath
            /\ Len(x) = n /\ Len(y) = j /\ Len(z) = k
      BY <2>1, PathsAre
  <2>3. PICK p : p = x \o y \o z
      BY Zenon
  <2>4. /\ p \in Chars /\ Len(p) = n + j + k
        /\ \A i \in 1..n : p[i] = x[i]
        /\ \A i \in 1..j : p[n + i] = y[i]
        /\ \A i \in 1..k : p[n + j + i] = z[i]
    <3>1. x \in Seq(1..255) /\ y \in Seq(1..255) /\ z \in Seq(1..255)
        BY DEF Chars
    <3>2. p \in Seq(1..255) /\ IsTriple(p, x, y, z, n, j, k)
        BY <2>2, <2>3, <3>1, Between, ZenonT(60)
    <3> QED
        BY <3>2, Zenon DEF Chars, IsTriple
  <2>5. p = RgbPattern
      BY <2>2, <2>3 DEF RgbPattern
  <2> QED
      BY <2>1, <2>2, <2>4, <2>5
<1>2. PICK s \in Chars : s = RgbPattern /\ Len(s) = 19
    BY <1>1
<1>3. s[15] = Star /\ \A i \in 1..4 : s[15 + i] = RgbPath[i]
    BY <1>1, <1>2, PathsAre
<1>4. /\ s[1] = Slash /\ s[8] = Slash /\ s[14] = Slash /\ s[16] = Slash
      /\ \A i \in 1..19 : i \notin {1, 8, 14, 15, 16} => s[i] \in 97..122
  <2>1. s[1] = Slash /\ s[8] = Slash /\ s[14] = Slash
      BY <1>1, <1>2, PathsAre
  <2>2. s[15 + 1] = Slash
      BY <1>3, PathsAre
  <2>3. \A i \in 1..14 : i \notin {1, 8, 14} => s[i] \in 97..122
      BY <1>1, <1>2, PathsAre
  <2>4. \A j \in 2..4 : s[15 + j] \in 97..122
      BY <1>3, PathsAre
  <2>5. \A i \in 17..19 : \E j \in 2..4 : i = 15 + j
    <3> TAKE i \in 17..19
    <3>1. i - 15 \in 2..4 /\ i = 15 + (i - 15)
        OBVIOUS
    <3> QED
        BY <3>1
  <2>6. \A i \in 1..19 : i \notin {1, 8, 14, 15, 16} => i \in 17..19 \/ (i \in 1..14 /\ i \notin {1, 8, 14})
      OBVIOUS
  <2> QED
      BY <2>1, <2>2, <2>3, <2>4, <2>5, <2>6
<1>5. \A p \in 1..19 : p # 15 => s[p] \notin {Star, Question, LBracket, LBrace}
  <2>1. \A c \in 97..122 : c \notin {Star, Question, LBracket, LBrace}
      BY DEF Star, Question, LBracket, LBrace
  <2>2. Slash \notin {Star, Question, LBracket, LBrace}
      BY DEF Star, Question, LBracket, LBrace, Slash
  <2> QED
      BY <1>4, <2>1, <2>2
<1>6. \A p \in 1..19 : p # 15 => ~(s[p] = Slash /\ At(s, p + 1) = Slash)
  <2>1. Slash \notin 97..122 /\ Star # Slash
      BY DEF Slash, Star
  <2>2. \A p \in {1, 8, 16} : At(s, p + 1) # Slash
    <3>1. \A i \in 1..19 : At(s, i) = s[i]
      <4>1. \A i \in 1..19 : i \in Int /\ i \in 1..Len(s)
          BY <1>2
      <4> QED
          BY <4>1, AtFacts, Zenon
    <3>2. s[2] \in 97..122 /\ s[9] \in 97..122 /\ s[17] \in 97..122
        BY <1>4
    <3> QED
        BY <2>1, <3>1, <3>2
  <2>3. At(s, 14 + 1) # Slash
    <3>1. At(s, 15) = s[15]
        BY <1>2, AtFacts, SMTT(30)
    <3> QED
        BY <1>3, <2>1, <3>1
  <2>4. \A p \in 1..19 : p # 15 /\ s[p] = Slash => p \in {1, 8, 16} \/ p = 14
      BY <1>4, <2>1
  <2> QED
      BY <2>2, <2>3, <2>4
<1> QED
    BY <1>1, <1>2, <1>3, <1>5, <1>6 DEF LiteralAt

\* The address of the colour of a lamp.
RgbAddress(name) == LampsPath \o name \o RgbPath

\* The address of a lamp's colour is the path of the lamps, the name, and /rgb.
LEMMA RgbAddressIs ==
    ASSUME NEW name \in Chars, NEW j \in Nat, Len(name) = j
    PROVE  /\ RgbAddress(name) \in Chars
           /\ IsTriple(RgbAddress(name), LampsPath, name, RgbPath, 14, j, 4)
<1>1. LampsPath \in Seq(1..255) /\ name \in Seq(1..255) /\ RgbPath \in Seq(1..255)
    BY PathsAre DEF Chars
<1>2. PICK n \in Nat, k \in Nat : n = 14 /\ k = 4 /\ Len(LampsPath) = n /\ Len(RgbPath) = k
    BY PathsAre
<1>3. /\ LampsPath \o name \o RgbPath \in Seq(1..255)
      /\ IsTriple(LampsPath \o name \o RgbPath, LampsPath, name, RgbPath, n, j, k)
    BY <1>1, <1>2, Between, ZenonT(60)
<1> QED
    BY <1>2, <1>3 DEF RgbAddress, Chars

\* Where a star may end.
LEMMA StarGoesTo ==
    ASSUME NEW path \in Chars, NEW t \in 1..Len(path), NEW u \in t..Len(path), path[u] = Slash
    PROVE  u \in StarEnds(path, t) <=> \A v \in t..(u - 1) : path[v] # Slash
<1>1. PICK n \in Nat : n = Len(path) /\ t \in 1..n /\ t \in Nat \ {0}
    BY AtFacts
<1>2. PICK k : k = Seek(path, t, {Slash})
    OBVIOUS
<1>3. StarEnds(path, t) = t..(IF k = 0 THEN n + 1 ELSE k)
    BY <1>1, <1>2 DEF StarEnds
<1>4. \/ k = 0 /\ \A v \in t..n : path[v] # Slash
      \/ k \in t..n /\ path[k] = Slash /\ \A v \in t..(k - 1) : path[v] # Slash
  <2>1. \/ k = 0 /\ \A v \in t..n : path[v] \notin {Slash}
        \/ k \in t..n /\ path[k] \in {Slash} /\ \A v \in t..(k - 1) : path[v] \notin {Slash}
      BY <1>1, <1>2, SeekFacts
  <2> QED
      BY <2>1
<1>5. k \in t..n /\ path[k] = Slash /\ \A v \in t..(k - 1) : path[v] # Slash
    BY <1>1, <1>4
<1>6. StarEnds(path, t) = t..k
    BY <1>1, <1>3, <1>5
<1>7. ASSUME u \in StarEnds(path, t) PROVE \A v \in t..(u - 1) : path[v] # Slash
  <2>1. t..(u - 1) \subseteq t..(k - 1)
      BY <1>1, <1>5, <1>6, <1>7
  <2> QED
      BY <1>5, <2>1
<1>8. ASSUME \A v \in t..(u - 1) : path[v] # Slash PROVE u \in StarEnds(path, t)
  <2>1. k \notin t..(u - 1)
      BY <1>5, <1>8
  <2> QED
      BY <1>1, <1>5, <1>6, <2>1
<1> QED
    BY <1>7, <1>8

\* The pattern for colours matches the address for colours of every name that is
\* one element of a path.
THEOREM RgbMatches ==
    ASSUME NEW name \in Chars
    PROVE  FullPatternMatch(RgbPattern, RgbAddress(name)) <=> Slash \notin ToSet(name)
<1>1. PICK j \in Nat : j = Len(name) /\ DOMAIN name = 1..j
    BY LenProperties DEF Chars
<1>2. PICK path \in Chars : path = RgbAddress(name) /\ IsTriple(path, LampsPath, name, RgbPath, 14, j, 4)
    BY <1>1, RgbAddressIs
<1>3. PICK s \in Chars : s = RgbPattern /\ Len(s) = 19 /\ s[15] = Star
    BY RgbPatternIs
<1>4. Len(path) = j + 18
    BY <1>2 DEF IsTriple
<1>5. SameRun(s, 1, path, 1, 14)
  <2> SUFFICES ASSUME NEW i \in Nat, i < 14
               PROVE  1 + i \in 1..(j + 18) /\ path[1 + i] = s[1 + i]
      BY <1>4 DEF SameRun
  <2>1. PICK h : h = 1 + i /\ h \in 1..14
      OBVIOUS
  <2>2. path[h] = LampsPath[h] /\ s[h] = LampsPath[h]
      BY <1>2, <1>3, <2>1, RgbPatternIs, Zenon DEF IsTriple
  <2> QED
      BY <2>1, <2>2
<1>6. PICK last \in Nat : last = j + 15
    OBVIOUS
<1>7. SameRun(s, 16, path, last, 4)
  <2> SUFFICES ASSUME NEW i \in Nat, i < 4
               PROVE  last + i \in 1..(j + 18) /\ path[last + i] = s[16 + i]
      BY <1>4 DEF SameRun
  <2>1. PICK h : h = 1 + i /\ h \in 1..4
      OBVIOUS
  <2>2. path[14 + j + h] = RgbPath[h] /\ s[15 + h] = RgbPath[h]
      BY <1>2, <1>3, <2>1, RgbPatternIs, Zenon DEF IsTriple
  <2>3. 14 + j + h = last + i /\ 15 + h = 16 + i /\ last + i \in 1..(j + 18)
      BY <1>6, <2>1
  <2> QED
      BY <2>2, <2>3
<1>8. \A u \in StarEnds(path, 15) : u + 4 = Len(path) + 1 <=> u = last
  <2>1. 15 \in 1..(Len(path) + 1)
      BY <1>4
  <2>2. StarEnds(path, 15) \subseteq 15..(Len(path) + 1)
      BY <2>1, StarEndsFacts
  <2>3. \A u \in 15..(j + 19) : u + 4 = j + 18 + 1 <=> u = last
      BY <1>6
  <2> QED
      BY <1>4, <2>2, <2>3
<1>9. FullPatternMatch(s, path) <=> last \in StarEnds(path, 15)
  <2>1. \A p \in 1..19 : p # 14 + 1 => LiteralAt(s, p)
      BY <1>3, RgbPatternIs
  <2>2. PICK n \in Nat, k \in Nat : n = 14 /\ k = 4
      OBVIOUS
  <2>3. IsStarred(s, n, k)
      BY <1>3, <2>1, <2>2 DEF IsStarred
  <2>4. FullPatternMatch(s, path) <=> IsAround(path, s, n, k)
      BY <2>3, StarredMatches
  <2>5. FullPatternMatch(s, path) <=>
             /\ SameRun(s, 1, path, 1, 14)
             /\ \E u \in StarEnds(path, 15) :
                    SameRun(s, 16, path, u, 4) /\ u + 4 = Len(path) + 1
      BY <2>2, <2>4 DEF IsAround
  <2> QED
      BY <1>5, <1>7, <1>8, <2>5
<1>10. last \in StarEnds(path, 15) <=> \A v \in 15..(last - 1) : path[v] # Slash
  <2>1. 15 \in 1..Len(path) /\ last \in 15..Len(path)
      BY <1>4, <1>6
  <2>2. path[14 + j + 1] = RgbPath[1] /\ 14 + j + 1 = last
      BY <1>2, <1>6 DEF IsTriple
  <2>3. path[last] = Slash
      BY <2>2, PathsAre
  <2> QED
      BY <2>1, <2>3, StarGoesTo
<1>11. (\A v \in 15..(last - 1) : path[v] # Slash) <=> \A i \in 1..j : name[i] # Slash
  <2>1. \A i \in 1..j : path[14 + i] = name[i] /\ 14 + i \in 15..(last - 1)
      BY <1>2, <1>6 DEF IsTriple
  <2>2. \A v \in 15..(last - 1) : \E i \in 1..j : v = 14 + i
    <3> TAKE v \in 15..(last - 1)
    <3>1. v - 14 \in 1..j /\ v = 14 + (v - 14)
        BY <1>6
    <3> QED
        BY <3>1
  <2> QED
      BY <2>1, <2>2
<1>12. Slash \notin ToSet(name) <=> \A i \in 1..j : name[i] # Slash
    BY <1>1 DEF ToSet
<1> QED
    BY <1>2, <1>3, <1>9, <1>10, <1>11, <1>12

\* The daemon's addresses are told apart.
THEOREM OriMatches ==
    /\ FullPatternMatch(OriPath, OriPath)
    /\ ~FullPatternMatch(RgbPattern, OriPath)
    /\ \A name \in Chars : ~FullPatternMatch(OriPath, RgbAddress(name))
<1>1. \A path \in Chars : FullPatternMatch(OriPath, path) <=> path = OriPath
    BY OriLiteral, LiteralMatches, Zenon
<1>2. ~FullPatternMatch(RgbPattern, OriPath)
  <2>1. PICK s \in Chars : s = RgbPattern /\ Len(s) = 19 /\ s[15] = Star
      BY RgbPatternIs
  <2>2. \A p \in 1..19 : p # 14 + 1 => LiteralAt(s, p)
      BY <2>1, RgbPatternIs
  <2>3. PICK n \in Nat, k \in Nat : n = 14 /\ k = 4
      OBVIOUS
  <2>4. IsStarred(s, n, k)
      BY <2>1, <2>2, <2>3 DEF IsStarred
  <2>5. FullPatternMatch(s, OriPath) => SameRun(s, 1, OriPath, 1, n)
      BY <2>4, OriLiteral, StarredMatches DEF IsAround
  <2>6. SameRun(s, 1, OriPath, 1, n) => 1 + 10 \in 1..4
      BY <2>3, OriLiteral DEF SameRun
  <2> QED
      BY <2>1, <2>5, <2>6
<1>3. ASSUME NEW name \in Chars PROVE RgbAddress(name) # OriPath
  <2>1. PICK j \in Nat : j = Len(name)
      BY LenProperties DEF Chars
  <2>2. Len(RgbAddress(name)) = 14 + j + 4
    <3>1. IsTriple(RgbAddress(name), LampsPath, name, RgbPath, 14, j, 4)
        BY <2>1, RgbAddressIs
    <3> QED
        BY <3>1 DEF IsTriple
  <2>3. Len(OriPath) = 4
      BY OriLiteral
  <2>4. 14 + j + 4 # 4
      OBVIOUS
  <2>5. PICK a : a = RgbAddress(name)
      OBVIOUS
  <2>6. Len(a) # 4
      BY <2>2, <2>4, <2>5, Zenon
  <2>7. a # OriPath
      BY <2>3, <2>6
  <2> QED
      BY <2>5, <2>7
<1>4. \A name \in Chars : RgbAddress(name) \in Chars
  <2> TAKE name \in Chars
  <2>1. PICK j \in Nat : j = Len(name)
      BY LenProperties DEF Chars
  <2> QED
      BY <2>1, RgbAddressIs
<1> QED
    BY <1>1, <1>2, <1>3, <1>4, OriLiteral

-----------------------------------------------------------------------------
(* The message as the daemon gets it *)

\* m is a message for the address a with the arguments.
IsMessage(m, a, args) ==
    /\ m.err = "none" /\ m.address = a
    /\ DOMAIN m.arguments = 1..Len(args) /\ Len(m.arguments) = Len(args)
    /\ \A i \in 1..Len(args) : m.tags[i] = args[i].tag /\ ValueAt(m, i) = args[i]

\* A message that a client sends is what the daemon reads.
LEMMA OscArrives ==
    ASSUME NEW a \in Seq(1..255), At(a, 1) = Slash, NEW args \in Seq(Value)
    PROVE  IsMessage(Osc(a, args), a, args)
<1>1. PICK m : m = PushAll(InitMessage(a), args) /\ Carries(m, a, args)
    BY PushAllCarries
<1>2. m.err = "none" /\ m.address = a /\ \A i \in 1..Len(args) : m.tags[i] = args[i].tag
    BY <1>1 DEF Carries
<1>3. PICK r : r = Built(Packed(m)) /\ Arrived(r, m, args)
    BY <1>1, <1>2, SentArrives
<1>4. r = Osc(a, args)
    BY <1>1, <1>3 DEF Osc
<1>5. r.arguments \in Seq([pos : Nat, size : Nat]) /\ Len(r.arguments) = Len(args)
    BY <1>3 DEF Arrived, MessageRecord
<1>6. DOMAIN r.arguments = 1..Len(args)
    BY <1>5, LenProperties
<1>7. r.err = "none" /\ r.address = a /\ r.tags = m.tags
    BY <1>2, <1>3 DEF Arrived
<1>8. \A i \in 1..Len(args) : ValueAt(r, i) = args[i]
    BY <1>3 DEF Arrived
<1> QED
    BY <1>2, <1>4, <1>5, <1>6, <1>7, <1>8 DEF IsMessage

\* The reader has an error.
Failed(r, test) == \E next \in Nat : \E error : error # "none" /\ ReaderIs(r, next, error, test)

\* The argument behind the first k is an int.
IntBehind(args, k) == k < Len(args) /\ args[k + 1].tag = Int32Tag

\* Three ints are what the daemon asks for.
ThreeInts(args) == Len(args) = 3 /\ \A i \in 1..3 : args[i].tag = Int32Tag

\* What the daemon asks of a message is true exactly of one for an address the
\* pattern matches with three ints.
LEMMA AsksForThreeInts ==
    ASSUME NEW m, NEW a, NEW args \in Seq(Value), IsMessage(m, a, args), NEW test
    PROVE  HasThreeInts(m, test) <=> FullPatternMatch(test, a) /\ ThreeInts(args)
<1>1. PICK len \in Nat : len = Len(args) /\ len = Len(m.arguments)
    BY LenProperties DEF IsMessage
<1> DEFINE r0 == Reader(m, FullPatternMatch(test, m.address), test)
           r1 == Pop(m, r0, Int32Tag)
           r2 == Pop(m, r1, Int32Tag)
           r3 == Pop(m, r2, Int32Tag)
<1>2. HasThreeInts(m, test) <=> IsOkNoMoreArgs(m, r3)
    BY DEF HasThreeInts
<1>3. Int32Tag # FalseTag /\ Int32Tag # AnyType /\ Int32Tag \notin Bools
    BY DEF Int32Tag, FalseTag, AnyType, Bools, TrueTag
<1>4. \A i \in 1..len : Fits(m, i, Int32Tag) <=> args[i].tag = Int32Tag
  <2>1. \A i \in 1..len : m.tags[i] = args[i].tag
      BY <1>1 DEF IsMessage
  <2>2. \A i \in 1..len : Fits(m, i, Int32Tag) <=>
            Int32Tag \in {AnyType, IF m.tags[i] \in Bools THEN TrueTag ELSE m.tags[i]}
      BY DEF Fits
  <2>3. Int32Tag # TrueTag
      BY DEF Int32Tag, TrueTag
  <2> QED
      BY <1>3, <2>1, <2>2, <2>3
<1>5. m.err = "none" /\ m.address = a
    BY DEF IsMessage
<1>6. IsOkNoMoreArgs(m, r3) <=> r3.err = "none" /\ len - r3.idx = 0
    BY <1>1 DEF IsOkNoMoreArgs, NoneLeft
<1>9. ThreeInts(args) <=> len = 3 /\ IntBehind(args, 0) /\ IntBehind(args, 1) /\ IntBehind(args, 2)
  <2>1. ASSUME ThreeInts(args)
        PROVE  len = 3 /\ IntBehind(args, 0) /\ IntBehind(args, 1) /\ IntBehind(args, 2)
    <3>1. len = 3
        BY <1>1, <2>1, Zenon DEF ThreeInts
    <3>2. args[1].tag = Int32Tag /\ args[2].tag = Int32Tag /\ args[3].tag = Int32Tag
        BY <2>1 DEF ThreeInts
    <3> QED
        BY <1>1, <3>1, <3>2 DEF IntBehind
  <2>2. ASSUME len = 3, IntBehind(args, 0), IntBehind(args, 1), IntBehind(args, 2)
        PROVE  ThreeInts(args)
    <3>1. args[1].tag = Int32Tag /\ args[2].tag = Int32Tag /\ args[3].tag = Int32Tag
        BY <2>2 DEF IntBehind
    <3>2. \A i \in 1..3 : i = 1 \/ i = 2 \/ i = 3
        OBVIOUS
    <3>3. \A i \in 1..3 : args[i].tag = Int32Tag
        BY <3>1, <3>2
    <3> QED
        BY <1>1, <2>2, <3>3 DEF ThreeInts
  <2> QED
      BY <2>1, <2>2
<1>7. CASE ~FullPatternMatch(test, a)
  <2>1. ReaderIs(r0, 0, "pattern", test)
    <3>1. ErrorIn(m.err, IF FullPatternMatch(test, m.address) THEN "none" ELSE "pattern") = "pattern"
        BY <1>5, <1>7 DEF ErrorIn
    <3> QED
        BY <3>1 DEF Reader, ReaderIs
  <2>2. "pattern" # "none"
      OBVIOUS
  <2> HIDE DEF r0
  <2>3. PICK i1 \in Nat : ReaderIs(r1, i1, "pattern", test)
      BY <2>1, <2>2, PopBad
  <2> HIDE DEF r1
  <2>4. PICK i2 \in Nat : ReaderIs(r2, i2, "pattern", test)
      BY <2>2, <2>3, PopBad
  <2> HIDE DEF r2
  <2>5. PICK i3 \in Nat : ReaderIs(r3, i3, "pattern", test)
      BY <2>2, <2>4, PopBad
  <2> HIDE DEF r3
  <2>6. r3.err = "pattern"
      BY <2>5, ReaderHas
  <2> QED
      BY <1>2, <1>6, <1>7, <2>2, <2>6
<1>8. CASE FullPatternMatch(test, a)
  <2>1. ReaderIs(r0, 0, "none", test)
    <3>1. ErrorIn(m.err, IF FullPatternMatch(test, m.address) THEN "none" ELSE "pattern") = "none"
        BY <1>5, <1>8 DEF ErrorIn
    <3> QED
        BY <3>1 DEF Reader, ReaderIs
  <2> HIDE DEF r0
  <2>2. ASSUME NEW r, NEW k \in Nat, ReaderIs(r, k, "none", test)
        PROVE  \/ /\ IntBehind(args, k)
                  /\ ReaderIs(Pop(m, r, Int32Tag), k + 1, "none", test)
               \/ /\ ~IntBehind(args, k)
                  /\ Failed(Pop(m, r, Int32Tag), test)
    <3>1. k < len => (Fits(m, k + 1, Int32Tag) <=> args[k + 1].tag = Int32Tag)
      <4>1. k < len => k + 1 \in 1..len
          BY <1>1
      <4> QED
          BY <1>4, <4>1
    <3>2. /\ k < len /\ Fits(m, k + 1, Int32Tag) =>
                ReaderIs(Pop(m, r, Int32Tag), k + 1, "none", test)
          /\ ~(k < len /\ Fits(m, k + 1, Int32Tag)) =>
                \E next \in Nat : \E error :
                    error # "none" /\ ReaderIs(Pop(m, r, Int32Tag), next, error, test)
        BY <1>1, <1>3, <2>2, PopGood, Zenon
    <3> QED
        BY <1>1, <3>1, <3>2 DEF Failed, IntBehind
  <2>3. ASSUME NEW r, Failed(r, test) PROVE Failed(Pop(m, r, Int32Tag), test)
      BY <2>3, PopBad DEF Failed
  <2>4. Failed(r3, test) => ~IsOkNoMoreArgs(m, r3)
    <3> SUFFICES ASSUME Failed(r3, test) PROVE ~IsOkNoMoreArgs(m, r3)
        OBVIOUS
    <3>1. PICK k \in Nat : \E e : e # "none" /\ ReaderIs(r3, k, e, test)
        BY DEF Failed
    <3>2. r3.err # "none"
        BY <3>1, ReaderHas
    <3> QED
        BY <1>6, <3>2
  <2>5. CASE ~IntBehind(args, 0)
    <3>1. Failed(r1, test)
        BY <2>1, <2>2, <2>5
    <3> HIDE DEF r1
    <3>2. Failed(r2, test)
        BY <2>3, <3>1
    <3> HIDE DEF r2
    <3>3. Failed(r3, test)
        BY <2>3, <3>2
    <3>4. ~ThreeInts(args)
        BY <1>9, <2>5
    <3> HIDE DEF r3
    <3> QED
        BY <1>2, <2>4, <3>3, <3>4
  <2>6. CASE IntBehind(args, 0)
    <3>1. ReaderIs(r1, 0 + 1, "none", test)
        BY <2>1, <2>2, <2>6
    <3> HIDE DEF r1
    <3>2. CASE ~IntBehind(args, 1)
      <4>1. Failed(r2, test)
          BY <2>2, <3>1, <3>2
      <4> HIDE DEF r2
      <4>2. Failed(r3, test)
          BY <2>3, <4>1
      <4>3. ~ThreeInts(args)
          BY <1>9, <3>2
      <4> HIDE DEF r3
      <4> QED
          BY <1>2, <2>4, <4>2, <4>3
    <3>3. CASE IntBehind(args, 1)
      <4>1. ReaderIs(r2, 1 + 1, "none", test)
          BY <2>2, <3>1, <3>3
      <4> HIDE DEF r2
      <4>2. CASE ~IntBehind(args, 2)
        <5>1. Failed(r3, test)
            BY <2>2, <4>1, <4>2
        <5>2. ~ThreeInts(args)
            BY <1>9, <4>2
        <5> HIDE DEF r3
        <5> QED
            BY <1>2, <2>4, <5>1, <5>2
      <4>3. CASE IntBehind(args, 2)
        <5>1. ReaderIs(r3, 2 + 1, "none", test)
            BY <2>2, <4>1, <4>3
        <5> HIDE DEF r3
        <5>2. r3.err = "none" /\ r3.idx = 3
            BY <5>1, ReaderHas
        <5>3. IsOkNoMoreArgs(m, r3) <=> len = 3
            BY <1>1, <1>6, <5>2
        <5>4. ThreeInts(args) <=> len = 3
            BY <1>9, <2>6, <3>3, <4>3
        <5> QED
            BY <1>2, <1>8, <5>3, <5>4
      <4> QED
          BY <4>2, <4>3
    <3> QED
        BY <3>2, <3>3
  <2> QED
      BY <2>5, <2>6
<1> QED
    BY <1>7, <1>8

-----------------------------------------------------------------------------
(* The digits of a frame *)

\* The digits are, two by two, those of the first n numbers.
Spells(d, numbers, n) ==
    /\ d \in Seq(0..15) /\ Len(d) = 2 * n
    /\ \A k \in 1..n : 16 * d[2 * k - 1] + d[2 * k] = numbers[k]

\* Two digits behind 2n others are the byte behind n others.
LEMMA SpellsOneMore ==
    ASSUME NEW numbers, NEW n \in Nat, NEW d, Spells(d, numbers, n),
           numbers[n + 1] \in 0..255
    PROVE  Spells(Joined(d, Hex(numbers[n + 1])), numbers, n + 1)
<1>1. PICK v \in 0..255 : v = numbers[n + 1]
    OBVIOUS
<1>2. PICK h \in Seq(0..15) : h = Hex(v) /\ Len(h) = 2 /\ 16 * h[1] + h[2] = v
    BY HexSpells, Zenon
<1>3. PICK dd \in Nat : dd = 2 * n /\ d \in Seq(0..15) /\ Len(d) = dd
    BY DEF Spells
<1>4. PICK w : w = Joined(d, h)
    OBVIOUS
<1>5. w \in Seq(0..15) /\ IsPair(w, d, h, dd, 2)
    BY <1>2, <1>3, <1>4, TwoParts, Zenon
<1>6. Len(w) = 2 * (n + 1)
    BY <1>3, <1>5 DEF IsPair
<1>7. ASSUME NEW k \in 1..(n + 1)
      PROVE  16 * w[2 * k - 1] + w[2 * k] = numbers[k]
  <2>1. PICK i, j : i = 2 * k - 1 /\ j = 2 * k
      OBVIOUS
  <2>2. CASE k = n + 1
    <3>1. w[dd + 1] = h[1] /\ w[dd + 2] = h[2]
        BY <1>5 DEF IsPair
    <3>2. i = dd + 1 /\ j = dd + 2
        BY <1>3, <2>1, <2>2
    <3> QED
        BY <1>1, <1>2, <2>1, <2>2, <3>1, <3>2, Zenon
  <2>3. CASE k # n + 1
    <3>1. i \in 1..dd /\ j \in 1..dd /\ k \in 1..n
        BY <1>3, <2>1, <2>3
    <3>2. w[i] = d[i] /\ w[j] = d[j]
        BY <1>5, <3>1 DEF IsPair
    <3>3. 16 * d[2 * k - 1] + d[2 * k] = numbers[k]
        BY <3>1 DEF Spells
    <3> QED
        BY <2>1, <3>2, <3>3
  <2> QED
      BY <2>2, <2>3
<1> QED
    BY <1>1, <1>2, <1>4, <1>5, <1>6, <1>7 DEF Spells

\* A frame of bytes has two digits for each, which spell it.
LEMMA WritesSpells ==
    ASSUME NEW n \in Nat, n > 0, NEW numbers \in [1..n -> 0..255]
    PROVE  Spells(Writes(numbers).digits, numbers, n)
<1> DEFINE s == [k \in DOMAIN numbers |-> Hex(numbers[k])]
<1>1. Writes(numbers).digits = FlattenSeq(s)
    BY DEF Writes
<1>2. s \in Seq(Seq(0..15)) /\ Len(s) = n /\ \A k \in 1..n : s[k] = Hex(numbers[k])
  <2>1. DOMAIN s = 1..n /\ \A k \in 1..n : s[k] = Hex(numbers[k])
      OBVIOUS
  <2>2. \A k \in 1..n : s[k] \in Seq(0..15)
      BY <2>1, HexSpells, Zenon
  <2>3. s = [k \in 1..n |-> s[k]]
      BY <2>1
  <2> HIDE DEF s
  <2>4. s \in Seq(Seq(0..15))
      BY <2>2, <2>3, IsASeq
  <2> QED
      BY <2>1, <2>4, LenProperties
<1> HIDE DEF s
<1>3. PICK f : Flattens(f, s, n) /\ FlattenSeq(s) = f[n]
    BY <1>2, FlattenUnfolds, Zenon
<1> DEFINE Spelt == {i \in Nat : i \in 1..n => Spells(f[i], numbers, i)}
<1>4. 0 \in Spelt
    OBVIOUS
<1>5. ASSUME NEW i \in Nat, i \in Spelt PROVE i + 1 \in Spelt
  <2> SUFFICES ASSUME i + 1 \in 1..n PROVE Spells(f[i + 1], numbers, i + 1)
      OBVIOUS
  <2>1. PICK j : j = i + 1 /\ j \in 1..n /\ j - 1 = i
      OBVIOUS
  <2>2. numbers[i + 1] \in 0..255
      BY <2>1, SMTT(30)
  <2>3. f[j] = IF j = 1 THEN s[j] ELSE Joined(f[j - 1], s[j])
      BY <1>3, <2>1, FlattensAt
  <2>4. s[j] = Hex(numbers[j])
      BY <1>2, <2>1
  <2>5. CASE i = 0
    <3>1. Spells(<<>>, numbers, 0)
        BY EmptySeq DEF Spells
    <3>2. Spells(Joined(<<>>, Hex(numbers[0 + 1])), numbers, 0 + 1)
        BY <2>2, <2>5, <3>1, SpellsOneMore, Zenon
    <3>3. Hex(numbers[1]) \in Seq(0..15)
      <4>1. numbers[1] \in 0..255
          BY <2>1, <2>5, SMTT(30)
      <4> QED
          BY <4>1, HexSpells, Zenon
    <3> QED
        BY <2>1, <2>3, <2>4, <2>5, <3>2, <3>3, JoinedEmpty
  <2>6. CASE i # 0
    <3>1. Spells(f[i], numbers, i)
        BY <1>5, <2>1, <2>6
    <3>2. Spells(Joined(f[i], Hex(numbers[i + 1])), numbers, i + 1)
        BY <2>2, <3>1, SpellsOneMore, Zenon
    <3> QED
        BY <2>1, <2>3, <2>4, <2>6, <3>2
  <2> QED
      BY <2>5, <2>6
<1>6. n \in Spelt
  <2> HIDE DEF Spelt
  <2> QED
      BY <1>4, <1>5, NatSetInduction, Zenon
<1>7. n \in 1..n
    OBVIOUS
<1> QED
    BY <1>1, <1>3, <1>6, <1>7

-----------------------------------------------------------------------------
(* Three ints on their way *)

\* The arguments of the messages for colours and for orientations.
ThreeOf(numbers) == [k \in 1..3 |-> Int32(numbers[k])]

\* The three numbers of a request are ints of 32 bits.
AreInts(numbers) == \A k \in 1..3 : IsInt32(numbers[k])

\* Three ints are arguments a client can send.
LEMMA ThreeAreValues ==
    ASSUME NEW numbers, AreInts(numbers)
    PROVE  /\ ThreeOf(numbers) \in Seq(Value) /\ Len(ThreeOf(numbers)) = 3
           /\ ThreeInts(ThreeOf(numbers))
<1>1. ASSUME NEW k \in 1..3 PROVE Int32(numbers[k]) \in Value /\ Int32(numbers[k]).tag = Int32Tag
  <2>1. PICK w \in Seq(Byte) : w = Int32Bytes(numbers[k]) /\ Len(w) = 4
      BY Int32BytesFacts DEF AreInts, IsInt32
  <2>2. PICK v : v = Int32(numbers[k]) /\ v = [tag |-> Int32Tag, bytes |-> w]
      BY <2>1, Zenon DEF Int32
  <2>3. v.tag = Int32Tag /\ v.bytes = w
      BY <2>2
  <2>4. Int32Tag \in DOMAIN PodSize /\ PodSize[Int32Tag] = 4
      BY DEF PodSize
  <2>5. Int32Tag \notin Bools /\ Int32Tag # StringTag /\ Int32Tag # BlobTag
      BY DEF Int32Tag, Bools, TrueTag, FalseTag, StringTag, BlobTag
  <2>6. v \in [tag : Bools \cup DOMAIN PodSize \cup {StringTag, BlobTag}, bytes : Seq(0..255)]
      BY <2>1, <2>2, <2>4 DEF Byte
  <2>7. Len(v.bytes) = 4 /\ 4 < MaxInt /\ v.tag \notin Bools /\ v.tag # StringTag
      BY <2>1, <2>3, <2>5, MaxIntIsLarge
  <2>8. v \in Value
      BY <2>3, <2>4, <2>6, <2>7, ZenonT(60) DEF Value
  <2> QED
      BY <2>2, <2>3, <2>8
<1>2. PICK args : args = ThreeOf(numbers)
    OBVIOUS
<1>3. args = [k \in 1..3 |-> args[k]] /\ \A k \in 1..3 : args[k] = Int32(numbers[k])
    BY <1>2 DEF ThreeOf
<1>4. \A k \in 1..3 : args[k] \in Value /\ args[k].tag = Int32Tag
    BY <1>1, <1>3
<1>5. args \in Seq(Value) /\ Len(args) = 3
  <2>1. args \in Seq(Value)
      BY <1>3, <1>4, IsASeq
  <2>2. DOMAIN args = 1..3
      BY <1>3
  <2> QED
      BY <2>1, <2>2, LenProperties
<1> QED
    BY <1>2, <1>4, <1>5 DEF ThreeInts

\* The ints the daemon reads are those that were sent.
LEMMA ThreeArrive ==
    ASSUME NEW numbers, AreInts(numbers), NEW a, NEW m, IsMessage(m, a, ThreeOf(numbers))
    PROVE  \A k \in 1..3 : Ints(m)[k] = numbers[k]
<1>1. Len(ThreeOf(numbers)) = 3
    BY ThreeAreValues
<1>2. DOMAIN m.arguments = 1..3 /\ \A k \in 1..3 : ValueAt(m, k) = ThreeOf(numbers)[k]
    BY <1>1 DEF IsMessage
<1>3. ASSUME NEW k \in 1..3 PROVE Ints(m)[k] = numbers[k]
  <2>1. ThreeOf(numbers)[k].bytes = Int32Bytes(numbers[k])
      BY DEF ThreeOf, Int32
  <2>2. IsInt32(numbers[k])
      BY DEF AreInts
  <2>3. Int32Of(Int32Bytes(numbers[k])) = numbers[k]
      BY <2>2, Int32Survives
  <2>4. Ints(m)[k] = Int32Of(ValueAt(m, k).bytes)
      BY <1>2 DEF Ints
  <2> QED
      BY <1>2, <2>1, <2>3, <2>4
<1> QED
    BY <1>3

\* The numbers of a client are ints, and its name is a C string.
LEMMA ClientsSendInts ==
    ASSUME FrameInv
    PROVE  /\ request.kind \in {"rgb", "ori"} => AreInts(request.numbers)
           /\ request.kind = "rgb" => request.name \in Chars
<1>1. \A v \in Numbers : IsInt32(v)
    BY ClientsSend, MaxIntIsLarge DEF IsInt32
<1>2. IsInt32(255)
    BY MaxIntIsLarge DEF IsInt32
<1>3. \A u, v, w : IsInt32(u) /\ IsInt32(v) /\ IsInt32(w) => AreInts(<<u, v, w>>)
  <2>1. \A k \in 1..3 : k = 1 \/ k = 2 \/ k = 3
      OBVIOUS
  <2> QED
      BY <2>1 DEF AreInts
<1>4. ASSUME request.kind = "rgb" PROVE AreInts(request.numbers)
  <2>1. PICK v \in Numbers : request.numbers = <<v, 255, v>>
      BY <1>4, Zenon DEF FrameInv, RgbFramed
  <2> QED
      BY <1>1, <1>2, <1>3, <2>1
<1>5. ASSUME request.kind = "ori" PROVE AreInts(request.numbers)
  <2>1. PICK v \in Numbers, w \in Numbers : request.numbers = <<v, w, v>>
      BY <1>5, Zenon DEF FrameInv, OriFramed
  <2> QED
      BY <1>1, <1>3, <2>1
<1>6. request.kind = "rgb" => request.name \in Chars
    BY ClientsSend, Zenon DEF FrameInv, RgbFramed
<1> QED
    BY <1>4, <1>5, <1>6

\* What the daemon writes for an orientation.
LEMMA OriWrites ==
    ASSUME NEW numbers, AreInts(numbers)
    PROVE  OscFrame(Osc(OriPath, ThreeOf(numbers))) = Writes([k \in 1..3 |-> Ori(numbers[k])])
<1>1. ThreeOf(numbers) \in Seq(Value) /\ ThreeInts(ThreeOf(numbers))
    BY ThreeAreValues
<1>2. OriPath \in Seq(1..255) /\ At(OriPath, 1) = Slash
    BY DEF OriPath, At, Slash
<1>3. PICK m : m = Osc(OriPath, ThreeOf(numbers)) /\ IsMessage(m, OriPath, ThreeOf(numbers))
    BY <1>1, <1>2, OscArrives
<1>4. HasThreeInts(m, OriPath) /\ ~HasThreeInts(m, RgbPattern)
    BY <1>1, <1>3, OriMatches, AsksForThreeInts
<1>5. OscFrame(m) = Writes([k \in 1..3 |-> Ori(Ints(m)[k])])
    BY <1>4 DEF OscFrame, RgbPattern
<1>6. \A k \in 1..3 : Ints(m)[k] = numbers[k]
    BY <1>3, ThreeArrive
<1>7. [k \in 1..3 |-> Ori(Ints(m)[k])] = [k \in 1..3 |-> Ori(numbers[k])]
    BY <1>6
<1> QED
    BY <1>3, <1>5, <1>7

\* An orientation sent as three angles reaches the lamp as three bytes, each the
\* part of the circle its angle is ahead of south.
THEOREM OrientationIsTurned == Spec => []OrientationAsTurned
<1>1. FrameInv => OrientationAsTurned
  <2> SUFFICES ASSUME FrameInv, request.kind = "ori",
                      \A k \in 1..3 : request.numbers[k] \in -180..(MaxInt - 180)
               PROVE  /\ Len(frame.digits) = 6
                      /\ \A k \in 1..3 : \E ahead \in 0..359 :
                          /\ (ahead - (request.numbers[k] % 360)) % 360 = 180
                          /\ 360 * ByteAt(2 * k - 1) <= 255 * ahead
                          /\ 255 * ahead < 360 * (ByteAt(2 * k - 1) + 1)
      BY Zenon DEF OrientationAsTurned
  <2>1. PICK numbers : numbers = request.numbers /\ AreInts(numbers)
      BY ClientsSendInts
  <2>2. frame = Writes([k \in 1..3 |-> Ori(numbers[k])])
    <3>1. frame = OscFrame(Osc(OriPath, ThreeOf(numbers)))
        BY <2>1, Zenon DEF FrameInv, OriFramed, ThreeOf
    <3> QED
        BY <2>1, <3>1, OriWrites
  <2>3. PICK bytes : bytes = [k \in 1..3 |-> Ori(numbers[k])]
      BY Zenon
  <2>4. \A k \in 1..3 : bytes[k] = Ori(numbers[k])
      BY <2>3
  <2>5. ASSUME NEW k \in 1..3 PROVE Ori(numbers[k]) \in 0..254
    <3>1. numbers[k] \in -180..(MaxInt - 180)
        BY <2>1
    <3> QED
        BY <3>1, OriTurns
  <2>6. bytes \in [1..3 -> 0..255]
    <3>1. \A k \in 1..3 : bytes[k] \in 0..255
        BY <2>4, <2>5
    <3>2. bytes = [k \in 1..3 |-> bytes[k]]
        BY <2>3
    <3> QED
        BY <3>1, <3>2
  <2>7. Spells(frame.digits, bytes, 3)
    <3>1. PICK n \in Nat : n = 3 /\ n > 0 /\ bytes \in [1..n -> 0..255]
        BY <2>6
    <3>2. Spells(Writes(bytes).digits, bytes, n)
        BY <3>1, WritesSpells, Zenon
    <3> QED
        BY <2>2, <2>3, <3>1, <3>2
  <2>8. Len(frame.digits) = 6
      BY <2>7 DEF Spells
  <2>9. ASSUME NEW k \in 1..3
        PROVE  \E ahead \in 0..359 :
                  /\ (ahead - (request.numbers[k] % 360)) % 360 = 180
                  /\ 360 * ByteAt(2 * k - 1) <= 255 * ahead
                  /\ 255 * ahead < 360 * (ByteAt(2 * k - 1) + 1)
    <3>1. PICK r \in Int : r = numbers[k] /\ r \in -180..(MaxInt - 180)
        BY <2>1, MaxIntIsLarge
    <3>2. PICK ahead \in 0..359 : ahead = (r + 180) % 360
        BY <3>1
    <3>4. PICK o \in 0..254 : o = Ori(r) /\ 360 * o <= 255 * ahead /\ 255 * ahead < 360 * (o + 1)
      <4>1. /\ Ori(r) \in 0..254
            /\ 360 * Ori(r) <= 255 * ((r + 180) % 360)
            /\ 255 * ((r + 180) % 360) < 360 * (Ori(r) + 1)
          BY <3>1, OriTurns
      <4> QED
          BY <3>2, <4>1
    <3>3. ByteAt(2 * k - 1) = o
      <4>1. (2 * k - 1) + 1 = 2 * k
          OBVIOUS
      <4>2. 16 * frame.digits[2 * k - 1] + frame.digits[2 * k] = bytes[k]
          BY <2>7, Zenon DEF Spells
      <4> QED
          BY <2>4, <3>1, <3>4, <4>1, <4>2, ZenonT(60) DEF ByteAt
    <3>5. (ahead - (r % 360)) % 360 = 180
        BY <3>1, <3>2
    <3>6. PICK b : b = ByteAt(2 * k - 1) /\ b = o
        BY <3>3
    <3>7. 360 * b <= 255 * ahead /\ 255 * ahead < 360 * (b + 1)
        BY <3>4, <3>6
    <3> QED
        BY <2>1, <3>1, <3>5, <3>6, <3>7, ZenonT(60)
  <2> QED
      BY <2>8, <2>9, Zenon
<1> QED
    BY <1>1, SpecFrame, PTL

-----------------------------------------------------------------------------
(* What sscanf reads *)

\* Run is the number of characters at the front that are in S, at most max.
RunIs(k, text, S, max) ==
    /\ k \in Nat /\ k <= max /\ k <= Len(text)
    /\ \A j \in 1..k : text[j] \in S
    /\ k < max /\ k < Len(text) => text[k + 1] \notin S

\* Run is that number.
LEMMA RunFactsOf ==
    ASSUME NEW text, Len(text) \in Nat, NEW S, NEW max \in Nat
    PROVE  RunIs(Run(text, S, max), text, S, max)
<1>1. PICK len \in Nat : len = Len(text)
    OBVIOUS
<1>2. PICK top \in Nat : top = Min({max, Len(text)}) /\ top = IF max <= len THEN max ELSE len
    BY <1>1, MinMaxOfTwo
<1> DEFINE T == {k \in Nat : k = top \/ (k < top /\ text[k + 1] \notin S)}
<1>3. T \subseteq Nat /\ top \in T
    OBVIOUS
<1> HIDE DEF T
<1>4. PICK k \in T : \A m \in T : k <= m
    BY <1>3, LeastNat, Zenon
<1> USE DEF T
<1>5. k \in 0..top /\ \A j \in 1..k : text[j] \in S
  <2>1. k <= top
      BY <1>3, <1>4
  <2>2. ASSUME NEW j \in 1..k, text[j] \notin S PROVE FALSE
    <3>1. PICK i \in Nat : i = j - 1 /\ i + 1 = j
        OBVIOUS
    <3>2. i \in T /\ k \in Nat
        BY <2>1, <2>2, <3>1
    <3>3. k <= i
        BY <1>4, <3>2
    <3> QED
        BY <3>1, <3>2, <3>3
  <2> QED
      BY <2>1, <2>2
<1> DEFINE Runs == {i \in 0..top : \A j \in 1..i : text[j] \in S}
<1>6. k \in Runs /\ \A i \in Runs : k >= i
  <2>1. ASSUME NEW i \in Runs, ~(k >= i) PROVE FALSE
    <3>1. k + 1 \in 1..i /\ k # top
        BY <1>5, <2>1
    <3> QED
        BY <1>4, <2>1, <3>1
  <2> QED
      BY <1>5, <2>1
<1> HIDE DEF T
<1>7. Run(text, S, max) = Max(Runs)
    BY <1>2 DEF Run
<1> HIDE DEF Runs
<1>8. Max(Runs) = k
  <2>1. \A x \in Runs : (\A y \in Runs : x >= y) => x = k
    <3>1. \A x \in Runs : x \in Int
        BY DEF Runs
    <3> QED
        BY <1>6, <3>1
  <2> QED
      BY <1>6, <2>1 DEF Max
<1>9. k < top => text[k + 1] \notin S
    BY <1>4 DEF T
<1> QED
    BY <1>1, <1>2, <1>5, <1>7, <1>8, <1>9 DEF RunIs

\* Run on a C string.
LEMMA RunFacts ==
    ASSUME NEW text \in Chars, NEW S, NEW max \in Nat
    PROVE  RunIs(Run(text, S, max), text, S, max)
BY RunFactsOf, AtFacts

\* u is what stands behind the first n characters of text.
IsBehind(u, text, n) ==
    /\ n \in Nat /\ n <= Len(text)
    /\ u \in Chars /\ Len(u) = Len(text) - n
    /\ \A i \in 1..Len(u) : u[i] = text[n + i]

\* Drop leaves what stands behind.
LEMMA DropBehind ==
    ASSUME NEW text \in Chars, NEW n \in Nat, n <= Len(text)
    PROVE  IsBehind(Drop(text, n), text, n)
<1>1. PICK len \in Nat : len = Len(text) /\ \A i \in 1..len : text[i] \in 1..255
    BY ElementOfSeq, LenProperties, ZenonT(60) DEF Chars
<1>2. PICK m \in Int : m = n + 1
    OBVIOUS
<1>3. \A i \in m..len : text[i] \in 1..255
    BY <1>1, <1>2
<1>4. PICK u : u = Drop(text, n) /\ u = SubSeq(text, m, len)
    BY <1>1, <1>2, Zenon DEF Drop
<1>5. /\ u \in Seq(1..255) /\ Len(u) = IF m <= len THEN len - m + 1 ELSE 0
      /\ \A i \in 1..(len - m + 1) : u[i] = text[m + i - 1]
    BY <1>3, <1>4, SubSeqProperties, SMTT(30)
<1>6. Len(u) = len - n
    BY <1>1, <1>2, <1>5
<1>7. \A i \in 1..(len - n) : u[i] = text[n + i]
  <2> TAKE i \in 1..(len - n)
  <2>1. u[i] = text[m + i - 1] /\ m + i - 1 = n + i
      BY <1>2, <1>5
  <2> QED
      BY <2>1
<1> QED
    BY <1>1, <1>4, <1>5, <1>6, <1>7, Zenon DEF IsBehind, Chars

\* Tail leaves what stands behind one character.
LEMMA TailBehind ==
    ASSUME NEW text \in Chars, text # <<>>
    PROVE  IsBehind(Tail(text), text, 1) /\ Head(text) = text[1] /\ Len(text) > 0
<1>1. PICK len \in Nat : len = Len(text) /\ len > 0
    BY LenProperties, EmptySeq DEF Chars
<1>2. PICK u : u = Tail(text)
    BY Zenon
<1>3. u \in Seq(1..255) /\ Len(u) = len - 1 /\ Head(text) = text[1]
      /\ \A i \in 1..(len - 1) : u[i] = text[i + 1]
    BY <1>1, <1>2, HeadTailProperties DEF Chars
<1>4. \A i \in 1..(len - 1) : u[i] = text[1 + i]
  <2> TAKE i \in 1..(len - 1)
  <2>1. u[i] = text[i + 1] /\ i + 1 = 1 + i
      BY <1>3
  <2> QED
      BY <2>1
<1> QED
    BY <1>1, <1>2, <1>3, <1>4 DEF IsBehind, Chars

\* Behind what is behind.
LEMMA BehindBehind ==
    ASSUME NEW text \in Chars, NEW t, NEW a, IsBehind(t, text, a), NEW u, NEW b, IsBehind(u, t, b)
    PROVE  IsBehind(u, text, a + b)
<1>1. PICK len \in Nat : len = Len(text) /\ a \in Nat /\ b \in Nat /\ a <= len
    BY AtFacts DEF IsBehind
<1>2. PICK c \in Nat : c = a + b
    BY <1>1
<1>3. Len(t) = len - a /\ b <= len - a /\ Len(u) = len - a - b /\ u \in Chars
    BY <1>1 DEF IsBehind
<1>4. c <= len /\ Len(u) = len - c
    BY <1>1, <1>2, <1>3
<1>5. ASSUME NEW i \in 1..(len - c) PROVE u[i] = text[c + i]
  <2>1. PICK j : j = b + i /\ j \in 1..(len - a) /\ a + j = c + i
      BY <1>1, <1>2, <1>3
  <2>2. u[i] = t[b + i]
      BY <1>4 DEF IsBehind
  <2>3. t[j] = text[a + j]
      BY <1>3, <2>1 DEF IsBehind
  <2> QED
      BY <2>1, <2>2, <2>3
<1> QED
    BY <1>1, <1>2, <1>3, <1>4, <1>5 DEF IsBehind

\* What %x takes for a digit.
Digits == DOMAIN DigitValue

\* A digit stands for a number below sixteen.
LEMMA DigitsAre ==
    /\ Digits \subseteq 48..102
    /\ \A c \in Digits : DigitValue[c] \in 0..15
BY DEF Digits, DigitValue

\* Neither signs nor slashes nor blanks are digits.
LEMMA NoDigits ==
    Plus \notin Digits /\ Dash \notin Digits /\ Slash \notin Digits /\ \A c \in Blanks : c \notin Digits
BY DEF Digits, DigitValue, Plus, Dash, Slash, Blanks

\* The equation of the recursive function in Number.
Reads(v, u, n) ==
    v = [k \in 0..n |-> IF k = 0 THEN 0 ELSE 16 * v[k - 1] + DigitValue[u[k]]]

\* Two digits make a byte.
LEMMA TwoNibbles ==
    ASSUME NEW d \in 0..15, NEW e \in 0..15
    PROVE  16 * d + e \in 0..255
OBVIOUS

\* The function that the equation asks for.
LEMMA ReadsExists ==
    ASSUME NEW u, NEW n \in 0..2
    PROVE  \E v : Reads(v, u, n)
<1> DEFINE one == 16 * 0 + DigitValue[u[1]]
           v == [k \in 0..n |-> IF k = 0 THEN 0 ELSE IF k = 1 THEN one ELSE 16 * one + DigitValue[u[2]]]
<1>1. ASSUME NEW k \in 0..n
      PROVE  v[k] = IF k = 0 THEN 0 ELSE 16 * v[k - 1] + DigitValue[u[k]]
  <2>1. CASE k = 0
      BY <2>1
  <2>2. CASE k = 1
    <3>1. v[k] = one /\ v[0] = 0
        BY <2>2
    <3> QED
        BY <2>2, <3>1
  <2>3. CASE k = 2
    <3>1. v[k] = 16 * one + DigitValue[u[2]] /\ v[1] = one
        BY <2>3
    <3> QED
        BY <2>3, <3>1
  <2> QED
      BY <2>1, <2>2, <2>3
<1>2. v = [k \in 0..n |-> v[k]]
    OBVIOUS
<1> HIDE DEF v
<1>3. Reads(v, u, n)
    BY <1>1, <1>2, Zenon DEF Reads
<1> QED
    BY <1>3

\* At most two digits stand for a byte.
LEMMA NumberFacts ==
    ASSUME NEW u, NEW n \in 0..2, \A j \in 1..n : u[j] \in Digits
    PROVE  /\ Number(u, n) \in 0..255
           /\ n = 1 => Number(u, n) = DigitValue[u[1]]
           /\ n = 2 => Number(u, n) = 16 * DigitValue[u[1]] + DigitValue[u[2]]
<1> DEFINE v == CHOOSE v : Reads(v, u, n)
<1>1. Reads(v, u, n)
    BY ReadsExists
<1>2. Number(u, n) = v[n]
    BY DEF Number, Reads
<1> HIDE DEF v
<1>3. \A k \in 0..n : v[k] = IF k = 0 THEN 0 ELSE 16 * v[k - 1] + DigitValue[u[k]]
    BY <1>1 DEF Reads
<1>4. v[0] = 0
    BY <1>3
<1>5. ASSUME n > 0 PROVE \E d \in 0..15 : d = DigitValue[u[1]] /\ v[1] = d
  <2>1. u[1] \in Digits
      BY <1>5
  <2>2. PICK d \in 0..15 : d = DigitValue[u[1]]
      BY <2>1, DigitsAre, Zenon
  <2>3. v[1] = 16 * v[1 - 1] + DigitValue[u[1]] /\ 1 - 1 = 0
      BY <1>3, <1>5
  <2> QED
      BY <1>4, <2>2, <2>3
<1>6. CASE n = 0
    BY <1>2, <1>4, <1>6
<1>7. CASE n = 1
    BY <1>2, <1>5, <1>7
<1>8. CASE n = 2
  <2>1. PICK d \in 0..15 : d = DigitValue[u[1]] /\ v[1] = d
      BY <1>5, <1>8
  <2>2. u[2] \in Digits
      BY <1>8
  <2>3. PICK e \in 0..15 : e = DigitValue[u[2]]
      BY <2>2, DigitsAre, Zenon
  <2>4. v[2] = 16 * v[2 - 1] + DigitValue[u[2]] /\ 2 - 1 = 1
      BY <1>3, <1>8
  <2>5. v[2] = 16 * d + e
      BY <2>1, <2>3, <2>4
  <2>6. 16 * d + e \in 0..255
      BY TwoNibbles
  <2> QED
      BY <1>2, <1>8, <2>1, <2>3, <2>5, <2>6
<1> QED
    BY <1>6, <1>7, <1>8

\* What one conversion gives: the text behind the digits, and their number or
\* its negative.
Read(r, u, n, value) == (r.ok <=> n > 0) /\ r.rest = Drop(u, n) /\ r.value = value

\* Scan, with a name for each of its parts.
LEMMA ScanUnfolds ==
    ASSUME NEW s, NEW t, t = Drop(s, Run(s, Blanks, Len(s))),
           NEW u, u = WithoutSign(t), NEW n, n = Run(u, Digits, FieldWidth(HasSign(t)))
    PROVE  Read(Scan(s), u, n,
                IF HasSign(t) /\ Head(t) = Dash THEN -Number(u, n) ELSE Number(u, n))
<1>1. PICK r : r = Scan(s)
    BY SMTT(30)
<1>2. r = [ok |-> n > 0, rest |-> Drop(u, n),
           value |-> IF HasSign(t) /\ Head(t) = Dash THEN -Number(u, n) ELSE Number(u, n)]
    BY <1>1 DEF Scan, Digits
<1>3. r.ok <=> n > 0
    BY <1>2, Zenon
<1>4. r.rest = Drop(u, n)
      /\ r.value = IF HasSign(t) /\ Head(t) = Dash THEN -Number(u, n) ELSE Number(u, n)
    BY <1>2
<1> QED
    BY <1>1, <1>3, <1>4 DEF Read

\* Without a sign there is room for two digits.
LEMMA UnsignedScan ==
    ASSUME NEW s, NEW t, t = Drop(s, Run(s, Blanks, Len(s))), ~HasSign(t),
           NEW n, n = Run(t, Digits, 2)
    PROVE  Read(Scan(s), t, n, Number(t, n))
<1>1. n = Run(t, Digits, FieldWidth(HasSign(t))) /\ t = WithoutSign(t)
    BY DEF FieldWidth, WithoutSign
<1>2. Read(Scan(s), t, n,
           IF HasSign(t) /\ Head(t) = Dash THEN -Number(t, n) ELSE Number(t, n))
    BY <1>1, ScanUnfolds
<1> QED
    BY <1>2

\* With a sign there is room for one.
LEMMA SignedScan ==
    ASSUME NEW s, NEW t, t = Drop(s, Run(s, Blanks, Len(s))), HasSign(t),
           NEW u, u = Tail(t), NEW n, n = Run(u, Digits, 1)
    PROVE  Read(Scan(s), u, n, IF Head(t) = Dash THEN -Number(u, n) ELSE Number(u, n))
<1>1. n = Run(u, Digits, FieldWidth(HasSign(t))) /\ u = WithoutSign(t)
    BY DEF FieldWidth, WithoutSign
<1>2. Read(Scan(s), u, n,
           IF HasSign(t) /\ Head(t) = Dash THEN -Number(u, n) ELSE Number(u, n))
    BY <1>1, ScanUnfolds, Zenon
<1> QED
    BY <1>2

\* Two texts behind the same place are the same.
LEMMA BehindUnique ==
    ASSUME NEW text \in Chars, NEW n, NEW u, IsBehind(u, text, n), NEW v, IsBehind(v, text, n)
    PROVE  u = v
<1>1. PICK k \in Nat : k = Len(u) /\ k = Len(v) /\ u \in Chars /\ v \in Chars
  <2>1. u \in Chars /\ v \in Chars /\ Len(u) = Len(v)
      BY DEF IsBehind
  <2>2. Len(u) \in Nat
      BY <2>1, LenProperties DEF Chars
  <2> QED
      BY <2>1, <2>2
<1>2. \A i \in 1..k : u[i] = v[i]
    BY <1>1 DEF IsBehind
<1> QED
    BY <1>1, <1>2, SeqEqual DEF Chars

\* b blanks stand at the front of text, and no more.
BlanksAre(b, text) ==
    /\ b \in Nat /\ b <= Len(text)
    /\ \A j \in 1..b : text[j] \in Blanks
    /\ b < Len(text) => text[b + 1] \notin Blanks

\* There is one such number.
LEMMA BlanksUnique ==
    ASSUME NEW text \in Chars, NEW a, NEW b, BlanksAre(a, text), BlanksAre(b, text)
    PROVE  a = b
<1>1. PICK len \in Nat : len = Len(text) /\ a \in Nat /\ b \in Nat /\ a <= len /\ b <= len
    BY AtFacts DEF BlanksAre
<1>2. ~(a < b)
  <2> SUFFICES ASSUME a < b PROVE FALSE
      OBVIOUS
  <2>1. a + 1 \in 1..b /\ a < len
      BY <1>1
  <2> QED
      BY <1>1, <2>1 DEF BlanksAre
<1>3. ~(b < a)
  <2> SUFFICES ASSUME b < a PROVE FALSE
      OBVIOUS
  <2>1. b + 1 \in 1..a /\ b < len
      BY <1>1
  <2> QED
      BY <1>1, <2>1 DEF BlanksAre
<1> QED
    BY <1>1, <1>2, <1>3

\* t is what stands behind the blanks at the front of text.
Unblanked(t, b, text) ==
    BlanksAre(b, text) /\ IsBehind(t, text, b) /\ t = Drop(text, Run(text, Blanks, Len(text)))

\* So it is when the b blanks are skipped.
LEMMA BlanksSkipped ==
    ASSUME NEW text \in Chars
    PROVE  \E b \in Nat, t \in Chars : Unblanked(t, b, text)
<1>1. PICK len \in Nat : len = Len(text)
    BY AtFacts
<1>2. PICK b \in Nat : b = Run(text, Blanks, Len(text)) /\ BlanksAre(b, text)
  <2>1. RunIs(Run(text, Blanks, Len(text)), text, Blanks, Len(text))
      BY <1>1, RunFacts
  <2> QED
      BY <1>1, <2>1 DEF RunIs, BlanksAre
<1>3. b <= Len(text)
    BY <1>2 DEF BlanksAre
<1>4. PICK t \in Chars : t = Drop(text, b) /\ IsBehind(t, text, b)
    BY <1>3, DropBehind DEF IsBehind
<1> QED
    BY <1>2, <1>4 DEF Unblanked

\* What one conversion gives when it has read text up to place n.
ReadUpTo(r, text, n, value) ==
    r.ok /\ IsBehind(r.rest, text, n) /\ r.rest = Drop(text, n) /\ r.value = value

\* The text behind a part of a part.
LEMMA ReadOn ==
    ASSUME NEW text \in Chars, NEW u \in Chars, NEW a, IsBehind(u, text, a),
           NEW m \in Nat \ {0}, m <= Len(u), NEW n, n = a + m,
           NEW r, NEW value, Read(r, u, m, value)
    PROVE  ReadUpTo(r, text, n, value)
<1>1. IsBehind(Drop(u, m), text, n)
    BY DropBehind, BehindBehind
<1>2. n \in Nat /\ n <= Len(text)
    BY <1>1 DEF IsBehind
<1>3. IsBehind(Drop(text, n), text, n)
    BY <1>2, DropBehind
<1>4. Drop(u, m) = Drop(text, n)
    BY <1>1, <1>3, BehindUnique
<1>5. r.ok /\ r.rest = Drop(u, m) /\ r.value = value
    BY DEF Read
<1> QED
    BY <1>1, <1>4, <1>5 DEF ReadUpTo

\* One digit, and no other behind it.
LEMMA OneDigitRead ==
    ASSUME NEW text \in Chars, NEW b \in Nat, NEW t \in Chars, Unblanked(t, b, text),
           Len(t) > 0, t[1] \in Digits, 1 < Len(t) => t[2] \notin Digits
    PROVE  ReadUpTo(Scan(text), text, b + 1, DigitValue[t[1]])
<1>1. PICK len \in Nat : len = Len(t) /\ len > 0
    BY AtFacts
<1>2. ~HasSign(t)
  <2>1. t # <<>> => Head(t) = t[1]
      BY TailBehind
  <2> QED
      BY <2>1, NoDigits DEF HasSign
<1>3. Run(t, Digits, 2) = 1
  <2>1. PICK k \in Nat : k = Run(t, Digits, 2) /\ RunIs(k, t, Digits, 2)
      BY RunFacts DEF RunIs
  <2>2. k = 0 \/ k = 1 \/ k = 2
      BY <2>1 DEF RunIs
  <2>3. k # 0
    <3>1. k < 2 /\ k < Len(t) => t[k + 1] \notin Digits
        BY <2>1 DEF RunIs
    <3>2. k = 0 => k < 2 /\ k < Len(t) /\ k + 1 = 1
        BY <1>1
    <3> QED
        BY <3>1, <3>2
  <2>4. k # 2
    <3>1. k <= Len(t) /\ \A j \in 1..k : t[j] \in Digits
        BY <2>1 DEF RunIs
    <3>2. k = 2 => 2 \in 1..k /\ 1 < Len(t)
        BY <1>1, <3>1
    <3> QED
        BY <3>1, <3>2
  <2> QED
      BY <2>1, <2>2, <2>3, <2>4
<1>4. Read(Scan(text), t, 1, Number(t, 1))
    BY <1>2, <1>3, UnsignedScan DEF Unblanked
<1>5. Number(t, 1) = DigitValue[t[1]]
  <2>1. \A j \in 1..1 : t[j] \in Digits
    <3>1. \A j \in 1..1 : j = 1
        OBVIOUS
    <3> QED
        BY <3>1
  <2> QED
      BY <2>1, NumberFacts
<1>6. 1 \in Nat \ {0} /\ 1 <= Len(t)
    BY <1>1
<1> QED
    BY <1>4, <1>5, <1>6, ReadOn DEF Unblanked

\* Two digits.
LEMMA TwoDigitsRead ==
    ASSUME NEW text \in Chars, NEW b \in Nat, NEW t \in Chars, Unblanked(t, b, text),
           Len(t) > 1, t[1] \in Digits, t[2] \in Digits
    PROVE  ReadUpTo(Scan(text), text, b + 2, 16 * DigitValue[t[1]] + DigitValue[t[2]])
<1>1. PICK len \in Nat : len = Len(t) /\ len > 1
    BY AtFacts
<1>2. ~HasSign(t)
  <2>1. t # <<>> => Head(t) = t[1]
      BY TailBehind
  <2> QED
      BY <2>1, NoDigits DEF HasSign
<1>3. Run(t, Digits, 2) = 2
  <2>1. PICK k \in Nat : k = Run(t, Digits, 2) /\ RunIs(k, t, Digits, 2)
      BY RunFacts DEF RunIs
  <2>2. k = 0 \/ k = 1 \/ k = 2
      BY <2>1 DEF RunIs
  <2>3. k < 2 => t[k + 1] \notin Digits
      BY <1>1, <2>1 DEF RunIs
  <2>4. 0 + 1 = 1 /\ 1 + 1 = 2
      OBVIOUS
  <2> QED
      BY <2>1, <2>2, <2>3, <2>4
<1>4. Read(Scan(text), t, 2, Number(t, 2))
    BY <1>2, <1>3, UnsignedScan DEF Unblanked
<1>5. Number(t, 2) = 16 * DigitValue[t[1]] + DigitValue[t[2]]
  <2>1. \A j \in 1..2 : t[j] \in Digits
    <3>1. \A j \in 1..2 : j = 1 \/ j = 2
        OBVIOUS
    <3> QED
        BY <3>1
  <2> QED
      BY <2>1, NumberFacts
<1>6. 2 \in Nat \ {0} /\ 2 <= Len(t)
    BY <1>1
<1> QED
    BY <1>4, <1>5, <1>6, ReadOn DEF Unblanked

\* A sign and a digit.
LEMMA SignedDigitRead ==
    ASSUME NEW text \in Chars, NEW b \in Nat, NEW t \in Chars, Unblanked(t, b, text),
           Len(t) > 1, t[1] \in {Plus, Dash}, t[2] \in Digits
    PROVE  ReadUpTo(Scan(text), text, b + 2,
                    IF t[1] = Dash THEN -DigitValue[t[2]] ELSE DigitValue[t[2]])
<1>1. PICK len \in Nat : len = Len(t) /\ len > 1 /\ t # <<>>
  <2>1. PICK len \in Nat : len = Len(t) /\ len > 1
      BY AtFacts
  <2> QED
      BY <2>1, EmptySeq
<1>2. PICK u \in Chars : u = Tail(t) /\ IsBehind(u, t, 1) /\ Head(t) = t[1]
    BY <1>1, TailBehind DEF IsBehind
<1>3. HasSign(t)
    BY <1>1, <1>2 DEF HasSign
<1>4. PICK m \in Nat : m = Len(u) /\ m = len - 1 /\ m > 0 /\ u[1] = t[2]
  <2>1. Len(u) = len - 1 /\ \A i \in 1..Len(u) : u[i] = t[1 + i]
      BY <1>1, <1>2 DEF IsBehind
  <2>2. 1 \in 1..Len(u) /\ 1 + 1 = 2
      BY <1>1, <2>1
  <2>3. u[1] = t[2]
      BY <2>1, <2>2
  <2>4. len - 1 \in Nat /\ len - 1 > 0
      BY <1>1
  <2> QED
      BY <2>1, <2>3, <2>4
<1>5. Run(u, Digits, 1) = 1
  <2>1. PICK k \in Nat : k = Run(u, Digits, 1) /\ RunIs(k, u, Digits, 1)
      BY RunFacts DEF RunIs
  <2>2. k = 0 \/ k = 1
      BY <2>1 DEF RunIs
  <2>3. k # 0
    <3>1. k < 1 /\ k < Len(u) => u[k + 1] \notin Digits
        BY <2>1 DEF RunIs
    <3>2. k = 0 => k < 1 /\ k < Len(u) /\ k + 1 = 1
        BY <1>4
    <3> QED
        BY <1>4, <3>1, <3>2
  <2> QED
      BY <2>1, <2>2, <2>3
<1>6. Read(Scan(text), u, 1, IF Head(t) = Dash THEN -Number(u, 1) ELSE Number(u, 1))
    BY <1>2, <1>3, <1>5, SignedScan DEF Unblanked
<1>7. Number(u, 1) = DigitValue[t[2]]
  <2>1. \A j \in 1..1 : u[j] \in Digits
    <3>1. \A j \in 1..1 : j = 1
        OBVIOUS
    <3> QED
        BY <1>4, <3>1
  <2> QED
      BY <1>4, <2>1, NumberFacts
<1>8. IsBehind(u, text, b + 1)
    BY <1>2, BehindBehind DEF Unblanked
<1>9. 1 \in Nat \ {0} /\ 1 <= Len(u) /\ b + 2 = (b + 1) + 1
    BY <1>4
<1> QED
    BY <1>2, <1>6, <1>7, <1>8, <1>9, ReadOn

\* One conversion read two characters.
ReadTwo(r, s, value) == r.ok /\ r.value = value /\ IsBehind(r.rest, s, 2)

\* Two digits at the front are what one conversion reads.
LEMMA TwoDigits ==
    ASSUME NEW s \in Chars, NEW d \in 0..15, NEW e \in 0..15, Len(s) >= 2,
           s[1] \in Digits, s[2] \in Digits, d = DigitValue[s[1]], e = DigitValue[s[2]]
    PROVE  ReadTwo(Scan(s), s, 16 * d + e)
<1>1. PICK len \in Nat : len = Len(s) /\ len >= 2
    BY AtFacts
<1>2. Run(s, Blanks, Len(s)) = 0
  <2>1. PICK k : k = Run(s, Blanks, Len(s)) /\ RunIs(k, s, Blanks, Len(s))
      BY <1>1, RunFacts
  <2>2. ASSUME k > 0 PROVE FALSE
    <3>1. s[1] \in Blanks
        BY <2>1, <2>2 DEF RunIs
    <3> QED
        BY <3>1, NoDigits
  <2> QED
      BY <2>1, <2>2 DEF RunIs
<1>3. Drop(s, 0) = s
  <2>1. PICK t : t = Drop(s, 0) /\ IsBehind(t, s, 0)
      BY <1>1, DropBehind
  <2>2. t \in Chars /\ Len(t) = len - 0 /\ \A i \in 1..Len(t) : t[i] = s[0 + i]
      BY <1>1, <2>1 DEF IsBehind
  <2>3. Len(t) = len /\ \A i \in 1..len : t[i] = s[i]
    <3>1. \A i \in 1..len : 0 + i = i
        OBVIOUS
    <3>2. len - 0 = len
        OBVIOUS
    <3> QED
        BY <2>2, <3>1, <3>2
  <2> QED
      BY <1>1, <2>1, <2>2, <2>3, SeqEqual DEF Chars
<1>4. ~HasSign(s)
  <2>1. s # <<>> => Head(s) = s[1]
      BY TailBehind
  <2> QED
      BY <2>1, NoDigits DEF HasSign
<1>5. Run(s, Digits, 2) = 2
  <2>1. PICK k \in Nat : k = Run(s, Digits, 2) /\ RunIs(k, s, Digits, 2)
      BY RunFacts DEF RunIs
  <2>2. k = 0 \/ k = 1 \/ k = 2
      BY <2>1 DEF RunIs
  <2>3. k < 2 => s[k + 1] \notin Digits
      BY <1>1, <2>1 DEF RunIs
  <2>4. 0 + 1 = 1 /\ 1 + 1 = 2
      OBVIOUS
  <2> QED
      BY <2>1, <2>2, <2>3, <2>4
<1>6. Read(Scan(s), s, 2, Number(s, 2))
    BY <1>2, <1>3, <1>4, <1>5, UnsignedScan
<1>7. Number(s, 2) = 16 * d + e
  <2>1. \A j \in 1..2 : s[j] \in Digits
    <3>1. \A j \in 1..2 : j = 1 \/ j = 2
        OBVIOUS
    <3> QED
        BY <3>1
  <2> QED
      BY <2>1, NumberFacts
<1>8. IsBehind(Drop(s, 2), s, 2)
    BY <1>1, DropBehind
<1> QED
    BY <1>6, <1>7, <1>8 DEF Read, ReadTwo

-----------------------------------------------------------------------------
(* Colours over OSC *)

\* The number of the lamp that a message is for, from its address.
LampOf(name) == LampIndex(Drop(RgbAddress(name), 14))

\* Whatever the name, the lamp's number is a byte.
LEMMA LampIsByte == \A name : LampIndex(name) \in 0..255
<1> SUFFICES ASSUME NEW name PROVE LampIndex(name) \in 0..255
    OBVIOUS
<1> QED
    BY DEF LampIndex

\* A name that begins with two digits is a lamp's number.
LEMMA LampDigits ==
    ASSUME NEW name \in Chars, Len(name) >= 2, NEW d \in 0..15, NEW e \in 0..15,
           name[1] \in Digits, name[2] \in Digits,
           d = DigitValue[name[1]], e = DigitValue[name[2]]
    PROVE  LampOf(name) = 16 * d + e
<1>1. PICK j \in Nat : j = Len(name) /\ j >= 2
    BY AtFacts
<1>2. PICK a \in Chars : a = RgbAddress(name) /\ IsTriple(a, LampsPath, name, RgbPath, 14, j, 4)
    BY <1>1, RgbAddressIs
<1>3. Len(a) = j + 18
    BY <1>2 DEF IsTriple
<1>4. PICK u : u = Drop(a, 14) /\ IsBehind(u, a, 14)
    BY <1>1, <1>3, DropBehind
<1>5. u \in Chars /\ Len(u) = j + 4 /\ \A i \in 1..(j + 4) : u[i] = a[14 + i]
  <2>1. u \in Chars /\ Len(u) = (j + 18) - 14 /\ \A i \in 1..Len(u) : u[i] = a[14 + i]
      BY <1>3, <1>4 DEF IsBehind
  <2>2. (j + 18) - 14 = j + 4
      OBVIOUS
  <2> QED
      BY <2>1, <2>2
<1>6. ASSUME NEW i \in 1..j PROVE u[i] = name[i]
  <2>1. a[14 + i] = name[i]
      BY <1>2 DEF IsTriple
  <2> QED
      BY <1>5, <2>1
<1>7. u[1] = name[1] /\ u[2] = name[2]
    BY <1>1, <1>6
<1>8. ReadTwo(Scan(u), u, 16 * d + e)
  <2>1. u[1] \in Digits /\ u[2] \in Digits /\ d = DigitValue[u[1]] /\ e = DigitValue[u[2]]
      BY <1>7
  <2>2. Len(u) >= 2
      BY <1>1, <1>5
  <2> QED
      BY <1>5, <2>1, <2>2, TwoDigits, Zenon
<1>9. PICK v \in 0..255 : v = 16 * d + e
    BY TwoNibbles, Zenon
<1>10. LampIndex(u) = v
    BY <1>8, <1>9 DEF ReadTwo, LampIndex
<1> QED
    BY <1>2, <1>4, <1>9, <1>10 DEF LampOf

\* What the daemon writes for a colour: the bytes, and the lamp's number.
RgbBytes(name, numbers) == [k \in 1..3 |-> Clamp(numbers[k])] \o <<LampOf(name)>>

\* The numbers of a colour frame are bytes.
LEMMA RgbBytesAre ==
    ASSUME NEW name, NEW numbers, AreInts(numbers)
    PROVE  /\ RgbBytes(name, numbers) \in [1..4 -> 0..255]
           /\ \A k \in 1..3 : RgbBytes(name, numbers)[k] = Clamp(numbers[k])
           /\ RgbBytes(name, numbers)[4] = LampOf(name)
<1>1. PICK colour : colour = [k \in 1..3 |-> Clamp(numbers[k])]
    BY Zenon
<1>2. \A k \in 1..3 : colour[k] = Clamp(numbers[k]) /\ colour[k] \in 0..255
    BY <1>1, ClampIsNearest, Zenon DEF AreInts, IsInt32, IsNearest
<1>3. colour \in Seq(0..255) /\ Len(colour) = 3
  <2>1. colour = [k \in 1..3 |-> colour[k]]
      BY <1>1
  <2>2. colour \in Seq(0..255)
      BY <1>2, <2>1, IsASeq
  <2>3. DOMAIN colour = 1..3
      BY <1>1
  <2> QED
      BY <2>2, <2>3, LenProperties
<1>4. PICK lamp : lamp = <<LampOf(name)>>
    BY Zenon
<1>0. lamp \in Seq(0..255) /\ Len(lamp) = 1 /\ lamp[1] = LampOf(name)
  <2>1. LampOf(name) \in 0..255
      BY LampIsByte DEF LampOf
  <2> QED
      BY <1>4, <2>1
<1>5. PICK bytes : bytes = Joined(colour, lamp) /\ bytes = RgbBytes(name, numbers)
    BY <1>1, <1>4, Zenon DEF RgbBytes, Joined
<1>6. bytes \in Seq(0..255) /\ IsPair(bytes, colour, lamp, 3, 1)
  <2>1. PICK S : S = 0..255
      BY Zenon
  <2>2. PICK n \in Nat, j \in Nat : n = 3 /\ j = 1
      OBVIOUS
  <2>3. colour \in Seq(S) /\ lamp \in Seq(S) /\ Len(colour) = n /\ Len(lamp) = j
      BY <1>0, <1>3, <2>1, <2>2
  <2>4. bytes \in Seq(S) /\ IsPair(bytes, colour, lamp, n, j)
      BY <1>5, <2>3, TwoParts, Zenon
  <2> QED
      BY <2>1, <2>2, <2>4
<1>7. Len(bytes) = 4 /\ bytes[4] = lamp[1] /\ \A k \in 1..3 : bytes[k] = colour[k]
  <2>1. Len(bytes) = 3 + 1 /\ bytes[3 + 1] = lamp[1] /\ \A k \in 1..3 : bytes[k] = colour[k]
      BY <1>6 DEF IsPair
  <2> QED
      BY <2>1
<1>8. bytes \in [1..4 -> 0..255]
  <2>1. bytes \in Seq(0..255) /\ Len(bytes) = 4
      BY <1>6, <1>7
  <2> QED
      BY <2>1, LenProperties, ZenonT(60)
<1>9. bytes[4] = LampOf(name) /\ \A k \in 1..3 : bytes[k] = Clamp(numbers[k])
    BY <1>0, <1>2, <1>7
<1> QED
    BY <1>5, <1>8, <1>9

\* The address of a colour is a C string that begins with a slash.
LEMMA RgbAddressStarts ==
    ASSUME NEW name \in Chars
    PROVE  RgbAddress(name) \in Seq(1..255) /\ At(RgbAddress(name), 1) = Slash
<1>1. PICK j \in Nat : j = Len(name)
    BY AtFacts
<1>2. PICK a \in Chars : a = RgbAddress(name) /\ IsTriple(a, LampsPath, name, RgbPath, 14, j, 4)
    BY <1>1, RgbAddressIs
<1>3. Len(a) = 14 + j + 4 /\ a[1] = LampsPath[1]
    BY <1>2 DEF IsTriple
<1>4. At(a, 1) = a[1]
  <2>1. 1 \in 1..Len(a)
      BY <1>3
  <2> QED
      BY <2>1, AtFacts
<1> QED
    BY <1>2, <1>3, <1>4, PathsAre DEF Chars

\* A colour over OSC makes a frame of four bytes.
LEMMA RgbWrites ==
    ASSUME NEW name \in Chars, NEW numbers, AreInts(numbers), Slash \notin ToSet(name)
    PROVE  OscFrame(RgbMessage(name, numbers)) = Writes(RgbBytes(name, numbers))
<1>1. ThreeOf(numbers) \in Seq(Value) /\ ThreeInts(ThreeOf(numbers))
    BY ThreeAreValues
<1>2. PICK a : a = RgbAddress(name) /\ a \in Seq(1..255) /\ At(a, 1) = Slash
    BY RgbAddressStarts
<1>3. PICK m : m = Osc(a, ThreeOf(numbers)) /\ IsMessage(m, a, ThreeOf(numbers))
    BY <1>1, <1>2, OscArrives
<1>4. HasThreeInts(m, RgbPattern)
    BY <1>1, <1>2, <1>3, RgbMatches, AsksForThreeInts
<1>5. m.address = a
    BY <1>3 DEF IsMessage
<1>6. Len(LampsPath) = 14
    BY PathsAre
<1>7. OscFrame(m) = Writes([k \in 1..3 |-> Clamp(Ints(m)[k])] \o <<LampOf(name)>>)
    BY <1>2, <1>4, <1>5, <1>6 DEF OscFrame, RgbPattern, LampOf
<1>8. \A k \in 1..3 : Ints(m)[k] = numbers[k]
    BY <1>3, ThreeArrive
<1>9. [k \in 1..3 |-> Clamp(Ints(m)[k])] = [k \in 1..3 |-> Clamp(numbers[k])]
    BY <1>8
<1>10. m = RgbMessage(name, numbers)
    BY <1>2, <1>3 DEF RgbMessage, RgbAddress, ThreeOf
<1> QED
    BY <1>7, <1>9, <1>10 DEF RgbBytes

\* An address with more elements is none the daemon knows.
LEMMA RgbWritesNothing ==
    ASSUME NEW name \in Chars, NEW numbers, AreInts(numbers), Slash \in ToSet(name)
    PROVE  OscFrame(RgbMessage(name, numbers)) = NoFrame
<1>1. ThreeOf(numbers) \in Seq(Value)
    BY ThreeAreValues
<1>2. PICK a : a = RgbAddress(name) /\ a \in Seq(1..255) /\ At(a, 1) = Slash
    BY RgbAddressStarts
<1>3. PICK m : m = Osc(a, ThreeOf(numbers)) /\ IsMessage(m, a, ThreeOf(numbers))
    BY <1>1, <1>2, OscArrives
<1>4. ~HasThreeInts(m, RgbPattern) /\ ~HasThreeInts(m, OriPath)
    BY <1>1, <1>2, <1>3, RgbMatches, OriMatches, AsksForThreeInts
<1>5. OscFrame(m) = NoFrame
    BY <1>4 DEF OscFrame, RgbPattern
<1>6. m = RgbMessage(name, numbers)
    BY <1>2, <1>3 DEF RgbMessage, RgbAddress, ThreeOf
<1> QED
    BY <1>5, <1>6

\* A frame of bytes is a frame.
LEMMA WritesFrame ==
    ASSUME NEW n \in Nat, n > 0, NEW bytes \in [1..n -> 0..255], NEW f, f = Writes(bytes)
    PROVE  f # NoFrame /\ Spells(f.digits, bytes, n)
<1>1. Spells(f.digits, bytes, n)
    BY WritesSpells, Zenon
<1>2. f.kind = "i"
    BY DEF Writes
<1>3. NoFrame.kind = "none"
    BY DEF NoFrame
<1> QED
    BY <1>1, <1>2, <1>3

\* Two digits of the frame spell its byte.
LEMMA ByteAtIs ==
    ASSUME NEW n \in Nat, NEW bytes, Spells(frame.digits, bytes, n), NEW k \in 1..n
    PROVE  ByteAt(2 * k - 1) = bytes[k]
<1>1. (2 * k - 1) + 1 = 2 * k
    OBVIOUS
<1>2. 16 * frame.digits[2 * k - 1] + frame.digits[2 * k] = bytes[k]
    BY Zenon DEF Spells
<1> QED
    BY <1>1, <1>2 DEF ByteAt

\* A frame of four bytes has eight digits.
LEMMA FourByteFrame ==
    ASSUME NEW bytes \in [1..4 -> 0..255], NEW f, f = Writes(bytes)
    PROVE  f # NoFrame /\ Spells(f.digits, bytes, 4) /\ f.digits \in Seq(0..15) /\ Len(f.digits) = 8
<1>1. PICK n \in Nat : n = 4 /\ n > 0 /\ bytes \in [1..n -> 0..255]
    OBVIOUS
<1>2. f # NoFrame /\ Spells(f.digits, bytes, n)
    BY <1>1, WritesFrame, Zenon
<1>3. f.digits \in Seq(0..15) /\ Len(f.digits) = 8
    BY <1>1, <1>2 DEF Spells
<1> QED
    BY <1>1, <1>2, <1>3

\* The last byte of a frame is the lamp's number, digit by digit.
LEMMA LampByDigits ==
    ASSUME NEW name \in Chars, Run(name, Digits, 2) = 2,
           NEW digits \in Seq(0..15), Len(digits) = 8,
           16 * digits[7] + digits[8] = LampOf(name)
    PROVE  SubSeq(digits, 7, 8) = [k \in 1..2 |-> DigitValue[name[k]]]
<1>1. RunIs(2, name, Digits, 2)
    BY RunFacts
<1>2. Len(name) >= 2 /\ name[1] \in Digits /\ name[2] \in Digits
  <2>1. PICK j \in Nat : j = Len(name)
      BY AtFacts
  <2> QED
      BY <1>1, <2>1 DEF RunIs
<1>3. PICK d \in 0..15, e \in 0..15 : d = DigitValue[name[1]] /\ e = DigitValue[name[2]]
    BY <1>2, DigitsAre, Zenon
<1>4. LampOf(name) = 16 * d + e
    BY <1>2, <1>3, LampDigits, Zenon
<1>5. PICK x \in 0..15, y \in 0..15 : x = digits[7] /\ y = digits[8]
  <2>1. digits \in [1..8 -> 0..15]
      BY LenProperties, Zenon
  <2>2. 7 \in 1..8 /\ 8 \in 1..8
      OBVIOUS
  <2> QED
      BY <2>1, <2>2, Zenon
<1>6. x = d /\ y = e
  <2>1. 16 * x + y = 16 * d + e
      BY <1>4, <1>5
  <2> QED
      BY <2>1
<1>7. PICK two : two = SubSeq(digits, 7, 8)
    BY Zenon
<1>8. two \in Seq(0..15) /\ Len(two) = 2 /\ two[1] = x /\ two[2] = y
  <2>1. \A i \in 7..8 : digits[i] \in 0..15
    <3>1. \A i \in 7..8 : i = 7 \/ i = 8
        OBVIOUS
    <3> QED
        BY <1>5, <3>1, Zenon
  <2>2. two \in Seq(0..15) /\ Len(two) = 8 - 7 + 1 /\ \A i \in 1..(8 - 7 + 1) : two[i] = digits[7 + i - 1]
      BY <1>7, <2>1, SubSeqProperties
  <2>3. 8 - 7 + 1 = 2 /\ 7 + 1 - 1 = 7 /\ 7 + 2 - 1 = 8
      OBVIOUS
  <2> QED
      BY <1>5, <2>2, <2>3
<1>9. two = [k \in 1..2 |-> two[k]]
    BY <1>8, LenProperties
<1>10. \A k \in 1..2 : two[k] = DigitValue[name[k]]
  <2>1. \A k \in 1..2 : k = 1 \/ k = 2
      OBVIOUS
  <2> QED
      BY <1>3, <1>6, <1>8, <2>1
<1> QED
    BY <1>7, <1>9, <1>10

\* What arguments make a frame.
LEMMA OtherArguments ==
    ASSUME NEW args \in Seq(Value), NEW address \in {OriPath, LampsPath \o << 48 >> \o RgbPath}
    PROVE  OscFrame(Osc(address, args)) # NoFrame <=> ThreeInts(args)
<1>1. PICK name \in Chars : name = <<48>> /\ Slash \notin ToSet(name)
  <2>1. <<48>> \in Chars
      BY DEF Chars
  <2>2. Slash \notin ToSet(<<48>>)
      BY DEF ToSet, Slash
  <2> QED
      BY <2>1, <2>2
<1>2. address \in Seq(1..255) /\ At(address, 1) = Slash
  <2>1. CASE address = OriPath
      BY <2>1 DEF OriPath, At, Slash
  <2>2. CASE address = LampsPath \o <<48>> \o RgbPath
    <3>1. address = RgbAddress(name)
        BY <1>1, <2>2 DEF RgbAddress
    <3> QED
        BY <3>1, RgbAddressStarts
  <2> QED
      BY <2>1, <2>2
<1>3. FullPatternMatch(RgbPattern, address) \/ FullPatternMatch(OriPath, address)
  <2>1. FullPatternMatch(RgbPattern, RgbAddress(name))
      BY <1>1, RgbMatches
  <2> QED
      BY <1>1, <2>1, OriMatches, Zenon DEF RgbAddress
<1>4. PICK m : m = Osc(address, args) /\ IsMessage(m, address, args)
    BY <1>2, OscArrives
<1>5. HasThreeInts(m, RgbPattern) <=> FullPatternMatch(RgbPattern, address) /\ ThreeInts(args)
    BY <1>4, AsksForThreeInts
<1>6. HasThreeInts(m, OriPath) <=> FullPatternMatch(OriPath, address) /\ ThreeInts(args)
    BY <1>4, AsksForThreeInts
<1>7. \A numbers : Writes(numbers) # NoFrame
    BY DEF Writes, NoFrame
<1>8. OscFrame(m) # NoFrame <=> HasThreeInts(m, RgbPattern) \/ HasThreeInts(m, OriPath)
    BY <1>7 DEF OscFrame, RgbPattern
<1> QED
    BY <1>3, <1>4, <1>5, <1>6, <1>8

\* Three ints, told by the tags.
LEMMA TagsOfThree ==
    ASSUME NEW args \in Seq(Value)
    PROVE  ThreeInts(args) <=> [k \in DOMAIN args |-> args[k].tag] = <<Int32Tag, Int32Tag, Int32Tag>>
<1>1. PICK len \in Nat : len = Len(args) /\ DOMAIN args = 1..len
    BY LenProperties
<1>2. PICK tags : tags = [k \in DOMAIN args |-> args[k].tag]
    BY Zenon
<1>3. PICK three : three = <<Int32Tag, Int32Tag, Int32Tag>>
    BY Zenon
<1>4. DOMAIN three = 1..3 /\ (\A k \in 1..3 : three[k] = Int32Tag) /\ three = [k \in 1..3 |-> three[k]]
  <2>1. DOMAIN three = 1..3 /\ three[1] = Int32Tag /\ three[2] = Int32Tag /\ three[3] = Int32Tag
      BY <1>3
  <2>2. \A k \in 1..3 : k = 1 \/ k = 2 \/ k = 3
      OBVIOUS
  <2>3. three \in Seq({Int32Tag}) /\ Len(three) = 3
      BY <1>3
  <2> QED
      BY <2>1, <2>2, <2>3, LenProperties
<1>5. ASSUME ThreeInts(args) PROVE tags = three
  <2>1. len = 3 /\ \A k \in 1..3 : args[k].tag = Int32Tag
      BY <1>1, <1>5 DEF ThreeInts
  <2>2. tags = [k \in 1..3 |-> args[k].tag]
      BY <1>1, <1>2, <2>1
  <2>3. \A k \in 1..3 : args[k].tag = three[k]
      BY <1>4, <2>1
  <2>4. [k \in 1..3 |-> args[k].tag] = [k \in 1..3 |-> three[k]]
      BY <2>3
  <2> QED
      BY <1>4, <2>2, <2>4
<1>6. ASSUME tags = three PROVE ThreeInts(args)
  <2>1. DOMAIN tags = 1..len /\ \A k \in 1..len : tags[k] = args[k].tag
      BY <1>1, <1>2
  <2>2. 1..len = 1..3
      BY <1>4, <1>6, <2>1
  <2>3. len = 3
    <3>1. 3 \in 1..len
      <4>1. 3 \in 1..3
          OBVIOUS
      <4> QED
          BY <2>2, <4>1, Zenon
    <3>2. len \in 1..3
      <4>1. len \in 1..len
          BY <3>1
      <4> QED
          BY <2>2, <4>1, Zenon
    <3> QED
        BY <3>1, <3>2
  <2>4. \A k \in 1..3 : args[k].tag = Int32Tag
      BY <1>4, <1>6, <2>1, <2>3
  <2> QED
      BY <1>1, <2>3, <2>4 DEF ThreeInts
<1> QED
    BY <1>2, <1>3, <1>5, <1>6

\* A colour sent over OSC arrives as the nearest bytes with the lamp's number
\* behind them, for every name that is one element of a path, and for no other;
\* three ints are what makes a frame, and nothing else does.
THEOREM RgbIsClamped == Spec => []RgbAsClamped
<1>1. ASSUME FrameInv, request.kind = "rgb"
      PROVE  /\ (frame # NoFrame) <=> Slash \notin ToSet(request.name)
             /\ frame # NoFrame =>
                 /\ Len(frame.digits) = 8
                 /\ \A k \in 1..3 : IsNearest(ByteAt(2 * k - 1), request.numbers[k])
                 /\ Run(request.name, DOMAIN DigitValue, 2) = 2 =>
                      SubSeq(frame.digits, 7, 8) = [k \in 1..2 |-> DigitValue[request.name[k]]]
  <2>1. PICK numbers : numbers = request.numbers /\ AreInts(numbers)
      BY <1>1, ClientsSendInts
  <2>2. PICK name \in Chars : name = request.name
      BY <1>1, ClientsSendInts
  <2>3. frame = OscFrame(RgbMessage(name, numbers))
      BY <1>1, <2>1, <2>2, Zenon DEF FrameInv, RgbFramed
  <2>4. CASE Slash \in ToSet(name)
      BY <2>1, <2>2, <2>3, <2>4, RgbWritesNothing
  <2>5. CASE Slash \notin ToSet(name)
    <3>1. PICK bytes \in [1..4 -> 0..255] :
            /\ frame = Writes(bytes)
            /\ \A k \in 1..3 : bytes[k] = Clamp(numbers[k])
            /\ bytes[4] = LampOf(name)
      <4>1. frame = Writes(RgbBytes(name, numbers))
          BY <2>1, <2>3, <2>5, RgbWrites
      <4> QED
          BY <2>1, <4>1, RgbBytesAre
    <3>0. /\ frame # NoFrame /\ Len(frame.digits) = 8 /\ frame.digits \in Seq(0..15)
          /\ Spells(frame.digits, bytes, 4)
        BY <3>1, FourByteFrame, Zenon
    <3>2. \A k \in 1..4 : ByteAt(2 * k - 1) = bytes[k]
        BY <3>0, ByteAtIs
    <3>3. ASSUME NEW k \in 1..3 PROVE IsNearest(ByteAt(2 * k - 1), request.numbers[k])
      <4>1. ByteAt(2 * k - 1) = Clamp(numbers[k])
          BY <3>1, <3>2
      <4>2. numbers[k] \in Int
          BY <2>1 DEF AreInts, IsInt32
      <4> QED
          BY <2>1, <4>1, <4>2, ClampIsNearest
    <3>4. 16 * frame.digits[7] + frame.digits[8] = LampOf(name)
      <4>1. ByteAt(2 * 4 - 1) = LampOf(name) /\ 2 * 4 - 1 = 7 /\ 7 + 1 = 8
          BY <3>1, <3>2
      <4> QED
          BY <4>1 DEF ByteAt
    <3>5. Run(name, Digits, 2) = 2 =>
              SubSeq(frame.digits, 7, 8) = [k \in 1..2 |-> DigitValue[name[k]]]
        BY <3>0, <3>4, LampByDigits, ZenonT(60)
    <3> QED
        BY <2>2, <2>5, <3>0, <3>3, <3>5 DEF Digits
  <2> QED
      BY <2>4, <2>5
<1>2. ASSUME FrameInv, request.kind = "other"
      PROVE  (frame # NoFrame) <=> [k \in DOMAIN request.args |-> request.args[k].tag]
                                 = <<Int32Tag, Int32Tag, Int32Tag>>
  <2>1. PICK args \in Seq(Value) : args = request.args
    <3>1. request.args \in ArgLists
        BY <1>2, ZenonT(60) DEF FrameInv, OtherFramed
    <3>2. \A args \in ArgLists : args \in Seq(Value)
        BY ClientsSend, Zenon
    <3> QED
        BY <3>1, <3>2
  <2>2. PICK address \in {OriPath, LampsPath \o <<48>> \o RgbPath} : frame = OscFrame(Osc(address, args))
      BY <1>2, <2>1 DEF FrameInv, OtherFramed
  <2>3. frame # NoFrame <=> ThreeInts(args)
      BY <2>2, OtherArguments, Zenon
  <2> QED
      BY <2>1, <2>3, TagsOfThree, Zenon
<1>3. FrameInv => RgbAsClamped
    BY <1>1, <1>2 DEF RgbAsClamped
<1> QED
    BY <1>3, SpecFrame, PTL

-----------------------------------------------------------------------------
(* The bridge *)

\* The characters of the decimal digits.
LEMMA DecimalDigits ==
    \A x \in 0..9 : 48 + x \in Digits /\ DigitValue[48 + x] = x /\ 48 + x # Slash /\ 48 + x \in 1..255
BY DEF Digits, DigitValue, Slash

\* A lamp's number below ten, as the bridge writes it, is the number the daemon
\* reads.
LEMMA LampNameIsRead ==
    ASSUME NEW n \in 0..9
    PROVE  /\ LampName(n) \in Chars /\ Slash \notin ToSet(LampName(n))
           /\ LampOf(LampName(n)) = n
<1>1. n \div 10 = 0 /\ n % 10 = n
    OBVIOUS
<1>2. LampName(n) = <<48, 48 + n>>
    BY <1>1 DEF LampName
<1>3. PICK c \in 1..255 : c = 48 + n /\ c \in Digits /\ DigitValue[c] = n /\ c # Slash
    BY DecimalDigits
<1>4. 48 \in 1..255 /\ 48 \in Digits /\ DigitValue[48] = 0 /\ 48 # Slash
  <2>1. 48 + 0 = 48 /\ 0 \in 0..9
      OBVIOUS
  <2> QED
      BY <2>1, DecimalDigits
<1>5. PICK name : name = LampName(n) /\ name = <<48, c>>
    BY <1>2, <1>3
<1>6. name \in Chars /\ Len(name) = 2 /\ name[1] = 48 /\ name[2] = c /\ DOMAIN name = 1..2
    BY <1>4, <1>5 DEF Chars
<1>7. Slash \notin ToSet(name)
  <2>1. \A i \in 1..2 : i = 1 \/ i = 2
      OBVIOUS
  <2> QED
      BY <1>3, <1>4, <1>6, <2>1 DEF ToSet
<1>8. LampOf(name) = 16 * 0 + n
  <2>1. Len(name) >= 2 /\ 0 \in 0..15 /\ n \in 0..15
      BY <1>6
  <2>2. name[1] \in Digits /\ name[2] \in Digits /\ 0 = DigitValue[name[1]] /\ n = DigitValue[name[2]]
      BY <1>3, <1>4, <1>6
  <2> QED
      BY <1>6, <2>1, <2>2, LampDigits, Zenon
<1> QED
    BY <1>5, <1>6, <1>7, <1>8

\* The lamp a controller belongs to, and which of its colours it is.
LampFor(c) == IF c < 3 THEN 0 ELSE 1 + ((c - 16) \div 3)
ColourFor(c) == IF c < 3 THEN c ELSE (c - 16) % 3

\* The bridge takes a controller to its lamp, and the place of its colour among
\* that lamp's controllers.
LEMMA Controlled ==
    ASSUME NEW c \in 0..127, ForMoodlamp(c), c \notin 28..31,
           NEW lamp, lamp = LampFor(c), NEW colour, colour = ColourFor(c)
    PROVE  /\ NumberFor(c) = lamp /\ lamp \in 0..4 /\ colour \in 0..2
           /\ FirstOf(c) \in 0..125 /\ FirstOf(c) + colour = c
<1>1. CASE c < 3
    BY <1>1 DEF FirstOf, NumberFor, LampFor, ColourFor
<1>2. CASE ~(c < 3)
  <2>1. c \in 16..27
      BY <1>2 DEF ForMoodlamp
  <2>2. PICK q \in 0..3, r \in 0..2 : q = (c - 16) \div 3 /\ r = (c - 16) % 3 /\ c - 16 = 3 * q + r
      BY <2>1
  <2>3. q % 4 = q
      OBVIOUS
  <2>4. FirstOf(c) = 16 + 3 * q
      BY <1>2, <2>2, <2>3 DEF FirstOf
  <2>5. NumberFor(c) = q + 1
    <3>1. (3 * q) \div 3 = q
        OBVIOUS
    <3> QED
        BY <1>2, <2>4, <3>1 DEF NumberFor
  <2>6. lamp = 1 + q /\ colour = r
      BY <1>2, <2>2 DEF LampFor, ColourFor
  <2> QED
      BY <2>1, <2>2, <2>4, <2>5, <2>6
<1> QED
    BY <1>1, <1>2

\* A byte is its own nearest.
LEMMA ClampKeepsBytes ==
    ASSUME NEW v \in 0..255
    PROVE  Clamp(v) = v
<1>1. IsNearest(Clamp(v), v)
    BY ClampIsNearest
<1>2. PICK b \in 0..255 : b = Clamp(v) /\ b <= v /\ v <= b
  <2>1. v <= v
      OBVIOUS
  <2> QED
      BY <1>1, <2>1 DEF IsNearest
<1>3. b = v
    BY <1>2
<1> QED
    BY <1>2, <1>3

\* Moving a knob sends its new position to its lamp, at the place of its colour,
\* whatever the bridge remembers of the other knobs.
THEOREM KnobReaches == Spec => []KnobReachesLamp
<1>1. ASSUME FrameInv, request.kind = "moved", request.controller \notin 28..31,
             NEW lamp, lamp = LampFor(request.controller),
             NEW colour, colour = ColourFor(request.controller)
      PROVE  /\ Len(frame.digits) = 8
             /\ ByteAt(2 * colour + 1) = 2 * request.position
             /\ ByteAt(7) = lamp
  <2>1. PICK c \in 0..127, position \in 0..127 :
            /\ c = request.controller /\ position = request.position
            /\ ForMoodlamp(c) /\ controllerState[c] = position * 2
            /\ frame = OscFrame(RgbMessage(LampName(NumberFor(c)),
                          [k \in 1..3 |-> controllerState[FirstOf(c) + k - 1]]))
    <3>1. /\ request.controller \in 0..127 /\ request.position \in 0..127
          /\ ForMoodlamp(request.controller)
          /\ controllerState[request.controller] = request.position * 2
          /\ frame = OscFrame(RgbMessage(LampName(NumberFor(request.controller)),
                  [k \in 1..3 |-> controllerState[FirstOf(request.controller) + k - 1]]))
        BY <1>1, Zenon DEF FrameInv, MoveFramed
    <3>2. PICK c \in 0..127, position \in 0..127 : c = request.controller /\ position = request.position
        BY <3>1, ZenonT(60)
    <3> QED
        BY <3>1, <3>2, Zenon
  <2>2. /\ NumberFor(c) = lamp /\ lamp \in 0..4 /\ colour \in 0..2
        /\ FirstOf(c) \in 0..125 /\ FirstOf(c) + colour = c
    <3>1. lamp = LampFor(c)
        BY <1>1, <2>1
    <3>2. colour = ColourFor(c)
        BY <1>1, <2>1
    <3>3. c \notin 28..31
        BY <1>1, <2>1
    <3> QED
        BY <2>1, <3>1, <3>2, <3>3, Controlled, SMTT(30)
  <2>3. PICK name \in Chars : /\ name = LampName(lamp) /\ Slash \notin ToSet(name)
                              /\ LampOf(name) = lamp
      BY <2>2, LampNameIsRead
  <2>4. PICK numbers : numbers = [k \in 1..3 |-> controllerState[FirstOf(c) + k - 1]]
      BY Zenon
  <2>5. \A k \in 1..3 : numbers[k] \in 0..254
    <3>1. \A i \in 0..127 : controllerState[i] \in 0..254
      <4>1. controllerState \in [0..127 -> 0..254]
          BY <1>1, Zenon DEF FrameInv
      <4> QED
          BY <4>1, Zenon
    <3>2. ASSUME NEW k \in 1..3 PROVE numbers[k] \in 0..254
      <4>1. PICK i \in 0..127 : i = FirstOf(c) + k - 1
          BY <2>2
      <4>2. numbers[k] = controllerState[i]
          BY <2>4, <4>1
      <4>3. controllerState[i] \in 0..254
          BY <3>1, Zenon
      <4> QED
          BY <4>2, <4>3
    <3> QED
        BY <3>2
  <2>6. AreInts(numbers)
    <3>1. \A v \in 0..254 : IsInt32(v)
        BY MaxIntIsLarge DEF IsInt32
    <3> QED
        BY <2>5, <3>1, Zenon DEF AreInts
  <2>7. frame = Writes(RgbBytes(name, numbers))
    <3>1. frame = OscFrame(RgbMessage(name, numbers))
        BY <2>1, <2>2, <2>3, <2>4
    <3> QED
        BY <2>3, <2>6, <3>1, RgbWrites
  <2>8. PICK bytes \in [1..4 -> 0..255] :
            /\ frame = Writes(bytes)
            /\ \A k \in 1..3 : bytes[k] = Clamp(numbers[k])
            /\ bytes[4] = LampOf(name)
      BY <2>6, <2>7, RgbBytesAre
  <2>9. Len(frame.digits) = 8 /\ Spells(frame.digits, bytes, 4)
      BY <2>8, FourByteFrame, Zenon
  <2>10. \A k \in 1..4 : ByteAt(2 * k - 1) = bytes[k]
      BY <2>9, ByteAtIs
  <2>11. ByteAt(7) = lamp
    <3>1. ByteAt(2 * 4 - 1) = bytes[4] /\ 2 * 4 - 1 = 7
        BY <2>10
    <3> QED
        BY <2>3, <2>8, <3>1
  <2>12. ByteAt(2 * colour + 1) = 2 * request.position
    <3>1. PICK k \in 1..3 : k = colour + 1 /\ 2 * k - 1 = 2 * colour + 1 /\ FirstOf(c) + k - 1 = c
        BY <2>2
    <3>2. ByteAt(2 * colour + 1) = bytes[k]
        BY <2>10, <3>1
    <3>3. numbers[k] = position * 2
        BY <2>1, <2>4, <3>1
    <3>4. Clamp(numbers[k]) = numbers[k]
      <4>1. numbers[k] \in 0..255
          BY <2>5
      <4> QED
          BY <4>1, ClampKeepsBytes
    <3>5. position * 2 = 2 * request.position
        BY <2>1
    <3> QED
        BY <2>8, <3>2, <3>3, <3>4, <3>5
  <2> QED
      BY <2>9, <2>11, <2>12
<1>2. FrameInv => KnobReachesLamp
    BY <1>1 DEF KnobReachesLamp, LampFor, ColourFor
<1> QED
    BY <1>2, SpecFrame, PTL

-----------------------------------------------------------------------------
(* Raw messages *)

\* How much of a message fits into the buffer, behind the header.
Room == MaxPacketSize - HeaderSize

LEMMA RoomIs == Room \in Nat /\ MaxPacketSize = Room + HeaderSize /\ HeaderSize = 5
BY DEF Room, MaxPacketSize, HeaderSize

\* How much of a message there is in the buffer.
LEMMA MessageSizeIs ==
    ASSUME NEW m \in Seq(0..255)
    PROVE  /\ MessageSize(m) \in Nat
           /\ MessageSize(m) = IF Len(m) <= Room THEN Len(m) ELSE Room
           /\ Min({Len(m), Room}) = MessageSize(m)
           /\ TooShort(BytesTaken(m)) <=> m = <<>>
<1>1. PICK len \in Nat : len = Len(m)
    BY LenProperties
<1>2. PICK room \in Nat : room = Room /\ MaxPacketSize = room + 5 /\ HeaderSize = 5
    BY RoomIs
<1>3. BytesTaken(m) = IF 5 + len <= room + 5 THEN 5 + len ELSE room + 5
  <2>1. Min({5 + len, room + 5}) = IF 5 + len <= room + 5 THEN 5 + len ELSE room + 5
      BY MinMaxOfTwo
  <2> QED
      BY <1>1, <1>2, <2>1 DEF BytesTaken
<1>4. MessageSize(m) = IF len <= room THEN len ELSE room
    BY <1>2, <1>3 DEF MessageSize
<1>5. Min({len, room}) = IF len <= room THEN len ELSE room
    BY MinMaxOfTwo
<1>6. m = <<>> <=> len = 0
    BY <1>1, EmptySeq
<1>7. room > 0
    BY <1>2 DEF Room, MaxPacketSize, HeaderSize
<1>8. TooShort(BytesTaken(m)) <=> len = 0
    BY <1>2, <1>3, <1>7 DEF TooShort
<1>9. MessageSize(m) \in Nat
    BY <1>4
<1> QED
    BY <1>1, <1>2, <1>4, <1>5, <1>6, <1>8, <1>9

\* The first k characters.
LEMMA FrontIs ==
    ASSUME NEW m \in Seq(0..255), NEW k \in Nat, k <= Len(m)
    PROVE  /\ SubSeq(m, 1, k) \in Seq(0..255) /\ Len(SubSeq(m, 1, k)) = k
           /\ \A i \in 1..k : SubSeq(m, 1, k)[i] = m[i]
<1>1. \A i \in 1..k : m[i] \in 0..255
  <2>1. PICK len \in Nat : len = Len(m)
      BY LenProperties
  <2>2. \A i \in 1..k : i \in 1..Len(m)
      BY <2>1
  <2> QED
      BY <2>2, ElementOfSeq, SMTT(30)
<1>2. PICK one \in Int : one = 1
    OBVIOUS
<1>3. PICK c : c = SubSeq(m, one, k)
    OBVIOUS
<1>4. /\ c \in Seq(0..255) /\ Len(c) = IF one <= k THEN k - one + 1 ELSE 0
      /\ \A i \in 1..(k - one + 1) : c[i] = m[one + i - 1]
    BY <1>1, <1>2, <1>3, SubSeqProperties
<1>5. Len(c) = k
    BY <1>2, <1>4
<1>6. ASSUME NEW i \in 1..k PROVE c[i] = m[i]
  <2>1. i \in 1..(k - one + 1) /\ one + i - 1 = i
      BY <1>2
  <2> QED
      BY <1>4, <2>1
<1> QED
    BY <1>2, <1>3, <1>4, <1>5, <1>6

\* b begins with the k first bytes of m and a 0, whatever is behind them.
BufferFacts(b, m, k, rest) ==
    /\ k \in Nat /\ k <= Len(m)
    /\ b \in Seq(0..255) /\ Len(b) = k + 1 + rest
    /\ \A i \in 1..k : b[i] = m[i]
    /\ b[k + 1] = 0

\* So does the buffer.
LEMMA BufferIs ==
    ASSUME NEW m \in Seq(0..255), NEW stale \in Seq(0..255)
    PROVE  BufferFacts(Buffer(m, stale), m, MessageSize(m), Len(stale))
<1>0. PICK k \in Nat : k = MessageSize(m)
    BY MessageSizeIs
<1>1. PICK len \in Nat : len = Len(m)
    BY LenProperties
<1>2. PICK rest \in Nat : rest = Len(stale)
    BY LenProperties
<1>3. k <= len
  <2>1. MessageSize(m) = IF len <= Room THEN len ELSE Room
      BY <1>0, <1>1, MessageSizeIs, Zenon
  <2> QED
      BY <1>0, <2>1, RoomIs
<1>4. PICK c \in Seq(0..255) : c = SubSeq(m, 1, k) /\ Len(c) = k /\ \A i \in 1..k : c[i] = m[i]
    BY <1>1, <1>3, FrontIs, ZenonT(60)
<1>5. PICK d : d = c \o << 0 >>
    OBVIOUS
<1>6. d \in Seq(0..255) /\ Len(d) = k + 1 /\ (\A i \in 1..k : d[i] = c[i]) /\ d[k + 1] = 0
  <2>1. PICK z : z = << 0 >>
      OBVIOUS
  <2>2. z \in Seq(0..255) /\ Len(z) = 1 /\ z[1] = 0
      BY <2>1
  <2>3. d = Joined(c, z)
      BY <1>5, <2>1 DEF Joined
  <2>4. d \in Seq(0..255) /\ IsPair(d, c, z, k, 1)
    <3>1. 1 \in Nat
        OBVIOUS
    <3> QED
        BY <1>4, <2>2, <2>3, <3>1, TwoParts, ZenonT(60)
  <2>5. Len(d) = k + 1 /\ (\A i \in 1..k : d[i] = c[i]) /\ \A i \in 1..1 : d[k + i] = z[i]
      BY <2>4, Zenon DEF IsPair
  <2>6. 1 \in 1..1
      OBVIOUS
  <2> QED
      BY <2>2, <2>4, <2>5, <2>6
<1>7. PICK b : b = d \o stale
    OBVIOUS
<1>8. PICK n \in Nat : n = k + 1
    OBVIOUS
<1>9. b \in Seq(0..255) /\ IsPair(b, d, stale, n, rest)
  <2>1. b = Joined(d, stale)
      BY <1>7 DEF Joined
  <2> QED
      BY <1>2, <1>6, <1>8, <2>1, TwoParts
<1>10. Len(b) = n + rest /\ \A i \in 1..n : b[i] = d[i]
    BY <1>9, Zenon DEF IsPair
<1>11. b = Buffer(m, stale)
    BY <1>0, <1>4, <1>5, <1>7 DEF Buffer
<1>12. n \in 1..n /\ \A i \in 1..k : i \in 1..n
    BY <1>8
<1>13. b[k + 1] = 0 /\ \A i \in 1..k : b[i] = m[i]
    BY <1>4, <1>6, <1>8, <1>10, <1>12
<1> QED
    BY <1>0, <1>1, <1>2, <1>3, <1>8, <1>9, <1>10, <1>11, <1>13 DEF BufferFacts

\* Whatever a raw message and the buffer hold, the lamp gets the message's bytes
\* and no others, up to the size of the buffer, and never an empty command.
THEOREM RawIsSent == Spec => []RawAsSent
<1>1. ASSUME NEW m \in Seq(0..255), NEW stale \in Seq(0..255), NEW f, f = RawFrame(m, stale)
      PROVE  /\ f = NoFrame <=> m = <<>>
             /\ Len(f.bytes) = Min({Len(m), Room})
             /\ \A i \in DOMAIN f.bytes : f.bytes[i] = m[i]
  <2>1. PICK len \in Nat : len = Len(m)
      BY LenProperties
  <2>2. PICK k \in Nat : /\ k = MessageSize(m) /\ k = Min({Len(m), Room})
                         /\ (m = <<>> => k = 0) /\ (TooShort(BytesTaken(m)) <=> m = <<>>)
    <3>1. /\ MessageSize(m) \in Nat
          /\ MessageSize(m) = IF len <= Room THEN len ELSE Room
          /\ Min({Len(m), Room}) = MessageSize(m)
          /\ TooShort(BytesTaken(m)) <=> m = <<>>
        BY <2>1, MessageSizeIs, Zenon
    <3>2. m = <<>> => len = 0
        BY <2>1, EmptySeq
    <3>3. m = <<>> => MessageSize(m) = 0
        BY <3>1, <3>2, RoomIs
    <3> QED
        BY <3>1, <3>3, Zenon
  <2>3. CASE m = <<>>
    <3>1. f = NoFrame
        BY <1>1, <2>2, <2>3, Zenon DEF RawFrame
    <3>2. f.bytes = <<>> /\ Len(<<>>) = 0
        BY <3>1, EmptySeq DEF NoFrame
    <3>3. DOMAIN f.bytes = {}
        BY <3>2
    <3> QED
        BY <2>2, <2>3, <3>1, <3>2, <3>3
  <2>4. CASE m # <<>>
    <3>1. PICK b \in Seq(0..255) : b = Buffer(m, stale) /\ k <= Len(b) /\ \A i \in 1..k : b[i] = m[i]
      <4>1. PICK rest \in Nat : rest = Len(stale)
          BY LenProperties
      <4>2. PICK b : b = Buffer(m, stale)
          OBVIOUS
      <4>3. BufferFacts(b, m, k, rest)
          BY <2>2, <4>1, <4>2, BufferIs, Zenon
      <4>4. k <= k + 1 + rest
          OBVIOUS
      <4> QED
          BY <4>2, <4>3, <4>4 DEF BufferFacts
    <3>2. f = [kind |-> "raw", digits |-> <<>>, bytes |-> SubSeq(b, 1, k)]
        BY <1>1, <2>2, <2>4, <3>1, Zenon DEF RawFrame
    <3>3. f # NoFrame /\ f.bytes = SubSeq(b, 1, k)
        BY <3>2 DEF NoFrame
    <3>4. /\ SubSeq(b, 1, k) \in Seq(0..255) /\ Len(SubSeq(b, 1, k)) = k
          /\ \A i \in 1..k : SubSeq(b, 1, k)[i] = b[i]
        BY <3>1, FrontIs, SMTT(30)
    <3>5. DOMAIN f.bytes = 1..k
        BY <3>3, <3>4, LenProperties
    <3> QED
        BY <2>2, <2>4, <3>1, <3>3, <3>4, <3>5
  <2> QED
      BY <2>3, <2>4
<1>2. ASSUME FrameInv, request.kind = "raw"
      PROVE  /\ request.message \in Seq(0..255)
             /\ \E stale \in Seq(0..255) : frame = RawFrame(request.message, stale)
  <2>1. request.message \in Messages /\ \E stale \in Stale : frame = RawFrame(request.message, stale)
      BY <1>2, Zenon DEF FrameInv, RawFramed
  <2>2. (\A message \in Messages : message \in Seq(0..255)) /\ \A stale \in Stale : stale \in Seq(0..255)
      BY ClientsSend, Zenon
  <2> QED
      BY <2>1, <2>2, Zenon
<1>3. FrameInv => RawAsSent
  <2> SUFFICES ASSUME FrameInv, request.kind = "raw" PROVE RawAsSent
      BY DEF RawAsSent
  <2>1. PICK m \in Seq(0..255) : m = request.message
      BY <1>2
  <2>2. PICK stale \in Seq(0..255) : frame = RawFrame(m, stale)
      BY <1>2, <2>1
  <2>3. /\ frame = NoFrame <=> m = <<>>
        /\ Len(frame.bytes) = Min({Len(m), Room})
        /\ \A i \in DOMAIN frame.bytes : frame.bytes[i] = m[i]
      BY <1>1, <2>2
  <2> QED
      BY <2>1, <2>3, Zenon DEF RawAsSent, Room
<1> QED
    BY <1>3, SpecFrame, PTL

-----------------------------------------------------------------------------
(* The text of a colour command *)

\* The three conversions of a colour command, each behind the one before.
ThreeScans(s, r, g, b) == r = Scan(s) /\ g = Scan(r.rest) /\ b = Scan(g.rest)

\* A colour command is written when all three conversions found digits.
LEMMA ColourOfIs ==
    ASSUME NEW s, NEW r, NEW g, NEW b, ThreeScans(s, r, g, b)
    PROVE  /\ r.ok /\ g.ok /\ b.ok => ColourOf(s) = Writes(<<r.value, g.value, b.value>>)
           /\ ~(r.ok /\ g.ok /\ b.ok) => ColourOf(s) = NoFrame
<1>1. ColourOf(s) = IF r.ok /\ g.ok /\ b.ok THEN Writes(<<r.value, g.value, b.value>>) ELSE NoFrame
    BY DEF ColourOf, ThreeScans
<1> QED
    BY <1>1, Zenon

\* The frame of three numbers that are bytes.
IsColour(f, x, y, z) == {x, y, z} \subseteq 0..255 /\ f = Writes(<<x, y, z>>)

\* A frame of three bytes has six digits.
LEMMA ThreeByteFrame ==
    ASSUME NEW f, NEW x, NEW y, NEW z, IsColour(f, x, y, z)
    PROVE  /\ f # NoFrame /\ f.digits \in Seq(0..15) /\ Len(f.digits) = 6
           /\ 16 * f.digits[1] + f.digits[2] = x
           /\ 16 * f.digits[3] + f.digits[4] = y
           /\ 16 * f.digits[5] + f.digits[6] = z
<1>0. x \in 0..255 /\ y \in 0..255 /\ z \in 0..255 /\ f = Writes(<<x, y, z>>)
    BY DEF IsColour
<1>1. PICK bytes : bytes = <<x, y, z>>
    BY Zenon
<1>2. bytes \in [1..3 -> 0..255] /\ bytes[1] = x /\ bytes[2] = y /\ bytes[3] = z
  <2>1. bytes \in Seq(0..255) /\ Len(bytes) = 3
      BY <1>0, <1>1
  <2> QED
      BY <1>1, <2>1, LenProperties
<1>3. PICK n \in Nat : n = 3 /\ n > 0 /\ bytes \in [1..n -> 0..255]
    BY <1>2
<1>4. f # NoFrame /\ Spells(f.digits, bytes, n)
    BY <1>0, <1>1, <1>3, WritesFrame, Zenon
<1>5. PICK d : d = f.digits
    OBVIOUS
<1>6. d \in Seq(0..15) /\ Len(d) = 6 /\ \A k \in 1..3 : 16 * d[2 * k - 1] + d[2 * k] = bytes[k]
    BY <1>3, <1>4, <1>5 DEF Spells
<1>7. 16 * d[1] + d[2] = x /\ 16 * d[3] + d[4] = y /\ 16 * d[5] + d[6] = z
  <2>1. /\ 2 * 1 - 1 = 1 /\ 2 * 1 = 2 /\ 2 * 2 - 1 = 3 /\ 2 * 2 = 4
        /\ 2 * 3 - 1 = 5 /\ 2 * 3 = 6 /\ 1 \in 1..3 /\ 2 \in 1..3 /\ 3 \in 1..3
      OBVIOUS
  <2> QED
      BY <1>2, <1>6, <2>1
<1> QED
    BY <1>4, <1>5, <1>6, <1>7

\* The digits of a colour.
LEMMA SixDigits ==
    ASSUME NEW s \in Chars, Run(s, Digits, 6) = 6, NEW r, NEW g, NEW b, ThreeScans(s, r, g, b)
    PROVE  /\ r.ok /\ g.ok /\ b.ok
           /\ ColourOf(s).digits = [k \in 1..6 |-> DigitValue[s[k]]]
<1>1. PICK len \in Nat : len = Len(s) /\ len >= 6 /\ \A k \in 1..6 : s[k] \in Digits
  <2>1. RunIs(6, s, Digits, 6)
      BY RunFacts
  <2> QED
      BY <2>1, AtFacts DEF RunIs
<1>2. PICK d \in [1..6 -> 0..15] : \A k \in 1..6 : d[k] = DigitValue[s[k]]
  <2> DEFINE d == [k \in 1..6 |-> DigitValue[s[k]]]
  <2>1. \A k \in 1..6 : d[k] = DigitValue[s[k]] /\ d[k] \in 0..15
      BY <1>1, DigitsAre, Zenon
  <2>2. d \in [1..6 -> 0..15]
      BY <2>1
  <2> HIDE DEF d
  <2> QED
      BY <2>1, <2>2
<1>3. ASSUME NEW u, NEW n \in {0, 2, 4}, IsBehind(u, s, n), NEW i, NEW j, i = n + 1, j = n + 2
      PROVE  ReadTwo(Scan(u), u, 16 * d[i] + d[j])
  <2>1. i \in 1..6 /\ j \in 1..6
      BY <1>3
  <2>2. u \in Chars /\ Len(u) >= 2 /\ u[1] = s[i] /\ u[2] = s[j]
    <3>1. u \in Chars /\ Len(u) = len - n /\ \A h \in 1..Len(u) : u[h] = s[n + h]
        BY <1>1, <1>3 DEF IsBehind
    <3>2. Len(u) >= 2 /\ 1 \in 1..Len(u) /\ 2 \in 1..Len(u)
        BY <1>1, <1>3, <3>1
    <3> QED
        BY <1>3, <3>1, <3>2
  <2>3. u[1] \in Digits /\ u[2] \in Digits /\ d[i] = DigitValue[u[1]] /\ d[j] = DigitValue[u[2]]
      BY <1>1, <1>2, <2>1, <2>2
  <2>4. d[i] \in 0..15 /\ d[j] \in 0..15
      BY <2>1
  <2> QED
      BY <2>2, <2>3, <2>4, TwoDigits, Zenon
<1>4. ReadTwo(r, s, 16 * d[1] + d[2])
  <2>1. IsBehind(s, s, 0)
      BY <1>1 DEF IsBehind
  <2>2. 1 = 0 + 1 /\ 2 = 0 + 2 /\ 0 \in {0, 2, 4}
      OBVIOUS
  <2>3. ReadTwo(Scan(s), s, 16 * d[1] + d[2])
      BY <1>3, <2>1, <2>2
  <2> QED
      BY <2>3 DEF ThreeScans
<1>5. PICK t : t = r.rest /\ IsBehind(t, s, 2) /\ t \in Chars
    BY <1>4, Zenon DEF ReadTwo, IsBehind
<1>6. ReadTwo(g, t, 16 * d[3] + d[4])
  <2>1. 3 = 2 + 1 /\ 4 = 2 + 2 /\ 2 \in {0, 2, 4}
      OBVIOUS
  <2>2. ReadTwo(Scan(t), t, 16 * d[3] + d[4])
      BY <1>3, <1>5, <2>1
  <2> QED
      BY <1>5, <2>2 DEF ThreeScans
<1>7. PICK u : u = g.rest /\ IsBehind(u, s, 4)
  <2>1. PICK u : u = g.rest /\ IsBehind(u, t, 2)
      BY <1>6 DEF ReadTwo
  <2>2. IsBehind(u, s, 2 + 2) /\ 2 + 2 = 4
      BY <1>5, <2>1, BehindBehind
  <2> QED
      BY <2>1, <2>2
<1>8. ReadTwo(b, u, 16 * d[5] + d[6])
  <2>1. 5 = 4 + 1 /\ 6 = 4 + 2 /\ 4 \in {0, 2, 4}
      OBVIOUS
  <2>2. ReadTwo(Scan(u), u, 16 * d[5] + d[6])
      BY <1>3, <1>7, <2>1
  <2> QED
      BY <1>7, <2>2 DEF ThreeScans
<1>9. PICK x \in 0..255, y \in 0..255, z \in 0..255 :
          x = 16 * d[1] + d[2] /\ y = 16 * d[3] + d[4] /\ z = 16 * d[5] + d[6]
  <2>1. d[1] \in 0..15 /\ d[2] \in 0..15 /\ d[3] \in 0..15 /\ d[4] \in 0..15 /\ d[5] \in 0..15 /\ d[6] \in 0..15
      OBVIOUS
  <2> QED
      BY <2>1, TwoNibbles, ZenonT(60)
<1>10. r.ok /\ g.ok /\ b.ok /\ r.value = x /\ g.value = y /\ b.value = z
    BY <1>4, <1>6, <1>8, <1>9 DEF ReadTwo
<1>11. PICK f : f = ColourOf(s) /\ IsColour(f, x, y, z)
    BY <1>10, ColourOfIs DEF IsColour
<1>12. PICK e : /\ e = f.digits /\ e \in Seq(0..15) /\ Len(e) = 6
                /\ 16 * e[1] + e[2] = x /\ 16 * e[3] + e[4] = y /\ 16 * e[5] + e[6] = z
    BY <1>11, ThreeByteFrame, Zenon
<1>13. e \in [1..6 -> 0..15]
    BY <1>12, LenProperties, Zenon
<1>14. ASSUME NEW i \in 1..6, NEW j \in 1..6, 16 * e[i] + e[j] = 16 * d[i] + d[j]
       PROVE  e[i] = d[i] /\ e[j] = d[j]
  <2>1. PICK a \in 0..15, c \in 0..15, k \in 0..15, h \in 0..15 : a = e[i] /\ c = e[j] /\ k = d[i] /\ h = d[j]
      BY <1>13, Zenon
  <2>2. a = k /\ c = h
    <3>1. 16 * a + c = 16 * k + h
        BY <1>14, <2>1
    <3> QED
        BY <3>1
  <2> QED
      BY <2>1, <2>2
<1>15. e[1] = d[1] /\ e[2] = d[2] /\ e[3] = d[3] /\ e[4] = d[4] /\ e[5] = d[5] /\ e[6] = d[6]
  <2>1. 16 * e[1] + e[2] = 16 * d[1] + d[2]
      BY <1>9, <1>12
  <2>2. 16 * e[3] + e[4] = 16 * d[3] + d[4]
      BY <1>9, <1>12
  <2>3. 16 * e[5] + e[6] = 16 * d[5] + d[6]
      BY <1>9, <1>12
  <2>4. 1 \in 1..6 /\ 2 \in 1..6 /\ 3 \in 1..6 /\ 4 \in 1..6 /\ 5 \in 1..6 /\ 6 \in 1..6
      OBVIOUS
  <2>5. e[1] = d[1] /\ e[2] = d[2]
      BY <1>14, <2>1, <2>4
  <2>6. e[3] = d[3] /\ e[4] = d[4]
      BY <1>14, <2>2, <2>4
  <2>7. e[5] = d[5] /\ e[6] = d[6]
      BY <1>14, <2>3, <2>4
  <2> QED
      BY <2>5, <2>6, <2>7
<1>16. \A k \in 1..6 : e[k] = DigitValue[s[k]]
  <2>1. \A k \in 1..6 : k = 1 \/ k = 2 \/ k = 3 \/ k = 4 \/ k = 5 \/ k = 6
      OBVIOUS
  <2>2. \A k \in 1..6 : e[k] = d[k]
      BY <1>15, <2>1
  <2> QED
      BY <1>2, <2>2
<1>17. e = [k \in 1..6 |-> DigitValue[s[k]]]
    BY <1>13, <1>16
<1> QED
    BY <1>10, <1>11, <1>12, <1>17

\* A component ends at n, with this many blanks in front of its digits or sign.
Ends(text, n, blanks) ==
    /\ n \in 1..Len(text) /\ text[n] \in Digits
    /\ blanks \in Nat /\ (blanks = n - 1 \/ blanks = n - 2)
    /\ \A i \in 1..blanks : text[i] \in Blanks
    /\ blanks = n - 1 => (n < Len(text) => text[n + 1] \notin Digits)
    /\ blanks = n - 2 => text[n - 1] \in {Plus, Dash} \cup Digits

\* Components are the places where one ends.
LEMMA ComponentsAre ==
    ASSUME NEW text \in Chars, NEW n
    PROVE  n \in Components(text) <=> \E blanks : Ends(text, n, blanks)
<1>1. PICK len \in Nat : len = Len(text) /\ DOMAIN text = 1..len
    BY LenProperties DEF Chars
<1>2. CASE n \in Components(text)
  <2>1. n \in 1..len /\ text[n] \in Digits
      BY <1>1, <1>2 DEF Components, Digits
  <2>2. PICK blanks \in {n - 1, n - 2} \cap Nat :
            /\ \A i \in 1..blanks : text[i] \in Blanks
            /\ IF blanks = n - 1 THEN n < Len(text) => text[n + 1] \notin Digits
                                 ELSE text[n - 1] \in {Plus, Dash} \cup Digits
      BY <1>2 DEF Components, Digits
  <2>3. n - 2 # n - 1
      BY <2>1
  <2>4. Ends(text, n, blanks)
      BY <1>1, <2>1, <2>2, <2>3 DEF Ends
  <2> QED
      BY <1>2, <2>4
<1>3. ASSUME NEW blanks, Ends(text, n, blanks) PROVE n \in Components(text)
  <2>1. n \in DOMAIN text /\ blanks \in {n - 1, n - 2} \cap Nat
      BY <1>1, <1>3 DEF Ends
  <2>2. IF blanks = n - 1 THEN n < Len(text) => text[n + 1] \notin Digits
                          ELSE text[n - 1] \in {Plus, Dash} \cup Digits
      BY <1>3 DEF Ends
  <2> QED
      BY <1>3, <2>1, <2>2 DEF Ends, Components, Digits
<1> QED
    BY <1>2, <1>3

\* What stands at the front is told apart by one character.
LEMMA Kinds ==
    /\ \A c \in Digits : c \notin Blanks /\ c # Plus /\ c # Dash
    /\ Plus \notin Blanks /\ Dash \notin Blanks /\ Plus # Dash
BY NoDigits DEF Blanks, Plus, Dash

\* The conversion reads every component as what it means.
LEMMA ComponentIsRead ==
    ASSUME NEW text \in Chars, NEW n \in Components(text)
    PROVE  ReadUpTo(Scan(text), text, n, Meaning(text, n))
<1>1. PICK b : Ends(text, n, b)
    BY ComponentsAre
<1>2. PICK len \in Nat : len = Len(text)
    BY LenProperties DEF Chars
<1>3. n \in 1..len /\ b \in Nat /\ text[n] \in Digits /\ b + 1 <= len
    BY <1>1, <1>2 DEF Ends
<1>4. BlanksAre(b, text)
  <2>1. CASE b = n - 1
    <3>1. b + 1 = n
        BY <1>3, <2>1
    <3> QED
        BY <1>1, <1>2, <1>3, <3>1, Kinds DEF Ends, BlanksAre
  <2>2. CASE b = n - 2
    <3>1. b + 1 = n - 1
        BY <1>3, <2>2
    <3>2. text[n - 1] \in {Plus, Dash} \cup Digits
        BY <1>1, <2>2 DEF Ends
    <3>3. text[b + 1] \notin Blanks
        BY <3>1, <3>2, Kinds
    <3> QED
        BY <1>1, <1>2, <1>3, <3>3 DEF Ends, BlanksAre
  <2> QED
      BY <1>1, <2>1, <2>2 DEF Ends
<1>5. PICK t \in Chars : Unblanked(t, b, text)
  <2>1. PICK c \in Nat, t \in Chars : Unblanked(t, c, text)
      BY BlanksSkipped
  <2>2. c = b
      BY <1>4, <2>1, BlanksUnique DEF Unblanked
  <2> QED
      BY <2>1, <2>2
<1>6. Len(t) = len - b /\ \A i \in 1..(len - b) : t[i] = text[b + i]
    BY <1>2, <1>5 DEF Unblanked, IsBehind
<1>7. CASE b = n - 1
  <2>1. Len(t) > 0 /\ t[1] = text[n]
    <3>1. 1 \in 1..(len - b) /\ b + 1 = n
        BY <1>3, <1>7
    <3> QED
        BY <1>6, <3>1
  <2>2. 1 < Len(t) => t[2] \notin Digits
    <3>1. 1 < Len(t) => 2 \in 1..(len - b) /\ b + 2 = n + 1 /\ n < len
        BY <1>3, <1>6, <1>7
    <3>2. n < len => text[n + 1] \notin Digits
        BY <1>1, <1>2, <1>7 DEF Ends
    <3> QED
        BY <1>6, <3>1, <3>2
  <2>3. ReadUpTo(Scan(text), text, n, DigitValue[text[n]])
    <3>1. ReadUpTo(Scan(text), text, b + 1, DigitValue[t[1]])
        BY <1>3, <1>5, <2>1, <2>2, OneDigitRead
    <3>2. b + 1 = n
        BY <1>3, <1>7
    <3> QED
        BY <2>1, <3>1, <3>2
  <2>4. n # 1 => text[n - 1] # Dash /\ text[n - 1] \notin Digits
    <3>1. n # 1 => n - 1 \in 1..b
        BY <1>3, <1>7
    <3>2. n # 1 => text[n - 1] \in Blanks
        BY <1>1, <3>1 DEF Ends
    <3> QED
        BY <3>2, Kinds
  <2>5. Meaning(text, n) = DigitValue[text[n]]
      BY <2>4 DEF Meaning, Digits
  <2> QED
      BY <2>3, <2>5
<1>8. CASE b = n - 2
  <2>1. n # 1 /\ b + 2 = n
      BY <1>3, <1>8
  <2>2. Len(t) > 1 /\ t[1] = text[n - 1] /\ t[2] = text[n]
    <3>1. 1 \in 1..(len - b) /\ 2 \in 1..(len - b) /\ b + 1 = n - 1
        BY <1>3, <1>8
    <3> QED
        BY <1>6, <2>1, <3>1
  <2>3. text[n - 1] \in {Plus, Dash} \cup Digits
      BY <1>1, <1>8 DEF Ends
  <2>4. CASE text[n - 1] \in Digits
    <3>1. Meaning(text, n) = 16 * DigitValue[text[n - 1]] + DigitValue[text[n]]
        BY <2>1, <2>4, Kinds DEF Meaning, Digits
    <3>2. ReadUpTo(Scan(text), text, b + 2, 16 * DigitValue[t[1]] + DigitValue[t[2]])
        BY <1>3, <1>5, <2>2, <2>4, TwoDigitsRead
    <3> QED
        BY <2>1, <2>2, <3>1, <3>2
  <2>5. CASE text[n - 1] \in {Plus, Dash}
    <3>1. text[n - 1] \notin Digits
        BY <2>5, Kinds
    <3>2. Meaning(text, n) = IF text[n - 1] = Dash THEN -DigitValue[text[n]] ELSE DigitValue[text[n]]
        BY <2>1, <3>1 DEF Meaning, Digits
    <3>3. ReadUpTo(Scan(text), text, b + 2,
                   IF t[1] = Dash THEN -DigitValue[t[2]] ELSE DigitValue[t[2]])
        BY <1>3, <1>5, <2>2, <2>5, SignedDigitRead
    <3> QED
        BY <2>1, <2>2, <3>2, <3>3
  <2> QED
      BY <2>3, <2>4, <2>5
<1> QED
    BY <1>1, <1>7, <1>8 DEF Ends

\* And it reads nothing else.
LEMMA ReadIsComponent ==
    ASSUME NEW text \in Chars, Scan(text).ok
    PROVE  \E n : n \in Components(text)
<1>1. PICK len \in Nat : len = Len(text)
    BY LenProperties DEF Chars
<1>2. PICK b \in Nat, t \in Chars : Unblanked(t, b, text)
    BY BlanksSkipped
<1>3. PICK rest \in Nat : rest = Len(t) /\ len = b + rest /\ \A i \in 1..rest : t[i] = text[b + i]
  <2>1. b <= Len(text) /\ Len(t) = Len(text) - b /\ \A i \in 1..Len(t) : t[i] = text[b + i]
      BY <1>2 DEF Unblanked, IsBehind
  <2>2. len - b \in Nat /\ b + (len - b) = len
      BY <1>1, <2>1
  <2> QED
      BY <1>1, <2>1, <2>2
<1>4. \A i \in 1..b : text[i] \in Blanks
    BY <1>2 DEF Unblanked, BlanksAre
<1>5. CASE HasSign(t)
  <2>1. PICK u \in Chars : u = Tail(t) /\ IsBehind(u, t, 1) /\ Head(t) = t[1] /\ rest > 0
      BY <1>3, <1>5, TailBehind DEF HasSign, IsBehind
  <2>2. PICK n \in Nat : n = Run(u, Digits, 1) /\ RunIs(n, u, Digits, 1)
      BY RunFacts DEF RunIs
  <2>3. Read(Scan(text), u, n, IF Head(t) = Dash THEN -Number(u, n) ELSE Number(u, n))
      BY <1>2, <1>5, <2>1, <2>2, SignedScan, Zenon DEF Unblanked
  <2>4. n > 0
      BY <2>3 DEF Read
  <2>5. Len(u) = rest - 1 /\ n <= rest - 1 /\ u[1] \in Digits /\ \A i \in 1..(rest - 1) : u[i] = t[1 + i]
    <3>1. Len(u) = Len(t) - 1 /\ \A i \in 1..Len(u) : u[i] = t[1 + i]
        BY <2>1 DEF IsBehind
    <3>2. n <= Len(u) /\ \A i \in 1..n : u[i] \in Digits
        BY <2>2 DEF RunIs
    <3>3. 1 \in 1..n
        BY <2>4
    <3> QED
        BY <1>3, <3>1, <3>2, <3>3
  <2>6. rest > 1 /\ 1 \in 1..(rest - 1) /\ 1 + 1 = 2 /\ 1 \in 1..rest /\ 2 \in 1..rest
      BY <2>4, <2>5
  <2>7. text[b + 1] \in {Plus, Dash} /\ text[b + 2] \in Digits
    <3>1. t[1] \in {Plus, Dash}
        BY <1>5, <2>1 DEF HasSign
    <3>2. t[2] \in Digits
        BY <2>5, <2>6
    <3> QED
        BY <1>3, <2>6, <3>1, <3>2
  <2>8. PICK n2 \in Nat : n2 = b + 2 /\ n2 \in 1..len /\ b = n2 - 2 /\ b # n2 - 1 /\ n2 - 1 = b + 1
    <3>1. b + 2 \in 1..len /\ b = b + 2 - 2 /\ b # b + 2 - 1 /\ b + 2 - 1 = b + 1
        BY <1>3, <2>6
    <3> QED
        BY <3>1
  <2>9. Ends(text, n2, b)
      BY <1>1, <1>4, <2>7, <2>8 DEF Ends
  <2> QED
      BY <2>9, ComponentsAre
<1>6. CASE ~HasSign(t)
  <2>1. PICK n \in Nat : n = Run(t, Digits, 2) /\ RunIs(n, t, Digits, 2)
      BY RunFacts DEF RunIs
  <2>2. Read(Scan(text), t, n, Number(t, n))
      BY <1>2, <1>6, <2>1, UnsignedScan, Zenon DEF Unblanked
  <2>3. n > 0
      BY <2>2 DEF Read
  <2>4. n <= 2 /\ n <= rest /\ \A i \in 1..n : t[i] \in Digits
      BY <1>3, <2>1 DEF RunIs
  <2>5. text[b + 1] \in Digits /\ rest > 0
    <3>1. 1 \in 1..n /\ 1 \in 1..rest
        BY <2>3, <2>4
    <3> QED
        BY <1>3, <2>4, <3>1
  <2>6. CASE n = 2
    <3>1. text[b + 2] \in Digits /\ rest > 1
      <4>1. 2 \in 1..n /\ 2 \in 1..rest
          BY <2>4, <2>6
      <4> QED
          BY <1>3, <2>4, <4>1
    <3>2. PICK n2 \in Nat : n2 = b + 2 /\ n2 \in 1..len /\ b = n2 - 2 /\ b # n2 - 1 /\ n2 - 1 = b + 1
      <4>1. b + 2 \in 1..len /\ b = b + 2 - 2 /\ b # b + 2 - 1 /\ b + 2 - 1 = b + 1
          BY <1>3, <3>1
      <4> QED
          BY <4>1
    <3>3. Ends(text, n2, b)
        BY <1>1, <1>4, <2>5, <3>1, <3>2 DEF Ends
    <3> QED
        BY <3>3, ComponentsAre
  <2>7. CASE n = 1
    <3>1. 1 < rest => text[b + 2] \notin Digits
      <4>1. n < 2 /\ n < Len(t) => t[n + 1] \notin Digits
          BY <2>1 DEF RunIs
      <4>2. 1 < rest => 2 \in 1..rest /\ n < Len(t) /\ n + 1 = 2
          BY <1>3, <2>7
      <4> QED
          BY <1>3, <2>7, <4>1, <4>2
    <3>2. PICK n2 \in Nat : /\ n2 = b + 1 /\ n2 \in 1..len /\ b = n2 - 1 /\ b # n2 - 2
                            /\ n2 + 1 = b + 2 /\ (n2 < len => 1 < rest)
      <4>1. /\ b + 1 \in 1..len /\ b = b + 1 - 1 /\ b # b + 1 - 2 /\ b + 1 + 1 = b + 2
            /\ (b + 1 < len => 1 < rest)
          BY <1>3, <2>5
      <4> QED
          BY <4>1
    <3>3. n2 < Len(text) => text[n2 + 1] \notin Digits
        BY <1>1, <3>1, <3>2
    <3>4. Ends(text, n2, b)
        BY <1>1, <1>4, <2>5, <3>2, <3>3 DEF Ends
    <3> QED
        BY <3>4, ComponentsAre
  <2> QED
      BY <2>3, <2>4, <2>6, <2>7
<1> QED
    BY <1>5, <1>6

\* What a component means is a byte, or a digit below zero.
LEMMA MeaningIs ==
    ASSUME NEW text \in Chars, NEW n \in Components(text)
    PROVE  Meaning(text, n) \in (-15)..255
<1>1. text[n] \in Digits
    BY DEF Components, Digits
<1>2. PICK d \in 0..15 : d = DigitValue[text[n]]
    BY <1>1, DigitsAre, Zenon
<1>3. d \in (-15)..255 /\ -d \in (-15)..255
    OBVIOUS
<1>4. ASSUME text[n - 1] \in Digits PROVE 16 * DigitValue[text[n - 1]] + d \in (-15)..255
  <2>1. PICK c \in 0..15 : c = DigitValue[text[n - 1]]
      BY <1>4, DigitsAre, Zenon
  <2> QED
      BY <2>1
<1> QED
    BY <1>2, <1>3, <1>4 DEF Meaning, Digits

\* t is the C string of k characters at the front of some bytes.
IsText(t, bytes, k) ==
    /\ RunIs(k, bytes, 1..255, Len(bytes))
    /\ t \in Chars /\ Len(t) = k
    /\ \A i \in 1..k : t[i] = bytes[i]

\* TextIn is that string.
LEMMA TextIs ==
    ASSUME NEW bytes \in Seq(0..255)
    PROVE  \E k \in Nat : IsText(TextIn(bytes), bytes, k)
<1>0. PICK k : k = Run(bytes, 1..255, Len(bytes))
    OBVIOUS
<1>1. PICK len \in Nat : len = Len(bytes)
    BY LenProperties
<1>2. RunIs(k, bytes, 1..255, Len(bytes))
    BY <1>0, <1>1, RunFactsOf
<1>3. k \in Nat /\ k <= Len(bytes) /\ \A i \in 1..k : bytes[i] \in 1..255
    BY <1>2 DEF RunIs
<1>4. PICK t : t = SubSeq(bytes, 1, k) /\ t = TextIn(bytes)
    BY <1>0 DEF TextIn
<1>5. Len(t) = k /\ \A i \in 1..k : t[i] = bytes[i]
    BY <1>3, <1>4, FrontIs
<1>6. PICK one \in Int : one = 1
    OBVIOUS
<1>7. t \in Seq(1..255)
  <2>1. t = SubSeq(bytes, one, k) /\ \A i \in one..k : bytes[i] \in 1..255
      BY <1>3, <1>4, <1>6
  <2> QED
      BY <1>3, <2>1, SubSeqProperties
<1> QED
    BY <1>2, <1>3, <1>4, <1>5, <1>7, ZenonT(60) DEF Chars, IsText

\* The 0 that ends the message hides what is behind it in the buffer.
LEMMA NothingStale ==
    ASSUME NEW m \in Seq(0..255), NEW b, NEW k, NEW rest \in Nat, BufferFacts(b, m, k, rest)
    PROVE  TextIn(b) = TextIn(SubSeq(m, 1, k))
<1>1. /\ k \in Nat /\ k <= Len(m) /\ b \in Seq(0..255) /\ Len(b) = k + 1 + rest
      /\ (\A i \in 1..k : b[i] = m[i]) /\ b[k + 1] = 0
    BY DEF BufferFacts
<1>2. PICK c \in Seq(0..255) : c = SubSeq(m, 1, k) /\ Len(c) = k /\ \A i \in 1..k : c[i] = m[i]
    BY <1>1, FrontIs, ZenonT(60)
<1>3. PICK s : s = TextIn(b)
    OBVIOUS
<1>4. PICK t : t = TextIn(c)
    OBVIOUS
<1>5. PICK x \in Nat : IsText(s, b, x)
    BY <1>1, <1>3, TextIs
<1>6. PICK y \in Nat : IsText(t, c, y)
    BY <1>2, <1>4, TextIs
<1>7. RunIs(x, b, 1..255, Len(b)) /\ s \in Chars /\ Len(s) = x /\ \A i \in 1..x : s[i] = b[i]
    BY <1>5 DEF IsText
<1>8. RunIs(y, c, 1..255, Len(c)) /\ t \in Chars /\ Len(t) = y /\ \A i \in 1..y : t[i] = c[i]
    BY <1>6 DEF IsText
<1>9. x \in Nat /\ (\A i \in 1..x : b[i] \in 1..255) /\ (x < k + 1 + rest => b[x + 1] \notin 1..255)
    BY <1>1, <1>7, SMTT(30) DEF RunIs
<1>10. y \in Nat /\ y <= k /\ (\A i \in 1..y : c[i] \in 1..255) /\ (y < k => c[y + 1] \notin 1..255)
    BY <1>1, <1>2, <1>8 DEF RunIs
<1>11. x <= k
  <2> SUFFICES ASSUME ~(x <= k) PROVE FALSE
      OBVIOUS
  <2>1. k + 1 \in 1..x
      BY <1>1, <1>9
  <2>2. b[k + 1] \in 1..255
      BY <1>9, <2>1
  <2> QED
      BY <1>1, <2>2
<1>12. \A i \in 1..k : b[i] = c[i]
    BY <1>1, <1>2
<1>13. ~(x < y)
  <2> SUFFICES ASSUME x < y PROVE FALSE
      OBVIOUS
  <2>1. x + 1 \in 1..y /\ x + 1 \in 1..k /\ x < k + 1 + rest
      BY <1>1, <1>9, <1>10
  <2> QED
      BY <1>9, <1>10, <1>12, <2>1
<1>14. ~(y < x)
  <2> SUFFICES ASSUME y < x PROVE FALSE
      OBVIOUS
  <2>1. y + 1 \in 1..x /\ y + 1 \in 1..k /\ y < k
      BY <1>1, <1>9, <1>10, <1>11
  <2> QED
      BY <1>9, <1>10, <1>12, <2>1
<1>15. x = y
    BY <1>9, <1>10, <1>13, <1>14
<1>16. \A i \in 1..x : s[i] = t[i]
  <2>1. \A i \in 1..x : i \in 1..k
      BY <1>1, <1>9, <1>11
  <2> QED
      BY <1>7, <1>8, <1>12, <1>15, <2>1
<1>17. s = t
    BY <1>7, <1>8, <1>15, <1>16, SeqEqual DEF Chars
<1> QED
    BY <1>2, <1>3, <1>4, <1>17

\* An empty text has no components, and makes no frame.
LEMMA EmptyText == ColourOf(<<>>) = NoFrame
<1>1. PICK text \in Chars : text = <<>>
    BY EmptySeq DEF Chars
<1>2. PICK r, g, b : ThreeScans(text, r, g, b)
    BY DEF ThreeScans
<1>3. Components(text) = {}
    BY <1>1 DEF Components
<1>4. ~r.ok
    BY <1>2, <1>3, ReadIsComponent, Zenon DEF ThreeScans
<1> QED
    BY <1>1, <1>2, <1>4, ColourOfIs, Zenon

\* The text that a message has in the buffer, whatever is behind it there.
TextOf(m) == TextIn(SubSeq(m, 1, Min({Len(m), Room})))

\* A frame is made of that text.
LEMMA ColourFrameIs ==
    ASSUME NEW m \in Seq(0..255), NEW stale \in Seq(0..255)
    PROVE  TextOf(m) \in Chars /\ ColorFrame(m, stale) = ColourOf(TextOf(m))
<1>1. PICK k \in Nat : /\ k = MessageSize(m) /\ k = Min({Len(m), Room}) /\ k <= Len(m)
                       /\ (TooShort(BytesTaken(m)) <=> m = <<>>)
  <2>1. PICK b : b = Buffer(m, stale)
      OBVIOUS
  <2>2. BufferFacts(b, m, MessageSize(m), Len(stale))
      BY <2>1, BufferIs
  <2> QED
      BY <2>2, MessageSizeIs, Zenon DEF BufferFacts
<1>2. PICK c \in Seq(0..255) : c = SubSeq(m, 1, k) /\ Len(c) = k
  <2>1. k <= Len(m)
      BY <1>1
  <2>2. /\ SubSeq(m, 1, k) \in Seq(0..255) /\ Len(SubSeq(m, 1, k)) = k
        /\ \A i \in 1..k : SubSeq(m, 1, k)[i] = m[i]
      BY <2>1, FrontIs, Zenon
  <2> QED
      BY <2>2
<1>3. TextOf(m) = TextIn(c)
    BY <1>1, <1>2 DEF TextOf
<1>4. TextOf(m) \in Chars
    BY <1>2, <1>3, TextIs, ZenonT(60) DEF IsText
<1>5. CASE m = <<>>
  <2>1. Len(TextOf(m)) = 0
    <3>1. PICK x \in Nat : IsText(TextOf(m), c, x)
        BY <1>2, <1>3, TextIs
    <3>2. x <= k /\ Len(TextOf(m)) = x
        BY <1>2, <3>1 DEF IsText, RunIs
    <3>3. k = 0
        BY <1>1, <1>5, EmptySeq
    <3> QED
        BY <3>1, <3>2, <3>3
  <2>2. TextOf(m) = <<>>
      BY <1>4, <2>1, EmptySeq DEF Chars
  <2>3. ColorFrame(m, stale) = NoFrame
      BY <1>1, <1>5, Zenon DEF ColorFrame
  <2> QED
      BY <1>4, <2>2, <2>3, EmptyText
<1>6. CASE m # <<>>
  <2>1. PICK b : b = Buffer(m, stale)
      OBVIOUS
  <2>2. PICK rest \in Nat : rest = Len(stale)
      BY LenProperties
  <2>3. BufferFacts(b, m, k, rest)
      BY <1>1, <2>1, <2>2, BufferIs
  <2>4. TextIn(b) = TextOf(m)
      BY <1>2, <1>3, <2>2, <2>3, NothingStale
  <2>5. ColorFrame(m, stale) = ColourOf(TextIn(b))
      BY <1>1, <1>6, <2>1, Zenon DEF ColorFrame
  <2> QED
      BY <1>4, <2>4, <2>5
<1> QED
    BY <1>5, <1>6

\* The text behind its first n characters, and what the frame tells of a text.
TextBehind(text, n) == Drop(text, n)

SixAsWritten(text) ==
    Run(text, Digits, 6) = 6 => frame.digits = [k \in 1..6 |-> DigitValue[text[k]]]

ComponentsFor(text) ==
    frame # NoFrame =>
        \E i \in Components(text) : \E j \in Components(TextBehind(text, i)) :
            Components(TextBehind(TextBehind(text, i), j)) # {}

Means3(text, i, j, k) ==
    <<Meaning(text, i), Meaning(TextBehind(text, i), j), Meaning(TextBehind(TextBehind(text, i), j), k)>>

Tells(value) ==
    /\ frame = Writes(value)
    /\ (\A c \in 1..3 : value[c] >= 0) =>
          Len(frame.digits) = 6 /\ \A c \in 1..3 : ByteAt(2 * c - 1) = value[c]

NumbersFor(text) ==
    \A i \in Components(text) : \A j \in Components(TextBehind(text, i)) :
        \A k \in Components(TextBehind(TextBehind(text, i), j)) : Tells(Means3(text, i, j, k))

\* Three bytes are told as they are.
LEMMA BytesTold ==
    ASSUME NEW x \in (-15)..255, NEW y \in (-15)..255, NEW z \in (-15)..255,
           frame = Writes(<<x, y, z>>)
    PROVE  Tells(<<x, y, z>>)
<1>1. PICK value : value = <<x, y, z>>
    OBVIOUS
<1>2. value[1] = x /\ value[2] = y /\ value[3] = z
    BY <1>1
<1>3. ASSUME \A c \in 1..3 : value[c] >= 0
      PROVE  Len(frame.digits) = 6 /\ \A c \in 1..3 : ByteAt(2 * c - 1) = value[c]
  <2>1. x >= 0 /\ y >= 0 /\ z >= 0
    <3>1. 1 \in 1..3 /\ 2 \in 1..3 /\ 3 \in 1..3
        OBVIOUS
    <3> QED
        BY <1>2, <1>3, <3>1
  <2>2. IsColour(frame, x, y, z)
    <3>1. x \in 0..255 /\ y \in 0..255 /\ z \in 0..255
        BY <2>1
    <3> QED
        BY <3>1 DEF IsColour
  <2>3. /\ Len(frame.digits) = 6
        /\ 16 * frame.digits[1] + frame.digits[2] = x
        /\ 16 * frame.digits[3] + frame.digits[4] = y
        /\ 16 * frame.digits[5] + frame.digits[6] = z
      BY <2>2, ThreeByteFrame, Zenon
  <2>4. ByteAt(1) = x /\ ByteAt(3) = y /\ ByteAt(5) = z
    <3>1. 1 + 1 = 2 /\ 3 + 1 = 4 /\ 5 + 1 = 6
        OBVIOUS
    <3> QED
        BY <2>3, <3>1 DEF ByteAt
  <2>5. ASSUME NEW c \in 1..3 PROVE ByteAt(2 * c - 1) = value[c]
    <3>1. (c = 1 /\ 2 * c - 1 = 1) \/ (c = 2 /\ 2 * c - 1 = 3) \/ (c = 3 /\ 2 * c - 1 = 5)
        OBVIOUS
    <3> QED
        BY <1>2, <2>4, <3>1
  <2> QED
      BY <2>3, <2>5
<1> QED
    BY <1>1, <1>3 DEF Tells

\* What the frame made of a text tells of it.
LEMMA ColourTells ==
    ASSUME NEW text \in Chars, frame = ColourOf(text)
    PROVE  SixAsWritten(text) /\ ComponentsFor(text) /\ NumbersFor(text)
<1>1. PICK r, g, b : ThreeScans(text, r, g, b)
    BY DEF ThreeScans
<1>2. r = Scan(text) /\ g = Scan(r.rest) /\ b = Scan(g.rest)
    BY <1>1 DEF ThreeScans
<1>3. ASSUME NEW t \in Chars, NEW n \in Components(t)
      PROVE  /\ Scan(t).ok /\ Scan(t).rest = TextBehind(t, n) /\ Scan(t).value = Meaning(t, n)
             /\ TextBehind(t, n) \in Chars
  <2>1. ReadUpTo(Scan(t), t, n, Meaning(t, n))
      BY ComponentIsRead
  <2> QED
      BY <2>1 DEF ReadUpTo, IsBehind, TextBehind
<1>4. SixAsWritten(text)
    BY <1>1, SixDigits DEF SixAsWritten
<1>5. ComponentsFor(text)
  <2> SUFFICES ASSUME frame # NoFrame
               PROVE \E i \in Components(text) : \E j \in Components(TextBehind(text, i)) :
                         Components(TextBehind(TextBehind(text, i), j)) # {}
      BY DEF ComponentsFor
  <2>1. r.ok /\ g.ok /\ b.ok
      BY <1>1, ColourOfIs, Zenon
  <2>2. PICK i \in Components(text) : r.rest = TextBehind(text, i) /\ TextBehind(text, i) \in Chars
      BY <1>2, <1>3, <2>1, ReadIsComponent
  <2>3. PICK j \in Components(TextBehind(text, i)) :
            g.rest = TextBehind(TextBehind(text, i), j) /\ TextBehind(TextBehind(text, i), j) \in Chars
      BY <1>2, <1>3, <2>1, <2>2, ReadIsComponent
  <2>4. \E k : k \in Components(TextBehind(TextBehind(text, i), j))
      BY <1>2, <2>1, <2>3, ReadIsComponent
  <2> QED
      BY <2>4
<1>6. ASSUME NEW i \in Components(text), NEW j \in Components(TextBehind(text, i)),
             NEW k \in Components(TextBehind(TextBehind(text, i), j))
      PROVE  Tells(Means3(text, i, j, k))
  <2>1. r.ok /\ r.rest = TextBehind(text, i) /\ r.value = Meaning(text, i) /\ TextBehind(text, i) \in Chars
      BY <1>2, <1>3
  <2>2. PICK t \in Chars : t = TextBehind(text, i)
      BY <2>1
  <2>3. g.ok /\ g.rest = TextBehind(t, j) /\ g.value = Meaning(t, j) /\ TextBehind(t, j) \in Chars
      BY <1>2, <1>3, <2>1, <2>2
  <2>4. PICK u \in Chars : u = TextBehind(t, j)
      BY <2>3
  <2>5. b.ok /\ b.value = Meaning(u, k)
      BY <1>2, <1>3, <2>2, <2>3, <2>4
  <2>6. frame = Writes(<<Meaning(text, i), Meaning(t, j), Meaning(u, k)>>)
    <3>1. r.ok /\ g.ok /\ b.ok
        BY <2>1, <2>3, <2>5
    <3>2. ColourOf(text) = Writes(<<r.value, g.value, b.value>>)
        BY <1>1, <3>1, ColourOfIs, Zenon
    <3> QED
        BY <2>1, <2>3, <2>5, <3>2
  <2>7. Meaning(text, i) \in (-15)..255 /\ Meaning(t, j) \in (-15)..255 /\ Meaning(u, k) \in (-15)..255
      BY <2>2, <2>4, MeaningIs
  <2> QED
      BY <2>2, <2>4, <2>6, <2>7, BytesTold, Zenon DEF Means3
<1> QED
    BY <1>4, <1>5, <1>6 DEF NumbersFor

\* For every message of a colour command, whatever bytes it has and whatever is
\* behind it in the buffer: a frame is made exactly for three components, of the
\* numbers they stand for.
THEOREM ColourIsWritten == Spec => []ColourAsWritten
<1>1. ASSUME FrameInv, request.kind = "color"
      PROVE  LET text == TextOf(request.message)
             IN  SixAsWritten(text) /\ ComponentsFor(text) /\ NumbersFor(text)
  <2>1. request.message \in Texts /\ \E stale \in Stale : frame = ColorFrame(request.message, stale)
      BY <1>1, Zenon DEF FrameInv, ColorFramed
  <2>2. (\A message \in Texts : message \in Seq(0..255)) /\ \A stale \in Stale : stale \in Seq(0..255)
      BY ClientsSend, Zenon
  <2>3. PICK stale \in Seq(0..255) : frame = ColorFrame(request.message, stale)
      BY <2>1, <2>2, Zenon
  <2>4. PICK text \in Chars : text = TextOf(request.message) /\ frame = ColourOf(text)
      BY <2>1, <2>2, <2>3, ColourFrameIs
  <2> QED
      BY <2>4, ColourTells
<1>2. FrameInv => ColourAsWritten
  <2> SUFFICES ASSUME FrameInv, request.kind = "color" PROVE ColourAsWritten
      BY DEF ColourAsWritten
  <2> DEFINE text == TextIn(SubSeq(request.message, 1,
                               Min({Len(request.message), MaxPacketSize - HeaderSize})))
  <2>1. text = TextOf(request.message)
      BY DEF TextOf, Room
  <2> HIDE DEF text
  <2>2. SixAsWritten(text) /\ ComponentsFor(text) /\ NumbersFor(text)
      BY <1>1, <2>1
  <2>3. Run(text, DOMAIN DigitValue, 6) = 6 => frame.digits = [k \in 1..6 |-> DigitValue[text[k]]]
      BY <2>2, Zenon DEF SixAsWritten, Digits
  <2>4. frame # NoFrame =>
            \E i \in Components(text) : \E j \in Components(Drop(text, i)) :
                Components(Drop(Drop(text, i), j)) # {}
      BY <2>2, Zenon DEF ComponentsFor, TextBehind
  <2>5. \A i \in Components(text) : \A j \in Components(Drop(text, i)) :
            \A k \in Components(Drop(Drop(text, i), j)) :
                Tells(<<Meaning(text, i), Meaning(Drop(text, i), j), Meaning(Drop(Drop(text, i), j), k)>>)
      BY <2>2, Zenon DEF NumbersFor, Means3, TextBehind
  <2>6. ASSUME NEW i \in Components(text), NEW j \in Components(Drop(text, i)),
               NEW k \in Components(Drop(Drop(text, i), j))
        PROVE  LET value == <<Meaning(text, i), Meaning(Drop(text, i), j),
                              Meaning(Drop(Drop(text, i), j), k)>>
               IN  /\ frame = Writes(value)
                   /\ (\A c \in 1..3 : value[c] >= 0) =>
                         /\ Len(frame.digits) = 6
                         /\ \A c \in 1..3 : ByteAt(2 * c - 1) = value[c]
      BY <2>5, Zenon DEF Tells
  <2> QED
      BY <2>3, <2>4, <2>6, Zenon DEF ColourAsWritten, text
<1> QED
    BY <1>2, SpecFrame, PTL
=============================================================================
