-------------------------- MODULE OscPacket_proofs --------------------------
(***************************************************************************)
(* A writer and a reader of OSC packets, for every set of messages, time   *)
(* tags and foreign packets: types, a parser that stays inside its packet, *)
(* packets that are used as a whole or not at all, and what was written is *)
(* what is read.                                                           *)
(***************************************************************************)
EXTENDS OscPacket, FlattenLemmas

-----------------------------------------------------------------------------
(* The reader, on every sequence of words: whatever sizes a packet claims,  *)
(* parse looks at no word outside it, and nothing is handed out of a packet *)
(* with an error.                                                           *)

Frame == [kind : {"item", "bundle"}, pos : Nat, end : Nat, tag : Nat \X Nat]

(* The calls fs are nested in one another and lie within n words.           *)
Nested(fs, n) ==
    /\ \A i \in DOMAIN fs : 0 <= fs[i].pos /\ fs[i].pos <= fs[i].end /\ fs[i].end <= n
    /\ \A i \in 1..(Len(fs) - 1) : fs[i].kind = "bundle" /\ fs[i + 1].end = fs[i].pos

(* What was found before an error are messages.                             *)
FoundMessages == ~readErr => messages \in Seq([words : Messages, tag : Nat \X Nat])

(* A packet that is still being parsed, or has an error, has yielded        *)
(* nothing.                                                                 *)
NothingEarly == frames # <<>> \/ readErr => delivered = <<>>

ReaderInv == ReaderTypes /\ StaysInside /\ FoundMessages /\ NothingEarly

-----------------------------------------------------------------------------
(* Stacks of calls *)

\* The last element of a sequence and the ones before it.
LEMMA FrontLast ==
    ASSUME NEW S, NEW s \in Seq(S), s # <<>>
    PROVE  /\ Len(s) \in Nat \ {0} /\ DOMAIN s = 1..Len(s)
           /\ Last(s) \in S /\ Last(s) = s[Len(s)]
           /\ Front(s) \in Seq(S) /\ Len(Front(s)) = Len(s) - 1
           /\ \A i \in 1..(Len(s) - 1) : Front(s)[i] = s[i]
<1>1. Len(s) \in Nat \ {0} /\ DOMAIN s = 1..Len(s)
    BY LenProperties, EmptySeq
<1>2. Last(s) = s[Len(s)]
    BY DEF Last
<1>3. Last(s) \in S
    BY <1>1, <1>2, ElementOfSeq
<1>4. Front(s) = SubSeq(s, 1, Len(s) - 1)
    BY DEF Front
<1>5. /\ SubSeq(s, 1, Len(s) - 1) \in Seq(S)
      /\ Len(SubSeq(s, 1, Len(s) - 1)) = Len(s) - 1
      /\ \A i \in 1..(Len(s) - 1) : SubSeq(s, 1, Len(s) - 1)[i] = s[i]
    BY <1>1, SubSeqProperties
<1> QED
    BY <1>1, <1>2, <1>3, <1>4, <1>5

\* A call that returns leaves the others nested.
LEMMA NestedFront ==
    ASSUME NEW fs \in Seq(Frame), fs # <<>>, NEW n \in Nat, Nested(fs, n)
    PROVE  /\ Front(fs) \in Seq(Frame) /\ Nested(Front(fs), n)
           /\ Front(fs) # <<>> =>
                Last(Front(fs)).kind = "bundle" /\ Last(fs).end = Last(Front(fs)).pos
<1>1. /\ Len(fs) \in Nat \ {0} /\ DOMAIN fs = 1..Len(fs) /\ Last(fs) = fs[Len(fs)]
      /\ Front(fs) \in Seq(Frame) /\ Len(Front(fs)) = Len(fs) - 1
      /\ \A i \in 1..(Len(fs) - 1) : Front(fs)[i] = fs[i]
    BY FrontLast
<1>2. DOMAIN Front(fs) = 1..(Len(fs) - 1)
    BY <1>1, LenProperties
<1>3. Nested(Front(fs), n)
    BY <1>1, <1>2, SMTT(30) DEF Nested
<1>4. ASSUME Front(fs) # <<>>
      PROVE  Last(Front(fs)).kind = "bundle" /\ Last(fs).end = Last(Front(fs)).pos
  <2>1. Last(Front(fs)) = Front(fs)[Len(fs) - 1] /\ Len(fs) - 1 \in 1..(Len(fs) - 1)
    <3>1. Len(Front(fs)) # 0
        BY <1>1, <1>4, EmptySeq
    <3> QED
        BY <1>1, <3>1 DEF Last
  <2>2. Last(Front(fs)) = fs[Len(fs) - 1]
      BY <1>1, <2>1
  <2> QED
      BY <1>1, <2>1, <2>2 DEF Nested
<1> QED
    BY <1>1, <1>3, <1>4

\* A call that begins where the bundle around it says is nested in it.
LEMMA NestedAppend ==
    ASSUME NEW fs \in Seq(Frame), NEW n \in Nat, Nested(fs, n),
           NEW g \in Frame, g.pos <= g.end, g.end <= n,
           fs # <<>> => Last(fs).kind = "bundle" /\ g.end = Last(fs).pos
    PROVE  Append(fs, g) \in Seq(Frame) /\ Nested(Append(fs, g), n) /\ Append(fs, g) # <<>>
           /\ Last(Append(fs, g)) = g
<1>1. /\ Len(fs) \in Nat /\ DOMAIN fs = 1..Len(fs)
      /\ Append(fs, g) \in Seq(Frame) /\ Len(Append(fs, g)) = Len(fs) + 1
      /\ \A i \in 1..Len(fs) : Append(fs, g)[i] = fs[i]
      /\ Append(fs, g)[Len(fs) + 1] = g
    BY AppendProperties, LenProperties
<1>2. DOMAIN Append(fs, g) = 1..(Len(fs) + 1)
    BY <1>1, LenProperties
<1>3. 0 <= g.pos
    BY DEF Frame
<1>4. \A i \in DOMAIN Append(fs, g) :
        /\ 0 <= Append(fs, g)[i].pos /\ Append(fs, g)[i].pos <= Append(fs, g)[i].end
        /\ Append(fs, g)[i].end <= n
  <2> SUFFICES ASSUME NEW i \in 1..(Len(fs) + 1)
               PROVE  /\ 0 <= Append(fs, g)[i].pos
                      /\ Append(fs, g)[i].pos <= Append(fs, g)[i].end
                      /\ Append(fs, g)[i].end <= n
      BY <1>2
  <2>1. CASE i = Len(fs) + 1
      BY <1>1, <1>3, <2>1
  <2>2. CASE i \in 1..Len(fs)
      BY <1>1, <2>2 DEF Nested
  <2> QED
      BY <1>1, <2>1, <2>2
<1>5. \A i \in 1..((Len(fs) + 1) - 1) :
        Append(fs, g)[i].kind = "bundle" /\ Append(fs, g)[i + 1].end = Append(fs, g)[i].pos
  <2> SUFFICES ASSUME NEW i \in 1..Len(fs)
               PROVE  /\ Append(fs, g)[i].kind = "bundle"
                      /\ Append(fs, g)[i + 1].end = Append(fs, g)[i].pos
      BY <1>1
  <2>1. CASE i = Len(fs)
    <3>1. fs # <<>> /\ Last(fs) = fs[i]
        BY <1>1, <2>1 DEF Last
    <3> QED
        BY <1>1, <2>1, <3>1
  <2>2. CASE i \in 1..(Len(fs) - 1)
      BY <1>1, <2>2 DEF Nested
  <2> QED
      BY <1>1, <2>1, <2>2
<1>6. Append(fs, g) # <<>>
    BY <1>1, EmptySeq
<1>7. Last(Append(fs, g)) = g
    BY <1>1 DEF Last
<1> QED
    BY <1>1, <1>4, <1>5, <1>6, <1>7 DEF Nested

-----------------------------------------------------------------------------
(* The words that are pending.  The calls are nested, so the sum over them   *)
(* telescopes: it is what lies between the innermost call's position and     *)
(* the outermost one's end.                                                  *)

Between(fs) == IF fs = <<>> THEN 0 ELSE fs[1].end - Last(fs).pos

\* The calls' positions and ends are numbers.
LEMMA FrameFields ==
    ASSUME NEW fs \in Seq(Frame)
    PROVE  /\ Len(fs) \in Nat /\ DOMAIN fs = 1..Len(fs)
           /\ \A i \in 1..Len(fs) : fs[i].pos \in Nat /\ fs[i].end \in Nat
<1>1. Len(fs) \in Nat /\ DOMAIN fs = 1..Len(fs)
    BY LenProperties
<1>2. \A i \in 1..Len(fs) : fs[i] \in Frame
    BY <1>1, ElementOfSeq
<1>3. \A f \in Frame : f.pos \in Nat /\ f.end \in Nat
    BY DEF Frame
<1> QED
    BY <1>1, <1>2, <1>3

\* The equation of PendingIn's recursive function, up to n.
Sums(f, fs, n) ==
    f = [i \in 0..n |-> IF i = 0 THEN 0 ELSE f[i - 1] + (fs[i].end - fs[i].pos)]

\* A function that solves it up to n, and one value more.
LEMMA SumsOneMore ==
    ASSUME NEW fs, NEW n \in Nat, NEW f, Sums(f, fs, n)
    PROVE  \E g : Sums(g, fs, n + 1)
<1> DEFINE last == f[n] + (fs[n + 1].end - fs[n + 1].pos)
           g == [i \in 0..(n + 1) |-> IF i = n + 1 THEN last ELSE f[i]]
<1>1. ASSUME NEW i \in 0..(n + 1)
      PROVE  g[i] = IF i = 0 THEN 0 ELSE g[i - 1] + (fs[i].end - fs[i].pos)
  <2>1. CASE i = n + 1
    <3>1. g[i] = last /\ g[n] = f[n] /\ i - 1 = n /\ i # 0
        BY <2>1
    <3> QED
        BY <2>1, <3>1
  <2>2. CASE i # n + 1
    <3>1. i \in 0..n /\ g[i] = f[i] /\ (i # 0 => g[i - 1] = f[i - 1])
        BY <2>2
    <3>2. f[i] = IF i = 0 THEN 0 ELSE f[i - 1] + (fs[i].end - fs[i].pos)
        BY <3>1 DEF Sums
    <3> QED
        BY <3>1, <3>2
  <2> QED
      BY <2>1, <2>2
<1>2. g = [i \in 0..(n + 1) |-> g[i]]
    OBVIOUS
<1> HIDE DEF g
<1>3. Sums(g, fs, n + 1)
    BY <1>1, <1>2 DEF Sums
<1> QED
    BY <1>3

\* So the sum is what its definition says it is.
LEMMA SumsExist ==
    ASSUME NEW fs, NEW m \in Nat
    PROVE  \E f : Sums(f, fs, m)
<1> DEFINE Solved == {n \in Nat : \E f : Sums(f, fs, n)}
<1>1. 0 \in Solved
  <2>1. Sums([i \in 0..0 |-> 0], fs, 0)
      BY DEF Sums
  <2> QED
      BY <2>1
<1>2. ASSUME NEW n \in Nat, n \in Solved PROVE n + 1 \in Solved
    BY <1>2, SumsOneMore
<1>3. Nat \subseteq Solved
  <2> HIDE DEF Solved
  <2> QED
      BY <1>1, <1>2, NatSetInduction
<1> QED
    BY <1>3

\* The sum over nested calls telescopes.
LEMMA PendingTelescopes ==
    ASSUME NEW fs \in Seq(Frame), NEW n \in Nat, Nested(fs, n)
    PROVE  PendingIn(fs) = Between(fs)
<1> DEFINE sum == CHOOSE f : Sums(f, fs, Len(fs))
<1>1. /\ Len(fs) \in Nat /\ DOMAIN fs = 1..Len(fs)
      /\ \A i \in 1..Len(fs) : fs[i].pos \in Nat /\ fs[i].end \in Nat
    BY FrameFields
<1>2. Sums(sum, fs, Len(fs))
    BY <1>1, SumsExist
<1>3. PendingIn(fs) = sum[Len(fs)]
    BY DEF PendingIn, Sums
<1> HIDE DEF sum
<1>4. \A i \in 0..Len(fs) :
         sum[i] = IF i = 0 THEN 0 ELSE sum[i - 1] + (fs[i].end - fs[i].pos)
    BY <1>1, <1>2 DEF Sums
<1> DEFINE T == {i \in Nat : i + 1 \in 1..Len(fs) => sum[i + 1] = fs[1].end - fs[i + 1].pos}
<1>5. 0 \in T
  <2> SUFFICES ASSUME 1 \in 1..Len(fs) PROVE sum[1] = fs[1].end - fs[1].pos
      OBVIOUS
  <2>1. sum[0] = 0 /\ sum[1] = sum[0] + (fs[1].end - fs[1].pos)
      BY <1>1, <1>4
  <2> QED
      BY <1>1, <2>1
<1>6. ASSUME NEW i \in Nat, i \in T PROVE i + 1 \in T
  <2> SUFFICES ASSUME (i + 1) + 1 \in 1..Len(fs)
               PROVE  sum[(i + 1) + 1] = fs[1].end - fs[(i + 1) + 1].pos
      OBVIOUS
  <2>1. i + 1 \in 1..(Len(fs) - 1) /\ i + 1 \in 1..Len(fs) /\ 1 \in 1..Len(fs)
      BY <1>1
  <2>2. sum[i + 1] = fs[1].end - fs[i + 1].pos
      BY <1>6, <2>1
  <2>3. fs[(i + 1) + 1].end = fs[i + 1].pos
      BY <2>1 DEF Nested
  <2>4. sum[(i + 1) + 1] = sum[i + 1] + (fs[(i + 1) + 1].end - fs[(i + 1) + 1].pos)
      BY <1>1, <1>4
  <2> QED
      BY <1>1, <2>1, <2>2, <2>3, <2>4
<1>7. Nat \subseteq T
  <2> HIDE DEF T
  <2> QED
      BY <1>5, <1>6, NatSetInduction
<1>8. CASE Len(fs) = 0
    BY <1>1, <1>3, <1>4, <1>8, EmptySeq DEF Between
<1>9. CASE Len(fs) # 0
  <2>1. Len(fs) - 1 \in Nat /\ (Len(fs) - 1) + 1 = Len(fs) /\ Len(fs) \in 1..Len(fs)
      BY <1>1, <1>9
  <2>2. sum[Len(fs)] = fs[1].end - fs[Len(fs)].pos
      BY <1>7, <2>1
  <2>3. fs # <<>>
      BY <1>9, EmptySeq
  <2> QED
      BY <1>3, <2>2, <2>3 DEF Between, Last
<1> QED
    BY <1>8, <1>9

\* A call that returns takes what it had left with it.
LEMMA BetweenFront ==
    ASSUME NEW fs \in Seq(Frame), fs # <<>>, NEW n \in Nat, Nested(fs, n)
    PROVE  /\ Between(Front(fs)) \in Int
           /\ Between(fs) = Between(Front(fs)) + (Last(fs).end - Last(fs).pos)
<1> DEFINE front == Front(fs)
<1>1. /\ Len(fs) \in Nat \ {0} /\ Last(fs) = fs[Len(fs)]
      /\ front \in Seq(Frame) /\ Len(front) = Len(fs) - 1
      /\ \A i \in 1..(Len(fs) - 1) : front[i] = fs[i]
    BY FrontLast
<1>2. \A i \in 1..Len(fs) : fs[i].pos \in Nat /\ fs[i].end \in Nat
    BY FrameFields
<1>3. Between(fs) = fs[1].end - fs[Len(fs)].pos
    BY <1>1 DEF Between
<1> HIDE DEF front
<1>4. CASE Len(fs) = 1
  <2>1. front = <<>>
      BY <1>1, <1>4, EmptySeq
  <2> QED
      BY <1>1, <1>2, <1>3, <1>4, <2>1 DEF Between, front
<1>5. CASE Len(fs) # 1
  <2>1. /\ front # <<>> /\ Last(front) = fs[Len(fs) - 1] /\ front[1] = fs[1]
        /\ fs[Len(fs)].end = fs[Len(fs) - 1].pos
    <3>1. front # <<>>
        BY <1>1, <1>5, EmptySeq
    <3>2. Last(front) = front[Len(fs) - 1]
        BY <1>1 DEF Last
    <3>3. Len(fs) - 1 \in 1..(Len(fs) - 1) /\ 1 \in 1..(Len(fs) - 1)
        BY <1>1, <1>5
    <3>4. fs[(Len(fs) - 1) + 1].end = fs[Len(fs) - 1].pos
        BY <3>3 DEF Nested
    <3> QED
        BY <1>1, <3>1, <3>2, <3>3, <3>4
  <2>2. Between(front) = fs[1].end - fs[Len(fs) - 1].pos
      BY <2>1 DEF Between
  <2>3. Len(fs) - 1 \in 1..Len(fs) /\ 1 \in 1..Len(fs) /\ Len(fs) \in 1..Len(fs)
      BY <1>1, <1>5
  <2> QED
      BY <1>1, <1>2, <1>3, <2>1, <2>2, <2>3, SMTT(30) DEF front
<1> QED
    BY <1>4, <1>5

\* A call that begins where the bundle around it says adds what it has left.
LEMMA BetweenAppend ==
    ASSUME NEW fs \in Seq(Frame), NEW g \in Frame,
           fs # <<>> => g.end = Last(fs).pos
    PROVE  Between(Append(fs, g)) = Between(fs) + (g.end - g.pos)
<1> DEFINE more == Append(fs, g)
<1>1. /\ Len(fs) \in Nat /\ Len(more) = Len(fs) + 1 /\ more \in Seq(Frame)
      /\ \A i \in 1..Len(fs) : more[i] = fs[i]
      /\ more[Len(fs) + 1] = g
    BY AppendProperties, LenProperties
<1>2. \A i \in 1..Len(fs) : fs[i].pos \in Nat /\ fs[i].end \in Nat
    BY FrameFields
<1>3. g.pos \in Nat /\ g.end \in Nat
    BY DEF Frame
<1> HIDE DEF more
<1>4. more # <<>> /\ Last(more) = g
    BY <1>1, EmptySeq DEF Last
<1>5. Between(more) = more[1].end - g.pos
    BY <1>4 DEF Between
<1>6. CASE fs = <<>>
  <2>1. Len(fs) = 0 /\ Between(fs) = 0
      BY <1>6, EmptySeq DEF Between
  <2> QED
      BY <1>1, <1>3, <1>5, <2>1 DEF more
<1>7. CASE fs # <<>>
  <2>1. Len(fs) # 0
      BY <1>7, EmptySeq
  <2>2. 1 \in 1..Len(fs) /\ Len(fs) \in 1..Len(fs) /\ Last(fs) = fs[Len(fs)]
      BY <1>1, <2>1 DEF Last
  <2>3. Between(fs) = fs[1].end - Last(fs).pos /\ more[1] = fs[1]
      BY <1>1, <1>7, <2>2 DEF Between
  <2>4. g.end = Last(fs).pos
      BY <1>7
  <2> QED
      BY <1>2, <1>3, <1>5, <2>2, <2>3, <2>4 DEF more
<1> QED
    BY <1>6, <1>7

-----------------------------------------------------------------------------
(* The reader's steps *)

\* The call at hand, with the frames' types and their nesting.
LEMMA AtHand ==
    ASSUME ReaderInv, frames # <<>>
    PROVE  /\ Len(packet) \in Nat /\ packet \in Seq(Nat)
           /\ frames \in Seq(Frame) /\ Nested(frames, Len(packet))
           /\ Last(frames) \in Frame
           /\ Last(frames).pos \in Nat /\ Last(frames).end \in Nat
           /\ Last(frames).pos <= Last(frames).end
           /\ Last(frames).end <= Len(packet)
<1>1. packet \in Seq(Nat) /\ frames \in Seq(Frame)
    BY DEF ReaderInv, ReaderTypes, Frame
<1>2. Len(packet) \in Nat
    BY <1>1, LenProperties
<1>3. Nested(frames, Len(packet))
    BY DEF ReaderInv, StaysInside, Nested
<1>4. /\ Last(frames) \in Frame /\ Last(frames) = frames[Len(frames)]
      /\ Len(frames) \in DOMAIN frames
  <2>1. /\ Last(frames) \in Frame /\ Last(frames) = frames[Len(frames)]
        /\ Len(frames) \in Nat \ {0} /\ DOMAIN frames = 1..Len(frames)
      BY <1>1, FrontLast
  <2> QED
      BY <2>1
<1>5. /\ Last(frames).pos <= Last(frames).end
      /\ Last(frames).end <= Len(packet)
    BY <1>3, <1>4 DEF Nested
<1> QED
    BY <1>1, <1>2, <1>3, <1>4, <1>5 DEF Frame

\* A word that is left is a word of the packet.
LEMMA WordType ==
    ASSUME ReaderInv, frames # <<>>, NEW i \in Nat \ {0}, i <= Remaining
    PROVE  Word(i) \in Nat
<1>1. Last(frames).pos + i \in 1..Len(packet)
    BY AtHand, SMTT(30) DEF Remaining
<1> QED
    BY <1>1, AtHand, ElementOfSeq DEF Word

\* What is left of an element is a sequence of words.
LEMMA ItemType ==
    ASSUME ReaderInv, frames # <<>>
    PROVE  /\ ItemWords \in Seq(Nat)
           /\ Last(frames).tag \in Nat \X Nat
<1>1. \A i \in (Last(frames).pos + 1)..Last(frames).end : packet[i] \in Nat
    BY AtHand, ElementOfSeq, SMTT(30)
<1>2. ItemWords \in Seq(Nat)
    BY <1>1, AtHand, SubSeqProperties DEF ItemWords
<1> QED
    BY <1>2, AtHand DEF Frame

\* The part of the invariant that is not about the frames, for steps of parse.
LEMMA StackKeeps ==
    ASSUME ReaderInv, frames # <<>>, packet' = packet, delivered' = delivered,
           used' \in Nat, readErr' \in BOOLEAN,
           messages' \in Seq([words : Seq(Nat), tag : Nat \X Nat]), FoundMessages',
           frames' \in Seq(Frame), Nested(frames', Len(packet))
    PROVE  ReaderInv'
<1>1. delivered = <<>>
    BY DEF ReaderInv, NothingEarly
<1>2. StaysInside'
    BY DEF Nested, StaysInside
<1>3. ReaderTypes' /\ NothingEarly'
    BY <1>1 DEF ReaderInv, ReaderTypes, NothingEarly, Frame
<1> QED
    BY <1>2, <1>3 DEF ReaderInv

\* No calls are nested in anything.
LEMMA NestedNone == ASSUME NEW n PROVE <<>> \in Seq(Frame) /\ Nested(<<>>, n)
<1>1. <<>> \in Seq(Frame) /\ Len(<<>>) = 0 /\ DOMAIN <<>> = {}
    BY EmptySeq
<1> QED
    BY <1>1 DEF Nested

\* A step that finds no message.
LEMMA SameMessages ==
    ASSUME ReaderInv, messages' = messages, readErr => readErr'
    PROVE  messages' \in Seq([words : Seq(Nat), tag : Nat \X Nat]) /\ FoundMessages'
BY DEF ReaderInv, ReaderTypes, FoundMessages

\* parse gives up.
LEMMA FailKeeps ==
    ASSUME ReaderInv, frames # <<>>, ReadFails,
           messages' \in Seq([words : Seq(Nat), tag : Nat \X Nat])
    PROVE  ReaderInv'
<1>1. FoundMessages' /\ used' \in Nat
    BY DEF ReadFails, FoundMessages, ReaderInv, ReaderTypes
<1>2. frames' \in Seq(Frame) /\ Nested(frames', Len(packet))
    BY NestedNone DEF ReadFails
<1> QED
    BY <1>1, <1>2, StackKeeps DEF ReadFails

\* A call of parse returns.
LEMMA ReturnKeeps ==
    ASSUME ReaderInv, frames # <<>>, frames' = Front(frames),
           UNCHANGED <<packet, delivered>>, used' \in Nat, readErr' \in BOOLEAN,
           messages' \in Seq([words : Seq(Nat), tag : Nat \X Nat]), FoundMessages'
    PROVE  ReaderInv'
<1>1. frames' \in Seq(Frame) /\ Nested(frames', Len(packet))
    BY AtHand, NestedFront
<1> QED
    BY <1>1, StackKeeps

\* The header of a bundle is behind it, and its time tag is in the packet.
LEMMA OpenBundleFrame ==
    ASSUME ReaderInv, OpenBundle
    PROVE  /\ frames # <<>> /\ Remaining >= 5
           /\ \E g \in Frame :
                /\ g.pos = Last(frames).pos + 4 /\ g.end = Last(frames).end
                /\ g.kind = "bundle" /\ g.tag = <<Word(3), Word(4)>>
                /\ frames' = Append(Front(frames), g)
<1> DEFINE f == Last(frames)
           g == [f EXCEPT !.kind = "bundle", !.pos = @ + 4, !.tag = <<Word(3), Word(4)>>]
<1>1. frames # <<>> /\ Remaining >= 5 /\ frames' = Append(Front(frames), g)
    BY DEF OpenBundle, AtHash, HasHeader, In
<1>2. Word(3) \in Nat /\ Word(4) \in Nat
    BY <1>1, AtHand, WordType, SMTT(30) DEF Remaining
<1>3. f \in Frame /\ f.pos \in Nat
    BY <1>1, AtHand
<1>4. <<Word(3), Word(4)>> \in Nat \X Nat
    BY <1>2
<1>5. PICK t \in Nat \X Nat : t = <<Word(3), Word(4)>>
    BY <1>4
<1>6. PICK p \in Nat : p = f.pos + 4
    BY <1>3
<1>7. f \in Frame /\ g = [f EXCEPT !.kind = "bundle", !.pos = p, !.tag = t]
    BY <1>3, <1>5, <1>6
<1> HIDE DEF f, g
<1>8. g \in Frame /\ g.pos = p /\ g.end = f.end /\ g.kind = "bundle" /\ g.tag = t
    BY <1>7 DEF Frame
<1> QED
    BY <1>1, <1>5, <1>6, <1>8 DEF f

LEMMA OpenBundleKeeps == ReaderInv /\ OpenBundle => ReaderInv'
<1> SUFFICES ASSUME ReaderInv, OpenBundle PROVE ReaderInv'
    OBVIOUS
<1> DEFINE f == Last(frames)
<1>1. PICK g \in Frame :
         g.pos = f.pos + 4 /\ g.end = f.end /\ frames' = Append(Front(frames), g)
    BY OpenBundleFrame
<1>2. /\ frames # <<>> /\ f \in Frame /\ f.pos \in Nat /\ f.end \in Nat
      /\ f.pos + 5 <= f.end /\ f.end <= Len(packet) /\ Len(packet) \in Nat
    BY OpenBundleFrame, AtHand, SMTT(30) DEF Remaining
<1>3. /\ Front(frames) \in Seq(Frame) /\ Nested(Front(frames), Len(packet))
      /\ Front(frames) # <<>> =>
            Last(Front(frames)).kind = "bundle" /\ f.end = Last(Front(frames)).pos
    BY <1>2, AtHand, NestedFront
<1> HIDE DEF f
<1>4. g.pos <= g.end /\ g.end <= Len(packet)
    BY <1>1, <1>2
<1>5. frames' \in Seq(Frame) /\ Nested(frames', Len(packet))
    BY <1>1, <1>2, <1>3, <1>4, NestedAppend
<1>6. used' \in Nat /\ readErr' = readErr
    BY DEF OpenBundle, ReaderInv, ReaderTypes
<1>7. messages' \in Seq([words : Seq(Nat), tag : Nat \X Nat]) /\ FoundMessages'
    BY SameMessages DEF OpenBundle
<1> QED
    BY <1>2, <1>5, <1>6, <1>7, StackKeeps DEF OpenBundle, ReaderInv, ReaderTypes

\* The element's end, by its size, is where the loop over the bundle goes on.
LEMMA ElementFrames ==
    ASSUME ReaderInv, ParseElement
    PROVE  /\ frames # <<>>
           /\ \E outer \in Frame, inner \in Frame :
                /\ outer.kind = "bundle" /\ inner.kind = "item"
                /\ outer.tag = Last(frames).tag /\ inner.tag = Last(frames).tag
                /\ outer.pos = Last(frames).pos + 1 + Word(1) \div 4
                /\ inner.pos = Last(frames).pos + 1 /\ inner.end = outer.pos
                /\ inner.pos <= inner.end
                /\ outer.pos <= outer.end /\ outer.end = Last(frames).end
                /\ frames' = Append(Append(Front(frames), outer), inner)
<1> DEFINE f == Last(frames)
           size == Word(1) \div 4
           outer == [f EXCEPT !.pos = NextElement(f)]
           inner == [f EXCEPT !.kind = "item", !.pos = @ + 1, !.end = f.pos + 1 + size]
<1>1. /\ frames # <<>> /\ f.kind = "bundle" /\ Remaining > 0 /\ 1 + size <= Remaining
      /\ frames' = Front(frames) \o <<outer, inner>>
    BY DEF ParseElement, AtElement, In, SizeFits
<1>2. /\ f \in Frame /\ f.pos \in Nat /\ f.end \in Nat
      /\ f.end <= Len(packet) /\ Len(packet) \in Nat
    BY <1>1, AtHand
<1>3. Word(1) \in Nat
    BY <1>1, <1>2, AtHand, WordType DEF Remaining
<1>4. size \in Nat
    BY <1>3
<1>5. NextElement(f) = f.pos + 1 + size
    BY DEF NextElement, Word
<1>a. f.kind = "bundle" /\ f \in Frame
    BY <1>1, <1>2
<1> HIDE DEF f, size
<1>7. f.pos + 1 + size <= f.end
    BY <1>1, <1>2, <1>4 DEF Remaining, f
<1>8. /\ outer \in Frame /\ outer.pos = f.pos + 1 + size /\ outer.end = f.end
      /\ outer.kind = "bundle"
      /\ inner \in Frame /\ inner.pos = f.pos + 1 /\ inner.end = f.pos + 1 + size
      /\ outer.tag = f.tag /\ inner.tag = f.tag /\ inner.kind = "item"
  <2>1. PICK p \in Nat, e \in Nat : p = f.pos + 1 /\ e = f.pos + 1 + size
      BY <1>2, <1>4
  <2>2. /\ outer = [f EXCEPT !.pos = e]
        /\ inner = [f EXCEPT !.kind = "item", !.pos = p, !.end = e]
      BY <1>5, <2>1
  <2> HIDE DEF outer, inner
  <2>3. outer \in Frame /\ outer.pos = e /\ outer.end = f.end /\ outer.kind = f.kind /\ outer.tag = f.tag
      BY <1>a, <2>2 DEF Frame
  <2>4. inner \in Frame /\ inner.pos = p /\ inner.end = e /\ inner.tag = f.tag /\ inner.kind = "item"
      BY <1>a, <2>2 DEF Frame
  <2> QED
      BY <1>a, <2>1, <2>3, <2>4
<1>9. Front(frames) \in Seq(Frame)
    BY <1>1, AtHand, NestedFront
<1>10. frames' = Append(Append(Front(frames), outer), inner)
  <2> HIDE DEF outer, inner
  <2>1. Front(frames) \o <<outer, inner>> = Append(Append(Front(frames), outer), inner)
      BY <1>8, <1>9
  <2> QED
      BY <1>1, <2>1
<1> HIDE DEF outer, inner
<1>11. inner.pos <= inner.end
    BY <1>2, <1>4, <1>8
<1> QED
    BY <1>1, <1>7, <1>8, <1>10, <1>11 DEF f, size

LEMMA ElementKeeps == ReaderInv /\ ParseElement => ReaderInv'
<1> SUFFICES ASSUME ReaderInv, ParseElement PROVE ReaderInv'
    OBVIOUS
<1> DEFINE f == Last(frames)
<1>1. PICK outer \in Frame, inner \in Frame :
        /\ outer.kind = "bundle"
        /\ inner.pos = f.pos + 1 /\ inner.end = outer.pos
        /\ inner.pos <= inner.end
        /\ outer.pos <= outer.end /\ outer.end = f.end
        /\ frames' = Append(Append(Front(frames), outer), inner)
    BY ElementFrames
<1>2. /\ frames # <<>> /\ f.end \in Nat /\ f.end <= Len(packet) /\ Len(packet) \in Nat
    BY ElementFrames, AtHand
<1>3. /\ Front(frames) \in Seq(Frame) /\ Nested(Front(frames), Len(packet))
      /\ Front(frames) # <<>> =>
            Last(Front(frames)).kind = "bundle" /\ f.end = Last(Front(frames)).pos
    BY <1>2, AtHand, NestedFront
<1> HIDE DEF f
<1>4. /\ Append(Front(frames), outer) \in Seq(Frame)
      /\ Nested(Append(Front(frames), outer), Len(packet))
      /\ Last(Append(Front(frames), outer)) = outer
    BY <1>1, <1>2, <1>3, NestedAppend
<1>5. inner.end <= Len(packet)
    BY <1>1, <1>2 DEF Frame
<1>6. frames' \in Seq(Frame) /\ Nested(frames', Len(packet))
    BY <1>1, <1>2, <1>4, <1>5, NestedAppend
<1>7. used' \in Nat /\ readErr' = readErr /\ readErr \in BOOLEAN
    BY DEF ParseElement, ReaderInv, ReaderTypes
<1>8. messages' \in Seq([words : Seq(Nat), tag : Nat \X Nat]) /\ FoundMessages'
    BY SameMessages DEF ParseElement
<1> QED
    BY <1>2, <1>6, <1>7, <1>8, StackKeeps DEF ParseElement

\* Every step of parse keeps the invariant.
LEMMA ParseKeeps == ReaderInv /\ Parse => ReaderInv'
<1> SUFFICES ASSUME ReaderInv, Parse PROVE ReaderInv'
    OBVIOUS
<1>0. /\ frames # <<>> /\ readErr \in BOOLEAN /\ used \in Nat
      /\ messages \in Seq([words : Seq(Nat), tag : Nat \X Nat])
    BY DEF Parse, ParseNothing, ParseMessage, ParseBadMessage, OpenBundle, BadBundle,
       ParseElement, BadElement, BundleDone, AtMessage, AtHash, AtElement, In,
       ReaderInv, ReaderTypes
<1>1. CASE ParseNothing
    BY <1>0, <1>1, SameMessages, ReturnKeeps DEF ParseNothing
<1>2. CASE ParseMessage
  <2>1. /\ ItemWords \in Messages /\ ItemWords \in Seq(Nat)
        /\ Last(frames).tag \in Nat \X Nat /\ Remaining \in Nat
      BY <1>0, <1>2, ItemType, AtHand, SMTT(30) DEF ParseMessage, AtMessage, Remaining
  <2>2. messages' \in Seq([words : Seq(Nat), tag : Nat \X Nat])
      BY <1>0, <1>2, <2>1, AppendProperties DEF ParseMessage, Found
  <2>3. FoundMessages'
      BY <1>2, <2>1, AppendProperties DEF ParseMessage, Found, FoundMessages, ReaderInv
  <2>4. used' \in Nat
      BY <1>0, <1>2, <2>1 DEF ParseMessage
  <2> QED
      BY <1>0, <1>2, <2>2, <2>3, <2>4, ReturnKeeps DEF ParseMessage
<1>3. CASE ParseBadMessage
  <2>1. messages' \in Seq([words : Seq(Nat), tag : Nat \X Nat])
      BY <1>0, <1>3, ItemType, AppendProperties DEF ParseBadMessage, Found
  <2> QED
      BY <1>0, <1>3, <2>1, FailKeeps DEF ParseBadMessage
<1>4. CASE OpenBundle
    BY <1>4, OpenBundleKeeps
<1>5. CASE BadBundle
    BY <1>0, <1>5, FailKeeps DEF BadBundle
<1>6. CASE ParseElement
    BY <1>6, ElementKeeps
<1>7. CASE BadElement
    BY <1>0, <1>7, FailKeeps DEF BadElement
<1>8. CASE BundleDone
    BY <1>0, <1>8, SameMessages, ReturnKeeps DEF BundleDone
<1> QED
    BY <1>1, <1>2, <1>3, <1>4, <1>5, <1>6, <1>7, <1>8 DEF Parse

\* init begins anew.
LEMMA ReadPacketKeeps ==
    ASSUME NEW words \in Seq(Nat), NEW unaligned \in BOOLEAN, ReadPacket(words, unaligned)
    PROVE  ReaderInv'
<1> DEFINE g == [kind |-> "item", pos |-> 0, end |-> Len(words), tag |-> Immediate]
<1>1. Len(words) \in Nat /\ Immediate \in Nat \X Nat
    BY LenProperties DEF Immediate
<1>2. g \in Frame /\ g.pos = 0 /\ g.end = Len(words)
    BY <1>1 DEF Frame
<1> HIDE DEF g
<1>3. <<g>> \in Seq(Frame) /\ Len(<<g>>) = 1 /\ DOMAIN <<g>> = {1} /\ <<g>>[1] = g
    BY <1>2
<1>4. Nested(<<g>>, Len(words))
    BY <1>1, <1>2, <1>3 DEF Nested
<1>5. frames' \in Seq(Frame) /\ Nested(frames', Len(words))
    BY <1>3, <1>4, NestedNone DEF ReadPacket, g
<1>6. /\ packet' = words /\ messages' = <<>> /\ delivered' = <<>> /\ used' = 0
      /\ readErr' = unaligned
    BY DEF ReadPacket
<1>7. \A S : <<>> \in Seq(S)
    BY EmptySeq
<1>8. ReaderTypes' /\ FoundMessages' /\ NothingEarly'
    BY <1>5, <1>6, <1>7 DEF ReaderTypes, FoundMessages, NothingEarly, Frame
<1>9. StaysInside'
    BY <1>5, <1>6 DEF StaysInside, Nested
<1> QED
    BY <1>8, <1>9 DEF ReaderInv

\* popMessage hands out one of the messages found.
LEMMA PopKeeps == ReaderInv /\ PopMessage => ReaderInv'
<1> SUFFICES ASSUME ReaderInv, PopMessage PROVE ReaderInv'
    OBVIOUS
<1>1. /\ messages \in Seq([words : Messages, tag : Nat \X Nat])
      /\ delivered \in Seq([words : Messages, tag : Nat \X Nat])
    BY DEF PopMessage, NoErr, ReaderInv, FoundMessages, ReaderTypes
<1>2. Len(delivered) + 1 \in 1..Len(messages)
    BY <1>1, LenProperties DEF PopMessage, MessageLeft
<1>3. delivered' \in Seq([words : Messages, tag : Nat \X Nat])
    BY <1>1, <1>2, ElementOfSeq, AppendProperties DEF PopMessage
<1>4. ReaderTypes' /\ FoundMessages' /\ NothingEarly'
    BY <1>3 DEF PopMessage, NoErr, ReaderInv, ReaderTypes, FoundMessages, NothingEarly
<1>5. StaysInside'
    BY DEF PopMessage, ReaderInv, StaysInside
<1> QED
    BY <1>4, <1>5 DEF ReaderInv

\* Before the first packet there is nothing.
LEMMA IdleKeeps == ReaderIdle => ReaderInv
<1> SUFFICES ASSUME ReaderIdle PROVE ReaderInv
    OBVIOUS
<1>1. \A S : <<>> \in Seq(S)
    BY EmptySeq
<1>2. ReaderTypes /\ FoundMessages /\ NothingEarly
    BY <1>1 DEF ReaderIdle, ReaderTypes, FoundMessages, NothingEarly
<1>3. Nested(frames, Len(packet))
    BY NestedNone DEF ReaderIdle
<1> QED
    BY <1>2, <1>3 DEF ReaderInv, StaysInside, Nested

\* Between packets nothing changes.
LEMMA ReaderStutters == ReaderInv /\ UNCHANGED readerVars => ReaderInv'
BY DEF readerVars, ReaderInv, ReaderTypes, StaysInside, FoundMessages, NothingEarly

-----------------------------------------------------------------------------
(* Every word is used once *)

(* What is used and what is pending make up the packet.                     *)
Counted == ~readErr => used + Between(frames) = Len(packet)

LEMMA CountedIsUsedOnce == ReaderInv => (Counted <=> EveryWordUsedOnce)
<1> SUFFICES ASSUME ReaderInv PROVE PendingIn(frames) = Between(frames)
    BY DEF Counted, EveryWordUsedOnce
<1>1. frames \in Seq(Frame) /\ packet \in Seq(Nat)
    BY DEF ReaderInv, ReaderTypes, Frame
<1>2. Len(packet) \in Nat /\ Nested(frames, Len(packet))
    BY <1>1, LenProperties DEF ReaderInv, StaysInside, Nested
<1> QED
    BY <1>1, <1>2, PendingTelescopes

\* The call at hand, and what the calls around it have left.
LEMMA LeftAround ==
    ASSUME ReaderInv, Counted, frames # <<>>, ~readErr
    PROVE  /\ used \in Nat /\ Between(Front(frames)) \in Int /\ Remaining \in Int
           /\ used + (Between(Front(frames)) + Remaining) = Len(packet)
<1>1. /\ Between(Front(frames)) \in Int
      /\ Between(frames) = Between(Front(frames)) + (Last(frames).end - Last(frames).pos)
    BY AtHand, BetweenFront
<1> QED
    BY <1>1, AtHand, SMTT(30) DEF Counted, Remaining, ReaderInv, ReaderTypes

\* A call that returns has used what it had left.
LEMMA ReturnCounts ==
    ASSUME ReaderInv, Counted, frames # <<>>, frames' = Front(frames),
           packet' = packet, readErr' = readErr, used' = used + Remaining
    PROVE  Counted'
BY LeftAround DEF Counted

\* A bundle's header is four words.
LEMMA OpenBundleCounts ==
    ASSUME ReaderInv, Counted, OpenBundle, ~readErr
    PROVE  used' + Between(frames') = Len(packet')
<1> DEFINE f == Last(frames)
<1>1. PICK g \in Frame :
         g.pos = f.pos + 4 /\ g.end = f.end /\ frames' = Append(Front(frames), g)
    BY OpenBundleFrame
<1>2. frames # <<>> /\ f.pos \in Nat /\ f.end \in Nat /\ Remaining = f.end - f.pos
    BY OpenBundleFrame, AtHand DEF Remaining
<1>3. /\ Front(frames) \in Seq(Frame)
      /\ Front(frames) # <<>> => f.end = Last(Front(frames)).pos
    BY <1>2, AtHand, NestedFront
<1>4. /\ used + (Between(Front(frames)) + Remaining) = Len(packet)
      /\ used \in Nat /\ Between(Front(frames)) \in Int
    BY <1>2, LeftAround
<1> HIDE DEF f
<1>5. Between(frames') = Between(Front(frames)) + (g.end - g.pos)
    BY <1>1, <1>3, BetweenAppend
<1>6. used' = used + 4 /\ packet' = packet
    BY DEF OpenBundle
<1>7. PICK p \in Nat, e \in Nat : p = f.pos /\ e = f.end
    BY <1>2
<1>8. PICK b \in Int : b = Between(Front(frames))
    BY <1>4
<1>9. PICK u \in Nat : u = used
    BY <1>4
<1>10. u + (b + (e - p)) = Len(packet)
    BY <1>2, <1>4, <1>7, <1>8, <1>9
<1>11. Between(frames') = b + (e - (p + 4))
    BY <1>1, <1>5, <1>7, <1>8
<1>12. (u + 4) + (b + (e - (p + 4))) = u + (b + (e - p))
    OBVIOUS
<1> QED
    BY <1>6, <1>9, <1>10, <1>11, <1>12

\* An element's size is one word, and the element is what the bundle skips.
LEMMA ElementCounts ==
    ASSUME ReaderInv, Counted, ParseElement, ~readErr
    PROVE  used' + Between(frames') = Len(packet')
<1> DEFINE f == Last(frames)
<1>1. PICK outer \in Frame, inner \in Frame :
        /\ outer.kind = "bundle"
        /\ inner.pos = f.pos + 1 /\ inner.end = outer.pos
        /\ inner.pos <= inner.end
        /\ outer.pos <= outer.end /\ outer.end = f.end
        /\ frames' = Append(Append(Front(frames), outer), inner)
    BY ElementFrames
<1>2. frames # <<>> /\ f.pos \in Nat /\ f.end \in Nat /\ Remaining = f.end - f.pos
    BY ElementFrames, AtHand DEF Remaining
<1>3. /\ Front(frames) \in Seq(Frame) /\ Nested(Front(frames), Len(packet))
      /\ Len(packet) \in Nat /\ f.end <= Len(packet)
      /\ Front(frames) # <<>> =>
            Last(Front(frames)).kind = "bundle" /\ f.end = Last(Front(frames)).pos
    BY <1>2, AtHand, NestedFront
<1>4. /\ used + (Between(Front(frames)) + Remaining) = Len(packet)
      /\ used \in Nat /\ Between(Front(frames)) \in Int
    BY <1>2, LeftAround
<1> HIDE DEF f
<1>5. PICK around : around = Append(Front(frames), outer)
    OBVIOUS
<1>6. around \in Seq(Frame) /\ Last(around) = outer
    BY <1>1, <1>3, <1>5, NestedAppend
<1>7. Between(around) = Between(Front(frames)) + (outer.end - outer.pos)
    BY <1>1, <1>3, <1>5, BetweenAppend
<1>8. Between(frames') = Between(around) + (inner.end - inner.pos)
    BY <1>1, <1>5, <1>6, BetweenAppend
<1>9. used' = used + 1 /\ packet' = packet
    BY DEF ParseElement
<1>10. outer.pos \in Nat /\ outer.end \in Nat /\ inner.pos \in Nat /\ inner.end \in Nat
    BY DEF Frame
<1>11. Between(frames') = Between(Front(frames)) + (f.end - f.pos - 1)
  <2>1. inner.end - inner.pos = outer.pos - f.pos - 1
      BY <1>1, <1>2, <1>10
  <2>2. Between(around) = Between(Front(frames)) + (f.end - outer.pos)
      BY <1>1, <1>7
  <2>3. PICK b \in Int : b = Between(Front(frames))
      BY <1>4
  <2>4. Between(frames') = (b + (f.end - outer.pos)) + (outer.pos - f.pos - 1)
      BY <1>8, <2>1, <2>2, <2>3
  <2> QED
      BY <1>2, <1>10, <2>3, <2>4, SMTT(30)
<1> QED
    BY <1>2, <1>4, <1>9, <1>11, SMTT(30)

\* Every step of parse uses what it takes off the pending words.
LEMMA ParseCounts == ReaderInv /\ Counted /\ Parse => Counted'
<1> SUFFICES ASSUME ReaderInv, Counted, Parse PROVE Counted'
    OBVIOUS
<1>1. CASE ParseNothing \/ BundleDone
  <2>1. frames # <<>> /\ Remaining = 0 /\ used' = used + Remaining
    <3>1. used \in Nat
        BY DEF ReaderInv, ReaderTypes
    <3> QED
        BY <1>1, <3>1 DEF ParseNothing, BundleDone, In
  <2> QED
      BY <1>1, <2>1, ReturnCounts DEF ParseNothing, BundleDone
<1>2. CASE ParseMessage
    BY <1>2, ReturnCounts DEF ParseMessage, AtMessage, In
<1>3. CASE ParseBadMessage \/ BadBundle \/ BadElement
    BY <1>3 DEF ParseBadMessage, BadBundle, BadElement, ReadFails, Counted
<1>4. CASE OpenBundle
    BY <1>4, OpenBundleCounts DEF Counted, OpenBundle
<1>5. CASE ParseElement
    BY <1>5, ElementCounts DEF Counted, ParseElement
<1> QED
    BY <1>1, <1>2, <1>3, <1>4, <1>5 DEF Parse

\* init, popMessage and the time before the first packet.
LEMMA ReadPacketCounts ==
    ASSUME NEW words \in Seq(Nat), NEW unaligned \in BOOLEAN, ReadPacket(words, unaligned)
    PROVE  Counted'
<1> SUFFICES ASSUME ~unaligned PROVE used' + Between(frames') = Len(packet')
    BY DEF Counted, ReadPacket
<1> DEFINE g == [kind |-> "item", pos |-> 0, end |-> Len(words), tag |-> Immediate]
<1>1. Len(words) \in Nat /\ packet' = words /\ used' = 0 /\ frames' = <<g>>
    BY LenProperties DEF ReadPacket
<1>2. g.pos = 0 /\ g.end = Len(words)
    OBVIOUS
<1> HIDE DEF g
<1>3. <<g>> # <<>> /\ Last(<<g>>) = g /\ <<g>>[1] = g
    BY DEF Last
<1>4. Between(frames') = g.end - g.pos
    BY <1>1, <1>3 DEF Between
<1> QED
    BY <1>1, <1>2, <1>4

LEMMA PopCounts == Counted /\ PopMessage => Counted'
BY DEF Counted, PopMessage

LEMMA IdleCounts == ReaderIdle => Counted
BY EmptySeq DEF ReaderIdle, Counted, Between

LEMMA StutterCounts == Counted /\ UNCHANGED readerVars => Counted'
BY DEF readerVars, Counted

-----------------------------------------------------------------------------
(* Writer and reader *)

(* The open bundles begin within the storage, and nothing is counted that   *)
(* no call made.                                                            *)
WriterInv ==
    /\ WriterTypes
    /\ \A i \in DOMAIN bundles : bundles[i] <= Len(storage)
    /\ topLevel <= calls

PacketInv ==
    /\ WriterInv
    /\ ReaderInv /\ Counted
    /\ from \in {"none", "writer", "foreign"}

\* One more call, and at most one more item outside all bundles.
LEMMA CallCounts ==
    ASSUME WriterInv, Call, topLevel' = topLevel \/ NewItem
    PROVE  /\ calls' \in 0..MaxCalls /\ topLevel' \in 0..MaxCalls
           /\ topLevel' <= calls'
<1>1. MaxCalls \in Nat /\ calls \in Nat /\ topLevel \in Nat /\ topLevel <= calls
    BY OscPacketAssumption DEF WriterInv, WriterTypes
<1>2. calls < MaxCalls /\ calls' = calls + 1
    BY DEF Call
<1>3. topLevel' \in {topLevel, topLevel + 1}
    BY DEF NewItem
<1> QED
    BY <1>1, <1>2, <1>3

\* What a longer storage leaves true of the open bundles.
LEMMA StorageGrows ==
    ASSUME WriterInv, NEW tail \in Seq(Nat), storage' = storage \o tail
    PROVE  /\ storage' \in Seq(Nat) /\ Len(storage') = Len(storage) + Len(tail)
           /\ \A i \in DOMAIN bundles : bundles[i] <= Len(storage')
<1>1. /\ storage \in Seq(Nat) /\ Len(storage) \in Nat /\ Len(tail) \in Nat
      /\ bundles \in Seq(Nat)
    BY LenProperties DEF WriterInv, WriterTypes
<1>2. storage' \in Seq(Nat) /\ Len(storage') = Len(storage) + Len(tail)
    BY <1>1, ConcatProperties
<1>3. \A i \in DOMAIN bundles : bundles[i] \in Nat /\ bundles[i] <= Len(storage)
    BY <1>1, ElementOfSeq, LenProperties DEF WriterInv
<1> QED
    BY <1>1, <1>2, <1>3

\* startBundle keeps the position of its header.
LEMMA StartKeeps ==
    ASSUME WriterInv, NEW tag \in TimeTags, StartBundle(tag)
    PROVE  WriterInv'
<1> DEFINE before == IF bundles = <<>> THEN storage ELSE Append(storage, 0)
<1>1. /\ storage \in Seq(Nat) /\ Len(storage) \in Nat /\ bundles \in Seq(Nat)
      /\ openTags \in Seq(TimeTags) /\ Len(openTags) = Len(bundles) /\ Len(bundles) \in Nat
      /\ DOMAIN bundles = 1..Len(bundles)
    BY LenProperties DEF WriterInv, WriterTypes
<1>2. /\ storage' = before \o BundleMark \o tag
      /\ bundles' = Append(bundles, Len(before)) /\ openTags' = Append(openTags, tag)
      /\ err' = err /\ added' = added
    BY DEF StartBundle
<1>3. before \in Seq(Nat) /\ Len(before) \in Nat /\ Len(storage) <= Len(before)
    BY <1>1, AppendProperties
<1>4. tag \in Seq(Nat) /\ Len(tag) = 2
  <2>1. PICK a \in Nat, b \in Nat : tag = <<a, b>>
      BY OscPacketAssumption
  <2>2. <<a, b>> \in Seq(Nat) /\ Len(<<a, b>>) = 2
      OBVIOUS
  <2> QED
      BY <2>1, <2>2
<1>5. BundleMark \in Seq(Nat) /\ Len(BundleMark) = 2
    BY DEF BundleMark
<1> HIDE DEF before
<1>6. storage' \in Seq(Nat) /\ Len(storage') = Len(before) + 4
  <2>1. PICK mark \in Seq(Nat) : mark = BundleMark /\ Len(mark) = 2
      BY <1>5
  <2>2. PICK words \in Seq(Nat) : words = tag /\ Len(words) = 2
      BY <1>4
  <2>3. PICK front : front = before \o mark
      OBVIOUS
  <2>4. front \in Seq(Nat) /\ Len(front) = Len(before) + 2
      BY <1>3, <2>1, <2>3, ConcatProperties
  <2>5. ASSUME NEW s \in Seq(Nat), NEW w \in Seq(Nat)
        PROVE  s \o w \in Seq(Nat) /\ Len(s \o w) = Len(s) + Len(w)
      BY ConcatProperties
  <2>6. storage' = front \o words
      BY <1>2, <2>1, <2>2, <2>3
  <2>7. storage' \in Seq(Nat) /\ Len(storage') = Len(front) + Len(words)
      BY <2>2, <2>4, <2>5, <2>6
  <2> QED
      BY <1>3, <2>2, <2>4, <2>7
<1>7. /\ bundles' \in Seq(Nat) /\ Len(bundles') = Len(bundles) + 1
      /\ \A i \in 1..Len(bundles) : bundles'[i] = bundles[i]
      /\ bundles'[Len(bundles) + 1] = Len(before)
    BY <1>1, <1>2, <1>3, AppendProperties
<1>8. openTags' \in Seq(TimeTags) /\ Len(openTags') = Len(bundles')
    BY <1>1, <1>2, <1>7, AppendProperties
<1>9. \A i \in DOMAIN bundles' : bundles'[i] <= Len(storage')
  <2> SUFFICES ASSUME NEW i \in 1..(Len(bundles) + 1) PROVE bundles'[i] <= Len(storage')
      BY <1>7, LenProperties
  <2>1. CASE i = Len(bundles) + 1
      BY <1>3, <1>6, <1>7, <2>1
  <2>2. CASE i \in 1..Len(bundles)
    <3>1. bundles[i] \in Nat /\ bundles[i] <= Len(storage)
        BY <1>1, <2>2, ElementOfSeq DEF WriterInv
    <3> QED
        BY <1>1, <1>3, <1>6, <1>7, <2>2, <3>1, SMTT(30)
  <2> QED
      BY <1>1, <2>1, <2>2
<1>10. /\ calls' \in 0..MaxCalls /\ topLevel' \in 0..MaxCalls
       /\ topLevel' <= calls'
    BY CallCounts DEF StartBundle
<1> QED
    BY <1>2, <1>6, <1>7, <1>8, <1>9, <1>10 DEF WriterInv, WriterTypes

\* Writing a word, inside a sequence or not, leaves its type and length.
LEMMA WordWritten ==
    ASSUME NEW s \in Seq(Nat), NEW i \in Nat, NEW word \in Nat
    PROVE  /\ [s EXCEPT ![i] = word] \in Seq(Nat)
           /\ Len([s EXCEPT ![i] = word]) = Len(s)
<1>1. CASE i \in 1..Len(s)
    BY <1>1, ExceptSeq
<1>2. CASE i \notin 1..Len(s)
  <2>1. /\ DOMAIN s = 1..Len(s)
        /\ s = [j \in DOMAIN s |-> s[j]]
      BY LenProperties
  <2>2. [s EXCEPT ![i] = word] = [j \in DOMAIN s |-> s[j]]
      BY <1>2, <2>1
  <2> QED
      BY <2>1, <2>2
<1> QED
    BY <1>1, <1>2

\* endBundle writes a size in front of the bundle, inside the storage.
LEMMA EndKeeps == WriterInv /\ EndBundle => WriterInv'
<1> SUFFICES ASSUME WriterInv, EndBundle PROVE WriterInv'
    OBVIOUS
<1>1. /\ storage \in Seq(Nat) /\ Len(storage) \in Nat /\ bundles \in Seq(Nat) /\ bundles # <<>>
      /\ openTags \in Seq(TimeTags) /\ Len(openTags) = Len(bundles)
    BY LenProperties DEF EndBundle, WriterInv, WriterTypes
<1>2. /\ Len(bundles) \in Nat \ {0} /\ DOMAIN bundles = 1..Len(bundles)
      /\ Last(bundles) \in Nat /\ Last(bundles) = bundles[Len(bundles)]
      /\ Front(bundles) \in Seq(Nat) /\ Len(Front(bundles)) = Len(bundles) - 1
      /\ \A i \in 1..(Len(bundles) - 1) : Front(bundles)[i] = bundles[i]
    BY <1>1, FrontLast
<1>3. Padded \in Seq(Nat) /\ Len(Padded) \in Nat /\ Len(storage) <= Len(Padded)
    BY <1>1, AppendProperties DEF Padded
<1>4. Last(bundles) <= Len(storage)
    BY <1>2 DEF WriterInv
<1>5. 4 * (Len(Padded) - Last(bundles)) \in Nat
    BY <1>1, <1>2, <1>3, <1>4, SMTT(30)
<1>6. storage' \in Seq(Nat) /\ Len(storage') = Len(Padded)
  <2>1. CASE Len(bundles) = 1
      BY <1>3, <2>1 DEF EndBundle
  <2>2. CASE Len(bundles) # 1
    <3> DEFINE size == 4 * (Len(Padded) - Last(bundles))
    <3>1. storage' = [Padded EXCEPT ![Last(bundles)] = size]
        BY <2>2 DEF EndBundle
    <3>2. size \in Nat
        BY <1>5
    <3> HIDE DEF size
    <3>3. /\ [Padded EXCEPT ![Last(bundles)] = size] \in Seq(Nat)
          /\ Len([Padded EXCEPT ![Last(bundles)] = size]) = Len(Padded)
        BY <1>2, <1>3, <3>2, WordWritten
    <3> QED
        BY <3>1, <3>3
  <2> QED
      BY <2>1, <2>2
<1>7. bundles' = Front(bundles) /\ openTags' = Front(openTags) /\ err' = err /\ added' = added
    BY DEF EndBundle
<1>8. openTags' \in Seq(TimeTags) /\ Len(openTags') = Len(bundles')
  <2>1. openTags # <<>>
      BY <1>1, <1>2, EmptySeq
  <2>2. Front(openTags) \in Seq(TimeTags) /\ Len(Front(openTags)) = Len(openTags) - 1
      BY <1>1, <2>1, FrontLast
  <2> QED
      BY <1>1, <1>2, <1>7, <2>2
<1>9. \A i \in DOMAIN bundles' : bundles'[i] <= Len(storage')
  <2> SUFFICES ASSUME NEW i \in 1..(Len(bundles) - 1) PROVE bundles'[i] <= Len(storage')
      BY <1>2, <1>7, LenProperties
  <2>1. bundles[i] \in Nat /\ bundles[i] <= Len(storage) /\ bundles'[i] = bundles[i]
      BY <1>1, <1>2, <1>7, ElementOfSeq, SMTT(30) DEF WriterInv
  <2> QED
      BY <1>1, <1>3, <1>6, <2>1
<1>10. /\ calls' \in 0..MaxCalls /\ topLevel' \in 0..MaxCalls
       /\ topLevel' <= calls'
    BY CallCounts DEF EndBundle
<1> QED
    BY <1>2, <1>6, <1>7, <1>8, <1>9, <1>10 DEF WriterInv, WriterTypes

\* addMessage appends the message, in a bundle behind its size.
LEMMA AddKeeps ==
    ASSUME WriterInv, NEW m \in Messages, AddMessage(m)
    PROVE  WriterInv'
<1>1. m \in Seq(Nat) /\ Len(m) \in Nat
    BY OscFormatAssumption, LenProperties
<1>2. Packed(m) \in Seq(Nat)
  <2>1. CASE bundles = <<>>
    <3>1. Packed(m) = <<>> \o m
        BY <2>1 DEF Packed
    <3> QED
        BY <1>1, <3>1, EmptySeq, ConcatProperties
  <2>2. CASE bundles # <<>>
    <3>1. Packed(m) = <<4 * Len(m)>> \o m
        BY <2>2 DEF Packed
    <3>2. <<4 * Len(m)>> \in Seq(Nat)
        BY <1>1
    <3> QED
        BY <1>1, <3>1, <3>2, ConcatProperties
  <2> QED
      BY <2>1, <2>2
<1>3. storage' \in Seq(Nat) /\ \A i \in DOMAIN bundles : bundles[i] <= Len(storage')
    BY <1>2, StorageGrows DEF AddMessage
<1>4. added' \in Seq([words : Messages, tag : TimeTags \cup {Immediate}])
  <2>1. (IF openTags = <<>> THEN Immediate ELSE Last(openTags)) \in TimeTags \cup {Immediate}
      BY FrontLast DEF WriterInv, WriterTypes
  <2>2. added \in Seq([words : Messages, tag : TimeTags \cup {Immediate}])
      BY DEF WriterInv, WriterTypes
  <2> QED
      BY <2>1, <2>2, AppendProperties DEF AddMessage
<1>5. /\ calls' \in 0..MaxCalls /\ topLevel' \in 0..MaxCalls
      /\ topLevel' <= calls'
    BY CallCounts DEF AddMessage
<1> QED
    BY <1>3, <1>4, <1>5 DEF AddMessage, WriterInv, WriterTypes

\* A refused call sets the error flag.
LEMMA RefusedKeeps ==
    ASSUME WriterInv, Call, err' = TRUE,
           UNCHANGED <<storage, bundles, added, openTags, topLevel>>
    PROVE  WriterInv'
BY CallCounts DEF WriterInv, WriterTypes

\* Every call of the writer keeps its types.
LEMMA WriterCallKeeps == WriterInv /\ WriterCall => WriterInv'
BY StartKeeps, EndKeeps, AddKeeps, RefusedKeeps
DEF WriterCall, EndBundleUnopened, AddRefused

\* Every step of the writer and the reader keeps the invariant.
LEMMA PacketNext == PacketInv /\ [Next]_vars => PacketInv'
<1> SUFFICES ASSUME PacketInv, [Next]_vars PROVE PacketInv'
    OBVIOUS
<1>1. ASSUME UNCHANGED writerVars PROVE WriterInv'
    BY <1>1 DEF writerVars, PacketInv, WriterInv, WriterTypes
<1>2. CASE Build
    BY <1>2, WriterCallKeeps, ReaderStutters, StutterCounts DEF Build, PacketInv
<1>3. CASE Send
  <2>1. storage \in Seq(Nat)
      BY DEF PacketInv, WriterInv, WriterTypes
  <2> QED
      BY <1>1, <1>3, <2>1, ReadPacketKeeps, ReadPacketCounts DEF Send, PacketInv
<1>4. CASE ForeignArrives
    BY <1>1, <1>4, ReadPacketKeeps, ReadPacketCounts, OscPacketAssumption DEF ForeignArrives, PacketInv
<1>5. CASE Read
    BY <1>1, <1>5, ParseKeeps, PopKeeps, ParseCounts, PopCounts DEF Read, PacketInv
<1>6. CASE UNCHANGED vars
    BY <1>1, <1>6, ReaderStutters, StutterCounts DEF vars, PacketInv
<1> QED
    BY <1>2, <1>3, <1>4, <1>5, <1>6 DEF Next

\* It holds at first.
LEMMA PacketInit == Init => PacketInv
<1> SUFFICES ASSUME Init PROVE PacketInv
    OBVIOUS
<1>1. \A S : <<>> \in Seq(S)
    BY EmptySeq
<1>2. Len(<<>>) = 0 /\ DOMAIN <<>> = {}
    BY EmptySeq
<1>3. WriterInv
  <2>1. MaxCalls \in Nat
      BY OscPacketAssumption
  <2>2. /\ storage = <<>> /\ bundles = <<>> /\ err = FALSE /\ calls = 0
        /\ added = <<>> /\ openTags = <<>> /\ topLevel = 0
      BY DEF Init, WriterInit
  <2>3. WriterTypes
    <3>1. /\ storage \in Seq(Nat) /\ bundles \in Seq(Nat)
          /\ openTags \in Seq(TimeTags)
          /\ added \in Seq([words : Messages, tag : TimeTags \cup {Immediate}])
        BY <1>1, <2>2
    <3>2. Len(openTags) = Len(bundles) /\ err \in BOOLEAN
        BY <2>2
    <3>3. calls \in 0..MaxCalls /\ topLevel \in 0..MaxCalls
        BY <2>1, <2>2
    <3> QED
        BY <3>1, <3>2, <3>3 DEF WriterTypes
  <2>4. \A i \in DOMAIN bundles : bundles[i] <= Len(storage)
      BY <1>2, <2>2
  <2> QED
      BY <2>2, <2>3, <2>4 DEF WriterInv
<1> QED
    BY <1>3, IdleKeeps, IdleCounts DEF Init, PacketInv

\* So it holds always.
LEMMA PacketInvariant == Spec => []PacketInv
<1>1. Init => PacketInv
    BY PacketInit
<1>2. PacketInv /\ [Next]_vars => PacketInv'
    BY PacketNext
<1> QED
    BY <1>1, <1>2, PTL DEF Spec

\* The writer's storage and the reader's lists keep their types, whatever is
\* called and whatever arrives: in particular what is handed out are messages.
THEOREM PacketTypes == Spec => []TypeOK
<1>1. PacketInv => TypeOK
    BY DEF PacketInv, WriterInv, ReaderInv, TypeOK
<1> QED
    BY <1>1, PacketInvariant, PTL

\* No call of parse looks outside its element, and no element is outside the
\* bundle around it, whatever sizes the packet claims.
THEOREM PacketStaysInside == Spec => []StaysInside
<1>1. PacketInv => StaysInside
    BY DEF PacketInv, ReaderInv
<1> QED
    BY <1>1, PacketInvariant, PTL

\* A packet with an error anywhere yields no message.
THEOREM PacketAllOrNothing == Spec => []AllOrNothing
<1>1. PacketInv => AllOrNothing
    BY DEF PacketInv, ReaderInv, NothingEarly, AllOrNothing
<1> QED
    BY <1>1, PacketInvariant, PTL

\* A packet that is read without an error is read in full: every word of it is
\* used once, as a header, as a size or in one message, and none is left out.
THEOREM PacketUsesEveryWordOnce == Spec => []EveryWordUsedOnce
<1>1. PacketInv => EveryWordUsedOnce
    BY CountedIsUsedOnce DEF PacketInv
<1> QED
    BY <1>1, PacketInvariant, PTL

-----------------------------------------------------------------------------
(* Lists of sequences, joined *)

\* What the function g makes of the elements of s, one behind the other.
Flat(g, s) == FlattenSeq([i \in DOMAIN s |-> g[s[i]]])

\* g makes a sequence over T of every member of S.
Spreads(g, S, T) == g \in [S -> Seq(T)]

\* What is made of a list with one element more, and of the rest of a list.
LEMMA FlatFacts ==
    ASSUME NEW S, NEW T, NEW g, Spreads(g, S, T), NEW s \in Seq(S)
    PROVE  /\ Flat(g, s) \in Seq(T)
           /\ s = <<>> => Flat(g, s) = <<>>
           /\ \A x \in S : Flat(g, Append(s, x)) = Flat(g, s) \o g[x]
           /\ s # <<>> => Flat(g, s) = g[Head(s)] \o Flat(g, Tail(s))
<1> DEFINE mapped(u) == [i \in DOMAIN u |-> g[u[i]]]
<1>0. g \in [S -> Seq(T)]
    BY DEF Spreads
<1>1. ASSUME NEW u \in Seq(S)
      PROVE  /\ mapped(u) \in Seq(Seq(T)) /\ Len(mapped(u)) = Len(u)
             /\ DOMAIN u = 1..Len(u) /\ Len(u) \in Nat
             /\ \A i \in 1..Len(u) : mapped(u)[i] = g[u[i]]
  <2>1. Len(u) \in Nat /\ DOMAIN u = 1..Len(u) /\ \A i \in 1..Len(u) : u[i] \in S
      BY LenProperties, ElementOfSeq
  <2>2. \A i \in 1..Len(u) : g[u[i]] \in Seq(T)
      BY <1>0, <2>1
  <2> QED
      BY <2>1, <2>2
<1> HIDE DEF mapped
<1>2. \A u : Flat(g, u) = FlattenSeq(mapped(u))
    BY DEF Flat, mapped
<1>3. Flat(g, s) \in Seq(T)
    BY <1>1, <1>2, FlattenType
<1>4. ASSUME s = <<>> PROVE Flat(g, s) = <<>>
  <2>1. Len(s) = 0
      BY <1>4, EmptySeq
  <2>2. mapped(s) = <<>>
      BY <1>1, <2>1, EmptySeq
  <2> QED
      BY <1>2, <2>2, FlattenEmpty
<1>5. ASSUME NEW x \in S PROVE Flat(g, Append(s, x)) = Flat(g, s) \o g[x]
  <2>a. PICK m \in Seq(Seq(T)), y \in Seq(T) : m = mapped(s) /\ y = g[x]
      BY <1>0, <1>1
  <2>b. PICK u, v : u = Append(s, x) /\ v = Append(m, y)
      OBVIOUS
  <2>1. /\ u \in Seq(S) /\ Len(u) = Len(s) + 1 /\ u[Len(s) + 1] = x
        /\ \A i \in 1..Len(s) : u[i] = s[i]
      BY <2>b, AppendProperties
  <2>2. /\ v \in Seq(Seq(T)) /\ Len(v) = Len(mapped(s)) + 1
        /\ v[Len(mapped(s)) + 1] = g[x]
        /\ \A i \in 1..Len(mapped(s)) : v[i] = mapped(s)[i]
      BY <2>a, <2>b, AppendProperties
  <2>3. mapped(u) = v
    <3>1. mapped(u) \in Seq(Seq(T)) /\ Len(mapped(u)) = Len(v) /\ Len(s) \in Nat
        BY <1>1, <2>1, <2>2
    <3>2. ASSUME NEW i \in 1..(Len(s) + 1) PROVE mapped(u)[i] = v[i]
      <4>1. mapped(u)[i] = g[u[i]]
          BY <1>1, <2>1, <3>2
      <4>2. CASE i = Len(s) + 1
          BY <1>1, <2>1, <2>2, <4>1, <4>2
      <4>3. CASE i \in 1..Len(s)
        <5>1. mapped(s)[i] = g[s[i]] /\ u[i] = s[i] /\ v[i] = mapped(s)[i]
            BY <1>1, <2>1, <2>2, <4>3
        <5> QED
            BY <4>1, <5>1
      <4> QED
          BY <3>1, <4>2, <4>3
    <3>3. Len(mapped(u)) = Len(s) + 1
        BY <1>1, <2>1
    <3> QED
      <4>1. PICK mu \in Seq(Seq(T)) : mu = mapped(u)
          BY <3>1
      <4>2. Len(mu) = Len(v) /\ \A i \in 1..Len(mu) : mu[i] = v[i]
          BY <3>1, <3>2, <3>3, <4>1
      <4> QED
          BY <2>2, <4>1, <4>2, SeqEqual
  <2>4. FlattenSeq(v) = FlattenSeq(m) \o y
      BY <2>b, FlattenAppend
  <2> QED
      BY <1>2, <2>a, <2>b, <2>3, <2>4
<1>6. ASSUME s # <<>> PROVE Flat(g, s) = g[Head(s)] \o Flat(g, Tail(s))
  <2>a. PICK m \in Seq(Seq(T)) : m = mapped(s)
      BY <1>1
  <2>b. PICK u, v : u = Tail(s) /\ v = Tail(m)
      OBVIOUS
  <2>1. u \in Seq(S) /\ Len(u) = Len(s) - 1 /\ \A i \in 1..Len(u) : u[i] = s[i + 1]
      BY <1>6, <2>b, HeadTailProperties
  <2>2. Len(s) \in Nat \ {0} /\ mapped(s) # <<>> /\ Head(s) = s[1] /\ Head(mapped(s)) = mapped(s)[1]
    <3>1. Len(s) \in Nat \ {0}
        BY <1>6, EmptySeq
    <3>2. Len(mapped(s)) # 0
        BY <1>1, <3>1
    <3> QED
        BY <1>1, <3>1, <3>2, EmptySeq
  <2>3. /\ v \in Seq(Seq(T)) /\ Len(v) = Len(mapped(s)) - 1
        /\ \A i \in 1..Len(v) : v[i] = mapped(s)[i + 1]
      BY <2>2, <2>a, <2>b, HeadTailProperties
  <2>4. mapped(u) = v
    <3>1. mapped(u) \in Seq(Seq(T)) /\ Len(mapped(u)) = Len(v) /\ Len(v) = Len(s) - 1 /\ Len(u) = Len(v)
        BY <1>1, <2>1, <2>3
    <3>2. ASSUME NEW i \in 1..Len(v) PROVE mapped(u)[i] = v[i]
      <4>1. i \in 1..Len(u) /\ i + 1 \in 1..Len(s)
          BY <2>2, <3>1
      <4>2. mapped(u)[i] = g[u[i]] /\ u[i] = s[i + 1]
          BY <1>1, <2>1, <4>1
      <4>3. mapped(s)[i + 1] = g[s[i + 1]]
          BY <1>1, <4>1
      <4> QED
          BY <2>3, <4>2, <4>3
    <3> QED
      <4>1. PICK mu \in Seq(Seq(T)) : mu = mapped(u)
          BY <3>1
      <4>2. Len(mu) = Len(v) /\ \A i \in 1..Len(mu) : mu[i] = v[i]
          BY <3>1, <3>2, <4>1
      <4> QED
          BY <2>3, <4>1, <4>2, SeqEqual
  <2>5. mapped(s)[1] = g[s[1]]
      BY <1>1, <2>2
  <2>6. FlattenSeq(m) = Head(m) \o FlattenSeq(v)
      BY <2>2, <2>a, <2>b, FlattenHeadTail
  <2> QED
      BY <1>2, <2>2, <2>a, <2>b, <2>4, <2>5, <2>6
<1> QED
    BY <1>3, <1>4, <1>5, <1>6

-----------------------------------------------------------------------------
(* What the elements of a stack lead to, one after the other *)

\* From v the steps T lead through the elements of s to w.
Leads(T, s, v, w) ==
    \E c : /\ c[1] = v /\ c[Len(s) + 1] = w
           /\ \A i \in 1..Len(s) : <<s[i], c[i], c[i + 1]>> \in T

\* Through nothing to where one is, through one element more, and back.
LEMMA LeadsNowhere ==
    ASSUME NEW T, NEW v, NEW w
    PROVE  Leads(T, <<>>, v, w) <=> v = w
<1>1. Len(<<>>) = 0
    BY EmptySeq
<1>2. ASSUME v = w PROVE Leads(T, <<>>, v, w)
  <2>1. PICK c : c = [i \in 1..1 |-> v]
      OBVIOUS
  <2>2. c[1] = v /\ c[Len(<<>>) + 1] = w
      BY <1>1, <1>2, <2>1
  <2>3. 1..Len(<<>>) = {}
      BY <1>1
  <2> QED
      BY <2>2, <2>3 DEF Leads
<1>3. ASSUME Leads(T, <<>>, v, w) PROVE v = w
    BY <1>1, <1>3 DEF Leads
<1> QED
    BY <1>2, <1>3

LEMMA LeadsOn ==
    ASSUME NEW T, NEW S, NEW s \in Seq(S), NEW x \in S, NEW v, NEW u, NEW w,
           Leads(T, s, v, u), <<x, u, w>> \in T
    PROVE  Leads(T, Append(s, x), v, w)
<1>1. PICK n \in Nat : n = Len(s)
    BY LenProperties
<1>a. PICK t : t = Append(s, x)
    OBVIOUS
<1>2. Len(t) = n + 1 /\ t[n + 1] = x /\ \A i \in 1..n : t[i] = s[i]
    BY <1>1, <1>a, AppendProperties
<1>3. PICK c : c[1] = v /\ c[n + 1] = u /\ \A i \in 1..n : <<s[i], c[i], c[i + 1]>> \in T
    BY <1>1 DEF Leads
<1>4. PICK d : d = [i \in 1..(n + 2) |-> IF i = n + 2 THEN w ELSE c[i]]
    OBVIOUS
<1>5. d[n + 2] = w /\ \A i \in 1..(n + 1) : d[i] = c[i]
    BY <1>4
<1>6. ASSUME NEW i \in 1..(n + 1) PROVE <<t[i], d[i], d[i + 1]>> \in T
  <2>1. CASE i = n + 1
    <3>1. d[i] = u /\ d[i + 1] = w /\ t[i] = x
      <4>1. (n + 1) + 1 = n + 2 /\ n + 1 \in 1..(n + 1)
          OBVIOUS
      <4> QED
          BY <1>2, <1>3, <1>5, <2>1, <4>1
    <3> QED
        BY <3>1
  <2>2. CASE i \in 1..n
    <3>1. d[i] = c[i] /\ d[i + 1] = c[i + 1] /\ t[i] = s[i]
        BY <1>2, <1>5, <2>2
    <3> QED
        BY <1>3, <2>2, <3>1
  <2> QED
      BY <2>1, <2>2
<1>7. d[1] = v /\ d[Len(t) + 1] = w
    BY <1>2, <1>3, <1>5
<1> QED
    BY <1>a, <1>2, <1>6, <1>7 DEF Leads

LEMMA LeadsBack ==
    ASSUME NEW T, NEW S, NEW s \in Seq(S), s # <<>>, NEW v, NEW w, Leads(T, s, v, w)
    PROVE  \E u : Leads(T, Front(s), v, u) /\ <<Last(s), u, w>> \in T
<1>1. PICK n \in Nat : n + 1 = Len(s)
  <2>1. Len(s) \in Nat \ {0}
      BY FrontLast
  <2> QED
      BY <2>1
<1>2. PICK t : /\ t = Front(s) /\ Len(t) = n /\ \A i \in 1..n : t[i] = s[i]
  <2>1. Len(Front(s)) = Len(s) - 1 /\ \A i \in 1..(Len(s) - 1) : Front(s)[i] = s[i]
      BY FrontLast
  <2> QED
      BY <1>1, <2>1
<1>3. Last(s) = s[n + 1]
    BY <1>1 DEF Last
<1>4. PICK c : /\ c[1] = v /\ c[(n + 1) + 1] = w
               /\ \A i \in 1..(n + 1) : <<s[i], c[i], c[i + 1]>> \in T
    BY <1>1 DEF Leads
<1>5. Leads(T, t, v, c[n + 1])
  <2>1. ASSUME NEW i \in 1..n PROVE <<t[i], c[i], c[i + 1]>> \in T
      BY <1>2, <1>4
  <2> QED
      BY <1>2, <1>4, <2>1 DEF Leads
<1>6. <<Last(s), c[n + 1], w>> \in T
  <2>1. n + 1 \in 1..(n + 1)
      OBVIOUS
  <2> QED
      BY <1>3, <1>4, <2>1
<1> QED
    BY <1>2, <1>5, <1>6

-----------------------------------------------------------------------------
(* What a packet is made of.  An element is what an item of a packet, or of  *)
(* a bundle, consists of: its words, the time tag around it and the messages *)
(* that are found in it.                                                     *)

Entry == [words : Seq(Nat), tag : Nat \X Nat]
Element == [words : Seq(Nat), tag : Nat \X Nat, found : Seq(Entry)]

\* Words, and entries, one sequence behind the other.
LEMMA WordsTwice ==
    ASSUME NEW a \in Seq(Nat), NEW b \in Seq(Nat), NEW c \in Seq(Nat)
    PROVE  (a \o b) \o c = a \o (b \o c)
BY ConcatAssociative, SMTT(30)

\* Where they are joined, and what is where.
LEMMA WordsJoin ==
    ASSUME NEW a \in Seq(Nat), NEW b \in Seq(Nat)
    PROVE  /\ a \o b \in Seq(Nat) /\ Len(a \o b) = Len(a) + Len(b)
           /\ Len(a) \in Nat /\ Len(b) \in Nat
BY ConcatProperties, LenProperties

LEMMA WordsAt ==
    ASSUME NEW a \in Seq(Nat), NEW b \in Seq(Nat)
    PROVE  /\ \A i \in 1..Len(a) : (a \o b)[i] = a[i]
           /\ \A i \in 1..Len(b) : (a \o b)[Len(a) + i] = b[i]
<1>1. PICK m \in Nat, n \in Nat : m = Len(a) /\ n = Len(b)
    BY LenProperties
<1>2. PICK v : v = a \o b
    OBVIOUS
<1>3. \A i \in 1..(m + n) : v[i] = IF i <= m THEN a[i] ELSE b[i - m]
    BY <1>1, <1>2, ConcatProperties
<1>4. \A i \in 1..m : i \in 1..(m + n) /\ i <= m
    OBVIOUS
<1>5. \A i \in 1..n : m + i \in 1..(m + n) /\ ~(m + i <= m) /\ (m + i) - m = i
    OBVIOUS
<1>6. \A i \in 1..m : v[i] = a[i]
    BY <1>3, <1>4
<1>7. \A i \in 1..n : v[m + i] = b[i]
    BY <1>3, <1>5
<1> QED
    BY <1>1, <1>2, <1>6, <1>7

\* The same of entries.
LEMMA EntriesTwice ==
    ASSUME NEW a \in Seq(Entry), NEW b \in Seq(Entry), NEW c \in Seq(Entry)
    PROVE  (a \o b) \o c = a \o (b \o c)
BY ConcatAssociative, SMTT(30)

LEMMA EntriesJoin ==
    ASSUME NEW a \in Seq(Entry), NEW b \in Seq(Entry)
    PROVE  a \o b \in Seq(Entry)
BY ConcatProperties

\* Nothing more, and nothing before.
LEMMA NothingJoined ==
    /\ \A a \in Seq(Nat) : a \o <<>> = a /\ <<>> \o a = a
    /\ \A a \in Seq(Entry) : a \o <<>> = a /\ <<>> \o a = a
    /\ <<>> \in Seq(Nat) /\ <<>> \in Seq(Entry)
BY ConcatEmptySeq, EmptySeq

\* Two words and two more.
LEMMA TwoAndTwo ==
    ASSUME NEW x \in Nat, NEW y \in Nat, NEW a \in Nat, NEW b \in Nat
    PROVE  <<x, y>> \o <<a, b>> = <<x, y, a, b>>
<1>1. PICK s \in Seq(Nat) : s = <<x, y>> /\ Len(s) = 2 /\ s[1] = x /\ s[2] = y
  <2>1. <<x, y>> \in Seq(Nat)
      OBVIOUS
  <2> QED
      BY <2>1
<1>2. PICK t \in Seq(Nat) : t = <<a, b>> /\ Len(t) = 2 /\ t[1] = a /\ t[2] = b
  <2>1. <<a, b>> \in Seq(Nat)
      OBVIOUS
  <2> QED
      BY <2>1
<1>3. PICK u \in Seq(Nat) : /\ u = <<x, y, a, b>> /\ Len(u) = 4
                            /\ u[1] = x /\ u[2] = y /\ u[3] = a /\ u[4] = b
  <2>1. <<x, y, a, b>> \in Seq(Nat)
      OBVIOUS
  <2> QED
      BY <2>1
<1>a. PICK v : v = s \o t
    OBVIOUS
<1>4. v \in Seq(Nat) /\ Len(v) = 4
    BY <1>1, <1>2, <1>a, WordsJoin
<1>5. v[1] = x /\ v[2] = y /\ v[3] = a /\ v[4] = b
  <2>1. \A i \in 1..2 : v[i] = s[i] /\ v[2 + i] = t[i]
      BY <1>1, <1>2, <1>a, WordsAt, ZenonT(60)
  <2>2. 1 \in 1..2 /\ 2 \in 1..2 /\ 2 + 1 = 3 /\ 2 + 2 = 4
      OBVIOUS
  <2>3. v[1] = s[1] /\ v[2] = s[2] /\ v[3] = t[1] /\ v[4] = t[2]
      BY <2>1, <2>2
  <2> QED
      BY <1>1, <1>2, <2>3
<1>6. \A i \in 1..4 : i = 1 \/ i = 2 \/ i = 3 \/ i = 4
    OBVIOUS
<1>7. \A i \in 1..4 : v[i] = u[i]
    BY <1>3, <1>5, <1>6
<1>8. v = u
    BY <1>3, <1>4, <1>7, SeqEqual
<1> QED
    BY <1>1, <1>2, <1>3, <1>a, <1>8

SizedOf == [e \in Element |-> <<4 * Len(e.words)>> \o e.words]
FoundOf == [e \in Element |-> e.found]

\* The words of a bundle's elements, with their sizes, and what is found there.
Content(es) == Flat(SizedOf, es)
Yield(es) == Flat(FoundOf, es)

Tagged(es, t) == \A i \in DOMAIN es : es[i].tag = t

Header(t) == BundleMark \o t
Bundle(t, es) == Header(t) \o Content(es)

\* e is empty, a message, or a bundle of elements in E.
IsElement(e, E) ==
    \/ e.words = <<>> /\ e.found = <<>>
    \/ e.words \in Messages /\ e.found = <<[words |-> e.words, tag |-> e.tag]>>
    \/ \E t \in Nat \X Nat, es \in Seq(E) :
        /\ es # <<>> /\ Tagged(es, t)
        /\ e.words = Bundle(t, es) /\ e.found = Yield(es)

\* All that are built like that.
Elements == UNION {E \in SUBSET Element : \A e \in E : IsElement(e, E)}

\* Of more elements, the same can be built and more.
LEMMA MoreElements ==
    ASSUME NEW E, NEW F, E \subseteq F, NEW e, IsElement(e, E)
    PROVE  IsElement(e, F)
<1>1. \A es \in Seq(E) : es \in Seq(F)
    BY SeqMonotonic
<1> QED
    BY <1>1 DEF IsElement

\* An element is built of elements, and what is built of elements is one.
LEMMA ElementBuilt ==
    ASSUME NEW e \in Elements
    PROVE  e \in Element /\ IsElement(e, Elements)
<1>1. PICK E \in SUBSET Element : e \in E /\ \A x \in E : IsElement(x, E)
    BY DEF Elements
<1>2. E \subseteq Elements
    BY <1>1 DEF Elements
<1> QED
    BY <1>1, <1>2, MoreElements

\* And back: the elements are all that can be built of elements.
LEMMA BuiltElement ==
    ASSUME NEW e \in Element, IsElement(e, Elements)
    PROVE  e \in Elements
<1>1. PICK F : F = Elements \cup {e}
    OBVIOUS
<1>2. \A x \in Elements : x \in Element /\ IsElement(x, Elements)
    BY ElementBuilt
<1>3. Elements \subseteq F
    BY <1>1
<1>4. ASSUME NEW x \in F PROVE x \in Element /\ IsElement(x, F)
    BY <1>1, <1>2, <1>3, MoreElements
<1>5. F \in {E \in SUBSET Element : \A x \in E : IsElement(x, E)}
    BY <1>4
<1> QED
    BY <1>1, <1>5 DEF Elements

\* The words of elements and their sizes are words; what is found are entries.
LEMMA ElementFields ==
    /\ \A e \in Element : /\ e.words \in Seq(Nat) /\ e.tag \in Nat \X Nat
                          /\ e.found \in Seq(Entry) /\ Len(e.words) \in Nat
                          /\ SizedOf[e] = <<4 * Len(e.words)>> \o e.words
                          /\ FoundOf[e] = e.found
    /\ SizedOf \in [Element -> Seq(Nat)] /\ FoundOf \in [Element -> Seq(Entry)]
    /\ Elements \subseteq Element
<1>1. ASSUME NEW e \in Element
      PROVE  /\ e.words \in Seq(Nat) /\ e.tag \in Nat \X Nat
             /\ e.found \in Seq(Entry) /\ Len(e.words) \in Nat
  <2>1. e.words \in Seq(Nat) /\ e.tag \in Nat \X Nat /\ e.found \in Seq(Entry)
      BY DEF Element
  <2> QED
      BY <2>1, LenProperties
<1>2. ASSUME NEW e \in Element PROVE <<4 * Len(e.words)>> \o e.words \in Seq(Nat)
  <2>1. PICK size \in Nat, w \in Seq(Nat) : size = 4 * Len(e.words) /\ w = e.words
      BY <1>1
  <2>2. <<size>> \in Seq(Nat)
      OBVIOUS
  <2>3. <<size>> \o w \in Seq(Nat)
      BY <2>2, ConcatProperties
  <2> QED
      BY <2>1, <2>3
<1>3. SizedOf \in [Element -> Seq(Nat)]
    BY <1>2 DEF SizedOf
<1>4. FoundOf \in [Element -> Seq(Entry)]
    BY <1>1 DEF FoundOf
<1>5. \A e \in Element : SizedOf[e] = <<4 * Len(e.words)>> \o e.words /\ FoundOf[e] = e.found
    BY DEF SizedOf, FoundOf
<1>6. Elements \subseteq Element
    BY ElementBuilt
<1> QED
    BY <1>1, <1>3, <1>4, <1>5, <1>6

\* The elements of a bundle, none of them, one more at the end, one less in front.
LEMMA ContentFacts ==
    ASSUME NEW es \in Seq(Element)
    PROVE  /\ Content(es) \in Seq(Nat) /\ Yield(es) \in Seq(Entry)
           /\ es = <<>> => Content(es) = <<>> /\ Yield(es) = <<>>
           /\ \A e \in Element :
                /\ Content(Append(es, e)) = Content(es) \o (<<4 * Len(e.words)>> \o e.words)
                /\ Yield(Append(es, e)) = Yield(es) \o e.found
           /\ es # <<>> =>
                /\ Head(es) \in Element /\ Tail(es) \in Seq(Element)
                /\ Content(es) = (<<4 * Len(Head(es).words)>> \o Head(es).words) \o Content(Tail(es))
                /\ Yield(es) = Head(es).found \o Yield(Tail(es))
<1>1. /\ SizedOf \in [Element -> Seq(Nat)] /\ FoundOf \in [Element -> Seq(Entry)]
      /\ \A e \in Element : SizedOf[e] = <<4 * Len(e.words)>> \o e.words /\ FoundOf[e] = e.found
    BY ElementFields
<1>2. /\ Content(es) \in Seq(Nat) /\ (es = <<>> => Content(es) = <<>>)
      /\ \A e \in Element : Content(Append(es, e)) = Content(es) \o SizedOf[e]
      /\ es # <<>> => Content(es) = SizedOf[Head(es)] \o Content(Tail(es))
  <2>1. PICK g : g = SizedOf /\ Spreads(g, Element, Nat)
      BY <1>1 DEF Spreads
  <2>2. /\ Flat(g, es) \in Seq(Nat) /\ (es = <<>> => Flat(g, es) = <<>>)
        /\ \A e \in Element : Flat(g, Append(es, e)) = Flat(g, es) \o g[e]
        /\ es # <<>> => Flat(g, es) = g[Head(es)] \o Flat(g, Tail(es))
      BY <2>1, FlatFacts
  <2> QED
      BY <2>1, <2>2 DEF Content
<1>3. /\ Yield(es) \in Seq(Entry) /\ (es = <<>> => Yield(es) = <<>>)
      /\ \A e \in Element : Yield(Append(es, e)) = Yield(es) \o FoundOf[e]
      /\ es # <<>> => Yield(es) = FoundOf[Head(es)] \o Yield(Tail(es))
  <2>1. PICK g : g = FoundOf /\ Spreads(g, Element, Entry)
      BY <1>1 DEF Spreads
  <2>2. /\ Flat(g, es) \in Seq(Entry) /\ (es = <<>> => Flat(g, es) = <<>>)
        /\ \A e \in Element : Flat(g, Append(es, e)) = Flat(g, es) \o g[e]
        /\ es # <<>> => Flat(g, es) = g[Head(es)] \o Flat(g, Tail(es))
      BY <2>1, FlatFacts
  <2> QED
      BY <2>1, <2>2 DEF Yield
<1>4. es # <<>> => Head(es) \in Element /\ Tail(es) \in Seq(Element)
    BY HeadTailProperties
<1> QED
    BY <1>1, <1>2, <1>3, <1>4

\* Elements of a bundle share its time tag; the first and the others too.
LEMMA TaggedFacts ==
    ASSUME NEW S, NEW es \in Seq(S), NEW t
    PROVE  /\ es = <<>> => Tagged(es, t)
           /\ \A e \in S : Tagged(es, t) /\ e.tag = t => Tagged(Append(es, e), t)
           /\ es # <<>> /\ Tagged(es, t) =>
                Head(es) \in S /\ Tail(es) \in Seq(S) /\ Head(es).tag = t /\ Tagged(Tail(es), t)
<1>1. PICK n \in Nat : n = Len(es) /\ DOMAIN es = 1..n
    BY LenProperties
<1>2. ASSUME es = <<>> PROVE Tagged(es, t)
  <2>1. n = 0
      BY <1>1, <1>2, EmptySeq
  <2> QED
      BY <1>1, <2>1 DEF Tagged
<1>3. ASSUME NEW e \in S, Tagged(es, t), e.tag = t PROVE Tagged(Append(es, e), t)
  <2>1. PICK u : u = Append(es, e)
      OBVIOUS
  <2>2. u \in Seq(S) /\ Len(u) = n + 1 /\ u[n + 1] = e /\ \A i \in 1..n : u[i] = es[i]
      BY <1>1, <2>1, AppendProperties
  <2>3. DOMAIN u = 1..(n + 1)
      BY <2>2, LenProperties
  <2>4. ASSUME NEW i \in 1..(n + 1) PROVE u[i].tag = t
    <3>1. CASE i = n + 1
        BY <1>3, <2>2, <3>1
    <3>2. CASE i \in 1..n
        BY <1>1, <1>3, <2>2, <3>2 DEF Tagged
    <3> QED
        BY <3>1, <3>2
  <2> QED
      BY <2>1, <2>3, <2>4 DEF Tagged
<1>4. ASSUME es # <<>>, Tagged(es, t)
      PROVE  Head(es) \in S /\ Tail(es) \in Seq(S) /\ Head(es).tag = t /\ Tagged(Tail(es), t)
  <2>1. PICK u : u = Tail(es)
      OBVIOUS
  <2>2. Head(es) \in S /\ u \in Seq(S) /\ Len(u) = n - 1 /\ \A i \in 1..(n - 1) : u[i] = es[i + 1]
      BY <1>1, <1>4, <2>1, HeadTailProperties
  <2>3. DOMAIN u = 1..(n - 1) /\ n # 0
      BY <1>1, <1>4, <2>2, LenProperties, EmptySeq
  <2>4. Head(es) = es[1] /\ 1 \in 1..n
      BY <1>1, <2>3
  <2>5. ASSUME NEW i \in 1..(n - 1) PROVE u[i].tag = t
    <3>1. i + 1 \in 1..n
        OBVIOUS
    <3> QED
        BY <1>1, <1>4, <2>2, <3>1 DEF Tagged
  <2> QED
      BY <1>1, <1>4, <2>1, <2>2, <2>3, <2>4, <2>5 DEF Tagged
<1> QED
    BY <1>2, <1>3, <1>4

\* A bundle begins with its mark and its time tag.
LEMMA HeaderFacts ==
    ASSUME NEW t \in Nat \X Nat
    PROVE  /\ Header(t) \in Seq(Nat) /\ Len(Header(t)) = 4
           /\ Header(t)[1] = BundleMark[1] /\ Header(t)[2] = BundleMark[2]
           /\ <<Header(t)[3], Header(t)[4]>> = t
           /\ <<Header(t)[1], Header(t)[2]>> = BundleMark
<1>1. PICK a \in Nat, b \in Nat : t = <<a, b>>
    OBVIOUS
<1>2. PICK x \in Nat, y \in Nat : BundleMark = <<x, y>>
    BY SMT DEF BundleMark
<1>3. Header(t) = <<x, y, a, b>>
  <2>1. <<x, y>> \o <<a, b>> = <<x, y, a, b>>
      BY TwoAndTwo
  <2> QED
      BY <1>1, <1>2, <2>1 DEF Header
<1>4. /\ <<x, y, a, b>> \in Seq(Nat) /\ Len(<<x, y, a, b>>) = 4
      /\ <<x, y, a, b>>[1] = x /\ <<x, y, a, b>>[2] = y
      /\ <<x, y, a, b>>[3] = a /\ <<x, y, a, b>>[4] = b
      /\ <<x, y>>[1] = x /\ <<x, y>>[2] = y
    OBVIOUS
<1> QED
    BY <1>1, <1>2, <1>3, <1>4, Zenon

\* The mark's first word begins with '#' and is no size.
LEMMA MarkFacts ==
    BundleMark[1] \in Nat /\ StartsWithHash(BundleMark[1]) /\ BundleMark[1] % 4 = 2
<1>1. BundleMark[1] = 593655150
    BY SMT DEF BundleMark
<1>2. 593655150 \div 16777216 = 35 /\ 593655150 % 4 = 2
    BY SMT
<1> QED
    BY <1>1, <1>2, SMT DEF StartsWithHash

\* A bundle, its header and what one element more makes of it.
LEMMA BundleFacts ==
    ASSUME NEW t \in Nat \X Nat, NEW es \in Seq(Element)
    PROVE  /\ Bundle(t, es) \in Seq(Nat)
           /\ Len(Bundle(t, es)) = 4 + Len(Content(es)) /\ Len(Content(es)) \in Nat
           /\ Bundle(t, es)[1] = BundleMark[1]
           /\ es = <<>> => Bundle(t, es) = Header(t)
           /\ \A e \in Element :
                Bundle(t, Append(es, e)) = Bundle(t, es) \o (<<4 * Len(e.words)>> \o e.words)
<1>1. PICK h \in Seq(Nat) : h = Header(t) /\ Len(h) = 4 /\ h[1] = BundleMark[1]
    BY HeaderFacts
<1>2. PICK c \in Seq(Nat) : c = Content(es)
    BY ContentFacts
<1>3. Bundle(t, es) = h \o c
    BY <1>1, <1>2 DEF Bundle
<1>4. Len(c) \in Nat
    BY LenProperties
<1>5. h \o c \in Seq(Nat) /\ Len(h \o c) = 4 + Len(c) /\ (h \o c)[1] = h[1]
  <2>1. h \o c \in Seq(Nat) /\ Len(h \o c) = Len(h) + Len(c)
      BY WordsJoin
  <2>2. 1 \in 1..Len(h)
      BY <1>1
  <2> QED
      BY <1>1, <2>1, <2>2, WordsAt
<1>6. ASSUME es = <<>> PROVE h \o c = h
    BY <1>2, <1>6, ContentFacts, ConcatEmptySeq
<1>7. ASSUME NEW e \in Element
      PROVE  Bundle(t, Append(es, e)) = (h \o c) \o (<<4 * Len(e.words)>> \o e.words)
  <2>1. PICK w \in Seq(Nat) : w = <<4 * Len(e.words)>> \o e.words
      BY ElementFields
  <2>2. Content(Append(es, e)) = c \o w
      BY <1>2, <2>1, ContentFacts
  <2>3. (h \o c) \o w = h \o (c \o w)
      BY WordsTwice
  <2> QED
      BY <1>1, <2>1, <2>2, <2>3 DEF Bundle
<1> QED
    BY <1>1, <1>2, <1>3, <1>4, <1>5, <1>6, <1>7

\* Nothing, a message and a bundle of elements are elements.
LEMMA NothingIsElement ==
    ASSUME NEW t \in Nat \X Nat
    PROVE  [words |-> <<>>, tag |-> t, found |-> <<>>] \in Elements
<1>1. PICK e : e = [words |-> <<>>, tag |-> t, found |-> <<>>]
    OBVIOUS
<1>2. e \in Element
    BY <1>1, NothingJoined DEF Element
<1>3. IsElement(e, Elements)
    BY <1>1 DEF IsElement
<1> QED
    BY <1>1, <1>2, <1>3, BuiltElement

\* A message is an element, and so is a bundle of elements.
LEMMA MessageIsElement ==
    ASSUME NEW m \in Messages, NEW t \in Nat \X Nat
    PROVE  /\ [words |-> m, tag |-> t, found |-> <<[words |-> m, tag |-> t]>>] \in Elements
           /\ [words |-> m, tag |-> t] \in Entry
<1>1. m \in Seq(Nat)
    BY OscFormatAssumption
<1>2. PICK r \in Entry : r = [words |-> m, tag |-> t]
    BY <1>1 DEF Entry
<1>3. PICK e : e = [words |-> m, tag |-> t, found |-> <<r>>]
    OBVIOUS
<1>4. <<r>> \in Seq(Entry)
    OBVIOUS
<1>5. e \in Element
    BY <1>1, <1>3, <1>4 DEF Element
<1>6. e.words = m /\ e.tag = t /\ e.found = <<r>>
    BY <1>3
<1>7. IsElement(e, Elements)
    BY <1>2, <1>6 DEF IsElement
<1> QED
    BY <1>2, <1>3, <1>5, <1>7, BuiltElement

LEMMA BundleIsElement ==
    ASSUME NEW t \in Nat \X Nat, NEW u \in Nat \X Nat, NEW es \in Seq(Elements), es # <<>>,
           Tagged(es, u)
    PROVE  [words |-> Bundle(u, es), tag |-> t, found |-> Yield(es)] \in Elements
<1>1. es \in Seq(Element)
    BY ElementFields, SeqMonotonic
<1>2. Bundle(u, es) \in Seq(Nat) /\ Yield(es) \in Seq(Entry)
    BY <1>1, BundleFacts, ContentFacts
<1>3. PICK w \in Seq(Nat), g \in Seq(Entry) : w = Bundle(u, es) /\ g = Yield(es)
    BY <1>2
<1>4. PICK e : e = [words |-> w, tag |-> t, found |-> g]
    OBVIOUS
<1>5. e \in Element /\ e.words = w /\ e.found = g
    BY <1>4 DEF Element
<1>6. IsElement(e, Elements)
    BY <1>3, <1>5 DEF IsElement
<1> QED
    BY <1>3, <1>4, <1>5, <1>6, BuiltElement

\* Which of them an element is, the first word tells.
LEMMA WhichElement ==
    ASSUME NEW e \in Elements
    PROVE  /\ e.words = <<>> => e.found = <<>>
           /\ e.words # <<>> /\ ~StartsWithHash(e.words[1]) =>
                e.words \in Messages /\ e.found = <<[words |-> e.words, tag |-> e.tag]>>
           /\ e.words # <<>> /\ StartsWithHash(e.words[1]) =>
                \E t \in Nat \X Nat, es \in Seq(Elements) :
                    /\ es # <<>> /\ Tagged(es, t)
                    /\ e.words = Bundle(t, es) /\ e.found = Yield(es)
<1>1. \A m \in Messages : m # <<>> /\ ~StartsWithHash(m[1])
    BY OscFormatAssumption
<1>2. ASSUME NEW t \in Nat \X Nat, NEW es \in Seq(Elements)
      PROVE  Bundle(t, es) # <<>> /\ StartsWithHash(Bundle(t, es)[1])
  <2>1. es \in Seq(Element)
      BY ElementFields, SeqMonotonic
  <2>2. PICK n \in Nat : Len(Bundle(t, es)) = 4 + n /\ Bundle(t, es)[1] = BundleMark[1]
      BY <2>1, BundleFacts
  <2>3. Bundle(t, es) # <<>>
      BY <2>2, EmptySeq
  <2> QED
      BY <2>2, <2>3, MarkFacts
<1>3. IsElement(e, Elements)
    BY ElementBuilt
<1>4. CASE e.words = <<>> /\ e.found = <<>>
    BY <1>4
<1>5. CASE e.words \in Messages /\ e.found = <<[words |-> e.words, tag |-> e.tag]>>
    BY <1>1, <1>5
<1>6. CASE \E t \in Nat \X Nat, es \in Seq(Elements) :
              /\ es # <<>> /\ Tagged(es, t)
              /\ e.words = Bundle(t, es) /\ e.found = Yield(es)
  <2>1. e.words # <<>> /\ StartsWithHash(e.words[1])
      BY <1>2, <1>6
  <2> QED
      BY <1>6, <2>1
<1> QED
    BY <1>3, <1>4, <1>5, <1>6 DEF IsElement

-----------------------------------------------------------------------------
(* What the calls of parse in progress will find in a packet of elements.   *)

\* The words of p behind the first pos, up to the word number end.
Stretch(p, pos, end) == SubSeq(p, pos + 1, end)

Rest(p, f) == Stretch(p, f.pos, f.end)

\* The call f of parse, on the packet p, has g to find.
Reads(p, f, g) ==
    \/ /\ f.kind = "item"
       /\ \E e \in Elements : e.words = Rest(p, f) /\ e.tag = f.tag /\ e.found = g
    \/ /\ f.kind = "bundle"
       /\ \E es \in Seq(Elements) :
            Tagged(es, f.tag) /\ Content(es) = Rest(p, f) /\ Yield(es) = g

\* A call finds its own messages before those of the calls around it.
Readings(p) ==
    {r \in Frame \X Seq(Entry) \X Seq(Entry) :
        \E g \in Seq(Entry) : Reads(p, r[1], g) /\ r[3] = g \o r[2]}

\* The calls fs, all together, have d to find.
Due(p, fs, d) == Leads(Readings(p), fs, <<>>, d)

\* No call has nothing to find; a call more has its own to find first.
LEMMA DueNone ==
    ASSUME NEW p, NEW d
    PROVE  Due(p, <<>>, d) <=> d = <<>>
BY LeadsNowhere DEF Due

LEMMA DueMore ==
    ASSUME NEW p, NEW fs \in Seq(Frame), NEW f \in Frame, NEW d \in Seq(Entry), NEW g \in Seq(Entry),
           Due(p, fs, d), Reads(p, f, g)
    PROVE  Due(p, Append(fs, f), g \o d)
<1>1. PICK all \in Seq(Entry) : all = g \o d
    BY EntriesJoin
<1>2. PICK r \in Frame \X Seq(Entry) \X Seq(Entry) : r = <<f, d, all>>
    OBVIOUS
<1>3. r[1] = f /\ r[2] = d /\ r[3] = all
    BY <1>2
<1>4. r \in Readings(p)
    BY <1>1, <1>3 DEF Readings
<1>5. <<f, d, all>> \in Readings(p)
    BY <1>2, <1>4
<1> QED
    BY <1>1, <1>5, LeadsOn DEF Due

\* The call at hand, and what is left for the others when it has returned.
LEMMA DueLess ==
    ASSUME NEW p, NEW fs \in Seq(Frame), fs # <<>>, NEW d, Due(p, fs, d)
    PROVE  \E g \in Seq(Entry), e \in Seq(Entry) :
              Reads(p, Last(fs), g) /\ d = g \o e /\ Due(p, Front(fs), e)
<1>1. PICK e : Leads(Readings(p), Front(fs), <<>>, e) /\ <<Last(fs), e, d>> \in Readings(p)
    BY LeadsBack DEF Due
<1>2. PICK r \in Readings(p) : r = <<Last(fs), e, d>>
    BY <1>1
<1>3. r[1] = Last(fs) /\ r[2] = e /\ r[3] = d
    BY <1>2
<1>4. r \in Frame \X Seq(Entry) \X Seq(Entry) /\ \E g \in Seq(Entry) : Reads(p, r[1], g) /\ r[3] = g \o r[2]
    BY DEF Readings
<1>5. e \in Seq(Entry)
    BY <1>3, <1>4
<1>6. PICK g \in Seq(Entry) : Reads(p, Last(fs), g) /\ d = g \o e
    BY <1>3, <1>4
<1> QED
    BY <1>1, <1>5, <1>6 DEF Due

\* A stretch of the packet that is made of two.
TwoParts(p, pos, end, a, b) ==
    /\ p \in Seq(Nat) /\ pos \in Nat /\ end \in Nat /\ pos <= end /\ end <= Len(p)
    /\ a \in Seq(Nat) /\ b \in Seq(Nat) /\ Stretch(p, pos, end) = a \o b

\* A stretch of two parts, part by part.
LEMMA StretchOfTwo ==
    ASSUME NEW p, NEW pos, NEW end, NEW a, NEW b, TwoParts(p, pos, end, a, b)
    PROVE  /\ pos + Len(a) <= end /\ Len(a) \in Nat /\ Len(b) \in Nat /\ end = pos + Len(a) + Len(b)
           /\ Stretch(p, pos, pos + Len(a)) = a
           /\ Stretch(p, pos + Len(a), end) = b
           /\ \A i \in 1..Len(a) : p[pos + i] = a[i]
<1>0. /\ p \in Seq(Nat) /\ pos \in Nat /\ end \in Nat /\ pos <= end /\ end <= Len(p)
      /\ a \in Seq(Nat) /\ b \in Seq(Nat) /\ SubSeq(p, pos + 1, end) = a \o b
    BY DEF TwoParts, Stretch
<1>1. PICK m \in Nat, n \in Nat, all \in Nat : m = Len(a) /\ n = Len(b) /\ all = Len(p)
    BY <1>0, LenProperties
<1>2. PICK ab \in Seq(Nat) : ab = a \o b /\ Len(ab) = m + n
  <2>1. a \o b \in Seq(Nat) /\ Len(a \o b) = m + n
      BY <1>0, <1>1, WordsJoin
  <2> QED
      BY <2>1
<1>3. \A i \in 1..m : ab[i] = a[i]
    BY <1>0, <1>1, <1>2, WordsAt
<1>4. \A i \in 1..n : ab[m + i] = b[i]
    BY <1>0, <1>1, <1>2, WordsAt
<1>5. \A i \in 1..all : p[i] \in Nat
    BY <1>0, <1>1, ElementOfSeq
<1>6. \A i \in (pos + 1)..end : p[i] \in Nat
  <2>1. \A i \in (pos + 1)..end : i \in 1..all
      BY <1>0, <1>1
  <2> QED
      BY <1>5, <2>1
<1>7. PICK s : s = SubSeq(p, pos + 1, end)
    OBVIOUS
<1>8. /\ Len(s) = IF pos + 1 <= end THEN end - (pos + 1) + 1 ELSE 0
      /\ \A i \in 1..(end - (pos + 1) + 1) : s[i] = p[(pos + 1) + i - 1]
    BY <1>0, <1>6, <1>7, SubSeqProperties
<1>9. Len(s) = m + n
    BY <1>0, <1>2, <1>7
<1>10. end = pos + m + n
    BY <1>0, <1>8, <1>9, SMTT(30)
<1>11. \A i \in 1..(m + n) : ab[i] = p[pos + i]
  <2> SUFFICES ASSUME NEW i \in 1..(m + n) PROVE ab[i] = p[pos + i]
      OBVIOUS
  <2>1. i \in 1..(end - (pos + 1) + 1) /\ (pos + 1) + i - 1 = pos + i
      BY <1>0, <1>10
  <2>2. s[i] = p[(pos + 1) + i - 1]
      BY <1>8, <2>1
  <2> QED
      BY <1>0, <1>2, <1>7, <2>1, <2>2
<1>12. SubSeq(p, pos + 1, pos + m) = a
  <2>1. PICK t : t = SubSeq(p, pos + 1, pos + m)
      OBVIOUS
  <2>2. \A i \in (pos + 1)..(pos + m) : p[i] \in Nat
    <3>1. \A i \in (pos + 1)..(pos + m) : i \in (pos + 1)..end
        BY <1>0, <1>10
    <3> QED
        BY <1>6, <3>1
  <2>3. /\ t \in Seq(Nat) /\ Len(t) = IF pos + 1 <= pos + m THEN (pos + m) - (pos + 1) + 1 ELSE 0
        /\ \A i \in 1..((pos + m) - (pos + 1) + 1) : t[i] = p[(pos + 1) + i - 1]
      BY <1>0, <2>1, <2>2, SubSeqProperties
  <2>4. Len(t) = m
      BY <1>0, <2>3
  <2>5. ASSUME NEW i \in 1..m PROVE t[i] = a[i]
    <3>1. i \in 1..((pos + m) - (pos + 1) + 1) /\ (pos + 1) + i - 1 = pos + i /\ i \in 1..(m + n)
        BY <1>0
    <3>2. t[i] = p[(pos + 1) + i - 1]
        BY <2>3, <3>1
    <3> QED
        BY <1>3, <1>11, <3>1, <3>2
  <2>6. t = a
      BY <1>0, <1>1, <2>3, <2>4, <2>5, SeqEqual
  <2> QED
      BY <2>1, <2>6
<1>13. SubSeq(p, pos + m + 1, end) = b
  <2>1. PICK t : t = SubSeq(p, pos + m + 1, end)
      OBVIOUS
  <2>2. \A i \in (pos + m + 1)..end : p[i] \in Nat
    <3>1. \A i \in (pos + m + 1)..end : i \in (pos + 1)..end
        BY <1>0
    <3> QED
        BY <1>6, <3>1
  <2>3. /\ t \in Seq(Nat) /\ Len(t) = IF pos + m + 1 <= end THEN end - (pos + m + 1) + 1 ELSE 0
        /\ \A i \in 1..(end - (pos + m + 1) + 1) : t[i] = p[(pos + m + 1) + i - 1]
      BY <1>0, <2>1, <2>2, SubSeqProperties
  <2>4. Len(t) = n
      BY <1>0, <1>10, <2>3
  <2>5. ASSUME NEW i \in 1..n PROVE t[i] = b[i]
    <3>1. /\ i \in 1..(end - (pos + m + 1) + 1) /\ (pos + m + 1) + i - 1 = pos + (m + i)
          /\ m + i \in 1..(m + n)
        BY <1>0, <1>10
    <3>2. t[i] = p[(pos + m + 1) + i - 1]
        BY <2>3, <3>1
    <3>3. ab[m + i] = p[pos + (m + i)]
        BY <1>11, <3>1
    <3> QED
        BY <1>4, <3>1, <3>2, <3>3
  <2>6. t = b
      BY <1>0, <1>1, <2>3, <2>4, <2>5, SeqEqual
  <2> QED
      BY <2>1, <2>6
<1>14. \A i \in 1..m : p[pos + i] = a[i]
  <2>1. \A i \in 1..m : i \in 1..(m + n)
      OBVIOUS
  <2> QED
      BY <1>3, <1>11, <2>1
<1>15. pos + m <= end /\ m \in Nat /\ n \in Nat
    BY <1>0, <1>10
<1>16. Stretch(p, pos, pos + m) = a /\ Stretch(p, pos + m, end) = b
    BY <1>12, <1>13 DEF Stretch
<1> QED
    BY <1>1, <1>10, <1>14, <1>15, <1>16, Zenon

-----------------------------------------------------------------------------
(* The first element of a bundle and the others *)

\* Words that are sized: their number of bytes, and the words.
LEMMA SizedWords ==
    ASSUME NEW w \in Seq(Nat), NEW c \in Seq(Nat)
    PROVE  /\ <<4 * Len(w)>> \in Seq(Nat) /\ <<4 * Len(w)>> \o w \in Seq(Nat)
           /\ Len(<<4 * Len(w)>> \o w) = 1 + Len(w) /\ Len(w) \in Nat /\ Len(c) \in Nat
           /\ Len((<<4 * Len(w)>> \o w) \o c) = 1 + Len(w) + Len(c)
           /\ ((<<4 * Len(w)>> \o w) \o c)[1] = 4 * Len(w)
<1>1. PICK n \in Nat, k \in Nat : n = Len(w) /\ k = Len(c)
    BY LenProperties
<1>2. PICK z \in Seq(Nat) : z = <<4 * n>> /\ Len(z) = 1 /\ z[1] = 4 * n
  <2>1. <<4 * n>> \in Seq(Nat) /\ Len(<<4 * n>>) = 1 /\ <<4 * n>>[1] = 4 * n
      OBVIOUS
  <2> QED
      BY <2>1
<1>3. PICK a \in Seq(Nat) : a = z \o w /\ Len(a) = 1 + n
  <2>1. z \o w \in Seq(Nat) /\ Len(z \o w) = 1 + n
      BY <1>1, <1>2, WordsJoin
  <2> QED
      BY <2>1
<1>4. a[1] = 4 * n
  <2>1. 1 \in 1..Len(z)
      BY <1>2
  <2> QED
      BY <1>2, <1>3, <2>1, WordsAt
<1>5. Len(a \o c) = 1 + n + k
    BY <1>1, <1>3, WordsJoin
<1>6. (a \o c)[1] = 4 * n
  <2>1. 1 \in 1..Len(a)
      BY <1>3
  <2> QED
      BY <1>4, <2>1, WordsAt
<1> QED
    BY <1>1, <1>2, <1>3, <1>5, <1>6, Zenon

\* The first of a bundle's elements, and the rest.
LEMMA FirstElement ==
    ASSUME NEW es \in Seq(Elements), es # <<>>
    PROVE  \E e \in Elements, rest \in Seq(Elements) :
              /\ Content(es) = (<<4 * Len(e.words)>> \o e.words) \o Content(rest)
              /\ Yield(es) = e.found \o Yield(rest)
              /\ \A t : Tagged(es, t) => e.tag = t /\ Tagged(rest, t)
              /\ e.words \in Seq(Nat) /\ e.found \in Seq(Entry)
              /\ Content(rest) \in Seq(Nat) /\ Yield(rest) \in Seq(Entry)
<1>1. PICK e \in Elements, rest \in Seq(Elements) : e = Head(es) /\ rest = Tail(es)
    BY HeadTailProperties
<1>2. es \in Seq(Element) /\ rest \in Seq(Element) /\ e \in Element
    BY ElementFields, SeqMonotonic
<1>3. /\ Content(es) = (<<4 * Len(e.words)>> \o e.words) \o Content(rest)
      /\ Yield(es) = e.found \o Yield(rest)
    BY <1>1, <1>2, ContentFacts, Zenon
<1>4. /\ e.words \in Seq(Nat) /\ e.found \in Seq(Entry)
      /\ Content(rest) \in Seq(Nat) /\ Yield(rest) \in Seq(Entry)
    BY <1>2, ElementFields, ContentFacts
<1>5. \A t : Tagged(es, t) => e.tag = t /\ Tagged(rest, t)
    BY <1>1, TaggedFacts, Zenon
<1> QED
    BY <1>3, <1>4, <1>5, Zenon

\* A bundle of elements has at least a size in it.
LEMMA NoContent ==
    ASSUME NEW es \in Seq(Elements), Content(es) = <<>>
    PROVE  es = <<>> /\ Yield(es) = <<>>
<1>2. Len(Content(es)) = 0
    BY EmptySeq
<1>1. ASSUME es # <<>> PROVE FALSE
  <2>1. PICK e \in Elements, rest \in Seq(Elements) :
           /\ Content(es) = (<<4 * Len(e.words)>> \o e.words) \o Content(rest)
           /\ e.words \in Seq(Nat) /\ Content(rest) \in Seq(Nat)
      BY <1>1, FirstElement
  <2>2. PICK w \in Seq(Nat), c \in Seq(Nat) : w = e.words /\ c = Content(rest)
      BY <2>1
  <2>3. Content(es) = (<<4 * Len(w)>> \o w) \o c
      BY <2>1, <2>2
  <2>4. Len(Content(es)) = 1 + Len(w) + Len(c) /\ Len(w) \in Nat /\ Len(c) \in Nat
      BY <2>3, SizedWords, ZenonT(60)
  <2> QED
      BY <1>2, <2>4
<1>3. es \in Seq(Element)
    BY ElementFields, SeqMonotonic
<1> QED
    BY <1>1, <1>3, ContentFacts

-----------------------------------------------------------------------------
(* Reading a packet that is an element *)

\* No error was found, and what the calls of parse in progress have to find are
\* the messages that are missing.
GoodReading ==
    /\ ~readErr
    /\ \E d \in Seq(Entry) : Due(packet, frames, d) /\ messages \o d = added

\* What is left of the call at hand, word by word.
LEMMA LeftWords ==
    ASSUME ReaderInv, frames # <<>>
    PROVE  /\ Remaining \in Nat /\ Len(ItemWords) = Remaining /\ ItemWords \in Seq(Nat)
           /\ \A i \in 1..Remaining : ItemWords[i] = Word(i)
           /\ Remaining = 0 <=> ItemWords = <<>>
           /\ ItemWords = Rest(packet, Last(frames))
<1>1. PICK p \in Nat, e \in Nat, n \in Nat :
         p = Last(frames).pos /\ e = Last(frames).end /\ n = Len(packet) /\ p <= e /\ e <= n
    BY AtHand
<1>2. packet \in Seq(Nat) /\ ItemWords \in Seq(Nat)
    BY AtHand, ItemType
<1>3. ItemWords = SubSeq(packet, p + 1, e)
    BY <1>1 DEF ItemWords
<1>4. \A i \in (p + 1)..e : packet[i] \in Nat
  <2>1. \A i \in (p + 1)..e : i \in 1..n
      BY <1>1
  <2> QED
      BY <1>1, <1>2, <2>1, ElementOfSeq
<1>5. /\ Len(ItemWords) = IF p + 1 <= e THEN e - (p + 1) + 1 ELSE 0
      /\ \A i \in 1..(e - (p + 1) + 1) : ItemWords[i] = packet[(p + 1) + i - 1]
    BY <1>3, <1>4, SubSeqProperties, SMTT(30)
<1>6. Remaining = e - p /\ Len(ItemWords) = e - p /\ e - p \in Nat
    BY <1>1, <1>5, SMTT(30) DEF Remaining
<1>7. ASSUME NEW i \in 1..(e - p) PROVE ItemWords[i] = Word(i)
  <2>1. i \in 1..(e - (p + 1) + 1) /\ (p + 1) + i - 1 = p + i
      BY <1>1
  <2>2. Word(i) = packet[p + i]
      BY <1>1 DEF Word
  <2> QED
      BY <1>5, <2>1, <2>2
<1>8. Remaining = 0 <=> ItemWords = <<>>
    BY <1>2, <1>6, EmptySeq
<1>9. ItemWords = Rest(packet, Last(frames))
    BY DEF ItemWords, Rest, Stretch
<1> QED
    BY <1>2, <1>6, <1>7, <1>8, <1>9

\* What the call at hand and those around it have to find.
LEMMA GoodAtHand ==
    ASSUME ReaderInv, GoodReading, frames # <<>>
    PROVE  /\ ~readErr /\ messages \in Seq(Entry)
           /\ Front(frames) \in Seq(Frame)
           /\ \E g \in Seq(Entry), d \in Seq(Entry) :
                /\ Reads(packet, Last(frames), g) /\ Due(packet, Front(frames), d)
                /\ (messages \o g) \o d = added
<1>1. PICK d \in Seq(Entry) : Due(packet, frames, d) /\ messages \o d = added
    BY DEF GoodReading
<1>2. frames \in Seq(Frame) /\ messages \in Seq(Entry) /\ ~readErr
    BY DEF ReaderInv, ReaderTypes, Frame, Entry, GoodReading
<1>3. PICK g \in Seq(Entry), e \in Seq(Entry) :
         Reads(packet, Last(frames), g) /\ d = g \o e /\ Due(packet, Front(frames), e)
    BY <1>1, <1>2, DueLess
<1>4. (messages \o g) \o e = messages \o (g \o e)
    BY <1>2, EntriesTwice, SMTT(30)
<1>5. Front(frames) \in Seq(Frame)
    BY <1>2, FrontLast
<1> QED
    BY <1>1, <1>2, <1>3, <1>4, <1>5

\* A call that returns has found what it had to find.
LEMMA GoodReturn ==
    ASSUME ReaderInv, NEW g \in Seq(Entry), NEW d \in Seq(Entry),
           Due(packet, Front(frames), d), (messages \o g) \o d = added, ~readErr',
           frames' = Front(frames), messages' = messages \o g, packet' = packet, added' = added
    PROVE  GoodReading'
<1>1. Due(packet', frames', d)
    BY Zenon
<1>2. messages' \o d = added'
    OBVIOUS
<1> QED
    BY <1>1, <1>2 DEF GoodReading

\* A call that goes on has the same to find.
LEMMA GoodGoesOn ==
    ASSUME ReaderInv, NEW fs \in Seq(Frame), NEW f \in Frame,
           NEW g \in Seq(Entry), NEW d \in Seq(Entry),
           Due(packet, fs, d), Reads(packet, f, g), (messages \o g) \o d = added,
           messages \in Seq(Entry), ~readErr',
           frames' = Append(fs, f), messages' = messages, packet' = packet, added' = added
    PROVE  GoodReading'
<1>1. Due(packet, Append(fs, f), g \o d) /\ g \o d \in Seq(Entry)
    BY DueMore, EntriesJoin
<1>2. messages \o (g \o d) = added
    BY EntriesTwice
<1>3. Due(packet', frames', g \o d) /\ messages' \o (g \o d) = added'
    BY <1>1, <1>2, Zenon
<1> QED
    BY <1>1, <1>3 DEF GoodReading

\* A call with nothing left to look at returns, and nothing is missing.
LEMMA GoodNothing ==
    ASSUME ReaderInv, GoodReading, ParseNothing, added' = added
    PROVE  GoodReading'
<1>1. /\ frames # <<>> /\ Last(frames).kind = "item" /\ Remaining = 0
      /\ frames' = Front(frames) /\ messages' = messages /\ packet' = packet /\ readErr' = readErr
    BY DEF ParseNothing, In
<1>2. PICK g \in Seq(Entry), d \in Seq(Entry) :
         Reads(packet, Last(frames), g) /\ Due(packet, Front(frames), d)
         /\ (messages \o g) \o d = added
    BY <1>1, GoodAtHand
<1>3. PICK e \in Elements : e.words = Rest(packet, Last(frames)) /\ e.found = g
    BY <1>1, <1>2 DEF Reads
<1>4. e.words = <<>>
    BY <1>1, <1>3, LeftWords
<1>5. g = <<>>
    BY <1>3, <1>4, WhichElement
<1>6. messages \in Seq(Entry) /\ ~readErr
    BY <1>1, GoodAtHand
<1>7. messages' = messages \o g
    BY <1>1, <1>5, <1>6, NothingJoined, Zenon
<1> QED
    BY <1>1, <1>2, <1>6, <1>7, GoodReturn

LEMMA GoodDone ==
    ASSUME ReaderInv, GoodReading, BundleDone, added' = added
    PROVE  GoodReading'
<1>1. /\ frames # <<>> /\ Last(frames).kind = "bundle" /\ Remaining = 0
      /\ frames' = Front(frames) /\ messages' = messages /\ packet' = packet /\ readErr' = readErr
    BY DEF BundleDone, In
<1>2. PICK g \in Seq(Entry), d \in Seq(Entry) :
         Reads(packet, Last(frames), g) /\ Due(packet, Front(frames), d)
         /\ (messages \o g) \o d = added
    BY <1>1, GoodAtHand
<1>3. PICK es \in Seq(Elements) : Content(es) = Rest(packet, Last(frames)) /\ Yield(es) = g
    BY <1>1, <1>2 DEF Reads
<1>4. Content(es) = <<>>
    BY <1>1, <1>3, LeftWords
<1>5. g = <<>>
    BY <1>3, <1>4, NoContent
<1>6. messages \in Seq(Entry) /\ ~readErr
    BY <1>1, GoodAtHand
<1>7. messages' = messages \o g
    BY <1>1, <1>5, <1>6, NothingJoined, Zenon
<1> QED
    BY <1>1, <1>2, <1>6, <1>7, GoodReturn

\* A message is recognised as one.
LEMMA GoodMessage ==
    ASSUME ReaderInv, GoodReading, AtMessage
    PROVE  ItemWords \in Messages /\ (ParseMessage /\ added' = added => GoodReading')
<1>1. /\ frames # <<>> /\ Last(frames).kind = "item" /\ Remaining > 0
      /\ ~StartsWithHash(Word(1))
    BY DEF AtMessage, In
<1>2. PICK g \in Seq(Entry), d \in Seq(Entry) :
         Reads(packet, Last(frames), g) /\ Due(packet, Front(frames), d)
         /\ (messages \o g) \o d = added
    BY <1>1, GoodAtHand
<1>3. PICK e \in Elements : e.words = Rest(packet, Last(frames)) /\ e.tag = Last(frames).tag
                            /\ e.found = g
    BY <1>1, <1>2 DEF Reads
<1>4. e.words = ItemWords /\ ItemWords # <<>> /\ ItemWords[1] = Word(1)
  <2>1. 1 \in 1..Remaining /\ Remaining # 0
      BY <1>1, LeftWords
  <2> QED
      BY <1>1, <1>3, <2>1, LeftWords
<1>5. ItemWords \in Messages /\ g = <<[words |-> ItemWords, tag |-> Last(frames).tag]>>
    BY <1>1, <1>3, <1>4, WhichElement
<1>6. messages \in Seq(Entry) /\ ~readErr
    BY <1>1, GoodAtHand
<1>7. ASSUME ParseMessage, added' = added PROVE GoodReading'
  <2>1. PICK r \in Entry : r = [words |-> ItemWords, tag |-> Last(frames).tag]
      BY <1>1, ItemType DEF Entry
  <2>2. /\ messages' = Append(messages, r) /\ frames' = Front(frames)
        /\ packet' = packet /\ readErr' = readErr
      BY <1>7, <2>1 DEF ParseMessage, Found
  <2>3. Append(messages, r) = messages \o <<r>>
      BY <1>6, AppendIsConcat
  <2>4. messages' = messages \o g
      BY <1>5, <2>1, <2>2, <2>3
  <2> QED
      BY <1>2, <1>6, <1>7, <2>2, <2>4, GoodReturn
<1> QED
    BY <1>5, <1>7

\* A bundle with an element in it is recognised as one.
LEMMA GoodBundle ==
    ASSUME ReaderInv, GoodReading, AtHash
    PROVE  HasHeader /\ (OpenBundle /\ added' = added => GoodReading')
<1> DEFINE f == Last(frames)
<1>1. frames # <<>> /\ f.kind = "item" /\ Remaining > 0 /\ StartsWithHash(Word(1))
    BY DEF AtHash, In
<1>2. PICK g \in Seq(Entry), d \in Seq(Entry) :
         Reads(packet, f, g) /\ Due(packet, Front(frames), d) /\ (messages \o g) \o d = added
    BY <1>1, GoodAtHand
<1>3. PICK e \in Elements : e.words = Rest(packet, f) /\ e.found = g
    BY <1>1, <1>2 DEF Reads
<1>4. e.words = ItemWords /\ ItemWords # <<>> /\ ItemWords[1] = Word(1)
  <2>1. 1 \in 1..Remaining /\ Remaining # 0
      BY <1>1, LeftWords
  <2> QED
      BY <1>1, <1>3, <2>1, LeftWords
<1>5. PICK t \in Nat \X Nat, es \in Seq(Elements) :
         es # <<>> /\ Tagged(es, t) /\ ItemWords = Bundle(t, es) /\ g = Yield(es)
    BY <1>1, <1>3, <1>4, WhichElement
<1>6. PICK h \in Seq(Nat), c \in Seq(Nat) : h = Header(t) /\ c = Content(es)
  <2>1. es \in Seq(Element)
      BY ElementFields, SeqMonotonic
  <2> QED
      BY <2>1, ContentFacts, HeaderFacts
<1>7. /\ Len(h) = 4 /\ <<h[3], h[4]>> = t /\ <<h[1], h[2]>> = BundleMark
      /\ c # <<>> /\ ItemWords = h \o c
  <2>1. c # <<>>
      BY <1>5, <1>6, NoContent
  <2>2. ItemWords = h \o c
      BY <1>5, <1>6, Zenon DEF Bundle
  <2>3. Len(h) = 4 /\ <<h[3], h[4]>> = t /\ <<h[1], h[2]>> = BundleMark
      BY <1>6, HeaderFacts, Zenon
  <2> QED
      BY <2>1, <2>2, <2>3
<1>8. /\ packet \in Seq(Nat) /\ f.pos \in Nat /\ f.end \in Nat
      /\ f.pos <= f.end /\ f.end <= Len(packet)
    BY <1>1, AtHand
<1>9. Stretch(packet, f.pos, f.end) = h \o c
    BY <1>7 DEF ItemWords, Stretch
<1>10. PICK p \in Nat, k \in Nat, n \in Nat : p = f.pos /\ k = f.end /\ n = Len(c)
    BY <1>8, LenProperties
<1> HIDE DEF f
<1>11. /\ k = p + 4 + n /\ Stretch(packet, p + 4, k) = c
       /\ \A i \in 1..4 : packet[p + i] = h[i]
  <2>1. TwoParts(packet, p, k, h, c)
      BY <1>8, <1>9, <1>10 DEF TwoParts
  <2>2. /\ k = p + Len(h) + Len(c) /\ Stretch(packet, p + Len(h), k) = c
        /\ \A i \in 1..Len(h) : packet[p + i] = h[i]
      BY <2>1, StretchOfTwo, SMTT(30)
  <2> QED
      BY <1>7, <1>10, <2>2
<1>12. n # 0
    BY <1>7, <1>10, EmptySeq
<1>13. Remaining >= 5
  <2>1. Remaining = k - p
      BY <1>10 DEF Remaining, f
  <2> QED
      BY <1>11, <1>12, <2>1
<1>14. Word(1) = h[1] /\ Word(2) = h[2] /\ Word(3) = h[3] /\ Word(4) = h[4]
  <2>1. \A i \in 1..4 : Word(i) = h[i]
      BY <1>10, <1>11 DEF Word, f
  <2> QED
      BY <2>1
<1>15. HasHeader
    BY <1>7, <1>13, <1>14 DEF HasHeader
<1>16. ASSUME OpenBundle, added' = added PROVE GoodReading'
  <2>1. PICK o \in Frame :
           /\ o.pos = f.pos + 4 /\ o.end = f.end
           /\ o.kind = "bundle" /\ o.tag = <<Word(3), Word(4)>>
           /\ frames' = Append(Front(frames), o)
      BY <1>16, OpenBundleFrame DEF f
  <2>2. o.tag = t
      BY <1>7, <1>14, <2>1
  <2>3. Content(es) = Rest(packet, o)
    <3>1. o.pos = p + 4 /\ o.end = k
        BY <1>10, <2>1
    <3> QED
        BY <1>6, <1>11, <3>1 DEF Rest
  <2>4. Reads(packet, o, g)
      BY <1>5, <2>1, <2>2, <2>3 DEF Reads
  <2>5. messages' = messages /\ packet' = packet /\ readErr' = readErr
      BY <1>16 DEF OpenBundle
  <2>6. Front(frames) \in Seq(Frame) /\ messages \in Seq(Entry) /\ ~readErr
      BY <1>1, GoodAtHand
  <2> QED
      BY <1>2, <1>16, <2>1, <2>4, <2>5, <2>6, GoodGoesOn
<1> QED
    BY <1>15, <1>16

\* An element's size fits, and what it says is where the next one begins.
LEMMA GoodElement ==
    ASSUME ReaderInv, GoodReading, AtElement
    PROVE  SizeFits /\ (ParseElement /\ added' = added => GoodReading')
<1> DEFINE f == Last(frames)
<1>1. frames # <<>> /\ f.kind = "bundle" /\ Remaining > 0
    BY DEF AtElement, In
<1>2. PICK g \in Seq(Entry), d \in Seq(Entry) :
         Reads(packet, f, g) /\ Due(packet, Front(frames), d) /\ (messages \o g) \o d = added
    BY <1>1, GoodAtHand
<1>3. PICK es \in Seq(Elements) : Tagged(es, f.tag) /\ Content(es) = ItemWords /\ Yield(es) = g
    BY <1>1, <1>2, LeftWords DEF Reads
<1>4. es # <<>>
  <2>1. ASSUME es = <<>> PROVE FALSE
    <3>1. es \in Seq(Element)
        BY ElementFields, SeqMonotonic
    <3>2. Content(es) = <<>>
        BY <2>1, <3>1, ContentFacts
    <3> QED
        BY <1>1, <1>3, <3>2, LeftWords
  <2> QED
      BY <2>1
<1>5. PICK e \in Elements, rest \in Seq(Elements) :
         /\ Content(es) = (<<4 * Len(e.words)>> \o e.words) \o Content(rest)
         /\ Yield(es) = e.found \o Yield(rest)
         /\ \A t : Tagged(es, t) => e.tag = t /\ Tagged(rest, t)
         /\ e.words \in Seq(Nat) /\ e.found \in Seq(Entry)
         /\ Content(rest) \in Seq(Nat) /\ Yield(rest) \in Seq(Entry)
    BY <1>4, FirstElement
<1>6. PICK w \in Seq(Nat), c \in Seq(Nat) : w = e.words /\ c = Content(rest)
    BY <1>5
<1>7. PICK z : z = <<4 * Len(w)>>
    OBVIOUS
<1>8. PICK a : a = z \o w
    OBVIOUS
<1>9. /\ z \in Seq(Nat) /\ a \in Seq(Nat) /\ Len(a) = 1 + Len(w) /\ Len(w) \in Nat /\ Len(c) \in Nat
      /\ Len(a \o c) = 1 + Len(w) + Len(c) /\ (a \o c)[1] = 4 * Len(w)
    BY <1>7, <1>8, SizedWords
<1>a. Len(z) = 1
    BY <1>7
<1>10. ItemWords = a \o c
    BY <1>3, <1>5, <1>6, <1>7, <1>8, Zenon
<1>11. /\ packet \in Seq(Nat) /\ f.pos \in Nat /\ f.end \in Nat
       /\ f.pos <= f.end /\ f.end <= Len(packet) /\ Len(packet) \in Nat
    BY <1>1, AtHand
<1>12. Stretch(packet, f.pos, f.end) = a \o c
    BY <1>10 DEF ItemWords, Stretch
<1>13. PICK p \in Nat, k \in Nat, n \in Nat, m \in Nat :
          p = f.pos /\ k = f.end /\ n = Len(w) /\ m = Len(c)
    BY <1>9, <1>11
<1>14. Word(1) = 4 * n /\ Remaining = 1 + n + m
  <2>1. Remaining = Len(ItemWords) /\ Remaining \in Nat /\ \A i \in 1..Remaining : ItemWords[i] = Word(i)
      BY <1>1, LeftWords
  <2>2. 1 \in 1..Remaining
      BY <1>1, <2>1
  <2> QED
      BY <1>9, <1>10, <1>13, <2>1, <2>2
<1>15. Word(1) % 4 = 0 /\ Word(1) \div 4 = n
    BY <1>14
<1>16. SizeFits
    BY <1>14, <1>15 DEF SizeFits
<1> HIDE DEF f
<1>17. /\ k = p + (1 + n) + m /\ Stretch(packet, p, p + (1 + n)) = a
       /\ Stretch(packet, p + (1 + n), k) = c
  <2>1. TwoParts(packet, p, k, a, c)
      BY <1>9, <1>11, <1>12, <1>13 DEF TwoParts
  <2>2. /\ k = p + Len(a) + Len(c) /\ Stretch(packet, p, p + Len(a)) = a
        /\ Stretch(packet, p + Len(a), k) = c
      BY <2>1, StretchOfTwo
  <2>3. Len(a) = 1 + n /\ Len(c) = m
      BY <1>9, <1>13
  <2> QED
      BY <2>2, <2>3
<1>18. Stretch(packet, p + 1, p + (1 + n)) = w
  <2>1. PICK q \in Nat : q = p + (1 + n)
      OBVIOUS
  <2>2. p <= q /\ q <= Len(packet)
    <3>1. k <= Len(packet) /\ Len(packet) \in Nat
        BY <1>11, <1>13
    <3>2. k = p + (1 + n) + m
        BY <1>17
    <3> QED
        BY <2>1, <3>1, <3>2
  <2>3. Stretch(packet, p, q) = z \o w
      BY <1>8, <1>17, <2>1
  <2>4. TwoParts(packet, p, q, z, w)
      BY <1>9, <1>11, <2>2, <2>3 DEF TwoParts
  <2>5. Stretch(packet, p + Len(z), q) = w
      BY <2>4, StretchOfTwo
  <2> QED
      BY <1>a, <2>1, <2>5
<1>19. ASSUME ParseElement, added' = added PROVE GoodReading'
  <2>1. PICK outer \in Frame, inner \in Frame :
           /\ outer.kind = "bundle" /\ inner.kind = "item"
           /\ outer.tag = f.tag /\ inner.tag = f.tag
           /\ outer.pos = f.pos + 1 + Word(1) \div 4
           /\ inner.pos = f.pos + 1 /\ inner.end = outer.pos
           /\ outer.end = f.end
           /\ frames' = Append(Append(Front(frames), outer), inner)
      BY <1>19, ElementFrames DEF f
  <2>2. outer.pos = p + (1 + n) /\ outer.end = k /\ inner.pos = p + 1 /\ inner.end = p + (1 + n)
    <3>1. outer.pos = p + 1 + n /\ outer.end = k /\ inner.pos = p + 1 /\ inner.end = outer.pos
        BY <1>13, <1>15, <2>1, Zenon
    <3> QED
        BY <3>1
  <2>3. e.tag = f.tag /\ Tagged(rest, f.tag)
      BY <1>3, <1>5 DEF f
  <2>4. Reads(packet, outer, Yield(rest))
    <3>1. Content(rest) = Rest(packet, outer)
        BY <1>6, <1>17, <2>2 DEF Rest
    <3> QED
        BY <2>1, <2>3, <3>1 DEF Reads
  <2>5. Reads(packet, inner, e.found)
    <3>1. e.words = Rest(packet, inner)
        BY <1>6, <1>18, <2>2 DEF Rest
    <3> QED
        BY <2>1, <2>3, <3>1 DEF Reads
  <2>6. messages' = messages /\ packet' = packet /\ readErr' = readErr
      BY <1>19 DEF ParseElement
  <2>7. Front(frames) \in Seq(Frame) /\ messages \in Seq(Entry) /\ ~readErr
      BY <1>1, GoodAtHand
  <2>8. PICK x \in Seq(Entry), y \in Seq(Entry) : x = e.found /\ y = Yield(rest)
      BY <1>5
  <2>9. PICK fs : fs = Append(Front(frames), outer)
      OBVIOUS
  <2>10. fs \in Seq(Frame) /\ Due(packet, fs, y \o d) /\ y \o d \in Seq(Entry)
    <3>1. Due(packet, Append(Front(frames), outer), y \o d)
        BY <1>2, <2>4, <2>7, <2>8, DueMore
    <3> QED
        BY <2>7, <2>9, <3>1, AppendProperties, EntriesJoin
  <2>11. (messages \o x) \o (y \o d) = added
    <3>1. g = x \o y /\ x \o y \in Seq(Entry)
        BY <1>3, <1>5, <2>8, EntriesJoin
    <3>2. messages \o x \in Seq(Entry)
        BY <2>7, <2>8, EntriesJoin
    <3>3. (messages \o x) \o y = messages \o (x \o y)
        BY <2>7, EntriesTwice, ZenonT(60)
    <3>4. ((messages \o x) \o y) \o d = (messages \o x) \o (y \o d)
        BY <3>2, EntriesTwice
    <3> QED
        BY <1>2, <3>1, <3>3, <3>4, Zenon
  <2>12. frames' = Append(fs, inner) /\ Reads(packet, inner, x)
      BY <2>1, <2>5, <2>8, <2>9
  <2> QED
      BY <1>19, <2>6, <2>7, <2>10, <2>11, <2>12, GoodGoesOn
<1> QED
    BY <1>16, <1>19

\* So every step of parse on such a packet leaves it readable.
LEMMA GoodParse ==
    ASSUME ReaderInv, GoodReading, Parse, added' = added
    PROVE  GoodReading'
<1>1. CASE ParseNothing
    BY <1>1, GoodNothing
<1>2. CASE ParseMessage
  <2>1. AtMessage
      BY <1>2 DEF ParseMessage
  <2> QED
      BY <1>2, <2>1, GoodMessage
<1>3. ~ParseBadMessage
  <2>1. ASSUME ParseBadMessage PROVE FALSE
    <3>1. AtMessage /\ ItemWords \notin Messages
        BY <2>1 DEF ParseBadMessage
    <3> QED
        BY <3>1, GoodMessage
  <2> QED
      BY <2>1
<1>4. CASE OpenBundle
  <2>1. AtHash
      BY <1>4 DEF OpenBundle
  <2> QED
      BY <1>4, <2>1, GoodBundle
<1>5. ~BadBundle
  <2>1. ASSUME BadBundle PROVE FALSE
    <3>1. AtHash /\ ~HasHeader
        BY <2>1 DEF BadBundle
    <3> QED
        BY <3>1, GoodBundle
  <2> QED
      BY <2>1
<1>6. CASE ParseElement
  <2>1. AtElement
      BY <1>6 DEF ParseElement
  <2> QED
      BY <1>6, <2>1, GoodElement
<1>7. ~BadElement
  <2>1. ASSUME BadElement PROVE FALSE
    <3>1. AtElement /\ ~SizeFits
        BY <2>1 DEF BadElement
    <3> QED
        BY <3>1, GoodElement
  <2> QED
      BY <2>1
<1>8. CASE BundleDone
    BY <1>8, GoodDone
<1> QED
    BY <1>1, <1>2, <1>3, <1>4, <1>5, <1>6, <1>7, <1>8 DEF Parse

\* Before the first step of parse.
LEMMA GoodStart ==
    ASSUME NEW e \in Elements, e.tag = Immediate, e.words = storage, e.found = added,
           ReadPacket(storage, FALSE), added' = added
    PROVE  GoodReading'
<1>1. PICK w \in Seq(Nat), n \in Nat : w = storage /\ n = Len(w)
  <2>1. e.words \in Seq(Nat) /\ Len(e.words) \in Nat
      BY ElementFields
  <2> QED
      BY <2>1
<1>2. PICK g : g = [kind |-> "item", pos |-> 0, end |-> n, tag |-> Immediate]
    OBVIOUS
<1>3. g \in Frame /\ g.kind = "item" /\ g.pos = 0 /\ g.end = n /\ g.tag = Immediate
  <2>1. Immediate \in Nat \X Nat
      BY DEF Immediate
  <2> QED
      BY <1>2, <2>1 DEF Frame
<1>4. /\ packet' = w /\ messages' = <<>> /\ ~readErr'
      /\ frames' = <<g>>
    BY <1>1, <1>2 DEF ReadPacket
<1>5. Rest(w, g) = w
  <2>1. PICK s : s = SubSeq(w, 1, n)
      OBVIOUS
  <2>2. \A i \in 1..n : w[i] \in Nat
      BY <1>1, ElementOfSeq
  <2>3. s \in Seq(Nat) /\ Len(s) = n /\ \A i \in 1..n : s[i] = w[i]
      BY <2>1, <2>2, SubSeqProperties
  <2>4. s = w
      BY <1>1, <2>3, SeqEqual
  <2>5. Rest(w, g) = SubSeq(w, 0 + 1, n)
      BY <1>3 DEF Rest, Stretch
  <2> QED
      BY <2>1, <2>4, <2>5
<1>6. PICK d \in Seq(Entry) : d = e.found
    BY ElementFields
<1>7. Reads(w, g, d)
    BY <1>1, <1>3, <1>5, <1>6 DEF Reads
<1>8. <<>> \in Seq(Frame) /\ <<>> \in Seq(Entry) /\ Due(w, <<>>, <<>>)
    BY DueNone, NothingJoined, EmptySeq
<1>9. Due(w, Append(<<>>, g), d \o <<>>)
    BY <1>3, <1>7, <1>8, DueMore
<1>10. d \o <<>> = d /\ <<>> \o d = d
    BY NothingJoined
<1>11. Append(<<>>, g) = <<g>>
    BY <1>3
<1>12. Due(w, <<g>>, d)
    BY <1>9, <1>10, <1>11, Zenon
<1>13. Due(packet', frames', d) /\ messages' \o d = added'
    BY <1>4, <1>6, <1>10, <1>12, Zenon
<1> QED
    BY <1>4, <1>13 DEF GoodReading

-----------------------------------------------------------------------------
(* Reading a packet that is none *)

\* In a bundle, behind its elements, comes a word that is no size.
Blocked(w) ==
    \E es \in Seq(Elements), tail \in Seq(Nat) :
        w = Content(es) \o tail /\ tail # <<>> /\ tail[1] % 4 # 0

\* No item: neither a message nor a bundle, or a bundle that is blocked.
Hopeless(w) ==
    \/ w # <<>> /\ ~StartsWithHash(w[1]) /\ w \notin Messages
    \/ w # <<>> /\ StartsWithHash(w[1]) /\ Len(w) < 5
    \/ \E t \in Nat \X Nat, c \in Seq(Nat) : w = Header(t) \o c /\ Blocked(c)

DoomedCall(p, f) ==
    \/ f.kind = "item" /\ Hopeless(Rest(p, f))
    \/ f.kind = "bundle" /\ Blocked(Rest(p, f))

\* An error was found, or the outermost call of parse is going to find one.
DoomedReading == readErr \/ (frames # <<>> /\ DoomedCall(packet, frames[1]))

\* The outermost call of parse is the one at hand, or it stays.
LEMMA OutermostCall ==
    ASSUME NEW fs \in Seq(Frame), fs # <<>>, NEW f \in Frame, NEW g \in Frame
    PROVE  /\ Front(fs) # <<>> =>
                /\ Front(fs)[1] = fs[1]
                /\ Append(Front(fs), f)[1] = fs[1]
                /\ Append(Append(Front(fs), f), g)[1] = fs[1]
           /\ Front(fs) = <<>> =>
                /\ Last(fs) = fs[1]
                /\ Append(Front(fs), f)[1] = f
                /\ Append(Append(Front(fs), f), g)[1] = f
           /\ Append(Front(fs), f) # <<>> /\ Append(Append(Front(fs), f), g) # <<>>
<1>1. PICK r \in Seq(Frame) : r = Front(fs)
    BY FrontLast
<1>2. PICK n \in Nat : /\ n = Len(r) /\ Len(fs) = n + 1
                       /\ Last(fs) = fs[n + 1] /\ \A i \in 1..n : r[i] = fs[i]
  <2>1. /\ Len(fs) \in Nat \ {0} /\ Len(r) = Len(fs) - 1 /\ Last(fs) = fs[Len(fs)]
        /\ \A i \in 1..(Len(fs) - 1) : r[i] = fs[i]
      BY <1>1, FrontLast
  <2> QED
      BY <2>1
<1>3. PICK u \in Seq(Frame) : u = Append(r, f)
    BY AppendProperties
<1>4. Len(u) = n + 1 /\ u[n + 1] = f /\ \A i \in 1..n : u[i] = r[i]
    BY <1>2, <1>3, AppendProperties
<1>5. PICK v \in Seq(Frame) : v = Append(u, g)
    BY AppendProperties
<1>6. Len(v) = n + 2 /\ \A i \in 1..(n + 1) : v[i] = u[i]
    BY <1>4, <1>5, AppendProperties
<1>7. u # <<>> /\ v # <<>>
    BY <1>4, <1>6, EmptySeq
<1>8. ASSUME r # <<>> PROVE r[1] = fs[1] /\ u[1] = fs[1] /\ v[1] = fs[1]
  <2>1. n # 0
      BY <1>2, <1>8, EmptySeq
  <2>2. 1 \in 1..n /\ 1 \in 1..(n + 1)
      BY <2>1
  <2> QED
      BY <1>2, <1>4, <1>6, <2>2
<1>9. ASSUME r = <<>> PROVE Last(fs) = fs[1] /\ u[1] = f /\ v[1] = f
  <2>1. n = 0
      BY <1>2, <1>9, EmptySeq
  <2>2. 1 \in 1..(n + 1) /\ n + 1 = 1
      BY <2>1
  <2> QED
      BY <1>2, <1>4, <1>6, <2>2
<1> QED
    BY <1>1, <1>3, <1>5, <1>7, <1>8, <1>9, Zenon

\* Inside the outermost call, the others cannot save it.
LEMMA DoomedInside ==
    ASSUME ReaderInv, DoomedReading, Parse, Front(frames) # <<>>
    PROVE  DoomedReading'
<1>1. frames \in Seq(Frame) /\ frames # <<>> /\ packet' = packet
    BY DEF Parse, ParseNothing, ParseMessage, ParseBadMessage, OpenBundle, BadBundle,
       ParseElement, BadElement, BundleDone, AtMessage, AtHash, AtElement, In, ReadFails,
       ReaderInv, ReaderTypes, Frame
<1>2. Front(frames)[1] = frames[1]
  <2>1. Last(frames) \in Frame
      BY <1>1, FrontLast
  <2> QED
      BY <1>1, <2>1, OutermostCall
<1>3. CASE readErr \/ ReadFails
  <2>1. CASE ReadFails
    <3>1. readErr'
        BY <2>1 DEF ReadFails
    <3> QED
        BY <3>1 DEF DoomedReading
  <2>2. CASE readErr /\ readErr' = readErr
    <3>1. readErr'
        BY <2>2
    <3> QED
        BY <3>1 DEF DoomedReading
  <2> QED
      BY <1>3, <2>1, <2>2, Zenon DEF Parse, ParseNothing, ParseMessage, ParseBadMessage,
         OpenBundle, BadBundle, ParseElement, BadElement, BundleDone
<1>4. CASE ~readErr /\ frames' = Front(frames)
    BY <1>1, <1>2, <1>4 DEF DoomedReading
<1>5. CASE ~readErr /\ OpenBundle
  <2>1. PICK g \in Frame : frames' = Append(Front(frames), g)
      BY <1>5, OpenBundleFrame
  <2>2. frames' # <<>> /\ frames'[1] = frames[1]
      BY <1>1, <2>1, OutermostCall
  <2> QED
      BY <1>1, <1>5, <2>2 DEF DoomedReading
<1>6. CASE ~readErr /\ ParseElement
  <2>1. PICK outer \in Frame, inner \in Frame :
           frames' = Append(Append(Front(frames), outer), inner)
      BY <1>6, ElementFrames
  <2>2. frames' # <<>> /\ frames'[1] = frames[1]
      BY <1>1, <2>1, OutermostCall
  <2> QED
      BY <1>1, <1>6, <2>2 DEF DoomedReading
<1> QED
    BY <1>3, <1>4, <1>5, <1>6 DEF Parse, ParseNothing, ParseMessage, ParseBadMessage,
       BadBundle, BadElement, BundleDone


\* What is blocked begins with a word that is no size, or with an element.
LEMMA BlockedBegins ==
    ASSUME NEW w, Blocked(w)
    PROVE  /\ w \in Seq(Nat) /\ w # <<>>
           /\ \/ w[1] % 4 # 0
              \/ \E x \in Seq(Nat), c \in Seq(Nat) :
                    /\ w = (<<4 * Len(x)>> \o x) \o c /\ Blocked(c)
<1>1. PICK es \in Seq(Elements), tail \in Seq(Nat) :
         w = Content(es) \o tail /\ tail # <<>> /\ tail[1] % 4 # 0
    BY DEF Blocked
<1>2. es \in Seq(Element)
    BY ElementFields, SeqMonotonic
<1>3. CASE es = <<>>
  <2>1. Content(es) = <<>>
      BY <1>2, <1>3, ContentFacts
  <2>2. w = tail
      BY <1>1, <2>1, NothingJoined, Zenon
  <2> QED
      BY <1>1, <2>2
<1>4. CASE es # <<>>
  <2>1. PICK e \in Elements, rest \in Seq(Elements) :
           /\ Content(es) = (<<4 * Len(e.words)>> \o e.words) \o Content(rest)
           /\ e.words \in Seq(Nat) /\ Content(rest) \in Seq(Nat)
      BY <1>4, FirstElement
  <2>2. PICK x \in Seq(Nat), c \in Seq(Nat) : x = e.words /\ c = Content(rest)
      BY <2>1
  <2>3. PICK a : a = <<4 * Len(x)>> \o x
      OBVIOUS
  <2>4. a \in Seq(Nat) /\ Len(a \o c) = 1 + Len(x) + Len(c) /\ Len(x) \in Nat /\ Len(c) \in Nat
      BY <2>3, SizedWords
  <2>5. w = (a \o c) \o tail
      BY <1>1, <2>1, <2>2, <2>3, Zenon
  <2>6. (a \o c) \o tail = a \o (c \o tail)
      BY <2>4, WordsTwice, ZenonT(60)
  <2>7. Blocked(c \o tail)
      BY <1>1, <2>2 DEF Blocked
  <2>8. c \o tail \in Seq(Nat)
      BY WordsJoin
  <2>9. w \in Seq(Nat) /\ w # <<>>
    <3>1. a \o c \in Seq(Nat)
        BY <2>4, WordsJoin
    <3>2. w \in Seq(Nat) /\ Len(w) = Len(a \o c) + Len(tail) /\ Len(tail) \in Nat
        BY <2>5, <3>1, WordsJoin
    <3>3. Len(w) # 0
        BY <2>4, <3>2
    <3> QED
        BY <3>2, <3>3, EmptySeq
  <2> QED
      BY <2>3, <2>5, <2>6, <2>7, <2>8, <2>9, Zenon
<1> QED
    BY <1>3, <1>4

\* The outermost call finds an error, or it meets what is blocked.
LEMMA DoomedOutside ==
    ASSUME ReaderInv, DoomedReading, Parse, Front(frames) = <<>>, ~readErr
    PROVE  DoomedReading'
<1> DEFINE f == Last(frames)
<1>1. frames \in Seq(Frame) /\ frames # <<>> /\ packet' = packet
    BY DEF Parse, ParseNothing, ParseMessage, ParseBadMessage, OpenBundle, BadBundle,
       ParseElement, BadElement, BundleDone, AtMessage, AtHash, AtElement, In, ReadFails,
       ReaderInv, ReaderTypes, Frame
<1>2. f = frames[1] /\ f \in Frame
    BY <1>1, FrontLast, OutermostCall
<1>3. DoomedCall(packet, f)
    BY <1>2 DEF DoomedReading
<1>4. CASE ReadFails
  <2>1. readErr'
      BY <1>4 DEF ReadFails
  <2> QED
      BY <2>1 DEF DoomedReading
<1>5. CASE f.kind = "item" /\ ~ReadFails
  <2>1. Hopeless(ItemWords)
      BY <1>1, <1>3, <1>5, LeftWords DEF DoomedCall
  <2>a. \A m \in Messages : m # <<>> /\ ~StartsWithHash(m[1])
      BY OscFormatAssumption
  <2>2. ItemWords # <<>> /\ ItemWords \notin Messages
    <3>1. ASSUME NEW t \in Nat \X Nat, NEW c \in Seq(Nat), ItemWords = Header(t) \o c
          PROVE  ItemWords # <<>> /\ StartsWithHash(ItemWords[1])
      <4>1. PICK h \in Seq(Nat) : h = Header(t) /\ Len(h) = 4 /\ h[1] = BundleMark[1]
          BY HeaderFacts
      <4>2. ItemWords = h \o c
          BY <3>1, <4>1
      <4>3. Len(ItemWords) = 4 + Len(c) /\ Len(c) \in Nat /\ 1 \in 1..Len(h)
        <5>1. Len(h \o c) = Len(h) + Len(c) /\ Len(c) \in Nat
            BY WordsJoin
        <5> QED
            BY <4>1, <4>2, <5>1
      <4>4. ItemWords[1] = BundleMark[1]
          BY <4>1, <4>2, <4>3, WordsAt
      <4>5. ItemWords # <<>>
          BY <4>3, EmptySeq
      <4> QED
          BY <4>4, <4>5, MarkFacts
    <3> QED
        BY <2>1, <2>a, <3>1 DEF Hopeless
  <2>3. ~ParseNothing /\ ~ParseMessage
    <3>1. Remaining # 0
        BY <1>1, <2>2, LeftWords
    <3> QED
        BY <2>2, <3>1 DEF ParseNothing, ParseMessage
  <2>4. OpenBundle
      BY <1>5, <2>3 DEF Parse, ParseBadMessage, BadBundle, ParseElement, BadElement,
         BundleDone, AtElement, In
  <2>5. PICK g \in Frame :
           /\ g.pos = f.pos + 4 /\ g.end = f.end /\ g.kind = "bundle"
           /\ frames' = Append(Front(frames), g)
      BY <2>4, OpenBundleFrame
  <2>6. frames' # <<>> /\ frames'[1] = g
      BY <1>1, <2>5, OutermostCall
  <2>7. Remaining >= 5 /\ StartsWithHash(Word(1))
      BY <2>4 DEF OpenBundle, AtHash, HasHeader
  <2>8. PICK t \in Nat \X Nat, c \in Seq(Nat) : ItemWords = Header(t) \o c /\ Blocked(c)
    <3>1. ItemWords[1] = Word(1) /\ Len(ItemWords) = Remaining /\ Remaining \in Nat
      <4>1. /\ Remaining \in Nat /\ Len(ItemWords) = Remaining
            /\ \A i \in 1..Remaining : ItemWords[i] = Word(i)
          BY <1>1, LeftWords
      <4>2. 1 \in 1..Remaining
          BY <2>7, <4>1
      <4> QED
          BY <4>1, <4>2
    <3>2. StartsWithHash(ItemWords[1]) /\ ~(Len(ItemWords) < 5)
        BY <2>7, <3>1
    <3> QED
        BY <2>1, <3>2 DEF Hopeless
  <2>9. PICK h \in Seq(Nat) : h = Header(t) /\ Len(h) = 4
      BY HeaderFacts
  <2>10. TwoParts(packet, f.pos, f.end, h, c)
    <3>1. /\ packet \in Seq(Nat) /\ f.pos \in Nat /\ f.end \in Nat
          /\ f.pos <= f.end /\ f.end <= Len(packet)
        BY <1>1, AtHand
    <3>2. Stretch(packet, f.pos, f.end) = h \o c
        BY <2>8, <2>9 DEF ItemWords, Stretch
    <3> QED
        BY <3>1, <3>2 DEF TwoParts
  <2>11. Stretch(packet, f.pos + Len(h), f.end) = c
      BY <2>10, StretchOfTwo
  <2>12. Rest(packet, g) = c
      BY <2>5, <2>9, <2>11 DEF Rest
  <2> QED
      BY <1>1, <2>5, <2>6, <2>8, <2>12 DEF DoomedReading, DoomedCall
<1>6. CASE f.kind = "bundle" /\ ~ReadFails
  <2>1. Blocked(ItemWords)
      BY <1>1, <1>3, <1>6, LeftWords DEF DoomedCall
  <2>2. ItemWords # <<>>
      BY <2>1, BlockedBegins
  <2>3. ~BundleDone
    <3>1. Remaining # 0
        BY <1>1, <2>2, LeftWords
    <3> QED
        BY <3>1 DEF BundleDone
  <2>4. ParseElement
      BY <1>6, <2>3 DEF Parse, ParseNothing, ParseMessage, ParseBadMessage, OpenBundle,
         BadBundle, BadElement, AtMessage, AtHash, In
  <2>5. /\ Remaining \in Nat /\ Len(ItemWords) = Remaining /\ ItemWords[1] = Word(1)
        /\ Word(1) % 4 = 0
    <3>1. /\ Remaining \in Nat /\ Len(ItemWords) = Remaining
          /\ \A i \in 1..Remaining : ItemWords[i] = Word(i)
        BY <1>1, LeftWords
    <3>2. Remaining > 0 /\ Word(1) % 4 = 0
        BY <2>4 DEF ParseElement, AtElement, SizeFits
    <3>3. 1 \in 1..Remaining
        BY <3>1, <3>2
    <3> QED
        BY <3>1, <3>2, <3>3
  <2>6. PICK x \in Seq(Nat), c \in Seq(Nat) :
           ItemWords = (<<4 * Len(x)>> \o x) \o c /\ Blocked(c)
      BY <2>1, <2>5, BlockedBegins
  <2>7. PICK a : a = <<4 * Len(x)>> \o x
      OBVIOUS
  <2>8. /\ a \in Seq(Nat) /\ Len(a) = 1 + Len(x) /\ Len(x) \in Nat
        /\ (a \o c)[1] = 4 * Len(x)
      BY <2>7, SizedWords
  <2>9. Word(1) \div 4 = Len(x)
    <3>1. Word(1) = 4 * Len(x)
        BY <2>5, <2>6, <2>7, <2>8, Zenon
    <3> QED
        BY <2>8, <3>1
  <2>10. TwoParts(packet, f.pos, f.end, a, c)
    <3>1. /\ packet \in Seq(Nat) /\ f.pos \in Nat /\ f.end \in Nat
          /\ f.pos <= f.end /\ f.end <= Len(packet)
        BY <1>1, AtHand
    <3>2. Stretch(packet, f.pos, f.end) = a \o c
        BY <2>6, <2>7 DEF ItemWords, Stretch
    <3> QED
        BY <2>8, <3>1, <3>2 DEF TwoParts
  <2>11. Stretch(packet, f.pos + Len(a), f.end) = c
      BY <2>10, StretchOfTwo
  <2>12. PICK outer \in Frame, inner \in Frame :
           /\ outer.kind = "bundle" /\ outer.pos = f.pos + 1 + Word(1) \div 4
           /\ outer.end = f.end
           /\ frames' = Append(Append(Front(frames), outer), inner)
      BY <2>4, ElementFrames
  <2>13. frames' # <<>> /\ frames'[1] = outer
      BY <1>1, <2>12, OutermostCall
  <2>14. outer.pos = f.pos + Len(a)
    <3>1. PICK p \in Nat, n \in Nat : p = f.pos /\ n = Len(x)
        BY <1>1, <2>8, AtHand
    <3>2. outer.pos = p + 1 + n
        BY <2>9, <2>12, <3>1, Zenon
    <3>3. Len(a) = 1 + n
        BY <2>8, <3>1
    <3>4. p + 1 + n = p + (1 + n)
        OBVIOUS
    <3> QED
        BY <3>1, <3>2, <3>3, <3>4, Zenon
  <2>15. Rest(packet, outer) = c
      BY <2>11, <2>12, <2>14 DEF Rest
  <2> QED
      BY <1>1, <2>6, <2>12, <2>13, <2>15 DEF DoomedReading, DoomedCall
<1> QED
    BY <1>2, <1>4, <1>5, <1>6 DEF Frame

\* So every step of parse leaves it doomed.
LEMMA DoomedParse ==
    ASSUME ReaderInv, DoomedReading, Parse
    PROVE  DoomedReading'
<1>1. CASE Front(frames) # <<>>
    BY <1>1, DoomedInside
<1>2. CASE readErr
  <2>1. CASE ReadFails
    <3>1. readErr'
        BY <2>1 DEF ReadFails
    <3> QED
        BY <3>1 DEF DoomedReading
  <2>2. CASE readErr' = readErr
    <3>1. readErr'
        BY <1>2, <2>2
    <3> QED
        BY <3>1 DEF DoomedReading
  <2> QED
      BY <2>1, <2>2, Zenon DEF Parse, ParseNothing, ParseMessage, ParseBadMessage,
         OpenBundle, BadBundle, ParseElement, BadElement, BundleDone
<1>3. CASE Front(frames) = <<>> /\ ~readErr
    BY <1>3, DoomedOutside
<1> QED
    BY <1>1, <1>2, <1>3

-----------------------------------------------------------------------------
(* What the writer has built when bundles are open *)

\* A bundle that another one begins in: its last word is the size to be filled
\* in, 0 for now, or what follows that.
Broken(w) ==
    \E t \in Nat \X Nat, es \in Seq(Elements), tail \in Seq(Nat) :
        /\ w = Header(t) \o (Content(es) \o tail)
        /\ tail # <<>> => tail[1] % 4 # 0

\* The same when something follows: the first word of a bundle's mark is no size.
Lost(w) == \E t \in Nat \X Nat, c \in Seq(Nat) : w = Header(t) \o c /\ Blocked(c)

\* A packet that is lost is no item.
LEMMA LostIsBroken ==
    ASSUME NEW w, Lost(w)
    PROVE  Broken(w) /\ Hopeless(w)
BY ZenonT(60) DEF Lost, Broken, Blocked, Hopeless

\* The first word of two sequences is that of the first.
LEMMA FirstWord ==
    ASSUME NEW a \in Seq(Nat), NEW b \in Seq(Nat), a # <<>>
    PROVE  a \o b \in Seq(Nat) /\ a \o b # <<>> /\ (a \o b)[1] = a[1]
<1>1. PICK m \in Nat, n \in Nat : m = Len(a) /\ n = Len(b)
    BY LenProperties
<1>2. m # 0
    BY <1>1, EmptySeq
<1>3. a \o b \in Seq(Nat) /\ Len(a \o b) = m + n
    BY <1>1, WordsJoin
<1>4. 1 \in 1..Len(a)
    BY <1>1, <1>2
<1>5. a \o b # <<>>
    BY <1>2, <1>3, EmptySeq
<1> QED
    BY <1>3, <1>4, <1>5, WordsAt

\* Whatever follows a bundle that another one begins in, if it begins with no
\* size, the packet is lost.
LEMMA BrokenGoesOn ==
    ASSUME NEW w, Broken(w), NEW more \in Seq(Nat), more # <<>>, more[1] % 4 # 0
    PROVE  Lost(w \o more)
<1>1. PICK t \in Nat \X Nat, es \in Seq(Elements), tail \in Seq(Nat) :
         w = Header(t) \o (Content(es) \o tail) /\ (tail # <<>> => tail[1] % 4 # 0)
    BY DEF Broken
<1>2. es \in Seq(Element)
    BY ElementFields, SeqMonotonic
<1>3. PICK h \in Seq(Nat), c \in Seq(Nat) : h = Header(t) /\ c = Content(es)
    BY <1>2, HeaderFacts, ContentFacts
<1>4. PICK x \in Seq(Nat) : x = tail \o more
    BY WordsJoin
<1>5. x # <<>> /\ x[1] % 4 # 0
  <2>1. CASE tail = <<>>
    <3>1. x = more
        BY <1>4, <2>1, NothingJoined, Zenon
    <3> QED
        BY <3>1
  <2>2. CASE tail # <<>>
      BY <1>1, <1>4, <2>2, FirstWord
  <2> QED
      BY <2>1, <2>2
<1>6. PICK ct \in Seq(Nat) : ct = c \o tail
    BY WordsJoin
<1>7. w \o more = h \o (c \o x)
  <2>1. (h \o ct) \o more = h \o (ct \o more)
      BY WordsTwice, ZenonT(60)
  <2>2. (c \o tail) \o more = c \o (tail \o more)
      BY WordsTwice, ZenonT(60)
  <2> QED
      BY <1>1, <1>3, <1>4, <1>6, <2>1, <2>2, Zenon
<1>8. PICK cx \in Seq(Nat) : cx = c \o x
    BY WordsJoin
<1>9. Blocked(cx)
    BY <1>3, <1>5, <1>8 DEF Blocked
<1> QED
    BY <1>3, <1>7, <1>8, <1>9 DEF Lost

\* And whatever comes then, it stays lost.
LEMMA LostGoesOn ==
    ASSUME NEW w, Lost(w), NEW more \in Seq(Nat)
    PROVE  Lost(w \o more)
<1>1. PICK t \in Nat \X Nat, b \in Seq(Nat) : w = Header(t) \o b /\ Blocked(b)
    BY DEF Lost
<1>2. PICK es \in Seq(Elements), tail \in Seq(Nat) :
         b = Content(es) \o tail /\ tail # <<>> /\ tail[1] % 4 # 0
    BY <1>1 DEF Blocked
<1>3. es \in Seq(Element)
    BY ElementFields, SeqMonotonic
<1>4. PICK h \in Seq(Nat), c \in Seq(Nat) : h = Header(t) /\ c = Content(es)
    BY <1>3, HeaderFacts, ContentFacts
<1>a. PICK x \in Seq(Nat) : x = tail \o more
    BY WordsJoin
<1>5. x # <<>> /\ x[1] % 4 # 0
    BY <1>2, <1>a, FirstWord
<1>6. w \o more = h \o (c \o x)
  <2>1. (h \o b) \o more = h \o (b \o more)
      BY WordsTwice, ZenonT(60)
  <2>2. (c \o tail) \o more = c \o (tail \o more)
      BY WordsTwice, ZenonT(60)
  <2> QED
      BY <1>1, <1>2, <1>4, <1>a, <2>1, <2>2, Zenon
<1>7. PICK cx \in Seq(Nat) : cx = c \o x
    BY WordsJoin
<1>8. Blocked(cx)
    BY <1>4, <1>5, <1>7 DEF Blocked
<1> QED
    BY <1>4, <1>6, <1>7, <1>8 DEF Lost

\* The empty element's size.
LEMMA OneNought ==
    ASSUME NEW t \in Nat \X Nat, NEW es \in Seq(Elements), Tagged(es, t)
    PROVE  \E fs \in Seq(Elements) :
              /\ fs # <<>> /\ Tagged(fs, t)
              /\ Content(fs) = Content(es) \o << 0 >>
              /\ Bundle(t, fs) = Bundle(t, es) \o << 0 >> /\ Yield(fs) = Yield(es)
<1>1. PICK e \in Elements : e = [words |-> <<>>, tag |-> t, found |-> <<>>]
    BY NothingIsElement
<1>2. e.words = <<>> /\ e.tag = t /\ e.found = <<>>
    BY <1>1
<1>3. es \in Seq(Element) /\ e \in Element
    BY ElementFields, SeqMonotonic
<1>4. PICK fs \in Seq(Elements) : fs = Append(es, e)
    BY AppendProperties
<1>5. <<4 * Len(e.words)>> \o e.words = << 0 >>
  <2>1. 4 * Len(e.words) = 0
      BY <1>2, EmptySeq
  <2>2. << 0 >> \in Seq(Nat)
      OBVIOUS
  <2>3. << 0 >> \o <<>> = << 0 >>
      BY <2>2, NothingJoined
  <2> QED
      BY <1>2, <2>1, <2>3
<1>6. fs # <<>> /\ Tagged(fs, t)
    BY <1>2, <1>4, TaggedFacts, AppendProperties
<1>7. Content(fs) = Content(es) \o << 0 >> /\ Bundle(t, fs) = Bundle(t, es) \o << 0 >>
  <2>1. Content(Append(es, e)) = Content(es) \o (<<4 * Len(e.words)>> \o e.words)
      BY <1>3, ContentFacts
  <2>2. Bundle(t, Append(es, e)) = Bundle(t, es) \o (<<4 * Len(e.words)>> \o e.words)
      BY <1>3, BundleFacts
  <2> QED
      BY <1>4, <1>5, <2>1, <2>2, Zenon
<1>8. Yield(fs) = Yield(es)
  <2>1. Yield(fs) = Yield(es) \o <<>> /\ Yield(es) \in Seq(Entry)
      BY <1>2, <1>3, <1>4, ContentFacts, Zenon
  <2> QED
      BY <2>1, NothingJoined, Zenon
<1> QED
    BY <1>6, <1>7, <1>8

\* A bundle's words begin with the mark, which is no size.
LEMMA BundleIsNoSize ==
    ASSUME NEW t \in Nat \X Nat, NEW es \in Seq(Elements)
    PROVE  /\ Bundle(t, es) \in Seq(Nat) /\ Bundle(t, es) # <<>>
           /\ Bundle(t, es)[1] % 4 # 0 /\ StartsWithHash(Bundle(t, es)[1])
           /\ Yield(es) \in Seq(Entry)
<1>1. es \in Seq(Element)
    BY ElementFields, SeqMonotonic
<1>2. PICK b \in Seq(Nat) : b = Bundle(t, es) /\ Len(b) = 4 + Len(Content(es))
                            /\ Len(Content(es)) \in Nat /\ b[1] = BundleMark[1]
    BY <1>1, BundleFacts
<1>3. b # <<>>
    BY <1>2, EmptySeq
<1>4. BundleMark[1] % 4 # 0 /\ StartsWithHash(BundleMark[1])
    BY MarkFacts
<1>5. Yield(es) \in Seq(Entry)
    BY <1>1, ContentFacts
<1> QED
    BY <1>2, <1>3, <1>4, <1>5, Zenon

-----------------------------------------------------------------------------
(* The open bundles, one in the other *)

\* The last element of a stack, taken off and put back.
LEMMA FrontOfAppend ==
    ASSUME NEW S, NEW s \in Seq(S), NEW x \in S
    PROVE  /\ Append(s, x) \in Seq(S) /\ Append(s, x) # <<>>
           /\ Last(Append(s, x)) = x /\ Front(Append(s, x)) = s
<1>1. PICK n \in Nat : n = Len(s)
    BY LenProperties
<1>2. PICK u \in Seq(S) : u = Append(s, x)
    BY AppendProperties
<1>3. Len(u) = n + 1 /\ u[n + 1] = x /\ \A i \in 1..n : u[i] = s[i]
    BY <1>1, <1>2, AppendProperties
<1>4. u # <<>>
    BY <1>3, EmptySeq
<1>5. PICK f \in Seq(S) : f = Front(u)
    BY <1>4, FrontLast
<1>6. Last(u) = x /\ Len(f) = n /\ \A i \in 1..n : f[i] = u[i]
  <2>1. /\ Last(u) = u[Len(u)] /\ Len(f) = Len(u) - 1
        /\ \A i \in 1..(Len(u) - 1) : f[i] = u[i]
      BY <1>4, <1>5, FrontLast
  <2> QED
      BY <1>3, <2>1
<1>7. f = s
  <2>1. \A i \in 1..Len(f) : f[i] = s[i]
      BY <1>3, <1>6
  <2> QED
      BY <1>1, <1>6, <2>1, SeqEqual
<1> QED
    BY <1>2, <1>4, <1>5, <1>6, <1>7

\* And the other way round.
LEMMA FrontAndLast ==
    ASSUME NEW S, NEW s \in Seq(S), s # <<>>
    PROVE  Append(Front(s), Last(s)) = s
<1>1. PICK f \in Seq(S), x \in S : f = Front(s) /\ x = Last(s)
    BY FrontLast
<1>2. PICK n \in Nat : n = Len(f) /\ Len(s) = n + 1 /\ x = s[n + 1] /\ \A i \in 1..n : f[i] = s[i]
  <2>1. /\ Len(s) \in Nat \ {0} /\ Len(f) = Len(s) - 1 /\ x = s[Len(s)]
        /\ \A i \in 1..(Len(s) - 1) : f[i] = s[i]
      BY <1>1, FrontLast
  <2> QED
      BY <2>1
<1>3. PICK u \in Seq(S) : u = Append(f, x)
    BY AppendProperties
<1>4. Len(u) = n + 1 /\ u[n + 1] = x /\ \A i \in 1..n : u[i] = f[i]
    BY <1>2, <1>3, AppendProperties
<1>5. \A i \in 1..Len(u) : u[i] = s[i]
  <2>1. \A i \in 1..(n + 1) : i = n + 1 \/ i \in 1..n
      OBVIOUS
  <2> QED
      BY <1>2, <1>4, <2>1
<1>6. u = s
    BY <1>2, <1>4, <1>5, SeqEqual
<1> QED
    BY <1>1, <1>3, <1>6

Mark == [at : Nat, tag : Nat \X Nat]

Blank == [words |-> <<>>, found |-> <<>>]

\* What is written before a bundle begins: nothing, or a bundle around it.
Written == {u \in [words : Seq(Nat), found : Seq(Entry)] : u = Blank \/ Broken(u.words)}

\* In the bundle that begins behind u, and holds the elements es, another one
\* begins, behind w.
Opens(m, u, w) ==
    \E es \in Seq(Elements) :
        /\ Tagged(es, m.tag) /\ m.at = Len(u.words)
        /\ w.words = (u.words \o Bundle(m.tag, es)) \o << 0 >>
        /\ w.found = u.found \o Yield(es)

Openings == {r \in Mark \X Written \X Written : Opens(r[1], r[2], r[3])}

\* The bundles ms are open; before the next one, u is written.
Outside(ms, u) == Leads(Openings, ms, Blank, u)

\* Before anything is written.
LEMMA BlankIsWritten ==
    /\ Blank \in Written /\ Blank.words = <<>> /\ Blank.found = <<>>
    /\ \A u : Outside(<<>>, u) <=> u = Blank
<1>1. Blank.words = <<>> /\ Blank.found = <<>>
    BY DEF Blank
<1>2. Blank \in Written
    BY NothingJoined DEF Blank, Written
<1>3. \A u : Outside(<<>>, u) <=> u = Blank
    BY LeadsNowhere DEF Outside
<1> QED
    BY <1>1, <1>2, <1>3

\* One bundle more is opened, and the last one is taken away.
LEMMA OutsideMore ==
    ASSUME NEW ms \in Seq(Mark), NEW m \in Mark, NEW u \in Written, NEW w \in Written,
           Outside(ms, u), Opens(m, u, w)
    PROVE  Outside(Append(ms, m), w)
<1>1. PICK r \in Mark \X Written \X Written : r = <<m, u, w>>
    OBVIOUS
<1>2. r[1] = m /\ r[2] = u /\ r[3] = w
    BY <1>1
<1>3. r \in Openings
    BY <1>2 DEF Openings
<1>4. <<m, u, w>> \in Openings
    BY <1>1, <1>3
<1> QED
    BY <1>4, LeadsOn DEF Outside

LEMMA OutsideLess ==
    ASSUME NEW ms \in Seq(Mark), ms # <<>>, NEW w, Outside(ms, w)
    PROVE  \E u \in Written : Outside(Front(ms), u) /\ Opens(Last(ms), u, w) /\ w \in Written
<1>1. PICK u : Leads(Openings, Front(ms), Blank, u) /\ <<Last(ms), u, w>> \in Openings
    BY LeadsBack DEF Outside
<1>2. PICK r \in Openings : r = <<Last(ms), u, w>>
    BY <1>1
<1>3. r[1] = Last(ms) /\ r[2] = u /\ r[3] = w
    BY <1>2
<1>4. r \in Mark \X Written \X Written /\ Opens(r[1], r[2], r[3])
    BY DEF Openings
<1> QED
    BY <1>1, <1>3, <1>4 DEF Outside

\* What is written, and what it comes to, as the innermost open bundle grows.
InBundle(ms, es, words, found) ==
    /\ ms # <<>> /\ ms \in Seq(Mark)
    /\ es \in Seq(Elements) /\ Tagged(es, Last(ms).tag)
    /\ \E u \in Written :
        /\ Outside(Front(ms), u) /\ Last(ms).at = Len(u.words)
        /\ words = u.words \o Bundle(Last(ms).tag, es)
        /\ found = u.found \o Yield(es)

\* What the words and the entries are.
LEMMA WrittenTypes ==
    ASSUME NEW u \in Written
    PROVE  u.words \in Seq(Nat) /\ u.found \in Seq(Entry) /\ (u = Blank \/ Broken(u.words))
BY DEF Written

\* What is known of a writer in a bundle.
LEMMA InBundleTypes ==
    ASSUME NEW ms, NEW es, NEW words, NEW found, InBundle(ms, es, words, found)
    PROVE  /\ ms # <<>> /\ ms \in Seq(Mark) /\ es \in Seq(Elements)
           /\ Last(ms) \in Mark /\ Last(ms).tag \in Nat \X Nat /\ Tagged(es, Last(ms).tag)
           /\ Front(ms) \in Seq(Mark)
           /\ words \in Seq(Nat) /\ found \in Seq(Entry)
           /\ words # <<>>
<1>1. ms # <<>> /\ ms \in Seq(Mark) /\ es \in Seq(Elements) /\ Tagged(es, Last(ms).tag)
    BY DEF InBundle
<1>2. Last(ms) \in Mark /\ Front(ms) \in Seq(Mark)
    BY <1>1, FrontLast
<1>3. PICK t \in Nat \X Nat : t = Last(ms).tag
    BY <1>2 DEF Mark
<1>4. PICK u \in Written : words = u.words \o Bundle(t, es) /\ found = u.found \o Yield(es)
    BY <1>3 DEF InBundle
<1>5. PICK x \in Seq(Nat), f \in Seq(Entry) : x = u.words /\ f = u.found
    BY WrittenTypes
<1>6. PICK b \in Seq(Nat), y \in Seq(Entry) : b = Bundle(t, es) /\ y = Yield(es) /\ b # <<>>
    BY <1>1, BundleIsNoSize
<1>7. x \o b \in Seq(Nat) /\ f \o y \in Seq(Entry)
    BY WordsJoin, EntriesJoin
<1>8. x \o b # <<>>
  <2>1. PICK m \in Nat, n \in Nat : m = Len(x) /\ n = Len(b) /\ Len(x \o b) = m + n
      BY WordsJoin
  <2>2. n # 0
      BY <1>6, <2>1, EmptySeq
  <2>3. Len(x \o b) # 0
      BY <2>1, <2>2
  <2> QED
      BY <1>7, <2>3, EmptySeq
<1> QED
    BY <1>1, <1>2, <1>3, <1>4, <1>5, <1>6, <1>7, <1>8, Zenon

\* One more element in it.
LEMMA InBundleMore ==
    ASSUME NEW ms, NEW es, NEW words, NEW found, InBundle(ms, es, words, found),
           NEW e \in Elements, e.tag = Last(ms).tag
    PROVE  InBundle(ms, Append(es, e), words \o (<<4 * Len(e.words)>> \o e.words),
                    found \o e.found)
<1>1. /\ ms # <<>> /\ ms \in Seq(Mark) /\ es \in Seq(Elements)
      /\ Last(ms).tag \in Nat \X Nat /\ Tagged(es, Last(ms).tag)
    BY InBundleTypes
<1>2. PICK t \in Nat \X Nat : t = Last(ms).tag
    BY <1>1
<1>3. PICK u \in Written :
        /\ Outside(Front(ms), u) /\ Last(ms).at = Len(u.words)
        /\ words = u.words \o Bundle(t, es) /\ found = u.found \o Yield(es)
    BY <1>2 DEF InBundle
<1>4. PICK x \in Seq(Nat), f \in Seq(Entry) : x = u.words /\ f = u.found
    BY WrittenTypes
<1>5. PICK b \in Seq(Nat), y \in Seq(Entry) : b = Bundle(t, es) /\ y = Yield(es)
    BY <1>1, BundleIsNoSize
<1>6. es \in Seq(Element) /\ e \in Element
    BY <1>1, ElementFields, SeqMonotonic
<1>7. PICK s \in Seq(Nat), g \in Seq(Entry) :
         s = <<4 * Len(e.words)>> \o e.words /\ g = e.found
    BY <1>6, ElementFields
<1>8. Bundle(t, Append(es, e)) = b \o s /\ Yield(Append(es, e)) = y \o g
  <2>1. Bundle(t, Append(es, e)) = Bundle(t, es) \o (<<4 * Len(e.words)>> \o e.words)
      BY <1>6, BundleFacts
  <2>2. Yield(Append(es, e)) = Yield(es) \o e.found
      BY <1>6, ContentFacts
  <2> QED
      BY <1>5, <1>7, <2>1, <2>2, Zenon
<1>9. (x \o b) \o s = x \o (b \o s) /\ (f \o y) \o g = f \o (y \o g)
    BY WordsTwice, EntriesTwice, ZenonT(60)
<1>10. PICK fs \in Seq(Elements) : fs = Append(es, e)
    BY <1>1, AppendProperties
<1>11. Tagged(fs, t)
    BY <1>1, <1>2, <1>10, TaggedFacts, ZenonT(60)
<1>12. words \o s = u.words \o Bundle(t, fs) /\ found \o g = u.found \o Yield(fs)
    BY <1>3, <1>4, <1>5, <1>8, <1>9, <1>10, Zenon
<1>13. InBundle(ms, fs, words \o s, found \o g)
    BY <1>1, <1>2, <1>3, <1>11, <1>12 DEF InBundle
<1> QED
    BY <1>7, <1>10, <1>13, Zenon

\* The first bundle.
LEMMA InBundleFirst ==
    ASSUME NEW m \in Mark, m.at = 0
    PROVE  InBundle(<<m>>, <<>>, Header(m.tag), <<>>)
<1>1. PICK ms \in Seq(Mark) : ms = <<m>> /\ ms # <<>> /\ Len(ms) = 1 /\ ms[1] = m
  <2>1. <<m>> \in Seq(Mark) /\ <<m>> # <<>> /\ Len(<<m>>) = 1 /\ <<m>>[1] = m
      OBVIOUS
  <2> QED
      BY <2>1
<1>2. Last(ms) = m /\ Front(ms) = <<>>
  <2>1. Last(ms) = ms[Len(ms)] /\ Front(ms) \in Seq(Mark) /\ Len(Front(ms)) = Len(ms) - 1
      BY <1>1, FrontLast
  <2>2. Len(Front(ms)) = 0
      BY <1>1, <2>1
  <2> QED
      BY <1>1, <2>1, <2>2, EmptySeq
<1>3. PICK t \in Nat \X Nat : t = m.tag
    BY DEF Mark
<1>4. PICK es \in Seq(Elements) : es = <<>>
    BY EmptySeq
<1>5. Tagged(es, t) /\ Bundle(t, es) = Header(t) /\ Yield(es) = <<>>
  <2>1. es \in Seq(Element)
      BY ElementFields, SeqMonotonic
  <2>2. Tagged(es, t)
      BY <1>4, TaggedFacts
  <2>3. Bundle(t, es) = Header(t)
      BY <1>4, <2>1, BundleFacts
  <2>4. Yield(es) = <<>>
      BY <1>4, <2>1, ContentFacts
  <2> QED
      BY <2>2, <2>3, <2>4
<1>6. Blank \in Written /\ Blank.words = <<>> /\ Blank.found = <<>> /\ Outside(Front(ms), Blank)
    BY <1>2, BlankIsWritten
<1>7. Len(Blank.words) = 0
    BY <1>6, EmptySeq
<1>8. Header(t) = Blank.words \o Bundle(t, es) /\ <<>> = Blank.found \o Yield(es)
    BY <1>5, <1>6, HeaderFacts, NothingJoined, Zenon
<1>9. InBundle(ms, es, Header(t), <<>>)
    BY <1>1, <1>2, <1>3, <1>5, <1>6, <1>7, <1>8 DEF InBundle
<1> QED
    BY <1>1, <1>3, <1>4, <1>9

\* A bundle in the bundle.
LEMMA InBundleDeeper ==
    ASSUME NEW ms, NEW es, NEW words, NEW found, InBundle(ms, es, words, found),
           NEW m \in Mark, m.at = Len(words) + 1
    PROVE  InBundle(Append(ms, m), <<>>, (words \o << 0 >>) \o Header(m.tag), found)
<1>1. /\ ms # <<>> /\ ms \in Seq(Mark) /\ es \in Seq(Elements)
      /\ Last(ms) \in Mark /\ Last(ms).tag \in Nat \X Nat /\ Tagged(es, Last(ms).tag)
      /\ Front(ms) \in Seq(Mark) /\ words \in Seq(Nat) /\ found \in Seq(Entry)
    BY InBundleTypes
<1>2. PICK t \in Nat \X Nat, k \in Mark : t = Last(ms).tag /\ k = Last(ms)
    BY <1>1
<1>3. PICK u \in Written :
        /\ Outside(Front(ms), u) /\ k.at = Len(u.words)
        /\ words = u.words \o Bundle(t, es) /\ found = u.found \o Yield(es)
    BY <1>2 DEF InBundle
<1>4. PICK z \in Seq(Nat) : z = << 0 >> /\ Len(z) = 1
  <2>1. << 0 >> \in Seq(Nat) /\ Len(<< 0 >>) = 1
      OBVIOUS
  <2> QED
      BY <2>1
<1>5. PICK pre \in Seq(Nat) : pre = words \o z
    BY <1>1, WordsJoin
<1>6. Broken(pre)
  <2>1. CASE u = Blank
    <3>1. words = Bundle(t, es)
      <4>1. Bundle(t, es) \in Seq(Nat)
          BY <1>1, BundleIsNoSize
      <4>2. <<>> \o Bundle(t, es) = Bundle(t, es)
          BY <4>1, NothingJoined
      <4>3. words = <<>> \o Bundle(t, es)
          BY <1>3, <2>1, BlankIsWritten, Zenon
      <4> QED
          BY <4>2, <4>3, Zenon
    <3>2. PICK fs \in Seq(Elements) : Content(fs) \in Seq(Nat) /\ Bundle(t, fs) = Bundle(t, es) \o << 0 >>
      <4>1. PICK fs \in Seq(Elements) : Bundle(t, fs) = Bundle(t, es) \o << 0 >>
          BY <1>1, <1>2, OneNought
      <4>2. fs \in Seq(Element)
          BY ElementFields, SeqMonotonic
      <4>3. Content(fs) \in Seq(Nat)
          BY <4>2, ContentFacts
      <4> QED
          BY <4>1, <4>3
    <3>3. Content(fs) \o <<>> = Content(fs) /\ <<>> \in Seq(Nat)
        BY <3>2, NothingJoined, Zenon
    <3>4. pre = Header(t) \o (Content(fs) \o <<>>)
        BY <1>4, <1>5, <3>1, <3>2, <3>3, Zenon DEF Bundle
    <3> QED
        BY <3>3, <3>4 DEF Broken
  <2>2. CASE u # Blank
    <3>1. Broken(u.words)
        BY <2>2, WrittenTypes
    <3>2. PICK b \in Seq(Nat) : b = Bundle(t, es) /\ b # <<>> /\ b[1] % 4 # 0
        BY <1>1, BundleIsNoSize
    <3>3. Lost(u.words \o b)
        BY <3>1, <3>2, BrokenGoesOn
    <3>4. Lost(words \o z)
        BY <1>3, <3>2, <3>3, LostGoesOn
    <3> QED
        BY <1>5, <3>4, LostIsBroken
  <2> QED
      BY <2>1, <2>2
<1>7. PICK w : w = [words |-> pre, found |-> found]
    OBVIOUS
<1>8. w \in Written /\ w.words = pre /\ w.found = found
    BY <1>1, <1>6, <1>7 DEF Written
<1>9. Opens(k, u, w)
    BY <1>1, <1>2, <1>3, <1>4, <1>5, <1>8 DEF Opens
<1>10. Outside(Append(Front(ms), k), w)
    BY <1>1, <1>2, <1>3, <1>8, <1>9, OutsideMore
<1>11. Append(Front(ms), k) = ms
    BY <1>1, <1>2, FrontAndLast
<1>12. PICK ns : ns = Append(ms, m)
    OBVIOUS
<1>13. ns \in Seq(Mark) /\ ns # <<>> /\ Last(ns) = m /\ Front(ns) = ms
    BY <1>1, <1>12, FrontOfAppend
<1>14. PICK v \in Nat \X Nat : v = m.tag
    BY DEF Mark
<1>15. PICK fs \in Seq(Elements) : fs = <<>>
    BY EmptySeq
<1>16. Tagged(fs, v) /\ Bundle(v, fs) = Header(v) /\ Yield(fs) = <<>>
  <2>1. fs \in Seq(Element)
      BY ElementFields, SeqMonotonic
  <2>2. Tagged(fs, v)
      BY <1>15, TaggedFacts
  <2>3. Bundle(v, fs) = Header(v)
      BY <1>15, <2>1, BundleFacts
  <2>4. Yield(fs) = <<>>
      BY <1>15, <2>1, ContentFacts
  <2> QED
      BY <2>2, <2>3, <2>4
<1>17. Len(w.words) = Len(words) + 1
  <2>1. Len(pre) = Len(words) + Len(z)
      BY <1>1, <1>5, WordsJoin
  <2>2. Len(z) = 1
      BY <1>4
  <2> QED
      BY <1>8, <2>1, <2>2
<1>18. pre \o Header(v) = w.words \o Bundle(v, fs) /\ found = w.found \o Yield(fs)
    BY <1>1, <1>8, <1>16, NothingJoined, Zenon
<1>19. Outside(Front(ns), w) /\ Last(ns).at = Len(w.words) /\ Last(ns).tag = v
    BY <1>10, <1>11, <1>13, <1>14, <1>17
<1>20. InBundle(ns, fs, pre \o Header(v), found)
    BY <1>8, <1>13, <1>16, <1>18, <1>19 DEF InBundle
<1> QED
    BY <1>4, <1>5, <1>12, <1>14, <1>15, <1>20, Zenon

\* How long it is; a bundle of nothing but its header is four words.
LEMMA InBundleLength ==
    ASSUME NEW ms, NEW es, NEW words, NEW found, InBundle(ms, es, words, found)
    PROVE  /\ Last(ms).at \in Nat /\ Len(words) \in Nat /\ Last(ms).at + 4 <= Len(words)
           /\ Len(words) - Last(ms).at = 4 <=> es = <<>>
<1>1. es \in Seq(Elements) /\ Last(ms).tag \in Nat \X Nat /\ Last(ms) \in Mark
    BY InBundleTypes
<1>2. PICK t \in Nat \X Nat, k \in Nat : t = Last(ms).tag /\ k = Last(ms).at
    BY <1>1 DEF Mark
<1>3. PICK u \in Written : k = Len(u.words) /\ words = u.words \o Bundle(t, es)
    BY <1>2 DEF InBundle
<1>4. PICK x \in Seq(Nat) : x = u.words
    BY WrittenTypes
<1>5. es \in Seq(Element)
    BY <1>1, ElementFields, SeqMonotonic
<1>6. PICK c \in Seq(Nat), n \in Nat : c = Content(es) /\ n = Len(c)
  <2>1. Content(es) \in Seq(Nat)
      BY <1>5, ContentFacts
  <2> QED
      BY <2>1, LenProperties
<1>7. PICK b \in Seq(Nat) : b = Bundle(t, es) /\ Len(b) = 4 + n
    BY <1>5, <1>6, BundleFacts
<1>8. Len(words) = k + (4 + n)
  <2>1. Len(x \o b) = Len(x) + Len(b)
      BY WordsJoin
  <2> QED
      BY <1>3, <1>4, <1>7, <2>1
<1>9. n = 0 <=> es = <<>>
  <2>1. n = 0 <=> c = <<>>
      BY <1>6, EmptySeq
  <2>2. c = <<>> => es = <<>>
      BY <1>1, <1>6, NoContent
  <2>3. es = <<>> => c = <<>>
      BY <1>5, <1>6, ContentFacts
  <2> QED
      BY <2>1, <2>2, <2>3
<1> QED
    BY <1>2, <1>8, <1>9, SMTT(30)

\* endBundle gives a bundle that has no element an empty one.
LEMMA InBundlePadded ==
    ASSUME NEW ms, NEW es, NEW words, NEW found, InBundle(ms, es, words, found)
    PROVE  \E fs : fs # <<>> /\ InBundle(ms, fs,
              IF Len(words) - Last(ms).at = 4 THEN Append(words, 0) ELSE words, found)
<1>1. Len(words) - Last(ms).at = 4 <=> es = <<>>
    BY InBundleLength
<1>2. CASE es # <<>>
    BY <1>1, <1>2
<1>3. CASE es = <<>>
  <2>1. /\ es \in Seq(Elements) /\ words \in Seq(Nat) /\ found \in Seq(Entry)
        /\ Last(ms).tag \in Nat \X Nat
      BY InBundleTypes
  <2>2. PICK e \in Elements : e = [words |-> <<>>, tag |-> Last(ms).tag, found |-> <<>>]
      BY <2>1, NothingIsElement
  <2>3. e.words = <<>> /\ e.tag = Last(ms).tag /\ e.found = <<>>
      BY <2>2
  <2>4. InBundle(ms, Append(es, e), words \o (<<4 * Len(e.words)>> \o e.words), found \o e.found)
      BY <2>3, InBundleMore
  <2>5. <<4 * Len(e.words)>> \o e.words = << 0 >> /\ words \o << 0 >> = Append(words, 0)
    <3>1. 4 * Len(e.words) = 0
        BY <2>3, EmptySeq
    <3>2. << 0 >> \in Seq(Nat)
        OBVIOUS
    <3>3. << 0 >> \o <<>> = << 0 >>
        BY <3>2, NothingJoined
    <3>4. words \o << 0 >> = Append(words, 0)
        BY <2>1, AppendIsConcat
    <3> QED
        BY <2>3, <3>1, <3>3, <3>4
  <2>6. found \o e.found = found
      BY <2>1, <2>3, NothingJoined
  <2>7. PICK fs : fs = Append(es, e)
      OBVIOUS
  <2>8. fs # <<>>
      BY <2>1, <2>7, AppendProperties
  <2>9. InBundle(ms, fs, Append(words, 0), found)
      BY <2>4, <2>5, <2>6, <2>7, Zenon
  <2> QED
      BY <1>1, <1>3, <2>8, <2>9
<1> QED
    BY <1>2, <1>3

\* The only open bundle.
LEMMA InBundleAlone ==
    ASSUME NEW ms, NEW es, NEW words, NEW found, InBundle(ms, es, words, found),
           Front(ms) = <<>>
    PROVE  words = Bundle(Last(ms).tag, es) /\ found = Yield(es)
<1>1. es \in Seq(Elements) /\ Last(ms).tag \in Nat \X Nat
    BY InBundleTypes
<1>2. PICK t \in Nat \X Nat : t = Last(ms).tag
    BY <1>1
<1>3. PICK u \in Written :
        /\ Outside(Front(ms), u)
        /\ words = u.words \o Bundle(t, es) /\ found = u.found \o Yield(es)
    BY <1>2 DEF InBundle
<1>4. u.words = <<>> /\ u.found = <<>>
    BY <1>3, BlankIsWritten
<1>5. PICK b \in Seq(Nat), y \in Seq(Entry) : b = Bundle(t, es) /\ y = Yield(es)
    BY <1>1, BundleIsNoSize
<1>6. <<>> \o b = b /\ <<>> \o y = y
    BY NothingJoined
<1> QED
    BY <1>2, <1>3, <1>4, <1>5, <1>6, Zenon

\* In w, behind it, the bundle of es begins after a word kept free.
Inside(ms, es, words, found, w, f) ==
    /\ words = (w \o << 0 >>) \o Bundle(Last(ms).tag, es)
    /\ found = f \o Yield(es)
    /\ Last(ms).at = Len(w) + 1

\* An open bundle in another one.
LEMMA InBundleAround ==
    ASSUME NEW ms, NEW es, NEW words, NEW found, InBundle(ms, es, words, found),
           Front(ms) # <<>>
    PROVE  \E os, w, f : InBundle(Front(ms), os, w, f) /\ Inside(ms, es, words, found, w, f)
<1>1. /\ es \in Seq(Elements) /\ Last(ms).tag \in Nat \X Nat /\ Front(ms) \in Seq(Mark)
    BY InBundleTypes
<1>2. PICK t \in Nat \X Nat : t = Last(ms).tag
    BY <1>1
<1>3. PICK u \in Written :
        /\ Outside(Front(ms), u) /\ Last(ms).at = Len(u.words)
        /\ words = u.words \o Bundle(t, es) /\ found = u.found \o Yield(es)
    BY <1>2 DEF InBundle
<1>4. PICK v \in Written : Outside(Front(Front(ms)), v) /\ Opens(Last(Front(ms)), v, u)
    BY <1>1, <1>3, OutsideLess
<1>5. PICK m \in Mark : m = Last(Front(ms))
    BY <1>1, FrontLast
<1>6. PICK os \in Seq(Elements) :
        /\ Tagged(os, m.tag) /\ m.at = Len(v.words)
        /\ u.words = (v.words \o Bundle(m.tag, os)) \o << 0 >>
        /\ u.found = v.found \o Yield(os)
    BY <1>4, <1>5 DEF Opens
<1>7. PICK w, f : w = v.words \o Bundle(m.tag, os) /\ f = v.found \o Yield(os)
    OBVIOUS
<1>8. InBundle(Front(ms), os, w, f)
    BY <1>1, <1>4, <1>5, <1>6, <1>7 DEF InBundle
<1>9. w \in Seq(Nat)
    BY <1>8, InBundleTypes
<1>10. Len(u.words) = Len(w) + 1
  <2>1. << 0 >> \in Seq(Nat) /\ Len(<< 0 >>) = 1
      OBVIOUS
  <2>2. Len(w \o << 0 >>) = Len(w) + Len(<< 0 >>)
      BY <1>9, <2>1, WordsJoin
  <2> QED
      BY <1>6, <1>7, <2>1, <2>2
<1>11. Inside(ms, es, words, found, w, f)
    BY <1>2, <1>3, <1>6, <1>7, <1>10 DEF Inside
<1> QED
    BY <1>8, <1>11

\* Its size takes the place of the word that was kept free.
Filled(all, at) == [all EXCEPT ![at] = 4 * (Len(all) - at)]

KeptFree(all, at, w, b) ==
    /\ w \in Seq(Nat) /\ b \in Seq(Nat) /\ all \in Seq(Nat) /\ at \in Nat
    /\ all = (w \o << 0 >>) \o b /\ at = Len(w) + 1

\* The word kept free, when the size is filled in.
LEMMA SizeFilledIn ==
    ASSUME NEW all, NEW at, NEW w, NEW b, KeptFree(all, at, w, b)
    PROVE  Filled(all, at) = w \o (<<4 * Len(b)>> \o b)
<1>0. w \in Seq(Nat) /\ b \in Seq(Nat) /\ all \in Seq(Nat) /\ at \in Nat
    BY DEF KeptFree
<1>a. all = (w \o << 0 >>) \o b /\ at = Len(w) + 1
    BY DEF KeptFree
<1>1. PICK n \in Nat, k \in Nat : n = Len(w) /\ k = Len(b)
    BY <1>0, LenProperties
<1>2. PICK z \in Seq(Nat), s \in Seq(Nat) :
         z = << 0 >> /\ Len(z) = 1 /\ s = <<4 * k>> /\ Len(s) = 1 /\ s[1] = 4 * k
  <2>1. << 0 >> \in Seq(Nat) /\ Len(<< 0 >>) = 1
      OBVIOUS
  <2>2. <<4 * k>> \in Seq(Nat) /\ Len(<<4 * k>>) = 1 /\ <<4 * k>>[1] = 4 * k
      OBVIOUS
  <2> QED
      BY <2>1, <2>2
<1>3. PICK wz \in Seq(Nat) : wz = w \o z
    BY <1>0, WordsJoin
<1>4. Len(wz) = n + 1 /\ \A i \in 1..n : wz[i] = w[i]
    BY <1>0, <1>1, <1>2, <1>3, WordsJoin, WordsAt
<1>5. all = wz \o b
    BY <1>2, <1>3, <1>a, Zenon
<1>6. Len(all) = (n + 1) + k /\ at = n + 1
    BY <1>0, <1>1, <1>4, <1>5, <1>a, WordsJoin
<1>7. /\ \A i \in 1..(n + 1) : all[i] = wz[i]
      /\ \A i \in 1..k : all[(n + 1) + i] = b[i]
  <2>1. /\ \A i \in 1..Len(wz) : (wz \o b)[i] = wz[i]
        /\ \A i \in 1..Len(b) : (wz \o b)[Len(wz) + i] = b[i]
      BY <1>0, WordsAt
  <2> QED
      BY <1>1, <1>4, <1>5, <2>1, Zenon
<1>8. PICK sb \in Seq(Nat) : sb = s \o b
    BY <1>0, WordsJoin
<1>9. Len(sb) = 1 + k /\ sb[1] = 4 * k /\ \A i \in 1..k : sb[1 + i] = b[i]
  <2>1. Len(sb) = Len(s) + Len(b)
      BY <1>0, <1>8, WordsJoin
  <2>2. /\ \A i \in 1..Len(s) : sb[i] = s[i]
        /\ \A i \in 1..Len(b) : sb[Len(s) + i] = b[i]
      BY <1>0, <1>8, WordsAt
  <2>3. 1 \in 1..Len(s)
      BY <1>2
  <2> QED
      BY <1>1, <1>2, <2>1, <2>2, <2>3
<1>10. PICK r \in Seq(Nat) : r = w \o sb
    BY <1>0, WordsJoin
<1>11. /\ Len(r) = n + (1 + k)
       /\ \A i \in 1..n : r[i] = w[i]
       /\ \A i \in 1..(1 + k) : r[n + i] = sb[i]
  <2>1. Len(r) = Len(w) + Len(sb)
      BY <1>0, <1>10, WordsJoin
  <2>2. /\ \A i \in 1..Len(w) : r[i] = w[i]
        /\ \A i \in 1..Len(sb) : r[Len(w) + i] = sb[i]
      BY <1>0, <1>10, WordsAt
  <2> QED
      BY <1>1, <1>9, <2>1, <2>2
<1>12. PICK size \in Nat : size = 4 * (Len(all) - at) /\ size = 4 * k
  <2>1. Len(all) - at = k
      BY <1>6
  <2>2. 4 * (Len(all) - at) = 4 * k
      BY <2>1, Zenon
  <2> QED
      BY <2>2
<1>13. PICK x \in Seq(Nat) : x = [all EXCEPT ![at] = size]
    BY <1>0, WordWritten
<1>14. Len(x) = (n + 1) + k /\ x[n + 1] = size /\ \A i \in 1..Len(all) : i # at => x[i] = all[i]
  <2>1. at \in 1..Len(all)
      BY <1>6
  <2>2. DOMAIN all = 1..Len(all)
      BY <1>0, LenProperties
  <2>3. Len(x) = Len(all)
      BY <1>0, <1>13, WordWritten
  <2> QED
      BY <1>0, <1>6, <1>13, <2>1, <2>2, <2>3
<1>15. ASSUME NEW i \in 1..((n + 1) + k) PROVE x[i] = r[i]
  <2>1. CASE i \in 1..n
    <3>1. i # at /\ i \in 1..Len(all) /\ i \in 1..(n + 1)
        BY <1>6, <2>1
    <3>2. x[i] = all[i] /\ all[i] = wz[i] /\ wz[i] = w[i] /\ r[i] = w[i]
        BY <1>4, <1>7, <1>11, <1>14, <2>1, <3>1
    <3> QED
        BY <3>2
  <2>2. CASE i = n + 1
    <3>1. 1 \in 1..(1 + k)
        OBVIOUS
    <3>2. r[n + 1] = sb[1]
        BY <1>11, <3>1
    <3> QED
        BY <1>9, <1>12, <1>14, <2>2, <3>2
  <2>3. CASE i \in (n + 2)..((n + 1) + k)
    <3>1. PICK j \in 1..k : i = (n + 1) + j
      <4>1. i - (n + 1) \in 1..k /\ i = (n + 1) + (i - (n + 1))
          BY <2>3
      <4> QED
          BY <4>1
    <3>2. i # at /\ i \in 1..Len(all) /\ 1 + j \in 1..(1 + k) /\ i = n + (1 + j)
        BY <1>6, <2>3, <3>1
    <3>3. x[i] = all[i] /\ all[i] = b[j]
        BY <1>7, <1>14, <3>1, <3>2
    <3>4. r[i] = sb[1 + j] /\ sb[1 + j] = b[j]
        BY <1>9, <1>11, <3>1, <3>2
    <3> QED
        BY <3>3, <3>4
  <2>4. i \in 1..n \/ i = n + 1 \/ i \in (n + 2)..((n + 1) + k)
      OBVIOUS
  <2> QED
      BY <2>1, <2>2, <2>3, <2>4, Zenon
<1>16. x = r
    BY <1>0, <1>11, <1>14, <1>15, SeqEqual
<1> QED
    BY <1>1, <1>2, <1>8, <1>10, <1>12, <1>13, <1>16, Zenon DEF Filled

\* endBundle makes the bundle an element of the one around it.
LEMMA InBundleClosed ==
    ASSUME NEW ms, NEW es, NEW words, NEW found, InBundle(ms, es, words, found),
           es # <<>>, Front(ms) # <<>>
    PROVE  \E os : InBundle(Front(ms), os,
              Filled(words, Last(ms).at), found)
<1>1. /\ es \in Seq(Elements) /\ Last(ms).tag \in Nat \X Nat /\ words \in Seq(Nat)
      /\ Tagged(es, Last(ms).tag)
    BY InBundleTypes
<1>2. PICK t \in Nat \X Nat : t = Last(ms).tag
    BY <1>1
<1>3. PICK os, w, f :
        InBundle(Front(ms), os, w, f) /\ Inside(ms, es, words, found, w, f)
    BY InBundleAround
<1>a. words = (w \o << 0 >>) \o Bundle(t, es) /\ found = f \o Yield(es) /\ Last(ms).at = Len(w) + 1
    BY <1>2, <1>3 DEF Inside
<1>4. w \in Seq(Nat) /\ f \in Seq(Entry) /\ Last(Front(ms)).tag \in Nat \X Nat
    BY <1>3, InBundleTypes
<1>5. PICK b \in Seq(Nat) : b = Bundle(t, es)
    BY <1>1, BundleIsNoSize
<1>6. PICK at \in Nat : at = Last(ms).at
    BY InBundleLength
<1>7. Filled(words, at) = w \o (<<4 * Len(b)>> \o b)
  <2>1. KeptFree(words, at, w, b)
      BY <1>1, <1>4, <1>5, <1>6, <1>a DEF KeptFree
  <2> QED
      BY <2>1, SizeFilledIn, SMTT(30)
<1>8. PICK e \in Elements : e = [words |-> Bundle(t, es), tag |-> Last(Front(ms)).tag, found |-> Yield(es)]
    BY <1>1, <1>2, <1>4, BundleIsElement
<1>9. e.words = b /\ e.tag = Last(Front(ms)).tag /\ e.found = Yield(es)
    BY <1>5, <1>8
<1>10. InBundle(Front(ms), Append(os, e), w \o (<<4 * Len(e.words)>> \o e.words), f \o e.found)
    BY <1>3, <1>9, InBundleMore
<1>11. InBundle(Front(ms), Append(os, e), w \o (<<4 * Len(b)>> \o b), found)
    BY <1>9, <1>10, <1>a, Zenon
<1>12. InBundle(Front(ms), Append(os, e), Filled(words, at), found)
    BY <1>7, <1>11, Zenon
<1> QED
    BY <1>6, <1>12, Zenon

\* What is sent with bundles open: one of them, which is as good as closed if
\* there is something in it; or more, and none of them can be read.
LEMMA InBundleSent ==
    ASSUME NEW ms, NEW es, NEW words, NEW found, InBundle(ms, es, words, found)
    PROVE  \/ Hopeless(words)
           \/ \E e \in Elements : e.words = words /\ e.tag = Immediate /\ e.found = found
<1>1. /\ es \in Seq(Elements) /\ Last(ms).tag \in Nat \X Nat /\ words \in Seq(Nat)
      /\ Tagged(es, Last(ms).tag)
    BY InBundleTypes
<1>2. PICK t \in Nat \X Nat : t = Last(ms).tag
    BY <1>1
<1>3. PICK b \in Seq(Nat) : b = Bundle(t, es) /\ b # <<>> /\ b[1] % 4 # 0 /\ StartsWithHash(b[1])
    BY <1>1, BundleIsNoSize
<1>4. CASE Front(ms) # <<>>
  <2>1. PICK u \in Written : Outside(Front(ms), u) /\ words = u.words \o b
      BY <1>2, <1>3 DEF InBundle
  <2>2. Front(ms) \in Seq(Mark)
      BY InBundleTypes
  <2>3. PICK v \in Written : Opens(Last(Front(ms)), v, u)
      BY <1>4, <2>1, <2>2, OutsideLess
  <2>4. PICK x \in Seq(Nat), z \in Seq(Nat) : u.words = x \o z /\ z # <<>>
    <3>1. PICK os \in Seq(Elements), m \in Mark :
             m = Last(Front(ms)) /\ u.words = (v.words \o Bundle(m.tag, os)) \o << 0 >>
        BY <1>4, <2>2, <2>3, FrontLast DEF Opens
    <3>2. m.tag \in Nat \X Nat
        BY DEF Mark
    <3>3. v.words \in Seq(Nat) /\ Bundle(m.tag, os) \in Seq(Nat)
        BY <3>2, WrittenTypes, BundleIsNoSize
    <3>4. v.words \o Bundle(m.tag, os) \in Seq(Nat)
        BY <3>3, WordsJoin
    <3>5. << 0 >> \in Seq(Nat) /\ << 0 >> # <<>>
        OBVIOUS
    <3> QED
        BY <3>1, <3>4, <3>5
  <2>5. u.words # <<>>
    <3>1. PICK m \in Nat, n \in Nat : m = Len(x) /\ n = Len(z) /\ Len(x \o z) = m + n
        BY WordsJoin
    <3>2. n # 0
        BY <2>4, <3>1, EmptySeq
    <3>3. Len(u.words) # 0
        BY <2>4, <3>1, <3>2
    <3> QED
        BY <3>3, EmptySeq
  <2>6. Broken(u.words)
      BY <2>5, WrittenTypes, BlankIsWritten
  <2>7. Lost(words)
      BY <1>3, <2>1, <2>6, BrokenGoesOn
  <2> QED
      BY <2>7, LostIsBroken
<1>5. CASE Front(ms) = <<>>
  <2>1. words = b /\ found = Yield(es)
      BY <1>2, <1>3, <1>5, InBundleAlone
  <2>2. CASE es = <<>>
    <3>1. es \in Seq(Element)
        BY <1>1, ElementFields, SeqMonotonic
    <3>2. Bundle(t, es) = Header(t) /\ Len(Header(t)) = 4
        BY <2>2, <3>1, BundleFacts, HeaderFacts
    <3>3. Len(words) < 5
        BY <1>3, <2>1, <3>2
    <3> QED
        BY <1>3, <2>1, <3>3 DEF Hopeless
  <2>3. CASE es # <<>>
    <3>1. Immediate \in Nat \X Nat
        BY DEF Immediate
    <3>2. PICK e \in Elements : e = [words |-> Bundle(t, es), tag |-> Immediate, found |-> Yield(es)]
        BY <1>1, <1>2, <2>3, <3>1, BundleIsElement
    <3>3. e.words = words /\ e.tag = Immediate /\ e.found = found
        BY <1>3, <2>1, <3>2
    <3> QED
        BY <3>3
  <2> QED
      BY <2>2, <2>3
<1> QED
    BY <1>4, <1>5

-----------------------------------------------------------------------------
(* The shape of what the writer has built *)

MarksOf(bs, ts) == [i \in DOMAIN bs |-> [at |-> bs[i], tag |-> ts[i]]]

\* The open bundles, each with its place and its time tag.
LEMMA MarksFacts ==
    ASSUME NEW bs \in Seq(Nat), NEW ts \in Seq(Nat \X Nat), Len(ts) = Len(bs)
    PROVE  /\ MarksOf(bs, ts) \in Seq(Mark) /\ Len(MarksOf(bs, ts)) = Len(bs)
           /\ \A i \in 1..Len(bs) : MarksOf(bs, ts)[i] = [at |-> bs[i], tag |-> ts[i]]
           /\ Len(bs) \in Nat
<1>1. PICK n \in Nat : n = Len(bs) /\ DOMAIN bs = 1..n /\ Len(ts) = n
    BY LenProperties
<1>2. \A i \in 1..n : bs[i] \in Nat /\ ts[i] \in Nat \X Nat
    BY <1>1, ElementOfSeq
<1>3. ASSUME NEW i \in 1..n PROVE [at |-> bs[i], tag |-> ts[i]] \in Mark
  <2>1. PICK b \in Nat, t \in Nat \X Nat : b = bs[i] /\ t = ts[i]
      BY <1>2
  <2>2. [at |-> b, tag |-> t] \in Mark
      BY DEF Mark
  <2> QED
      BY <2>1, <2>2
<1>4. PICK ms : ms = MarksOf(bs, ts)
    OBVIOUS
<1>5. ms = [i \in 1..n |-> [at |-> bs[i], tag |-> ts[i]]]
    BY <1>1, <1>4 DEF MarksOf
<1>6. ms \in [1..n -> Mark] /\ \A i \in 1..n : ms[i] = [at |-> bs[i], tag |-> ts[i]]
    BY <1>3, <1>5
<1>7. ms \in Seq(Mark) /\ Len(ms) = n
    BY <1>6, IsASeq
<1> QED
    BY <1>1, <1>4, <1>6, <1>7

\* One more open bundle, and one less.
LEMMA MarksMore ==
    ASSUME NEW bs \in Seq(Nat), NEW ts \in Seq(Nat \X Nat), Len(ts) = Len(bs),
           NEW b \in Nat, NEW t \in Nat \X Nat
    PROVE  MarksOf(Append(bs, b), Append(ts, t)) = Append(MarksOf(bs, ts), [at |-> b, tag |-> t])
<1>1. PICK ms \in Seq(Mark), n \in Nat :
         /\ ms = MarksOf(bs, ts) /\ n = Len(bs) /\ Len(ms) = n
         /\ \A i \in 1..n : ms[i] = [at |-> bs[i], tag |-> ts[i]]
    BY MarksFacts
<1>2. PICK bs2 \in Seq(Nat), ts2 \in Seq(Nat \X Nat) :
         bs2 = Append(bs, b) /\ ts2 = Append(ts, t)
    BY AppendProperties
<1>3. /\ Len(bs2) = n + 1 /\ bs2[n + 1] = b /\ \A i \in 1..n : bs2[i] = bs[i]
      /\ Len(ts2) = n + 1 /\ ts2[n + 1] = t /\ \A i \in 1..n : ts2[i] = ts[i]
    BY <1>1, <1>2, AppendProperties
<1>4. PICK ms2 \in Seq(Mark) :
         /\ ms2 = MarksOf(bs2, ts2) /\ Len(ms2) = n + 1
         /\ \A i \in 1..(n + 1) : ms2[i] = [at |-> bs2[i], tag |-> ts2[i]]
    BY <1>3, MarksFacts, SMTT(30)
<1>5. PICK m \in Mark : m = [at |-> b, tag |-> t]
    BY DEF Mark
<1>6. PICK r \in Seq(Mark) : r = Append(ms, m)
    BY AppendProperties
<1>7. Len(r) = n + 1 /\ r[n + 1] = m /\ \A i \in 1..n : r[i] = ms[i]
    BY <1>1, <1>6, AppendProperties
<1>8. ASSUME NEW i \in 1..(n + 1) PROVE ms2[i] = r[i]
  <2>1. CASE i = n + 1
      BY <1>3, <1>4, <1>5, <1>7, <2>1
  <2>2. CASE i \in 1..n
    <3>1. i \in 1..(n + 1)
        BY <2>2
    <3>2. ms2[i] = [at |-> bs2[i], tag |-> ts2[i]]
        BY <1>4, <3>1, Zenon
    <3>3. bs2[i] = bs[i] /\ ts2[i] = ts[i] /\ r[i] = ms[i]
        BY <1>3, <1>7, <2>2
    <3>4. ms[i] = [at |-> bs[i], tag |-> ts[i]]
        BY <1>1, <2>2, Zenon
    <3> QED
        BY <3>2, <3>3, <3>4, Zenon
  <2> QED
      BY <2>1, <2>2
<1>9. ms2 = r
    BY <1>4, <1>7, <1>8, SeqEqual
<1> QED
    BY <1>1, <1>2, <1>4, <1>5, <1>6, <1>9

\* The innermost one, and the ones around it.
LEMMA MarksLess ==
    ASSUME NEW bs \in Seq(Nat), NEW ts \in Seq(Nat \X Nat), Len(ts) = Len(bs)
    PROVE  /\ bs = <<>> <=> MarksOf(bs, ts) = <<>>
           /\ bs # <<>> =>
                /\ MarksOf(Front(bs), Front(ts)) = Front(MarksOf(bs, ts))
                /\ Last(MarksOf(bs, ts)) = [at |-> Last(bs), tag |-> Last(ts)]
                /\ Last(MarksOf(bs, ts)).at = Last(bs) /\ Last(MarksOf(bs, ts)).tag = Last(ts)
                /\ Len(bs) = 1 <=> Front(MarksOf(bs, ts)) = <<>>
<1>1. PICK ms \in Seq(Mark), k \in Nat :
         /\ ms = MarksOf(bs, ts) /\ k = Len(bs) /\ Len(ms) = k /\ Len(ts) = k
         /\ \A i \in 1..k : ms[i] = [at |-> bs[i], tag |-> ts[i]]
    BY MarksFacts
<1>2. bs = <<>> <=> ms = <<>>
    BY <1>1, EmptySeq
<1>3. ASSUME bs # <<>>
      PROVE  /\ MarksOf(Front(bs), Front(ts)) = Front(ms)
             /\ Last(ms) = [at |-> Last(bs), tag |-> Last(ts)]
             /\ Len(bs) = 1 <=> Front(ms) = <<>>
  <2>1. ms # <<>> /\ ts # <<>> /\ k # 0
      BY <1>1, <1>2, <1>3, EmptySeq
  <2>2. PICK n \in Nat : k = n + 1
    <3>1. k - 1 \in Nat /\ k = (k - 1) + 1
        BY <2>1
    <3> QED
        BY <3>1
  <2>3. PICK b \in Seq(Nat), t \in Seq(Nat \X Nat), m \in Seq(Mark) :
           b = Front(bs) /\ t = Front(ts) /\ m = Front(ms)
      BY <1>3, <2>1, FrontLast
  <2>4. /\ Last(bs) = bs[k] /\ Len(b) = k - 1 /\ \A i \in 1..(k - 1) : b[i] = bs[i]
        /\ Last(ts) = ts[k] /\ Len(t) = k - 1 /\ \A i \in 1..(k - 1) : t[i] = ts[i]
        /\ Last(ms) = ms[k] /\ Len(m) = k - 1 /\ \A i \in 1..(k - 1) : m[i] = ms[i]
    <3>1. Last(bs) = bs[k] /\ Len(b) = k - 1 /\ \A i \in 1..(k - 1) : b[i] = bs[i]
        BY <1>1, <1>3, <2>3, FrontLast
    <3>2. Last(ts) = ts[k] /\ Len(t) = k - 1 /\ \A i \in 1..(k - 1) : t[i] = ts[i]
        BY <1>1, <2>1, <2>3, FrontLast, ZenonT(60)
    <3>3. Last(ms) = ms[k] /\ Len(m) = k - 1 /\ \A i \in 1..(k - 1) : m[i] = ms[i]
        BY <1>1, <2>1, <2>3, FrontLast, ZenonT(60)
    <3> QED
        BY <3>1, <3>2, <3>3
  <2>5. k - 1 = n /\ k \in 1..k
      BY <2>2
  <2>6. Last(ms) = [at |-> Last(bs), tag |-> Last(ts)]
      BY <1>1, <2>4, <2>5
  <2>7. PICK r \in Seq(Mark) :
           /\ r = MarksOf(b, t) /\ Len(r) = n
           /\ \A i \in 1..n : r[i] = [at |-> b[i], tag |-> t[i]]
    <3>1. Len(b) = n /\ Len(t) = Len(b)
        BY <2>4, <2>5
    <3>2. /\ MarksOf(b, t) \in Seq(Mark) /\ Len(MarksOf(b, t)) = Len(b)
          /\ \A i \in 1..Len(b) : MarksOf(b, t)[i] = [at |-> b[i], tag |-> t[i]]
        BY <3>1, MarksFacts
    <3> QED
        BY <3>1, <3>2
  <2>8. \A i \in 1..n : r[i] = m[i]
    <3>1. \A i \in 1..n : i \in 1..k
        BY <2>2
    <3> QED
        BY <1>1, <2>4, <2>5, <2>7, <3>1, ZenonT(60)
  <2>9. r = m
      BY <2>4, <2>5, <2>7, <2>8, SeqEqual
  <2>10. k = 1 <=> m = <<>>
    <3>1. Len(m) = 0 <=> m = <<>>
        BY EmptySeq
    <3> QED
        BY <2>2, <2>4, <2>5, <3>1
  <2> QED
      BY <1>1, <2>3, <2>6, <2>7, <2>9, <2>10
<1>4. ASSUME bs # <<>>, Last(ms) = [at |-> Last(bs), tag |-> Last(ts)]
      PROVE  Last(ms).at = Last(bs) /\ Last(ms).tag = Last(ts)
    BY <1>4
<1> QED
    BY <1>1, <1>2, <1>3, <1>4, Zenon

\* One item, complete; one item, with bundles open; and more than one item.
Closed ==
    /\ bundles = <<>> /\ storage # <<>>
    /\ \E e \in Elements : e.words = storage /\ e.tag = Immediate /\ e.found = added

Opened == \E es : InBundle(MarksOf(bundles, openTags), es, storage, added)

\* The words begin with those of e, and a bundle begins behind them.
BeginsWith(e, words, bs) ==
    /\ e.words # <<>> /\ Len(e.words) < Len(words)
    /\ \A i \in 1..Len(e.words) : words[i] = e.words[i]
    /\ words[Len(e.words) + 1] = BundleMark[1]
    /\ \A i \in 2..Len(bs) : bs[i] > Len(e.words) + 1

Spoilt == \E e \in Elements : BeginsWith(e, storage, bundles)

ShapeInv ==
    /\ topLevel = 0 => storage = <<>> /\ bundles = <<>> /\ added = <<>>
    /\ topLevel = 1 => Closed \/ Opened
    /\ topLevel > 1 => Spoilt

\* What the writer's state consists of, for the steps below.
LEMMA WriterFields ==
    ASSUME WriterInv
    PROVE  /\ storage \in Seq(Nat) /\ Len(storage) \in Nat
           /\ bundles \in Seq(Nat) /\ Len(bundles) \in Nat /\ openTags \in Seq(Nat \X Nat)
           /\ Len(openTags) = Len(bundles) /\ topLevel \in Nat
           /\ bundles = <<>> <=> openTags = <<>>
           /\ added \in Seq(Entry)
<1>1. /\ storage \in Seq(Nat) /\ bundles \in Seq(Nat) /\ openTags \in Seq(TimeTags)
      /\ Len(openTags) = Len(bundles) /\ topLevel \in 0..MaxCalls
      /\ added \in Seq([words : Messages, tag : TimeTags \cup {Immediate}])
    BY DEF WriterInv, WriterTypes
<1>2. TimeTags \subseteq Nat \X Nat /\ MaxCalls \in Nat /\ Messages \subseteq Seq(Nat)
    BY OscPacketAssumption, OscFormatAssumption
<1>3. openTags \in Seq(Nat \X Nat)
    BY <1>1, <1>2, SeqMonotonic
<1>4. Immediate \in Nat \X Nat
    BY DEF Immediate
<1>5. [words : Messages, tag : TimeTags \cup {Immediate}] \subseteq Entry
    BY <1>2, <1>4 DEF Entry
<1>6. added \in Seq(Entry)
    BY <1>1, <1>5, SeqMonotonic
<1>7. Len(storage) \in Nat /\ Len(bundles) \in Nat
    BY <1>1, LenProperties
<1>8. bundles = <<>> <=> openTags = <<>>
    BY <1>1, <1>3, EmptySeq
<1> QED
    BY <1>1, <1>2, <1>3, <1>6, <1>7, <1>8

\* What is behind the first bundle or message, if it has the first word of a
\* bundle's mark, is never repaired.
LEMMA SpoiltStays ==
    ASSUME WriterInv, Spoilt, storage' \in Seq(Nat), Len(storage) <= Len(storage'),
           bundles' \in Seq(Nat),
           \A n \in Nat : n < Len(storage) /\ (\A i \in 2..Len(bundles) : bundles[i] > n + 1) =>
               /\ \A i \in 1..(n + 1) : storage'[i] = storage[i]
               /\ \A i \in 2..Len(bundles') : bundles'[i] > n + 1
    PROVE  Spoilt'
<1>1. PICK e \in Elements : BeginsWith(e, storage, bundles)
    BY DEF Spoilt
<1>2. PICK n \in Nat : n = Len(e.words)
    BY ElementFields
<1>3. /\ e.words # <<>> /\ n < Len(storage)
      /\ \A i \in 1..n : storage[i] = e.words[i]
      /\ storage[n + 1] = BundleMark[1]
      /\ \A i \in 2..Len(bundles) : bundles[i] > n + 1
    BY <1>1, <1>2 DEF BeginsWith
<1>4. /\ \A i \in 1..(n + 1) : storage'[i] = storage[i]
      /\ \A i \in 2..Len(bundles') : bundles'[i] > n + 1
    BY <1>3
<1>5. n < Len(storage')
  <2>1. Len(storage) \in Nat /\ Len(storage') \in Nat
      BY WriterFields, LenProperties
  <2> QED
      BY <1>3, <2>1
<1>6. \A i \in 1..n : storage'[i] = e.words[i]
  <2>1. \A i \in 1..n : i \in 1..(n + 1)
      OBVIOUS
  <2> QED
      BY <1>3, <1>4, <2>1
<1>7. storage'[n + 1] = BundleMark[1]
  <2>1. n + 1 \in 1..(n + 1)
      OBVIOUS
  <2> QED
      BY <1>3, <1>4, <2>1
<1>8. BeginsWith(e, storage', bundles')
    BY <1>2, <1>3, <1>4, <1>5, <1>6, <1>7, Zenon DEF BeginsWith
<1> QED
    BY <1>8 DEF Spoilt

\* Words at the end, and no bundle or one that begins there, are no repair.
LEMMA SpoiltGrows ==
    ASSUME WriterInv, Spoilt, NEW more \in Seq(Nat), storage' = storage \o more,
           NEW b \in Nat,
           bundles' = bundles \/ (bundles' = Append(bundles, b) /\ (bundles = <<>> \/ b > Len(storage)))
    PROVE  Spoilt'
<1>1. PICK s \in Seq(Nat), l \in Nat, bs \in Seq(Nat), k \in Nat :
         s = storage /\ l = Len(s) /\ bs = bundles /\ k = Len(bs)
    BY WriterFields
<1>2. storage' \in Seq(Nat) /\ Len(storage') = l + Len(more) /\ Len(more) \in Nat
    BY <1>1, WordsJoin
<1>3. \A i \in 1..l : storage'[i] = s[i]
    BY <1>1, WordsAt
<1>4. CASE bundles' = bundles
  <2>1. ASSUME NEW n \in Nat, n < l, \A i \in 2..k : bs[i] > n + 1
        PROVE  /\ \A i \in 1..(n + 1) : storage'[i] = s[i]
               /\ \A i \in 2..Len(bundles') : bundles'[i] > n + 1
    <3>1. \A i \in 1..(n + 1) : i \in 1..l
        BY <2>1
    <3> QED
        BY <1>1, <1>3, <1>4, <2>1, <3>1, Zenon
  <2>2. bundles' \in Seq(Nat) /\ Len(storage) <= Len(storage')
      BY <1>1, <1>2, <1>4
  <2> QED
      BY <1>1, <1>2, <2>1, <2>2, SpoiltStays
<1>5. CASE bundles' = Append(bundles, b) /\ (bundles = <<>> \/ b > Len(storage))
  <2>1. PICK bs2 \in Seq(Nat) : bs2 = Append(bs, b)
      BY AppendProperties
  <2>2. Len(bs2) = k + 1 /\ bs2[k + 1] = b /\ \A i \in 1..k : bs2[i] = bs[i]
      BY <1>1, <2>1, AppendProperties
  <2>3. bundles' = bs2
      BY <1>1, <1>5, <2>1
  <2>4. k = 0 \/ b > l
      BY <1>1, <1>5, EmptySeq
  <2>5. ASSUME NEW n \in Nat, n < l, \A i \in 2..k : bs[i] > n + 1
        PROVE  /\ \A i \in 1..(n + 1) : storage'[i] = s[i]
               /\ \A i \in 2..Len(bundles') : bundles'[i] > n + 1
    <3>1. \A i \in 1..(n + 1) : i \in 1..l
        BY <2>5
    <3>2. ASSUME NEW i \in 2..(k + 1) PROVE bs2[i] > n + 1
      <4>1. CASE i = k + 1
        <5>1. k # 0
            BY <3>2, <4>1
        <5>2. b > n + 1
            BY <2>4, <2>5, <5>1
        <5> QED
            BY <2>2, <4>1, <5>2
      <4>2. CASE i \in 2..k
        <5>1. i \in 1..k
            BY <4>2
        <5>2. bs2[i] = bs[i] /\ bs[i] > n + 1
            BY <2>2, <2>5, <4>2, <5>1, Zenon
        <5> QED
            BY <5>2, Zenon
      <4>3. i = k + 1 \/ i \in 2..k
          BY <3>2
      <4> QED
          BY <4>1, <4>2, <4>3, Zenon
    <3>3. \A i \in 2..Len(bundles') : bundles'[i] > n + 1
        BY <2>2, <2>3, <3>2, Zenon
    <3> QED
        BY <1>3, <3>1, <3>3, Zenon
  <2>6. bundles' \in Seq(Nat) /\ Len(storage) <= Len(storage')
      BY <1>1, <1>2, <2>3
  <2> QED
      BY <1>1, <1>2, <2>5, <2>6, SpoiltStays
<1> QED
    BY <1>4, <1>5

\* startBundle.
LEMMA StartShape ==
    ASSUME WriterInv, ShapeInv, NEW tag \in TimeTags, StartBundle(tag)
    PROVE  ShapeInv'
<1>1. PICK t \in Nat \X Nat : t = tag
    BY OscPacketAssumption
<1>2. PICK h \in Seq(Nat) : h = Header(t) /\ Len(h) = 4 /\ h[1] = BundleMark[1]
    BY HeaderFacts
<1>3. PICK s \in Seq(Nat), bs \in Seq(Nat), ts \in Seq(Nat \X Nat), l \in Nat :
         /\ s = storage /\ bs = bundles /\ ts = openTags /\ l = Len(s) /\ Len(ts) = Len(bs)
    BY WriterFields
<1>4. PICK before \in Seq(Nat) : before = IF bundles = <<>> THEN storage ELSE Append(storage, 0)
  <2>1. Append(s, 0) \in Seq(Nat)
      BY AppendProperties
  <2> QED
      BY <1>3, <2>1
<1>5. /\ storage' = (before \o BundleMark) \o t /\ bundles' = Append(bs, Len(before))
      /\ openTags' = Append(ts, t) /\ added' = added
      /\ topLevel' = IF bundles = <<>> THEN topLevel + 1 ELSE topLevel
    BY <1>1, <1>3, <1>4 DEF StartBundle, NewItem
<1>6. storage' = before \o h
  <2>1. PICK m \in Seq(Nat) : m = BundleMark
    <3>1. BundleMark \in Seq(Nat)
        BY SMT DEF BundleMark
    <3> QED
        BY <3>1
  <2>2. PICK w \in Seq(Nat) : w = t
    <3>1. PICK x \in Nat, y \in Nat : t = <<x, y>>
        OBVIOUS
    <3>2. <<x, y>> \in Seq(Nat)
        OBVIOUS
    <3> QED
        BY <3>1, <3>2
  <2>3. (before \o m) \o w = before \o (m \o w)
      BY WordsTwice, ZenonT(60)
  <2>4. h = m \o w
      BY <1>2, <2>1, <2>2 DEF Header
  <2> QED
      BY <1>5, <2>1, <2>2, <2>3, <2>4, Zenon
<1>7. topLevel \in Nat
    BY WriterFields
<1>8. CASE topLevel = 0
  <2>1. storage = <<>> /\ bundles = <<>> /\ added = <<>> /\ ts = <<>>
      BY <1>3, <1>8, WriterFields DEF ShapeInv
  <2>2. before = <<>> /\ Len(before) = 0
      BY <1>4, <2>1, EmptySeq
  <2>3. storage' = h
      BY <1>6, <2>2, NothingJoined, Zenon
  <2>4. PICK m \in Mark : m = [at |-> 0, tag |-> t] /\ m.at = 0 /\ m.tag = t
    <3>1. [at |-> 0, tag |-> t] \in Mark
        BY DEF Mark
    <3> QED
        BY <3>1
  <2>5. InBundle(<<m>>, <<>>, h, <<>>)
      BY <1>2, <2>4, InBundleFirst
  <2>6. MarksOf(bundles', openTags') = <<m>>
    <3>1. PICK b \in Nat : b = 0
        OBVIOUS
    <3>a. MarksOf(Append(bs, b), Append(ts, t)) = Append(MarksOf(bs, ts), [at |-> b, tag |-> t])
        BY <1>3, MarksMore, SMTT(30)
    <3>2. MarksOf(Append(bs, 0), Append(ts, t)) = Append(MarksOf(bs, ts), [at |-> 0, tag |-> t])
        BY <3>1, <3>a, Zenon
    <3>3. MarksOf(bs, ts) = <<>>
        BY <1>3, <2>1, MarksLess
    <3>4. Append(<<>>, m) = <<m>>
        OBVIOUS
    <3> QED
        BY <1>5, <2>2, <2>4, <3>2, <3>3, <3>4, Zenon
  <2>7. Opened'
      BY <1>5, <2>1, <2>3, <2>5, <2>6, Zenon DEF Opened
  <2>8. topLevel' = 1
      BY <1>5, <1>8, <2>1
  <2> QED
      BY <2>7, <2>8 DEF ShapeInv
<1>9. CASE topLevel = 1 /\ Closed
  <2>1. bundles = <<>> /\ storage # <<>>
      BY <1>9 DEF Closed
  <2>2. PICK e \in Elements : e.words = storage
      BY <1>9 DEF Closed
  <2>3. before = s /\ bs = <<>>
      BY <1>3, <1>4, <2>1
  <2>4. storage' = s \o h
      BY <1>6, <2>3
  <2>5. Len(storage') = l + 4 /\ \A i \in 1..l : storage'[i] = s[i]
    <3>1. Len(s \o h) = Len(s) + Len(h)
        BY WordsJoin
    <3>2. \A i \in 1..Len(s) : (s \o h)[i] = s[i]
        BY WordsAt
    <3> QED
        BY <1>2, <1>3, <2>4, <3>1, <3>2
  <2>6. storage'[l + 1] = BundleMark[1]
    <3>1. \A i \in 1..Len(h) : (s \o h)[Len(s) + i] = h[i]
        BY WordsAt
    <3>2. 1 \in 1..Len(h)
        BY <1>2
    <3> QED
        BY <1>2, <1>3, <2>4, <3>1, <3>2
  <2>7. Len(bundles') = 1
    <3>1. Len(bs) = 0
        BY <2>3, EmptySeq
    <3>2. Len(before) \in Nat
        BY LenProperties
    <3> QED
        BY <1>5, <3>1, <3>2, AppendProperties
  <2>8. BeginsWith(e, storage', bundles')
    <3>1. Len(e.words) = l /\ e.words = s /\ e.words # <<>>
        BY <1>3, <2>1, <2>2
    <3>2. l < Len(storage')
        BY <2>5
    <3>3. \A i \in 2..Len(bundles') : bundles'[i] > l + 1
        BY <2>7
    <3> QED
        BY <2>5, <2>6, <3>1, <3>2, <3>3 DEF BeginsWith
  <2>9. Spoilt' /\ topLevel' = 2
      BY <1>5, <1>9, <2>1, <2>8 DEF Spoilt
  <2> QED
      BY <2>9 DEF ShapeInv
<1>10. CASE topLevel = 1 /\ Opened
  <2>1. PICK ms : ms = MarksOf(bs, ts)
      OBVIOUS
  <2>2. PICK es : InBundle(ms, es, s, added)
      BY <1>3, <1>10, <2>1 DEF Opened
  <2>3. bundles # <<>>
    <3>1. ms # <<>>
        BY <2>2, InBundleTypes
    <3> QED
        BY <1>3, <2>1, <3>1, MarksLess
  <2>4. before = s \o << 0 >> /\ Len(before) = l + 1
    <3>1. before = Append(s, 0)
        BY <1>3, <1>4, <2>3
    <3> QED
        BY <1>3, <3>1, AppendIsConcat, AppendProperties
  <2>5. PICK m \in Mark : m = [at |-> l + 1, tag |-> t] /\ m.at = l + 1 /\ m.tag = t
    <3>1. [at |-> l + 1, tag |-> t] \in Mark
        BY DEF Mark
    <3> QED
        BY <3>1
  <2>6. InBundle(Append(ms, m), <<>>, (s \o << 0 >>) \o Header(m.tag), added)
      BY <1>3, <2>2, <2>5, InBundleDeeper
  <2>7. storage' = (s \o << 0 >>) \o Header(m.tag)
      BY <1>2, <1>6, <2>4, <2>5, Zenon
  <2>8. MarksOf(bundles', openTags') = Append(ms, m)
    <3>1. l + 1 \in Nat
        OBVIOUS
    <3>2. MarksOf(Append(bs, l + 1), Append(ts, t)) = Append(MarksOf(bs, ts), [at |-> l + 1, tag |-> t])
        BY <1>3, <3>1, MarksMore
    <3> QED
        BY <1>5, <2>1, <2>4, <2>5, <3>2, Zenon
  <2>9. Opened'
      BY <1>5, <2>6, <2>7, <2>8, Zenon DEF Opened
  <2>10. topLevel' = 1
      BY <1>5, <1>10, <2>3
  <2> QED
      BY <2>9, <2>10 DEF ShapeInv
<1>11. CASE topLevel > 1
  <2>1. Spoilt
      BY <1>11 DEF ShapeInv
  <2>2. PICK b \in Nat : b = Len(before)
      BY LenProperties
  <2>3. bundles' = Append(bundles, b) /\ (bundles = <<>> \/ b > Len(storage))
    <3>1. bundles # <<>> => b = l + 1
        BY <1>3, <1>4, <2>2, AppendProperties
    <3> QED
        BY <1>3, <1>5, <2>2, <3>1
  <2>4. PICK more \in Seq(Nat) : storage' = storage \o more
    <3>1. CASE bundles = <<>>
        BY <1>4, <1>6, <3>1
    <3>2. CASE bundles # <<>>
      <4>1. PICK z \in Seq(Nat) : z = << 0 >>
        <5>1. << 0 >> \in Seq(Nat)
            OBVIOUS
        <5> QED
            BY <5>1
      <4>2. before = s \o z
          BY <1>3, <1>4, <3>2, <4>1, AppendIsConcat, SMTT(30)
      <4>3. (s \o z) \o h = s \o (z \o h)
          BY WordsTwice, ZenonT(60)
      <4>4. PICK zh \in Seq(Nat) : zh = z \o h
          BY WordsJoin
      <4> QED
          BY <1>3, <1>6, <4>2, <4>3, <4>4, Zenon
    <3> QED
        BY <3>1, <3>2
  <2>5. Spoilt'
      BY <2>1, <2>2, <2>3, <2>4, SpoiltGrows
  <2>6. topLevel' > 1
      BY <1>5, <1>7, <1>11
  <2> QED
      BY <1>5, <1>7, <2>5, <2>6, SMTT(30) DEF ShapeInv
<1>12. topLevel = 0 \/ topLevel = 1 \/ topLevel > 1
    BY <1>7
<1> QED
    BY <1>8, <1>9, <1>10, <1>11, <1>12 DEF ShapeInv

\* endBundle.
LEMMA EndShape ==
    ASSUME WriterInv, ShapeInv, EndBundle
    PROVE  ShapeInv'
<1>0. PICK at : at = Last(bundles)
    OBVIOUS
<1>1. PICK s \in Seq(Nat), bs \in Seq(Nat), ts \in Seq(Nat \X Nat), l \in Nat, k \in Nat :
         /\ s = storage /\ bs = bundles /\ ts = openTags /\ l = Len(s) /\ k = Len(bs)
         /\ Len(ts) = Len(bs) /\ at = Last(bs)
    BY <1>0, WriterFields
<1>2. PICK pad : pad = IF l - at = 4 THEN Append(s, 0) ELSE s
    OBVIOUS
<1>3. /\ storage' = (IF k = 1 THEN pad ELSE Filled(pad, at))
      /\ bundles' = Front(bs) /\ openTags' = Front(ts)
      /\ added' = added /\ topLevel' = topLevel /\ bs # <<>>
  <2>1. pad = Padded
      BY <1>1, <1>2 DEF Padded
  <2> QED
      BY <1>1, <2>1, Zenon DEF EndBundle, Filled
<1>4. topLevel \in Nat /\ added \in Seq(Entry)
    BY WriterFields
<1>5. ts # <<>> /\ Front(bs) \in Seq(Nat) /\ Front(ts) \in Seq(Nat \X Nat)
  <2>1. ts # <<>>
      BY <1>1, <1>3, WriterFields
  <2> QED
      BY <1>3, <2>1, FrontLast
<1>6. topLevel # 0 /\ ~Closed
    BY <1>1, <1>3 DEF ShapeInv, Closed
<1>7. CASE topLevel = 1 /\ Opened
  <2>1. PICK ms : ms = MarksOf(bs, ts)
      OBVIOUS
  <2>2. PICK es : InBundle(ms, es, s, added)
      BY <1>1, <1>7, <2>1 DEF Opened
  <2>3. /\ Front(ms) = MarksOf(Front(bs), Front(ts)) /\ Last(ms).at = at
        /\ k = 1 <=> Front(ms) = <<>>
    <3>1. bs # <<>> =>
            /\ MarksOf(Front(bs), Front(ts)) = Front(MarksOf(bs, ts))
            /\ Last(MarksOf(bs, ts)).at = Last(bs)
            /\ Len(bs) = 1 <=> Front(MarksOf(bs, ts)) = <<>>
        BY <1>1, MarksLess
    <3> QED
        BY <1>1, <1>3, <2>1, <3>1, Zenon
  <2>4. PICK fs : fs # <<>> /\ InBundle(ms, fs, pad, added)
    <3>1. \E fs : fs # <<>> /\ InBundle(ms, fs,
              IF Len(s) - Last(ms).at = 4 THEN Append(s, 0) ELSE s, added)
        BY <2>2, InBundlePadded
    <3>2. pad = IF Len(s) - Last(ms).at = 4 THEN Append(s, 0) ELSE s
        BY <1>1, <1>2, <2>3
    <3> QED
        BY <3>1, <3>2
  <2>5. CASE k = 1
    <3>1. pad = Bundle(Last(ms).tag, fs) /\ added = Yield(fs)
        BY <2>3, <2>4, <2>5, InBundleAlone
    <3>2. PICK u \in Nat \X Nat : u = Last(ms).tag
        BY <2>4, InBundleTypes
    <3>3. fs \in Seq(Elements) /\ Tagged(fs, u) /\ pad # <<>>
        BY <2>4, <3>2, InBundleTypes
    <3>4. PICK i \in Nat \X Nat : i = Immediate
        BY DEF Immediate
    <3>5. PICK e \in Elements : e = [words |-> Bundle(u, fs), tag |-> i, found |-> Yield(fs)]
        BY <2>4, <3>3, BundleIsElement
    <3>6. e.words = pad /\ e.tag = Immediate /\ e.found = added
        BY <3>1, <3>2, <3>4, <3>5
    <3>7. bundles' = <<>>
      <4>1. Len(Front(bs)) = k - 1
          BY <1>1, <1>3, FrontLast
      <4>2. Len(Front(bs)) = 0
          BY <2>5, <4>1
      <4> QED
          BY <1>3, <1>5, <4>2, EmptySeq
    <3>8. storage' = pad
        BY <1>3, <2>5
    <3>9. Closed'
        BY <1>3, <3>3, <3>6, <3>7, <3>8 DEF Closed
    <3> QED
        BY <1>3, <1>7, <3>9 DEF ShapeInv
  <2>6. CASE k # 1
    <3>1. Front(ms) # <<>>
        BY <2>3, <2>6
    <3>2. PICK os : InBundle(Front(ms), os, Filled(pad, Last(ms).at), added)
        BY <2>4, <3>1, InBundleClosed
    <3>3. storage' = Filled(pad, Last(ms).at)
        BY <1>3, <2>3, <2>6
    <3>4. Front(ms) = MarksOf(bundles', openTags')
        BY <1>3, <2>3
    <3>5. Opened'
        BY <1>3, <3>2, <3>3, <3>4, Zenon DEF Opened
    <3> QED
        BY <1>3, <1>7, <3>5 DEF ShapeInv
  <2> QED
      BY <2>5, <2>6
<1>8. CASE topLevel > 1
  <2>1. Spoilt
      BY <1>8 DEF ShapeInv
  <2>2. pad \in Seq(Nat) /\ l <= Len(pad) /\ \A i \in 1..l : pad[i] = s[i]
    <3>1. PICK z \in Seq(Nat) : z = Append(s, 0)
        BY AppendProperties
    <3>2. Len(z) = l + 1 /\ \A i \in 1..l : z[i] = s[i]
        BY <1>1, <3>1, AppendProperties
    <3>3. pad = z \/ pad = s
        BY <1>2, <3>1
    <3> QED
        BY <1>1, <3>2, <3>3
  <2>3. /\ storage' \in Seq(Nat) /\ l <= Len(storage')
        /\ \A i \in 1..l : i # at \/ k = 1 => storage'[i] = s[i]
    <3>1. CASE k = 1
        BY <1>3, <2>2, <3>1
    <3>2. CASE k # 1
      <4>1. storage' = Filled(pad, at)
          BY <1>3, <3>2
      <4>2. storage' \in Seq(Nat)
        <5>1. WriterInv'
            BY EndKeeps
        <5> QED
            BY <5>1 DEF WriterInv, WriterTypes
      <4>3. DOMAIN pad = 1..Len(pad) /\ Len(pad) \in Nat
          BY <2>2, LenProperties
      <4>4. DOMAIN storage' = DOMAIN pad /\ \A i \in DOMAIN pad : i # at => storage'[i] = pad[i]
          BY <4>1 DEF Filled
      <4>5. Len(storage') = Len(pad)
          BY <4>2, <4>3, <4>4, LenProperties
      <4>6. \A i \in 1..l : i \in DOMAIN pad
          BY <2>2, <4>3
      <4> QED
          BY <2>2, <3>2, <4>2, <4>4, <4>5, <4>6
    <3> QED
        BY <3>1, <3>2
  <2>4. ASSUME NEW n \in Nat, n < l, \A i \in 2..k : bs[i] > n + 1
        PROVE  /\ \A i \in 1..(n + 1) : storage'[i] = s[i]
               /\ \A i \in 2..Len(bundles') : bundles'[i] > n + 1
    <3>1. /\ k \in Nat \ {0} /\ at = bs[k] /\ Len(bundles') = k - 1
          /\ \A i \in 1..(k - 1) : bundles'[i] = bs[i]
        BY <1>1, <1>3, FrontLast
    <3>2. \A i \in 2..(k - 1) : bundles'[i] > n + 1
      <4>1. \A i \in 2..(k - 1) : i \in 1..(k - 1) /\ i \in 2..k
          BY <3>1
      <4> QED
          BY <2>4, <3>1, <4>1
    <3>3. k = 1 \/ at > n + 1
      <4>1. k = 1 \/ k \in 2..k
          BY <3>1
      <4> QED
          BY <2>4, <3>1, <4>1
    <3>4. \A i \in 1..(n + 1) : i \in 1..l /\ (i # at \/ k = 1)
        BY <2>4, <3>3
    <3> QED
        BY <2>3, <3>1, <3>2, <3>4
  <2>5. bundles' \in Seq(Nat) /\ Len(storage) <= Len(storage')
      BY <1>1, <1>3, <1>5, <2>3
  <2>6. Spoilt'
      BY <1>1, <2>1, <2>3, <2>4, <2>5, SpoiltStays
  <2> QED
      BY <1>3, <1>8, <2>6 DEF ShapeInv
<1>9. topLevel = 1 \/ topLevel > 1
    BY <1>4, <1>6
<1> QED
    BY <1>6, <1>7, <1>8, <1>9 DEF ShapeInv

\* addMessage.
LEMMA AddShape ==
    ASSUME WriterInv, ShapeInv, NEW m \in Messages, AddMessage(m)
    PROVE  ShapeInv'
<1>1. PICK s \in Seq(Nat), bs \in Seq(Nat), ts \in Seq(Nat \X Nat), l \in Nat :
         /\ s = storage /\ bs = bundles /\ ts = openTags /\ l = Len(s) /\ Len(ts) = Len(bs)
         /\ bs = <<>> <=> ts = <<>>
    BY WriterFields
<1>2. topLevel \in Nat /\ added \in Seq(Entry)
    BY WriterFields
<1>3. PICK w \in Seq(Nat) : w = m /\ w # <<>>
    BY OscFormatAssumption
<1>4. PICK tag \in Nat \X Nat : tag = IF openTags = <<>> THEN Immediate ELSE Last(openTags)
  <2>1. CASE ts = <<>>
    <3>1. Immediate \in Nat \X Nat
        BY DEF Immediate
    <3> QED
        BY <1>1, <2>1, <3>1
  <2>2. CASE ts # <<>>
    <3>1. Last(ts) \in Nat \X Nat
        BY <2>2, FrontLast
    <3> QED
        BY <1>1, <2>2, <3>1
  <2> QED
      BY <2>1, <2>2
<1>5. PICK r \in Entry, e \in Elements :
         r = [words |-> m, tag |-> tag] /\ e = [words |-> m, tag |-> tag, found |-> <<r>>]
    BY MessageIsElement
<1>6. e.words = m /\ e.tag = tag /\ e.found = <<r>> /\ <<r>> \in Seq(Entry)
    BY <1>5
<1>7. /\ added' = Append(added, r) /\ bundles' = bundles /\ openTags' = openTags
      /\ topLevel' = IF bundles = <<>> THEN topLevel + 1 ELSE topLevel
      /\ storage = <<>> \/ bundles # <<>>
    BY <1>4, <1>5 DEF AddMessage, NewItem, NeedsBundle
<1>8. added' = added \o <<r>>
    BY <1>2, <1>7, AppendIsConcat
<1>9. storage' = storage \o Packed(m)
    BY DEF AddMessage
<1>10. CASE topLevel = 0
  <2>1. storage = <<>> /\ bundles = <<>> /\ added = <<>>
      BY <1>10 DEF ShapeInv
  <2>2. storage' = w
    <3>1. Packed(m) = <<>> \o w
        BY <1>3, <2>1 DEF Packed
    <3> QED
        BY <1>9, <2>1, <3>1, NothingJoined, Zenon
  <2>3. added' = <<r>>
      BY <1>6, <1>8, <2>1, NothingJoined, Zenon
  <2>4. tag = Immediate
      BY <1>1, <1>4, <2>1
  <2>5. e.words = storage' /\ e.tag = Immediate /\ e.found = added'
      BY <1>3, <1>6, <2>2, <2>3, <2>4
  <2>6. bundles' = <<>> /\ storage' # <<>>
      BY <1>3, <1>7, <2>1, <2>2
  <2>7. Closed'
      BY <2>5, <2>6 DEF Closed
  <2>8. topLevel' = 1
      BY <1>7, <1>10, <2>1
  <2> QED
      BY <2>7, <2>8 DEF ShapeInv
<1>11. ~Closed
    BY <1>7 DEF Closed
<1>12. CASE topLevel = 1 /\ Opened
  <2>1. PICK ms : ms = MarksOf(bs, ts)
      OBVIOUS
  <2>2. PICK es : InBundle(ms, es, s, added)
      BY <1>1, <1>12, <2>1 DEF Opened
  <2>3. bs # <<>> /\ ts # <<>>
    <3>1. ms # <<>>
        BY <2>2, InBundleTypes
    <3>2. bs # <<>>
        BY <1>1, <2>1, <3>1, MarksLess
    <3> QED
        BY <1>1, <3>2
  <2>4. Last(ms).tag = e.tag
    <3>1. Last(ms).tag = Last(ts)
        BY <1>1, <2>1, <2>3, MarksLess
    <3>2. tag = Last(ts)
        BY <1>1, <1>4, <2>3
    <3> QED
        BY <1>6, <3>1, <3>2
  <2>5. InBundle(ms, Append(es, e), s \o (<<4 * Len(e.words)>> \o e.words), added \o e.found)
      BY <2>2, <2>4, InBundleMore
  <2>6. storage' = s \o (<<4 * Len(e.words)>> \o e.words)
    <3>1. Packed(m) = <<4 * Len(m)>> \o m
        BY <1>1, <2>3 DEF Packed
    <3> QED
        BY <1>1, <1>6, <1>9, <3>1, Zenon
  <2>7. Opened'
    <3>1. added' = added \o e.found
        BY <1>6, <1>8, Zenon
    <3>2. MarksOf(bundles', openTags') = ms
        BY <1>1, <1>7, <2>1, Zenon
    <3> QED
        BY <2>5, <2>6, <3>1, <3>2, Zenon DEF Opened
  <2>8. topLevel' = 1
      BY <1>1, <1>7, <1>12, <2>3
  <2> QED
      BY <2>7, <2>8 DEF ShapeInv
<1>13. CASE topLevel > 1
  <2>1. Spoilt
      BY <1>13 DEF ShapeInv
  <2>2. PICK more \in Seq(Nat) : more = Packed(m)
    <3>1. <<>> \o w \in Seq(Nat) /\ <<4 * Len(w)>> \o w \in Seq(Nat)
        BY SizedWords, NothingJoined
    <3>2. Packed(m) = <<>> \o w \/ Packed(m) = <<4 * Len(w)>> \o w
        BY <1>3 DEF Packed
    <3> QED
        BY <3>1, <3>2, Zenon
  <2>3. storage' = storage \o more
      BY <1>9, <2>2, Zenon
  <2>4. PICK b \in Nat : b = l
      OBVIOUS
  <2>5. Spoilt'
      BY <1>7, <2>1, <2>3, SpoiltGrows
  <2>6. topLevel' > 1
      BY <1>2, <1>7, <1>13
  <2> QED
      BY <1>2, <1>7, <2>5, <2>6 DEF ShapeInv
<1>14. topLevel = 0 \/ topLevel = 1 \/ topLevel > 1
    BY <1>2
<1> QED
    BY <1>10, <1>11, <1>12, <1>13, <1>14 DEF ShapeInv

\* What writes nothing leaves the shape.
LEMMA SameShape ==
    ASSUME ShapeInv, UNCHANGED <<storage, bundles, added, openTags, topLevel>>
    PROVE  ShapeInv'
<1>1. PICK s, b, a, o, n :
         s = storage /\ b = bundles /\ a = added /\ o = openTags /\ n = topLevel
    OBVIOUS
<1>2. storage' = s /\ bundles' = b /\ added' = a /\ openTags' = o /\ topLevel' = n
    BY <1>1
<1>3. Closed' <=> Closed
    BY <1>1, <1>2, Zenon DEF Closed
<1>4. Opened' <=> Opened
    BY <1>1, <1>2, Zenon DEF Opened
<1>5. Spoilt' <=> Spoilt
    BY <1>1, <1>2, Zenon DEF Spoilt
<1> QED
    BY <1>1, <1>2, <1>3, <1>4, <1>5, Zenon DEF ShapeInv

\* Every call of the writer keeps the shape, and at first there is none.
LEMMA CallShape == WriterInv /\ ShapeInv /\ WriterCall => ShapeInv'
<1> SUFFICES ASSUME WriterInv, ShapeInv, WriterCall PROVE ShapeInv'
    OBVIOUS
<1>1. CASE \E tag \in TimeTags : StartBundle(tag)
    BY <1>1, StartShape
<1>2. CASE EndBundle
    BY <1>2, EndShape
<1>3. CASE EndBundleUnopened
    BY <1>3, SameShape DEF EndBundleUnopened
<1>4. CASE \E m \in Messages : AddMessage(m)
    BY <1>4, AddShape
<1>5. CASE AddRefused
    BY <1>5, SameShape DEF AddRefused
<1> QED
    BY <1>1, <1>2, <1>3, <1>4, <1>5 DEF WriterCall

LEMMA FirstShape == WriterInit => ShapeInv
BY SMT DEF WriterInit, ShapeInv

\* A sequence that begins with another one is that one and some more.
LEMMA SomeMore ==
    ASSUME NEW a \in Seq(Nat), NEW w \in Seq(Nat), Len(a) < Len(w),
           \A i \in 1..Len(a) : w[i] = a[i]
    PROVE  \E more \in Seq(Nat) : w = a \o more /\ more # <<>> /\ more[1] = w[Len(a) + 1]
<1>1. PICK n \in Nat, l \in Nat : n = Len(a) /\ l = Len(w) /\ n < l
    BY LenProperties
<1>2. PICK more : more = SubSeq(w, n + 1, l)
    OBVIOUS
<1>3. more \in Seq(Nat) /\ Len(more) = l - n /\ \A i \in 1..(l - n) : more[i] = w[n + i]
  <2>1. \A i \in (n + 1)..l : w[i] \in Nat
    <3>1. \A i \in (n + 1)..l : i \in 1..l
        OBVIOUS
    <3> QED
        BY <1>1, <3>1, ElementOfSeq
  <2>2. /\ more \in Seq(Nat) /\ Len(more) = IF n + 1 <= l THEN l - (n + 1) + 1 ELSE 0
        /\ \A i \in 1..(l - (n + 1) + 1) : more[i] = w[(n + 1) + i - 1]
      BY <1>2, <2>1, SubSeqProperties
  <2>3. n + 1 <= l /\ l - (n + 1) + 1 = l - n
      BY <1>1
  <2>4. Len(more) = l - n /\ \A i \in 1..(l - n) : more[i] = w[(n + 1) + i - 1]
      BY <2>2, <2>3, Zenon
  <2>5. \A i \in 1..(l - n) : (n + 1) + i - 1 = n + i
      OBVIOUS
  <2>6. \A i \in 1..(l - n) : more[i] = w[n + i]
      BY <2>4, <2>5, Zenon
  <2> QED
      BY <2>2, <2>4, <2>6, Zenon
<1>4. PICK v \in Seq(Nat) : v = a \o more /\ Len(v) = l
  <2>1. a \o more \in Seq(Nat) /\ Len(a \o more) = Len(a) + Len(more)
      BY <1>3, WordsJoin
  <2>2. n + (l - n) = l
      OBVIOUS
  <2> QED
      BY <1>1, <1>3, <2>1, <2>2, Zenon
<1>5. ASSUME NEW i \in 1..l PROVE w[i] = v[i]
  <2>1. CASE i <= n
    <3>1. i \in 1..Len(a)
        BY <1>1, <2>1
    <3>2. (a \o more)[i] = a[i]
        BY <1>3, <3>1, WordsAt
    <3> QED
        BY <1>4, <3>1, <3>2, Zenon
  <2>2. CASE i > n
    <3>1. PICK j \in 1..(l - n) : i = n + j
      <4>1. i - n \in 1..(l - n) /\ i = n + (i - n)
          BY <1>1, <2>2
      <4> QED
          BY <4>1
    <3>2. \A k \in 1..Len(more) : (a \o more)[Len(a) + k] = more[k]
        BY <1>3, WordsAt
    <3>3. v[n + j] = more[j]
        BY <1>1, <1>3, <1>4, <3>2
    <3> QED
        BY <1>3, <3>1, <3>3
  <2> QED
      BY <1>1, <2>1, <2>2
<1>6. w = v
    BY <1>1, <1>4, <1>5, SeqEqual
<1>7. more # <<>> /\ more[1] = w[n + 1]
  <2>1. 1 \in 1..(l - n) /\ l - n # 0
      BY <1>1
  <2> QED
      BY <1>3, <2>1, EmptySeq
<1> QED
    BY <1>1, <1>3, <1>4, <1>6, <1>7

\* A second item outside all bundles: no message begins with another one, and
\* the first word of a bundle is no size of an element.
LEMMA SpoiltIsHopeless ==
    ASSUME WriterInv, Spoilt
    PROVE  Hopeless(storage)
<1>1. PICK e \in Elements : BeginsWith(e, storage, bundles)
    BY DEF Spoilt
<1>2. PICK s \in Seq(Nat), w \in Seq(Nat) : s = storage /\ w = e.words
    BY WriterFields, ElementFields
<1>3. /\ w # <<>> /\ Len(w) < Len(s)
      /\ \A i \in 1..Len(w) : s[i] = w[i]
      /\ s[Len(w) + 1] = BundleMark[1]
    BY <1>1, <1>2 DEF BeginsWith
<1>4. PICK more \in Seq(Nat) : s = w \o more /\ more # <<>> /\ more[1] = BundleMark[1]
  <2>1. \E more \in Seq(Nat) : s = w \o more /\ more # <<>> /\ more[1] = s[Len(w) + 1]
      BY <1>3, SomeMore
  <2> QED
      BY <1>3, <2>1, Zenon
<1>5. s # <<>> /\ s[1] = w[1]
    BY <1>3, <1>4, FirstWord
<1>6. CASE ~StartsWithHash(w[1])
  <2>1. w \in Messages
      BY <1>2, <1>3, <1>6, WhichElement
  <2>2. IsPrefix(w, s)
    <3>1. PICK n \in Nat, l \in Nat : n = Len(w) /\ l = Len(s) /\ n < l
        BY <1>3, LenProperties
    <3>2. \A i \in 1..n : w[i] \in Nat /\ s[i] \in Nat
        BY <1>3, <3>1, ElementOfSeq
    <3>3. PICK a \in Seq(Nat), b \in Seq(Nat) :
             /\ a = SubSeq(w, 1, n) /\ b = SubSeq(s, 1, n)
             /\ Len(a) = n /\ Len(b) = n
             /\ \A i \in 1..n : a[i] = w[i] /\ b[i] = s[i]
      <4>1. /\ SubSeq(w, 1, n) \in Seq(Nat) /\ Len(SubSeq(w, 1, n)) = n
            /\ \A i \in 1..n : SubSeq(w, 1, n)[i] = w[i]
          BY <3>2, SubSeqProperties
      <4>2. /\ SubSeq(s, 1, n) \in Seq(Nat) /\ Len(SubSeq(s, 1, n)) = n
            /\ \A i \in 1..n : SubSeq(s, 1, n)[i] = s[i]
          BY <3>2, SubSeqProperties
      <4> QED
          BY <4>1, <4>2
    <3>4. a = b
        BY <1>3, <3>1, <3>3, SeqEqual
    <3> QED
        BY <3>1, <3>3, <3>4 DEF IsPrefix
  <2>3. s \notin Messages
    <3>1. w # s
        BY <1>3, LenProperties
    <3> QED
        BY <2>1, <2>2, <3>1, OscFormatAssumption
  <2> QED
      BY <1>2, <1>5, <1>6, <2>3 DEF Hopeless
<1>7. CASE StartsWithHash(w[1])
  <2>1. PICK t \in Nat \X Nat, es \in Seq(Elements) : w = Bundle(t, es)
      BY <1>2, <1>3, <1>7, WhichElement
  <2>2. PICK c \in Seq(Nat) : c = Content(es)
    <3>1. es \in Seq(Element)
        BY ElementFields, SeqMonotonic
    <3> QED
        BY <3>1, ContentFacts
  <2>3. c \o <<>> = c /\ <<>> \in Seq(Nat)
      BY NothingJoined
  <2>4. w = Header(t) \o (Content(es) \o <<>>)
      BY <2>1, <2>2, <2>3, Zenon DEF Bundle
  <2>5. Broken(w)
      BY <2>3, <2>4 DEF Broken
  <2>6. more[1] % 4 # 0
    <3>1. BundleMark[1] \in Nat /\ BundleMark[1] % 4 = 2
        BY MarkFacts
    <3>2. PICK b \in Nat : b = BundleMark[1] /\ b % 4 = 2
        BY <3>1
    <3> QED
        BY <1>4, <3>2
  <2>7. Lost(s)
      BY <1>4, <2>5, <2>6, BrokenGoesOn
  <2> QED
      BY <1>2, <2>7, LostIsBroken
<1> QED
    BY <1>6, <1>7

-----------------------------------------------------------------------------
(* From the writer to the reader *)

\* Before the first step of parse, on a packet that is none.
LEMMA DoomedStart ==
    ASSUME storage \in Seq(Nat), Hopeless(storage), ReadPacket(storage, FALSE)
    PROVE  DoomedReading'
<1>1. PICK w \in Seq(Nat), n \in Nat : w = storage /\ n = Len(w)
    BY LenProperties
<1>2. PICK g : g = [kind |-> "item", pos |-> 0, end |-> n, tag |-> Immediate]
    OBVIOUS
<1>3. g.kind = "item" /\ g.pos = 0 /\ g.end = n
    BY <1>2
<1>4. packet' = w /\ frames' = <<g>>
    BY <1>1, <1>2 DEF ReadPacket
<1>5. Rest(w, g) = w
  <2>1. PICK s : s = SubSeq(w, 1, n)
      OBVIOUS
  <2>2. \A i \in 1..n : w[i] \in Nat
      BY <1>1, ElementOfSeq
  <2>3. s \in Seq(Nat) /\ Len(s) = n /\ \A i \in 1..n : s[i] = w[i]
      BY <2>1, <2>2, SubSeqProperties
  <2>4. s = w
      BY <1>1, <2>3, SeqEqual
  <2>5. Rest(w, g) = SubSeq(w, 0 + 1, n)
      BY <1>3 DEF Rest, Stretch
  <2> QED
      BY <2>1, <2>4, <2>5
<1>6. DoomedCall(w, g)
    BY <1>1, <1>3, <1>5 DEF DoomedCall
<1>7. frames' # <<>> /\ frames'[1] = g
    BY <1>4
<1> QED
    BY <1>4, <1>6, <1>7 DEF DoomedReading

\* A writer's packet is read to its end, and all is found; or it is not
\* well-built, and an error is or will be found.
ReadingInv == from = "writer" => GoodReading \/ (DoomedReading /\ ~WellBuilt)

\* Send: what the writer has built is either all there or lost.
LEMMA SendReads ==
    ASSUME WriterInv, ShapeInv, Send
    PROVE  ReadingInv'
<1>1. /\ storage # <<>> /\ ReadPacket(storage, FALSE)
      /\ added' = added /\ bundles' = bundles /\ topLevel' = topLevel
    BY DEF Send, writerVars
<1>2. WellBuilt' <=> WellBuilt
    BY <1>1 DEF WellBuilt
<1>3. topLevel \in Nat /\ topLevel # 0 /\ storage \in Seq(Nat)
    BY <1>1, WriterFields DEF ShapeInv
<1>4. ASSUME NEW e \in Elements, e.words = storage, e.tag = Immediate, e.found = added
      PROVE  GoodReading'
    BY <1>1, <1>4, GoodStart
<1>5. ASSUME Hopeless(storage) PROVE DoomedReading'
    BY <1>1, <1>3, <1>5, DoomedStart
<1>6. CASE topLevel = 1 /\ Closed
    BY <1>4, <1>6 DEF Closed, ReadingInv
<1>7. CASE topLevel = 1 /\ Opened
  <2>1. PICK es : InBundle(MarksOf(bundles, openTags), es, storage, added)
      BY <1>7 DEF Opened
  <2>2. bundles # <<>>
    <3>1. MarksOf(bundles, openTags) # <<>>
        BY <2>1, InBundleTypes
    <3> QED
        BY <3>1, WriterFields, MarksLess
  <2>3. ~WellBuilt'
      BY <1>2, <2>2 DEF WellBuilt
  <2>4. \/ Hopeless(storage)
        \/ \E e \in Elements : e.words = storage /\ e.tag = Immediate /\ e.found = added
      BY <2>1, InBundleSent
  <2>5. GoodReading' \/ DoomedReading'
      BY <1>4, <1>5, <2>4
  <2> QED
      BY <2>3, <2>5 DEF ReadingInv
<1>8. CASE topLevel > 1
  <2>1. Hopeless(storage)
      BY <1>8, SpoiltIsHopeless DEF ShapeInv
  <2>2. ~WellBuilt'
      BY <1>2, <1>8 DEF WellBuilt
  <2> QED
      BY <1>5, <2>1, <2>2 DEF ReadingInv
<1>9. (topLevel = 1 /\ (Closed \/ Opened)) \/ topLevel > 1
    BY <1>3 DEF ShapeInv
<1> QED
    BY <1>6, <1>7, <1>8, <1>9

\* popMessage, and a step that changes nothing, leave what is to be found.
LEMMA SameReading ==
    ASSUME ReadingInv, from' = from,
           UNCHANGED <<packet, frames, messages, readErr, added, topLevel, bundles>>
    PROVE  ReadingInv'
<1>1. GoodReading' <=> GoodReading
  <2>1. (readErr <=> readErr')
      OBVIOUS
  <2>2. /\ packet' = packet /\ frames' = frames /\ messages' = messages /\ added' = added
      OBVIOUS
  <2>3. (\E d \in Seq(Entry) : Due(packet', frames', d) /\ messages' \o d = added') <=>
        (\E d \in Seq(Entry) : Due(packet, frames, d) /\ messages \o d = added)
      BY <2>2, Zenon
  <2> QED
      BY <2>1, <2>3, Zenon DEF GoodReading
<1>2. DoomedReading' <=> DoomedReading
  <2>1. (readErr <=> readErr') /\ packet' = packet /\ frames' = frames
      OBVIOUS
  <2> QED
      BY <2>1, Zenon DEF DoomedReading
<1>3. WellBuilt' <=> WellBuilt
    BY DEF WellBuilt
<1> QED
    BY <1>1, <1>2, <1>3, Zenon DEF ReadingInv

\* Parse: the reading goes on as it began.
LEMMA ParseReads ==
    ASSUME ReaderInv, ReadingInv, Parse, UNCHANGED writerVars, from' = from
    PROVE  ReadingInv'
<1>1. added' = added /\ bundles' = bundles /\ topLevel' = topLevel
    BY DEF writerVars
<1>2. WellBuilt' <=> WellBuilt
    BY <1>1 DEF WellBuilt
<1>3. GoodReading => GoodReading'
    BY <1>1, GoodParse
<1>4. DoomedReading => DoomedReading'
    BY DoomedParse
<1> QED
    BY <1>2, <1>3, <1>4, Zenon DEF ReadingInv

\* What was handed out are the first messages of the list.
HandedOutFirst ==
    ~readErr =>
        /\ Len(delivered) <= Len(messages)
        /\ \A i \in 1..Len(delivered) : delivered[i] = messages[i]

\* parse hands out nothing.
LEMMA ParseHandsOut ==
    ASSUME ReaderInv, Parse
    PROVE  HandedOutFirst'
<1>1. delivered' = <<>> /\ ReaderInv'
  <2>1. frames # <<>>
      BY DEF Parse, ParseNothing, ParseMessage, ParseBadMessage, AtMessage, OpenBundle, BadBundle,
             AtHash, ParseElement, BadElement, AtElement, BundleDone, In
  <2>2. delivered = <<>>
      BY <2>1 DEF ReaderInv, NothingEarly
  <2>3. delivered' = delivered
      BY DEF Parse, ParseNothing, ParseMessage, ParseBadMessage, OpenBundle, BadBundle,
             ParseElement, BadElement, BundleDone, ReadFails
  <2> QED
      BY <2>2, <2>3, ParseKeeps
<1>2. ASSUME ~readErr' PROVE Len(messages') \in Nat
  <2>1. messages' \in Seq([words : Messages, tag : Nat \X Nat])
      BY <1>1, <1>2 DEF ReaderInv, FoundMessages
  <2> QED
      BY <2>1, LenProperties
<1>3. Len(delivered') = 0
    BY <1>1, EmptySeq
<1> QED
    BY <1>2, <1>3 DEF HandedOutFirst

\* popMessage hands out the next one of the list.
LEMMA PopHandsOut ==
    ASSUME ReaderInv, HandedOutFirst, PopMessage
    PROVE  HandedOutFirst'
<1>1. ~readErr /\ Len(delivered) < Len(messages) /\ messages' = messages
      /\ delivered' = Append(delivered, messages[Len(delivered) + 1])
    BY DEF PopMessage, NoErr, MessageLeft
<1>2. messages \in Seq([words : Messages, tag : Nat \X Nat])
    BY <1>1 DEF ReaderInv, FoundMessages
<1>3. PICK d \in Seq([words : Messages, tag : Nat \X Nat]), k \in Nat, n \in Nat :
         d = delivered /\ k = Len(d) /\ n = Len(messages) /\ k < n
  <2>1. delivered \in Seq([words : Messages, tag : Nat \X Nat])
      BY DEF ReaderInv, ReaderTypes
  <2> QED
      BY <1>1, <1>2, <2>1, LenProperties
<1>4. PICK m \in [words : Messages, tag : Nat \X Nat] : m = messages[k + 1]
  <2>1. k + 1 \in 1..n
      BY <1>3
  <2> QED
      BY <1>2, <1>3, <2>1, ElementOfSeq
<1>5. PICK e : e = Append(d, m) /\ delivered' = e
    BY <1>1, <1>3, <1>4
<1>6. Len(e) = k + 1 /\ e[k + 1] = m /\ \A i \in 1..k : e[i] = d[i]
    BY <1>3, <1>5, AppendProperties
<1>7. \A i \in 1..k : d[i] = messages[i]
    BY <1>1, <1>3 DEF HandedOutFirst
<1>8. \A i \in 1..(k + 1) : i \in 1..k \/ i = k + 1
    OBVIOUS
<1>9. \A i \in 1..(k + 1) : e[i] = messages[i]
    BY <1>4, <1>6, <1>7, <1>8, Zenon
<1>10. k + 1 <= n
    BY <1>3
<1> QED
    BY <1>1, <1>3, <1>5, <1>6, <1>9, <1>10, Zenon DEF HandedOutFirst

\* A new packet: nothing was handed out of it.
LEMMA PacketHandsOut ==
    ASSUME delivered' = <<>>, messages' = <<>>
    PROVE  HandedOutFirst'
<1>1. Len(<<>>) = 0
    BY EmptySeq
<1> QED
    BY <1>1 DEF HandedOutFirst

-----------------------------------------------------------------------------
(* The round trip *)

RoundInv == PacketInv /\ ShapeInv /\ ReadingInv /\ HandedOutFirst

\* Every step keeps it.
LEMMA RoundNext == RoundInv /\ [Next]_vars => RoundInv'
<1> SUFFICES ASSUME RoundInv, [Next]_vars PROVE RoundInv'
    OBVIOUS
<1>1. WriterInv /\ ReaderInv /\ ShapeInv /\ ReadingInv /\ HandedOutFirst
    BY DEF RoundInv, PacketInv
<1>2. PacketInv'
    BY PacketNext DEF RoundInv
<1>3. ASSUME UNCHANGED writerVars PROVE ShapeInv'
    BY <1>1, <1>3, SameShape DEF writerVars
<1>4. ASSUME UNCHANGED readerVars PROVE HandedOutFirst'
    BY <1>1, <1>4 DEF readerVars, HandedOutFirst
<1>5. CASE Build
  <2>1. WriterCall /\ UNCHANGED readerVars /\ from' = "none"
      BY <1>5 DEF Build
  <2> QED
      BY <1>1, <1>2, <1>4, <2>1, CallShape DEF RoundInv, ReadingInv
<1>6. CASE Send
  <2>1. UNCHANGED writerVars /\ delivered' = <<>> /\ messages' = <<>>
      BY <1>6 DEF Send, ReadPacket
  <2> QED
      BY <1>1, <1>2, <1>3, <1>6, <2>1, SendReads, PacketHandsOut DEF RoundInv
<1>7. CASE ForeignArrives
  <2>1. /\ UNCHANGED writerVars /\ delivered' = <<>> /\ messages' = <<>>
        /\ from' = "foreign"
      BY <1>7 DEF ForeignArrives, ReadPacket
  <2> QED
      BY <1>2, <1>3, <2>1, PacketHandsOut DEF RoundInv, ReadingInv
<1>8. CASE Read
  <2>1. UNCHANGED writerVars /\ from' = from
      BY <1>8 DEF Read
  <2>2. CASE Parse
      BY <1>1, <1>2, <1>3, <2>1, <2>2, ParseReads, ParseHandsOut DEF RoundInv
  <2>3. CASE PopMessage
    <3>1. ReadingInv'
        BY <1>1, <2>1, <2>3, SameReading DEF PopMessage, writerVars
    <3> QED
        BY <1>1, <1>2, <1>3, <2>1, <2>3, <3>1, PopHandsOut DEF RoundInv
  <2> QED
      BY <1>8, <2>2, <2>3 DEF Read
<1>9. CASE UNCHANGED vars
  <2>1. UNCHANGED writerVars /\ UNCHANGED readerVars /\ from' = from
      BY <1>9 DEF vars
  <2>2. ReadingInv'
      BY <1>1, <2>1, SameReading DEF writerVars, readerVars
  <2> QED
      BY <1>2, <1>3, <1>4, <2>1, <2>2 DEF RoundInv
<1> QED
    BY <1>5, <1>6, <1>7, <1>8, <1>9 DEF Next

\* The first messages of a list are a beginning of it.
LEMMA FirstAreBeginning ==
    ASSUME NEW S, NEW d \in Seq(S), NEW m \in Seq(S), Len(d) <= Len(m),
           \A i \in 1..Len(d) : d[i] = m[i]
    PROVE  IsPrefix(d, m)
<1>1. PICK n \in Nat, l \in Nat : n = Len(d) /\ l = Len(m) /\ n <= l
    BY LenProperties
<1>2. \A i \in 1..n : d[i] \in S /\ m[i] \in S
    BY <1>1, ElementOfSeq
<1>3. PICK a \in Seq(S), b \in Seq(S) :
         /\ a = SubSeq(d, 1, n) /\ b = SubSeq(m, 1, n)
         /\ Len(a) = n /\ Len(b) = n
         /\ \A i \in 1..n : a[i] = d[i] /\ b[i] = m[i]
  <2>1. /\ SubSeq(d, 1, n) \in Seq(S) /\ Len(SubSeq(d, 1, n)) = n
        /\ \A i \in 1..n : SubSeq(d, 1, n)[i] = d[i]
      BY <1>2, SubSeqProperties
  <2>2. /\ SubSeq(m, 1, n) \in Seq(S) /\ Len(SubSeq(m, 1, n)) = n
        /\ \A i \in 1..n : SubSeq(m, 1, n)[i] = m[i]
      BY <1>2, SubSeqProperties
  <2> QED
      BY <2>1, <2>2
<1>4. a = b
    BY <1>1, <1>3, SeqEqual
<1> QED
    BY <1>1, <1>3, <1>4 DEF IsPrefix

\* When the reading is over, the invariant is what the run checks.
LEMMA RoundIsRoundTrip == RoundInv => RoundTrip
<1> SUFFICES ASSUME RoundInv, from = "writer", frames = <<>>
             PROVE  /\ IsPrefix(delivered, added)
                    /\ readErr \/ messages = added
                    /\ WellBuilt => ~readErr
    BY DEF RoundTrip
<1>1. ReaderInv /\ WriterInv /\ HandedOutFirst
    BY DEF RoundInv, PacketInv
<1>2. GoodReading \/ (DoomedReading /\ ~WellBuilt)
    BY DEF RoundInv, ReadingInv
<1>3. added \in Seq(Entry)
    BY <1>1, WriterFields
<1>4. CASE GoodReading
  <2>1. PICK d \in Seq(Entry) : Due(packet, frames, d) /\ messages \o d = added
      BY <1>4 DEF GoodReading
  <2>2. d = <<>> /\ ~readErr
      BY <1>4, <2>1, DueNone DEF GoodReading
  <2>3. messages \in Seq(Entry)
      BY <1>1 DEF ReaderInv, ReaderTypes, Entry
  <2>4. messages = added
      BY <2>1, <2>2, <2>3, NothingJoined, Zenon
  <2>5. delivered \in Seq(Entry)
    <3>1. [words : Messages, tag : Nat \X Nat] \subseteq Entry
        BY OscFormatAssumption DEF Entry
    <3> QED
        BY <1>1, <3>1, SeqMonotonic DEF ReaderInv, ReaderTypes
  <2>6. IsPrefix(delivered, messages)
      BY <1>1, <2>2, <2>3, <2>5, FirstAreBeginning DEF HandedOutFirst
  <2> QED
      BY <2>2, <2>4, <2>6
<1>5. CASE DoomedReading /\ ~WellBuilt
  <2>1. readErr
      BY <1>5 DEF DoomedReading
  <2>2. delivered = <<>>
      BY <1>1, <2>1 DEF ReaderInv, NothingEarly
  <2>3. IsPrefix(<<>>, added)
    <3>1. PICK d \in Seq(Entry) : d = <<>> /\ Len(d) = 0
        BY EmptySeq
    <3>2. Len(added) \in Nat
        BY <1>3, LenProperties
    <3>3. Len(d) <= Len(added) /\ \A i \in 1..Len(d) : d[i] = added[i]
        BY <3>1, <3>2
    <3>4. IsPrefix(d, added)
        BY <1>3, <3>3, FirstAreBeginning
    <3> QED
        BY <3>1, <3>4
  <2> QED
      BY <1>5, <2>1, <2>2, <2>3
<1> QED
    BY <1>2, <1>4, <1>5

\* Whatever calls built a packet, nested, unclosed and empty bundles included,
\* for any messages, none of which begins with another one: the reader hands
\* out nothing but the messages that were added, in their order and with their
\* bundle's time tag; all of them, if the packet is well-built, and all of them
\* or none, if it is not.
THEOREM PacketRoundTrip == Spec => []RoundTrip
<1>1. Init => RoundInv
  <2> SUFFICES ASSUME Init PROVE RoundInv
      OBVIOUS
  <2>1. PacketInv
      BY PacketInit
  <2>2. ShapeInv
      BY FirstShape DEF Init
  <2>3. HandedOutFirst
    <3>1. Len(<<>>) = 0
        BY EmptySeq
    <3> QED
        BY <3>1 DEF Init, ReaderIdle, HandedOutFirst
  <2> QED
      BY <2>1, <2>2, <2>3 DEF Init, RoundInv, ReadingInv
<1>2. RoundInv /\ [Next]_vars => RoundInv'
    BY RoundNext
<1>3. RoundInv => RoundTrip
    BY RoundIsRoundTrip
<1> QED
    BY <1>1, <1>2, <1>3, PTL DEF Spec
=============================================================================
