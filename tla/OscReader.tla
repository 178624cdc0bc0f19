----------------------------- MODULE OscReader -----------------------------
(***************************************************************************)
(* PacketReader (src/oscpkt/oscpkt.hh): init parses the whole packet, a    *)
(* bundle inside a bundle by a recursive call, and collects the messages;  *)
(* popMessage then hands them out.                                         *)
(*                                                                         *)
(* The calls of parse in progress are a stack of frames.  The innermost    *)
(* one is last; "item": the words from pos to end are yet to be looked at, *)
(* "bundle": the do loop is at pos.                                        *)
(***************************************************************************)
EXTENDS OscFormat

VARIABLES
    packet,        \* the words being read
    frames,        \* the calls of parse in progress
    messages,      \* the list of messages found
    readErr,       \* the error flag
    delivered,     \* history: what popMessage handed out
    used           \* history: how many words were taken as a part of something

readerVars == <<packet, frames, messages, readErr, delivered, used>>

ReaderIdle ==
    /\ packet = <<>> /\ frames = <<>>
    /\ messages = <<>> /\ readErr = FALSE
    /\ delivered = <<>> /\ used = 0

\* PacketReader::init; unaligned: the size is not a multiple of four.
ReadPacket(words, unaligned) ==
    /\ packet' = words
    /\ messages' = <<>> /\ delivered' = <<>> /\ used' = 0
    /\ readErr' = unaligned
    /\ frames' = IF unaligned THEN <<>>
                 ELSE <<[kind |-> "item", pos |-> 0, end |-> Len(words),
                         tag |-> Immediate]>>

In(kind) == frames # <<>> /\ Last(frames).kind = kind

Word(i) == packet[Last(frames).pos + i]     \* the i-th word that is left

Remaining == Last(frames).end - Last(frames).pos

\* An error ends all the calls in progress.
ReadFails ==
    /\ readErr' = TRUE
    /\ frames' = <<>>
    /\ UNCHANGED <<packet, delivered, used>>

-----------------------------------------------------------------------------
(* parse *)

ParseNothing ==
    /\ In("item")
    /\ Remaining = 0
    /\ frames' = Front(frames)
    /\ UNCHANGED <<packet, messages, readErr, delivered, used>>

ItemWords == SubSeq(packet, Last(frames).pos + 1, Last(frames).end)

Found == messages' = Append(messages, [words |-> ItemWords, tag |-> Last(frames).tag])

AtMessage == In("item") /\ Remaining > 0 /\ ~StartsWithHash(Word(1))

ParseMessage ==
    /\ AtMessage
    /\ ItemWords \in Messages
    /\ Found
    /\ frames' = Front(frames)
    /\ used' = used + Remaining
    /\ UNCHANGED <<packet, readErr, delivered>>

\* buildFromRawData rejects it; it is in the list, but nobody gets the list.
ParseBadMessage ==
    /\ AtMessage
    /\ ItemWords \notin Messages
    /\ Found
    /\ ReadFails

AtHash == In("item") /\ Remaining > 0 /\ StartsWithHash(Word(1))

\* The header and at least one word.
HasHeader == Remaining >= 5 /\ <<Word(1), Word(2)>> = BundleMark

OpenBundle ==
    /\ AtHash
    /\ HasHeader
    /\ frames' = Append(Front(frames),
          [Last(frames) EXCEPT !.kind = "bundle", !.pos = @ + 4,
                               !.tag = <<Word(3), Word(4)>>])
    /\ used' = used + 4
    /\ UNCHANGED <<packet, messages, readErr, delivered>>

BadBundle ==
    /\ AtHash
    /\ ~HasHeader
    /\ ReadFails
    /\ UNCHANGED messages

AtElement == In("bundle") /\ Remaining > 0

\* Mutated form: the word that holds the size is counted as well.
SizeFitsLoosely == Word(1) % 4 = 0 /\ Word(1) \div 4 <= Remaining

\* The size is a multiple of four and no larger than what is behind it.
SizeFits == Word(1) % 4 = 0 /\ 1 + Word(1) \div 4 <= Remaining

\* Mutated form: the loop goes on behind the size, not behind the element.
NextElementInside(f) == f.pos + 1

\* Where the loop goes on after the element at its position.
NextElement(f) == f.pos + 1 + packet[f.pos + 1] \div 4

ParseElement ==
    /\ AtElement
    /\ SizeFits
    /\ LET f == Last(frames)
           outer == [f EXCEPT !.pos = NextElement(f)]
           inner == [f EXCEPT !.kind = "item", !.pos = @ + 1,
                              !.end = f.pos + 1 + Word(1) \div 4]
       IN  frames' = Front(frames) \o <<outer, inner>>
    /\ used' = used + 1
    /\ UNCHANGED <<packet, messages, readErr, delivered>>

BadElement ==
    /\ AtElement
    /\ ~SizeFits
    /\ ReadFails
    /\ UNCHANGED messages

BundleDone ==
    /\ In("bundle")
    /\ Remaining = 0
    /\ frames' = Front(frames)
    /\ UNCHANGED <<packet, messages, readErr, delivered, used>>

Parse ==
    \/ ParseNothing \/ ParseMessage \/ ParseBadMessage
    \/ OpenBundle \/ BadBundle
    \/ ParseElement \/ BadElement \/ BundleDone

-----------------------------------------------------------------------------
(* popMessage *)

\* Mutated form: the messages found before an error are handed out.
NothingWrong == TRUE

NoErr == ~readErr

\* Mutated form: the last message of the list counts as its end.
AllButOneLeft == Len(delivered) + 1 < Len(messages)

MessageLeft == Len(delivered) < Len(messages)

PopMessage ==
    /\ frames = <<>>
    /\ NoErr
    /\ MessageLeft
    /\ delivered' = Append(delivered, messages[Len(delivered) + 1])
    /\ UNCHANGED <<packet, frames, messages, readErr, used>>

-----------------------------------------------------------------------------
(* Properties *)

\* The words the calls fs have yet to look at, all together.
PendingIn(fs) ==
    LET sum[i \in 0..Len(fs)] ==
            IF i = 0 THEN 0 ELSE sum[i - 1] + (fs[i].end - fs[i].pos)
    IN  sum[Len(fs)]

\* Whatever the sizes in the packet say, every call of parse stays inside its
\* element, its element inside the bundle around it, and the bundle goes on
\* where the element ends.
StaysInside ==
    /\ \A i \in DOMAIN frames :
        /\ 0 <= frames[i].pos /\ frames[i].pos <= frames[i].end
        /\ frames[i].end <= Len(packet)
    /\ \A i \in 1..(Len(frames) - 1) :
        /\ frames[i].kind = "bundle"
        /\ frames[i + 1].end = frames[i].pos

\* Every word of the packet is used once: as a header, as a size or in one
\* message.  So a packet that was read without an error was read in full.
EveryWordUsedOnce == ~readErr => used + PendingIn(frames) = Len(packet)

ReaderTypes ==
    /\ packet \in Seq(Nat)
    /\ frames \in Seq([kind : {"item", "bundle"}, pos : Nat, end : Nat,
                       tag : Nat \X Nat])
    /\ messages \in Seq([words : Seq(Nat), tag : Nat \X Nat])
    /\ readErr \in BOOLEAN
    /\ delivered \in Seq([words : Messages, tag : Nat \X Nat])
    /\ used \in Nat
=============================================================================
