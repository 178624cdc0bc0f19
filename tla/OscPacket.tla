----------------------------- MODULE OscPacket -----------------------------
(***************************************************************************)
(* A client's PacketWriter and the daemon's PacketReader: the writer is    *)
(* called in any order, and what it built is sent if it says isOk(); or a  *)
(* packet comes from another program.  The reader parses the packet, and   *)
(* the daemon takes its messages.                                          *)
(***************************************************************************)
EXTENDS OscWriter, OscReader

CONSTANT Foreign    \* packets of other programs, any words

ASSUME OscPacketAssumption ==
    /\ TimeTags \subseteq Nat \X Nat
    /\ MaxCalls \in Nat
    /\ Foreign \subseteq Seq(Nat)

VARIABLE from       \* history: where the packet being read came from

vars == <<writerVars, readerVars, from>>

Init ==
    /\ WriterInit
    /\ ReaderIdle
    /\ from = "none"

Build ==
    /\ from = "none"
    /\ WriterCall
    /\ UNCHANGED <<readerVars, from>>

\* if (pkt.isOk()) send(pkt.data(), pkt.size()); a packet of no bytes is not sent.
Send ==
    /\ from = "none"
    /\ ~err
    /\ storage # <<>>
    /\ ReadPacket(storage, FALSE)
    /\ from' = "writer"
    /\ UNCHANGED writerVars

ForeignArrives ==
    /\ from = "none"
    /\ calls = 0
    /\ \E p \in Foreign, unaligned \in BOOLEAN : ReadPacket(p, unaligned)
    /\ from' = "foreign"
    /\ UNCHANGED writerVars

Read ==
    /\ Parse \/ PopMessage
    /\ UNCHANGED <<writerVars, from>>

Next == Build \/ Send \/ ForeignArrives \/ Read

\* The reader's calls run to their end.
Spec == Init /\ [][Next]_vars /\ WF_vars(Read)

-----------------------------------------------------------------------------
(* Properties *)

\* The types of the writer's and the reader's state.
TypeOK ==
    /\ WriterTypes /\ ReaderTypes
    /\ from \in {"none", "writer", "foreign"}

\* The packet holds one item, as the writer's comments ask for, and all its
\* bundles are closed.
WellBuilt == topLevel = 1 /\ bundles = <<>>

\* Whatever calls built a packet, nested, unclosed and empty bundles included,
\* the reader never hands out anything but the messages that were added, in
\* their order and with their bundle's time tag; a well-built packet is
\* accepted and yields all of them, and any other yields all of them or none.
RoundTrip ==
    from = "writer" /\ frames = <<>> =>
        /\ IsPrefix(delivered, added)
        /\ readErr \/ messages = added
        /\ WellBuilt => ~readErr

\* A packet with an error anywhere yields no message at all: none is handed
\* out before the whole packet was found to be well formed.
AllOrNothing == frames # <<>> \/ readErr => delivered = <<>>

\* Reading comes to an end, with an error or with every message handed out.
ReadingEnds ==
    from # "none" ~> frames = <<>> /\ (readErr \/ delivered = messages)

\* The comment on PacketWriter::isOk: the error flag will be raised if an
\* opened bundle is not closed.  So a packet that is sent has no open bundle.
SentIsClosed == from = "writer" => bundles = <<>>
=============================================================================
