----------------------------- MODULE OscFormat -----------------------------
(***************************************************************************)
(* The words an OSC packet is made of (src/oscpkt/oscpkt.hh).  A packet is *)
(* a sequence of 32-bit words; pod2bytes and bytes2pod keep a number's     *)
(* most significant byte first, so a word that holds text is the number    *)
(* its four bytes spell.                                                   *)
(*                                                                         *)
(* A message is opaque here: the sequence of words Message::packMessage    *)
(* writes, and the one Message::buildFromRawData accepts.  Its type tags   *)
(* say how long its arguments are, so a message with words missing or too  *)
(* many is not a message.                                                  *)
(***************************************************************************)
EXTENDS Naturals, Sequences, SequencesExt

CONSTANT Messages      \* the messages, each a sequence of words

BundleMark == <<593655150, 1684825344>>     \* "#bun", "dle\0"
Immediate == <<0, 1>>                       \* TimeTag::immediate()

\* The first byte of the word is '#'.
StartsWithHash(word) == word \div 16777216 = 35

ASSUME OscFormatAssumption ==
    /\ Messages \subseteq Seq(Nat)
    /\ \A m \in Messages : m # <<>> /\ ~StartsWithHash(m[1])
    /\ \A m \in Messages, n \in Messages : IsPrefix(m, n) => m = n
=============================================================================
