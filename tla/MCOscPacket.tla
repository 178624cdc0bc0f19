---------------------------- MODULE MCOscPacket ----------------------------
(* Two messages, the second with an argument that looks like a size, two     *)
(* time tags; and foreign packets: of up to two words, of a bundle's header  *)
(* and up to four words, and of a header, a size, the header of a nested     *)
(* bundle and up to three words.                                             *)
EXTENDS OscPacket

Slash == 796393472                \* "/x\0\0"
Tags(t) == 738197504 + t * 65536  \* "," and one type tag
MCMessages == {<<Slash, Tags(0)>>, <<Slash, Tags(105), 4>>}
MCTimeTags == {Immediate, <<7, 0>>}

MCWords == {Slash, Tags(0), BundleMark[1], BundleMark[2], 0, 2, 8, 20}
MCForeign ==
    {BundleMark \o Immediate \o tail : tail \in UNION {[1..n -> MCWords] : n \in 0..4}}
    \cup UNION {[1..n -> MCWords] : n \in 0..2}
    \cup {BundleMark \o Immediate \o <<size>> \o BundleMark \o Immediate \o tail :
             size \in {16, 20, 24, 28}, tail \in UNION {[1..n -> MCWords] : n \in 0..3}}
=============================================================================
