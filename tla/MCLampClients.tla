--------------------------- MODULE MCLampClients ---------------------------
(* Texts of up to six characters and texts as long as the buffer, names of   *)
(* up to three, messages with zeros around the buffer's size, the integers   *)
(* around every boundary of the arithmetic, patterns built from every        *)
(* special character, and messages of up to two arguments.  Foreign packets  *)
(* are a head, type tags and up to three words, padded right or wrong.       *)
EXTENDS LampClients

UpTo(n, S) == UNION {[1..k -> S] : k \in 0..n}

Repeat(n, c) == [i \in 1..n |-> c]
Digits123456 == <<49, 50, 51, 52, 53, 54>>
MCTexts ==
    UpTo(6, {49, 70, 32, Dash}) \cup UpTo(4, {0, 9, 49})
    \cup {Digits123456 \o <<55>>, <<97, 98, 67, 68, 101, 70>>, <<Plus, 49, 50, 51>>,
          <<50, 120, 51, 52>>, <<49, 9, 50, 11, 12, 51>>}
    \cup {Repeat(n, 32) \o Digits123456 : n \in {1013, 1014, 1015}}
MCStale == {<<>>, <<51, 52, 53, 54>>}
MCMessages == UpTo(2, {0, 10, 49}) \cup {[i \in 1..n |-> i % 256] : n \in {1018, 1019, 1020}}
MCNames == UpTo(3, {48, 50, 65, Dash, Slash})
MCNumbers == {-MaxInt - 1, -MaxInt, -541, -540, -361, -360, -181, -180, -179, -90, -1, 0, 1, 90,
              179, 180, 254, 255, 256, 359, 360, 540, 720, MaxInt - 180, MaxInt - 179, MaxInt}
MCControllers == {0, 2, 4, 16, 21, 28, 40}
MCPositions == {0, 127}

MCValues ==
    {[tag |-> t, bytes |-> <<>>] : t \in Bools \cup {StringTag, BlobTag}}
    \cup {[tag |-> t, bytes |-> b] : t \in {StringTag}, b \in {<<97>>, <<97, 98, 99>>}}
    \cup {[tag |-> BlobTag, bytes |-> b] : b \in {<<0, 98, 99>>, <<0, 0, 0, 4>>}}
    \cup {[tag |-> Int32Tag, bytes |-> <<255, 0, 0, 4>>],
          [tag |-> DoubleTag, bytes |-> <<1, 2, 3, 4, 5, 6, 7, 8>>]}
MCArgLists == LET few == {Int32(1), [tag |-> FloatTag, bytes |-> <<63, 128, 0, 0>>],
                          [tag |-> StringTag, bytes |-> <<49>>]}
              IN  UpTo(4, few)
MCAddresses == {<<Slash>>, <<Slash, 97, 98>>, <<97>>}
MCTests == {<<Slash, Star>>, <<Slash, 97>>}
MCPopTags == {TrueTag, AnyType, Int32Tag, BlobTag}

MCWords == {<<0, 0, 0, 0>>, <<0, 0, 0, 1>>, <<0, 0, 0, 4>>, <<255, 255, 255, 252>>,
            <<255, 255, 255, 255>>, <<127, 255, 255, 255>>, <<97, 0, 0, 0>>,
            <<97, 98, 99, 100>>, <<97, 0, 98, 0>>}
MCHeads == {<<Slash, 97, 0, 0>>, <<97, 0, 0, 0>>, <<Slash, 97, 98, 99>>, <<Slash, 0, 97, 0>>}
MCTagWords == {<<Comma, 0, 0, 0>>, <<Comma, BlobTag, 0, 0>>, <<Comma, StringTag, BlobTag, 0>>,
               <<Comma, BlobTag, StringTag, 0>>, <<Comma, Int32Tag, TrueTag, 0>>,
               <<Comma, 120, 0, 0>>, <<Int32Tag, 0, 0, 0>>, <<Comma, Int32Tag, 0, 1>>,
               <<Comma, DoubleTag, 0, 0>>}
MCForeign ==
    MCHeads
    \cup {h \o t \o w : h \in MCHeads, t \in MCTagWords, w \in {<<>>, <<0, 0, 0, 4>>}}
    \cup {<<Slash, 97, 0, 0>> \o t \o v \o w : t \in MCTagWords, v \in MCWords, w \in MCWords \cup {<<>>}}

MCPatterns ==
    UpTo(3, {97, Star, Slash, Question, LBracket, RBracket, LBrace, RBrace})
    \cup {<<LBrace>> \o x \o <<RBrace, 97>> : x \in [1..3 -> {97, Comma, Star}]}
    \cup {<<LBracket>> \o x \o <<RBracket, Star>> : x \in [1..3 -> {97, 98, Bang, Dash}]}
    \cup [1..4 -> {97, Star, Slash}]
    \cup {<<LBrace, 97, Comma, 97, 98, Comma, RBrace>> \o x : x \in UpTo(2, {98, Slash, Star})}
    \cup {<<LBracket, x, Dash, y, RBracket>> : x \in {97, 200}, y \in {97, 200, 201}}
MCPaths == UpTo(3, {97, 98, Slash}) \cup {<<200>>}
=============================================================================
