---------------------------- MODULE PatternMatch ----------------------------
(***************************************************************************)
(* OSC address patterns (src/oscpkt/oscpkt.hh: internalPatternMatch and    *)
(* its two callers), and what a pattern means.  Patterns and paths are     *)
(* sequences of character codes; the place behind the last character is    *)
(* where C has the terminating 0.                                          *)
(***************************************************************************)
EXTENDS Integers, Sequences, SequencesExt

Bang == 33
Star == 42
Comma == 44
Dash == 45
Slash == 47
Question == 63
LBracket == 91
RBracket == 93
LBrace == 123
RBrace == 125

\* The character at place i, 0 behind the end.
At(s, i) == IF i \in DOMAIN s THEN s[i] ELSE 0

\* The first place from i on that holds one of the characters, 0 if none does.
Seek(s, i, chars) ==
    LET places == {j \in DOMAIN s : j >= i /\ s[j] \in chars}
    IN  IF places = {} THEN 0 ELSE Min(places)

\* The first place from i on that does not hold c.
Skip(s, i, c) == Min({j \in i..(Len(s) + 1) : At(s, j) # c})

-----------------------------------------------------------------------------
(* [a-z], [!ab] *)

Reversed(s, i) == At(s, i + 1) = Bang
FirstInBracket(s, i) == IF Reversed(s, i) THEN i + 2 ELSE i + 1

\* The end of the bracket that begins at i, and the ranges in it: a dash with a
\* character behind it takes that character, whatever it is.
Bracket(s, i) ==
    LET scan[p \in 1..(Len(s) + 1)] ==
            IF At(s, p) \in {0, RBracket} THEN [end |-> p, ranges |-> {}]
            ELSE LET ranged == At(s, p + 1) = Dash /\ At(s, p + 2) # 0
                     rest == scan[IF ranged THEN p + 3 ELSE p + 1]
                 IN  [rest EXCEPT !.ranges = @ \cup
                         {<<s[p], IF ranged THEN s[p + 2] ELSE s[p]>>}]
    IN  scan[FirstInBracket(s, i)]

\* Characters are compared as chars, which are signed on x86.
AsChar(c) == IF c > 127 THEN c - 256 ELSE c

InBracket(s, i, c) ==
    Reversed(s, i) # (\E r \in Bracket(s, i).ranges :
                          AsChar(r[1]) <= AsChar(c) /\ AsChar(c) <= AsChar(r[2]))

-----------------------------------------------------------------------------
(* {foo,bar} *)

\* The alternatives of the braces from i to end: where each begins and ends.
Alternatives(s, i, end) ==
    LET cuts == {j \in (i + 1)..(end - 1) : s[j] = Comma} \cup {i, end}
    IN  {<<a + 1, Min({b \in cuts : b > a}) - 1>> : a \in cuts \ {end}}

StartsAt(path, t, s, alt) ==
    \A k \in 0..(alt[2] - alt[1]) : At(path, t + k) = s[alt[1] + k]

\* The first alternative that matches is taken, and no other is tried.
ChoiceOf(alts) == CHOOSE a \in alts : \A b \in alts : a[1] <= b[1]

-----------------------------------------------------------------------------
(* internalPatternMatch *)

\* Mutated form: the star takes as little as it can.
Nearest(results) == IF results = {0} THEN 0 ELSE Min(results \ {0})

\* The best of the results: a null pointer is 0, and further on is better.
Best(results) == Max(results)

\* Mutated form: a star goes on past a slash.
PastSlash(path, t) == t..(Len(path) + 1)

\* Where a star that begins at t may end: at every place to the next slash.
StarEnds(path, t) ==
    LET slash == Seek(path, t, {Slash})
    IN  t..(IF slash = 0 THEN Len(path) + 1 ELSE slash)

\* What is returned for the rest of the pattern from p on and of the path from t
\* on, if match is what is returned for later places of the pattern.
Returns(match, pattern, path, p, t) ==
    LET end == Len(path) + 1
        c == At(pattern, p)
        close == Bracket(pattern, p).end
        brace == Seek(pattern, p, {RBrace})
        alts == {a \in Alternatives(pattern, p, brace) : StartsAt(path, t, pattern, a)}
        a == ChoiceOf(alts)
    IN  IF c = Star
        THEN Best({match[<<Skip(pattern, p, Star), u>>] : u \in StarEnds(path, t)})
        ELSE IF c = Slash /\ At(pattern, p + 1) = Slash
        THEN Best({match[<<Skip(pattern, p, Slash) - 1, u>>] :
                     u \in {t} \cup {v \in (t + 1)..Len(path) : path[v] = Slash}})
        ELSE IF c = LBrace
        THEN IF brace = 0 THEN 0
             ELSE IF alts = {} THEN p
             ELSE match[<<brace + 1, t + a[2] - a[1] + 1>>]
        ELSE IF c = LBracket /\ t < end
        THEN IF At(pattern, close) = RBracket /\ InBracket(pattern, p, path[t])
             THEN match[<<close + 1, t + 1>>] ELSE p
        ELSE IF c # 0 /\ t < end /\ (c = Question \/ c = path[t])
        THEN match[<<p + 1, t + 1>>]
        ELSE IF t = end THEN p ELSE 0

\* The place in the pattern the match came to, 0 for a null pointer.
Reached(pattern, path) ==
    LET match[at \in (1..(Len(pattern) + 1)) \X (1..(Len(path) + 1))] ==
            Returns(match, pattern, path, at[1], at[2])
    IN  match[<<1, 1>>]

FullPatternMatch(pattern, path) == Reached(pattern, path) = Len(pattern) + 1

\* Mutated form: the test is that of fullPatternMatch.
PartlyInFull(pattern, path) == Reached(pattern, path) > Len(pattern)

PartialPatternMatch(pattern, path) == Reached(pattern, path) # 0

-----------------------------------------------------------------------------
(* What a pattern means, as a relation between it and a path *)

\* What the element of the pattern at p may match of the path from t on: the
\* places behind it.
Spans(pattern, p, path, t) ==
    LET end == Len(path) + 1
        c == pattern[p]
        brace == Seek(pattern, p, {RBrace})
        slash == Seek(path, t, {Slash})
    IN  IF c = Star THEN t..(IF slash = 0 THEN end ELSE slash)
        ELSE IF c = Slash /\ At(pattern, p + 1) = Slash
             THEN {u \in t..Len(path) : path[u] = Slash}
        ELSE IF c = LBrace
             THEN IF brace = 0 THEN {}
                  ELSE {t + a[2] - a[1] + 1 : a \in {b \in Alternatives(pattern, p, brace) :
                                                    StartsAt(path, t, pattern, b)}}
        ELSE IF t < end /\ \/ c = Question
                           \/ /\ c = LBracket
                              /\ At(pattern, Bracket(pattern, p).end) = RBracket
                              /\ InBracket(pattern, p, path[t])
                           \/ c # LBracket /\ c = path[t]
             THEN {t + 1} ELSE {}

\* The place of the next element.
Behind(pattern, p) ==
    CASE pattern[p] = LBracket -> Bracket(pattern, p).end + 1
      [] pattern[p] = LBrace   -> Seek(pattern, p, {RBrace}) + 1
      [] pattern[p] = Slash /\ At(pattern, p + 1) = Slash -> Skip(pattern, p, Slash) - 1
      [] OTHER -> p + 1

\* The whole path is matched by the whole pattern, or by its first elements.
Means(pattern, path, partly) ==
    LET end == Len(path) + 1
        means[at \in (1..(Len(pattern) + 1)) \X (1..end)] ==
            \/ at[2] = end /\ (partly \/ at[1] > Len(pattern))
            \/ /\ at[1] <= Len(pattern)
               /\ \E u \in Spans(pattern, at[1], path, at[2]) :
                    means[<<Behind(pattern, at[1]), u>>]
    IN  means[<<1, 1>>]

\* No alternative of a brace list is the beginning of another.
PrefixFree(pattern) ==
    \A i \in DOMAIN pattern :
        LET alts == Alternatives(pattern, i, Seek(pattern, i, {RBrace}))
        IN  pattern[i] = LBrace /\ Seek(pattern, i, {RBrace}) # 0 =>
                \A a, b \in alts : a # b => ~StartsAt(pattern, b[1], pattern, a)

\* "According to the OSC spec pattern rules": what fullPatternMatch accepts, the
\* pattern means; and it finds every match, through stars, slashes, brackets
\* and braces in any combination, unless an alternative is the beginning of
\* another: the first is taken then, and the other not tried.
FullMatchIsMeant(pattern, path) ==
    /\ FullPatternMatch(pattern, path) => Means(pattern, path, FALSE)
    /\ PrefixFree(pattern) /\ Means(pattern, path, FALSE) => FullPatternMatch(pattern, path)

\* "Check if the path matches the beginning of pattern": so it is for patterns
\* without brackets and braces.
PartialMatchIsMeant(pattern, path) ==
    Seek(pattern, 1, {LBracket, LBrace}) = 0 =>
        (PartialPatternMatch(pattern, path) <=> Means(pattern, path, TRUE))

\* The path up to its last slash.
Directory(path) == SubSeq(path, 1, Max({0} \cup {i \in DOMAIN path : path[i] = Slash}))

\* No brace list has a slash in it.
BracesWithinElements(pattern) ==
    \A i \in DOMAIN pattern : \A j \in i..Seek(pattern, i, {RBrace}) :
        pattern[i] = LBrace => pattern[j] # Slash

\* oscpkt_test.cc expects it of every match it checks: the directory of the path
\* is matched by the beginning of the pattern.  With a slash in braces the path
\* and its directory may be given different alternatives.
DirectoryIsMatched(pattern, path) ==
    BracesWithinElements(pattern) /\ FullPatternMatch(pattern, path) =>
        PartialPatternMatch(pattern, Directory(path))
=============================================================================
