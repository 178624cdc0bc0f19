----------------------- MODULE PatternMatch_proofs -----------------------
(***************************************************************************)
(* Address patterns, for every pattern and every path: the matcher accepts *)
(* what the pattern means.  The places of the pattern are taken from the   *)
(* last to the first.  Whatever result the matcher hands on is the result  *)
(* for a place that its element may lead to, so what it accepts is meant;  *)
(* and it misses nothing, because the best of a star's results is the end  *)
(* if any is, and only one of the alternatives of braces can match when    *)
(* none begins another.                                                    *)
(***************************************************************************)
EXTENDS PatternMatch, FlattenLemmas

\* What a C string can hold.
Chars == Seq(1..255)

-----------------------------------------------------------------------------
(* Places *)

LEMMA AtFacts ==
    ASSUME NEW s \in Chars, NEW i \in Int
    PROVE  /\ Len(s) \in Nat /\ At(s, i) \in 0..255
           /\ i \in 1..Len(s) => At(s, i) = s[i] /\ At(s, i) # 0
           /\ i \notin 1..Len(s) => At(s, i) = 0
<1>1. PICK n \in Nat : n = Len(s) /\ DOMAIN s = 1..n
    BY LenProperties DEF Chars
<1>2. CASE i \in 1..n
  <2>1. s[i] \in 1..255
      BY <1>1, <1>2, ElementOfSeq DEF Chars
  <2>2. At(s, i) = s[i]
      BY <1>1, <1>2 DEF At
  <2>3. s[i] # 0 /\ s[i] \in 0..255
      BY <2>1
  <2> QED
      BY <1>1, <1>2, <2>2, <2>3
<1>3. CASE i \notin 1..n
    BY <1>1, <1>3 DEF At
<1> QED
    BY <1>1, <1>2, <1>3

\* The least and the greatest element.
LEMMA LeastIs ==
    ASSUME NEW T, T \subseteq Nat, T # {}
    PROVE  Min(T) \in T /\ \A n \in T : Min(T) <= n
BY LeastNat DEF Min

LEMMA GreatestIs ==
    ASSUME NEW bound \in Nat, NEW T, T \subseteq 0..bound, T # {}
    PROVE  Max(T) \in T /\ \A n \in T : n <= Max(T)
<1> DEFINE U == {bound - n : n \in T}
<1>1. U \subseteq Nat /\ U # {}
  <2>1. \A n \in T : bound - n \in Nat
      OBVIOUS
  <2>2. PICK n \in T : TRUE
      OBVIOUS
  <2>3. bound - n \in U
      OBVIOUS
  <2> QED
      BY <2>1, <2>3
<1>2. PICK u \in U : \A w \in U : u <= w
  <2> HIDE DEF U
  <2> QED
      BY <1>1, LeastNat
<1>3. PICK n \in T : u = bound - n
    BY <1>2
<1>4. ASSUME NEW m \in T PROVE m <= n
  <2>1. bound - m \in U /\ m \in Nat /\ n \in Nat
      OBVIOUS
  <2>2. bound - n <= bound - m
      BY <1>2, <1>3, <2>1
  <2> QED
      BY <2>1, <2>2
<1>5. \E x \in T : \A y \in T : x >= y
  <2>1. \A m \in T : n >= m
      BY <1>4
  <2> QED
      BY <2>1
<1>6. Max(T) \in T /\ \A y \in T : Max(T) >= y
    BY <1>5 DEF Max
<1> QED
    BY <1>6

LEMMA SeekFacts ==
    ASSUME NEW s \in Chars, NEW i \in Nat \ {0}, NEW chars
    PROVE  \/ Seek(s, i, chars) = 0 /\ \A j \in i..Len(s) : s[j] \notin chars
           \/ /\ Seek(s, i, chars) \in i..Len(s) /\ s[Seek(s, i, chars)] \in chars
              /\ \A j \in i..(Seek(s, i, chars) - 1) : s[j] \notin chars
<1>1. PICK n \in Nat : n = Len(s) /\ DOMAIN s = 1..n
    BY LenProperties DEF Chars
<1>2. PICK places : places = {j \in 1..n : j >= i /\ s[j] \in chars}
    OBVIOUS
<1>3. Seek(s, i, chars) = IF places = {} THEN 0 ELSE Min(places)
    BY <1>1, <1>2 DEF Seek
<1>4. CASE places = {}
  <2>1. ASSUME NEW j \in i..n PROVE s[j] \notin chars
      BY <1>2, <1>4, <2>1
  <2> QED
      BY <1>1, <1>3, <1>4, <2>1
<1>5. CASE places # {}
  <2>1. PICK k : k = Min(places) /\ k \in places /\ \A j \in places : k <= j
    <3>1. places \subseteq Nat
        BY <1>2
    <3> QED
        BY <1>5, <3>1, LeastIs
  <2>2. k \in i..n /\ s[k] \in chars
      BY <1>2, <2>1
  <2>3. ASSUME NEW j \in i..(k - 1) PROVE s[j] \notin chars
    <3>1. j \in 1..n /\ j >= i /\ ~(k <= j)
        BY <2>2
    <3> QED
        BY <1>2, <2>1, <3>1
  <2> QED
      BY <1>1, <1>3, <1>5, <2>1, <2>2, <2>3
<1> QED
    BY <1>4, <1>5

LEMMA SkipFacts ==
    ASSUME NEW s \in Chars, NEW i \in 1..(Len(s) + 1), NEW c, c # 0
    PROVE  /\ Skip(s, i, c) \in i..(Len(s) + 1) /\ At(s, Skip(s, i, c)) # c
           /\ \A j \in i..(Skip(s, i, c) - 1) : At(s, j) = c
<1>1. PICK n \in Nat : n = Len(s) /\ i \in 1..(n + 1)
    BY AtFacts
<1>2. PICK places : places = {j \in i..(n + 1) : At(s, j) # c}
    OBVIOUS
<1>3. n + 1 \in places
  <2>1. At(s, n + 1) = 0
      BY <1>1, AtFacts
  <2> QED
      BY <1>1, <1>2, <2>1
<1>4. PICK k : k = Min(places) /\ k \in places /\ \A j \in places : k <= j
  <2>1. places \subseteq Nat
      BY <1>1, <1>2
  <2> QED
      BY <1>3, <2>1, LeastIs
<1>5. ASSUME NEW j \in i..(k - 1) PROVE At(s, j) = c
  <2>1. j \in i..(n + 1) /\ ~(k <= j)
      BY <1>1, <1>2, <1>4
  <2> QED
      BY <1>2, <1>4, <2>1
<1> QED
    BY <1>1, <1>2, <1>4, <1>5 DEF Skip

\* Skipping goes on behind the first of several.
LEMMA SkipOneMore ==
    ASSUME NEW s \in Chars, NEW i \in 1..Len(s), NEW c, c # 0, At(s, i) = c
    PROVE  /\ Skip(s, i, c) \in (i + 1)..(Len(s) + 1)
           /\ Skip(s, i, c) = Skip(s, i + 1, c)
           /\ At(s, i + 1) # c => Skip(s, i, c) = i + 1
<1>1. PICK n \in Nat : n = Len(s) /\ i \in 1..n /\ i \in Nat
    BY AtFacts
<1>2. PICK k : k = Skip(s, i, c) /\ k \in i..(n + 1) /\ At(s, k) # c
               /\ \A j \in i..(k - 1) : At(s, j) = c
    BY <1>1, SkipFacts
<1>3. PICK m : m = Skip(s, i + 1, c) /\ m \in (i + 1)..(n + 1) /\ At(s, m) # c
               /\ \A j \in (i + 1)..(m - 1) : At(s, j) = c
  <2>1. i + 1 \in 1..(n + 1)
      BY <1>1
  <2> QED
      BY <1>1, <2>1, SkipFacts
<1>4. k # i
    BY <1>2
<1>5. ~(k < m)
  <2>1. k < m => k \in (i + 1)..(m - 1)
      BY <1>1, <1>2, <1>3, <1>4
  <2> QED
      BY <1>2, <1>3, <2>1
<1>6. ~(m < k)
  <2>1. m < k => m \in i..(k - 1)
      BY <1>1, <1>2, <1>3
  <2> QED
      BY <1>2, <1>3, <2>1
<1>7. At(s, i + 1) # c => ~(i + 1 < k)
  <2>1. i + 1 < k => i + 1 \in i..(k - 1)
      BY <1>1, <1>2
  <2> QED
      BY <1>2, <2>1
<1> QED
    BY <1>1, <1>2, <1>3, <1>4, <1>5, <1>6, <1>7

-----------------------------------------------------------------------------
(* Brackets *)

\* The right side of the equation of Bracket's recursive function.
ScanAt(g, s, p) ==
    IF At(s, p) \in {0, RBracket} THEN [end |-> p, ranges |-> {}]
    ELSE LET ranged == At(s, p + 1) = Dash /\ At(s, p + 2) # 0
             rest == g[IF ranged THEN p + 3 ELSE p + 1]
         IN  [rest EXCEPT !.ranges = @ \cup {<<s[p], IF ranged THEN s[p + 2] ELSE s[p]>>}]

\* It only looks behind p.
LEMMA ScanLooksBehind ==
    ASSUME NEW s \in Chars, NEW p \in 1..(Len(s) + 1), At(s, p) # 0
    PROVE  /\ p + 1 \in (p + 1)..(Len(s) + 1)
           /\ At(s, p + 2) # 0 => p + 3 \in (p + 1)..(Len(s) + 1)
<1>1. PICK n \in Nat : n = Len(s) /\ p \in 1..(n + 1)
    BY AtFacts
<1>2. p \in 1..n
    BY <1>1, AtFacts
<1>3. At(s, p + 2) # 0 => p + 2 \in 1..n
    BY <1>1, AtFacts
<1> QED
    BY <1>1, <1>2, <1>3

LEMMA ScanSame ==
    ASSUME NEW s \in Chars, NEW p \in 1..(Len(s) + 1), NEW g, NEW h,
           \A q \in (p + 1)..(Len(s) + 1) : g[q] = h[q]
    PROVE  ScanAt(g, s, p) = ScanAt(h, s, p)
<1>1. CASE At(s, p) \in {0, RBracket}
    BY <1>1 DEF ScanAt
<1>2. CASE At(s, p) \notin {0, RBracket}
  <2>1. PICK next : next = IF At(s, p + 1) = Dash /\ At(s, p + 2) # 0 THEN p + 3 ELSE p + 1
      OBVIOUS
  <2>2. next \in (p + 1)..(Len(s) + 1)
    <3>1. At(s, p) # 0
        BY <1>2
    <3> QED
        BY <2>1, <3>1, ScanLooksBehind
  <2>3. g[next] = h[next]
      BY <2>2
  <2> QED
      BY <1>2, <2>1, <2>3 DEF ScanAt
<1> QED
    BY <1>1, <1>2

\* g solves the equation at the last k places.
BracketScans(g, s, k) ==
    /\ g = [p \in 1..(Len(s) + 1) |-> g[p]]
    /\ \A p \in 1..(Len(s) + 1) : p + k > Len(s) + 1 => g[p] = ScanAt(g, s, p)

LEMMA ScansSomeMore ==
    ASSUME NEW s \in Chars, NEW k \in Nat, NEW g, BracketScans(g, s, k)
    PROVE  \E h : BracketScans(h, s, k + 1)
<1>1. PICK n \in Nat : n = Len(s)
    BY AtFacts
<1>2. PICK q \in Int : q = n + 1 - k
    BY <1>1
<1> DEFINE h == [p \in 1..(n + 1) |-> IF p = q THEN ScanAt(g, s, q) ELSE g[p]]
<1>3. h = [p \in 1..(n + 1) |-> h[p]]
    OBVIOUS
<1>4. ASSUME NEW p \in 1..(n + 1), p + (k + 1) > n + 1
      PROVE  h[p] = ScanAt(h, s, p)
  <2>1. p >= q
      BY <1>2, <1>4
  <2>2. \A r \in (p + 1)..(n + 1) : g[r] = h[r]
      BY <2>1
  <2>3. ScanAt(g, s, p) = ScanAt(h, s, p)
    <3> HIDE DEF h
    <3> QED
        BY <1>1, <2>2, ScanSame
  <2>4. h[p] = ScanAt(g, s, p)
    <3>1. CASE p = q
        BY <3>1
    <3>2. CASE p # q
      <4>1. p + k > n + 1
          BY <1>2, <2>1, <3>2
      <4>2. g[p] = ScanAt(g, s, p)
          BY <1>1, <4>1 DEF BracketScans
      <4>3. h[p] = g[p]
          BY <3>2
      <4> QED
          BY <4>2, <4>3
    <3> QED
        BY <3>1, <3>2
  <2> QED
      BY <2>3, <2>4
<1>5. BracketScans(h, s, k + 1)
  <2> HIDE DEF h
  <2> QED
      BY <1>1, <1>3, <1>4 DEF BracketScans
<1> QED
    BY <1>5

LEMMA ScansAll ==
    ASSUME NEW s \in Chars
    PROVE  \E g : BracketScans(g, s, Len(s) + 1)
<1> DEFINE Solved == {k \in Nat : \E g : BracketScans(g, s, k)}
<1>1. PICK n \in Nat : n = Len(s)
    BY AtFacts
<1>2. 0 \in Solved
  <2>1. PICK g : g = [p \in 1..(n + 1) |-> 0]
      OBVIOUS
  <2>2. g = [p \in 1..(n + 1) |-> g[p]]
      BY <2>1
  <2>3. BracketScans(g, s, 0)
      BY <1>1, <2>2 DEF BracketScans
  <2> QED
      BY <2>3
<1>3. ASSUME NEW k \in Nat, k \in Solved PROVE k + 1 \in Solved
    BY <1>3, ScansSomeMore
<1>4. Nat \subseteq Solved
  <2> HIDE DEF Solved
  <2> QED
      BY <1>2, <1>3, NatSetInduction
<1> QED
    BY <1>1, <1>4

\* So Bracket has the value its equation gives it.
LEMMA BracketUnfolds ==
    ASSUME NEW s \in Chars, NEW i
    PROVE  \E g : BracketScans(g, s, Len(s) + 1) /\ Bracket(s, i) = g[FirstInBracket(s, i)]
<1>1. PICK n \in Nat : n = Len(s)
    BY AtFacts
<1> DEFINE Is(g) == g = [p \in 1..(Len(s) + 1) |-> ScanAt(g, s, p)]
           G == CHOOSE g : Is(g)
<1>2. \E g : Is(g)
  <2>1. PICK g : BracketScans(g, s, n + 1)
      BY <1>1, ScansAll
  <2>2. \A p \in 1..(n + 1) : g[p] = ScanAt(g, s, p)
    <3>1. \A p \in 1..(n + 1) : p + (n + 1) > n + 1
        OBVIOUS
    <3> QED
        BY <1>1, <2>1, <3>1 DEF BracketScans
  <2>3. g = [p \in 1..(n + 1) |-> g[p]]
      BY <1>1, <2>1 DEF BracketScans
  <2>4. g = [p \in 1..(n + 1) |-> ScanAt(g, s, p)]
      BY <2>2, <2>3
  <2> QED
      BY <1>1, <2>4
<1>3. Is(G)
    BY <1>2
<1>4. Bracket(s, i) = G[FirstInBracket(s, i)]
    BY DEF Bracket, ScanAt
<1>5. BracketScans(G, s, n + 1)
  <2>1. PICK g : g = G /\ g = [p \in 1..(n + 1) |-> ScanAt(g, s, p)]
      BY <1>1, <1>3
  <2>2. \A p \in 1..(n + 1) : g[p] = ScanAt(g, s, p)
      BY <2>1
  <2>3. g = [p \in 1..(n + 1) |-> g[p]]
      BY <2>1
  <2> QED
      BY <1>1, <2>1, <2>2, <2>3, ZenonT(60) DEF BracketScans
<1> QED
    BY <1>1, <1>4, <1>5

\* The end that was found from p on is not before p.
EndsAt(r, p, n) == \E end \in p..(n + 1) : \E ranges : r = [end |-> end, ranges |-> ranges]

LEMMA MoreRanges ==
    ASSUME NEW r, NEW next, NEW p, NEW n \in Nat, NEW more, EndsAt(r, next, n),
           p \in Nat, next \in Nat, p <= next
    PROVE  EndsAt([r EXCEPT !.ranges = @ \cup more], p, n)
<1>1. PICK end, ranges : end \in next..(n + 1) /\ r = [end |-> end, ranges |-> ranges]
    BY DEF EndsAt
<1>2. [r EXCEPT !.ranges = @ \cup more] = [end |-> end, ranges |-> ranges \cup more]
    BY <1>1
<1>3. end \in p..(n + 1)
    BY <1>1
<1> QED
    BY <1>2, <1>3 DEF EndsAt

\* The end of a bracket is behind its beginning.
LEMMA ScanEnds ==
    ASSUME NEW s \in Chars, NEW g, BracketScans(g, s, Len(s) + 1), NEW p \in 1..(Len(s) + 1)
    PROVE  EndsAt(g[p], p, Len(s))
<1>1. PICK n \in Nat : n = Len(s)
    BY AtFacts
<1> DEFINE S == {k \in Nat : \A q \in 1..(n + 1) : q + k > n + 1 => EndsAt(g[q], q, n)}
<1>2. 0 \in S
    OBVIOUS
<1>3. ASSUME NEW k \in Nat, k \in S PROVE k + 1 \in S
  <2> SUFFICES ASSUME NEW q \in 1..(n + 1), q + (k + 1) > n + 1
               PROVE  EndsAt(g[q], q, n)
      OBVIOUS
  <2>1. g[q] = ScanAt(g, s, q)
    <3>1. q + (n + 1) > n + 1
        OBVIOUS
    <3> QED
        BY <1>1, <3>1 DEF BracketScans
  <2>2. CASE At(s, q) \in {0, RBracket}
    <3>1. g[q] = [end |-> q, ranges |-> {}]
        BY <2>1, <2>2 DEF ScanAt
    <3>2. q \in q..(n + 1)
        OBVIOUS
    <3> QED
        BY <3>1, <3>2 DEF EndsAt
  <2>3. CASE At(s, q) \notin {0, RBracket}
    <3>1. PICK next, more : /\ next = IF At(s, q + 1) = Dash /\ At(s, q + 2) # 0 THEN q + 3 ELSE q + 1
                            /\ g[q] = [g[next] EXCEPT !.ranges = @ \cup more]
        BY <2>1, <2>3 DEF ScanAt
    <3>2. next \in (q + 1)..(n + 1)
      <4>1. At(s, q) # 0
          BY <2>3
      <4> QED
          BY <1>1, <3>1, <4>1, ScanLooksBehind
    <3>3. EndsAt(g[next], next, n)
      <4>1. next \in 1..(n + 1) /\ next + k > n + 1
          BY <2>1, <3>2
      <4> QED
          BY <1>3, <4>1
    <3>4. EndsAt([g[next] EXCEPT !.ranges = @ \cup more], q, n)
      <4>1. q \in Nat /\ next \in Nat /\ q <= next
          BY <3>2
      <4> QED
          BY <3>3, <4>1, MoreRanges
    <3> QED
        BY <3>1, <3>4
  <2> QED
      BY <2>2, <2>3
<1>4. Nat \subseteq S
  <2> HIDE DEF S
  <2> QED
      BY <1>2, <1>3, NatSetInduction
<1>5. n + 1 \in S
  <2> HIDE DEF S
  <2>1. n + 1 \in Nat
      OBVIOUS
  <2> QED
      BY <1>4, <2>1
<1>6. p + (n + 1) > n + 1 /\ p \in 1..(n + 1)
    BY <1>1
<1> QED
    BY <1>1, <1>5, <1>6

LEMMA BracketEnds ==
    ASSUME NEW s \in Chars, NEW i \in 1..Len(s)
    PROVE  Bracket(s, i).end \in (i + 1)..(Len(s) + 1)
<1>1. PICK n \in Nat : n = Len(s) /\ i \in 1..n
    BY AtFacts
<1>2. PICK first : first = FirstInBracket(s, i)
    OBVIOUS
<1>3. first \in (i + 1)..(n + 1)
  <2>1. Reversed(s, i) => i + 1 \in 1..n
    <3>1. Bang # 0
        BY DEF Bang
    <3> QED
        BY <1>1, <3>1, AtFacts DEF Reversed
  <2> QED
      BY <1>1, <1>2, <2>1 DEF FirstInBracket
<1>4. PICK g : BracketScans(g, s, n + 1) /\ Bracket(s, i) = g[first]
    BY <1>1, <1>2, BracketUnfolds
<1>5. PICK end, ranges : end \in first..(n + 1) /\ g[first] = [end |-> end, ranges |-> ranges]
  <2>1. first \in 1..(n + 1)
      BY <1>3
  <2>2. EndsAt(g[first], first, n)
      BY <1>1, <1>4, <2>1, ScanEnds
  <2> QED
      BY <2>2 DEF EndsAt
<1>6. Bracket(s, i).end = end
    BY <1>4, <1>5
<1> QED
    BY <1>1, <1>3, <1>5, <1>6

-----------------------------------------------------------------------------
(* Braces *)

\* A brace that begins at p and ends at brace.
Braced(s, p, brace) ==
    /\ p \in 1..Len(s) /\ s[p] = LBrace /\ brace \in (p + 1)..Len(s) /\ s[brace] = RBrace
    /\ \A j \in p..(brace - 1) : s[j] # RBrace

LEMMA BraceFound ==
    ASSUME NEW s \in Chars, NEW p \in 1..Len(s), s[p] = LBrace, Seek(s, p, {RBrace}) # 0
    PROVE  Braced(s, p, Seek(s, p, {RBrace}))
<1>1. PICK n \in Nat : n = Len(s) /\ p \in 1..n /\ p \in Nat \ {0}
    BY AtFacts
<1>2. PICK k : k = Seek(s, p, {RBrace})
    OBVIOUS
<1>3. /\ k \in p..n /\ s[k] = RBrace
      /\ \A j \in p..(k - 1) : s[j] # RBrace
    BY <1>1, <1>2, SeekFacts, SMTT(30)
<1>4. k # p
    BY <1>3 DEF LBrace, RBrace
<1>5. k \in (p + 1)..n
    BY <1>1, <1>3, <1>4
<1> QED
    BY <1>1, <1>2, <1>3, <1>5 DEF Braced

\* An alternative: from after a brace or comma to before the next one.
IsAlternative(s, p, brace, a) ==
    /\ a = <<a[1], a[2]>> /\ a[1] \in (p + 1)..brace /\ a[2] \in (a[1] - 1)..(brace - 1)
    /\ \A j \in a[1]..a[2] : s[j] \notin {Comma, RBrace}
    /\ s[a[2] + 1] \in {Comma, RBrace}

LEMMA AlternativeFacts ==
    ASSUME NEW s \in Chars, NEW p, NEW brace, Braced(s, p, brace),
           NEW a \in Alternatives(s, p, brace)
    PROVE  IsAlternative(s, p, brace, a)
<1>1. PICK n \in Nat : n = Len(s) /\ p \in 1..n /\ brace \in (p + 1)..n
    BY AtFacts DEF Braced
<1>2. PICK cuts : cuts = {j \in (p + 1)..(brace - 1) : s[j] = Comma} \cup {p, brace}
    OBVIOUS
<1>3. PICK x \in cuts \ {brace} : a = <<x + 1, Min({b \in cuts : b > x}) - 1>>
    BY <1>2 DEF Alternatives
<1>4. x \in p..(brace - 1) /\ cuts \subseteq Nat
    BY <1>1, <1>2
<1>5. PICK next : next = Min({b \in cuts : b > x}) /\ next \in cuts /\ next > x
                  /\ \A b \in cuts : b > x => next <= b
  <2>1. PICK T : T = {b \in cuts : b > x}
      OBVIOUS
  <2>2. T \subseteq Nat /\ brace \in T
      BY <1>1, <1>2, <1>4, <2>1
  <2>3. Min(T) \in T /\ \A b \in T : Min(T) <= b
      BY <2>2, LeastIs
  <2> QED
      BY <2>1, <2>3
<1>6. a[1] = x + 1 /\ a[2] = next - 1 /\ a = <<a[1], a[2]>>
    BY <1>3, <1>5
<1>7. next \in (x + 1)..brace
    BY <1>1, <1>2, <1>4, <1>5
<1>8. ASSUME NEW j \in (x + 1)..(next - 1) PROVE s[j] \notin {Comma, RBrace}
  <2>1. j \in (p + 1)..(brace - 1)
      BY <1>1, <1>4, <1>7
  <2>2. s[j] # RBrace
      BY <2>1, <1>1 DEF Braced
  <2>3. s[j] # Comma
      BY <1>2, <1>5, <1>8, <2>1, <1>4, <1>7
  <2> QED
      BY <2>2, <2>3
<1>9. s[next] \in {Comma, RBrace}
  <2>1. next # p
      BY <1>4, <1>5
  <2> QED
      BY <1>2, <1>5, <2>1 DEF Braced
<1>10. a[1] \in (p + 1)..brace /\ a[2] \in (a[1] - 1)..(brace - 1)
    BY <1>1, <1>4, <1>6, <1>7
<1>11. a[2] + 1 = next
    BY <1>6, <1>7, <1>4
<1> QED
    BY <1>6, <1>8, <1>9, <1>10, <1>11 DEF IsAlternative

\* What an alternative matches ends inside the path.
LEMMA StartsInside ==
    ASSUME NEW s \in Chars, NEW path \in Chars, NEW p, NEW brace, Braced(s, p, brace),
           NEW a, IsAlternative(s, p, brace, a), NEW t \in 1..(Len(path) + 1),
           StartsAt(path, t, s, a)
    PROVE  t + a[2] - a[1] + 1 \in t..(Len(path) + 1)
<1>1. PICK n \in Nat : n = Len(s) /\ p \in 1..n /\ brace \in (p + 1)..n
    BY AtFacts DEF Braced
<1>2. PICK from \in Nat, to \in Int : from = a[1] /\ to = a[2]
    BY <1>1 DEF IsAlternative
<1>3. from \in (p + 1)..brace /\ to \in (from - 1)..(brace - 1)
    BY <1>2 DEF IsAlternative
<1>4. PICK end \in Nat : end = Len(path)
    BY AtFacts
<1>5. t \in 1..(end + 1)
    BY <1>4
<1>6. t + to - from + 1 \in t..(end + 1)
  <2>1. CASE to = from - 1
    <3>1. t + to - from + 1 = t
        BY <1>5, <2>1
    <3> QED
        BY <1>5, <3>1
  <2>2. CASE to # from - 1
    <3>1. PICK k \in Nat : k = to - from
        BY <1>3, <2>2
    <3>2. to \in 1..n /\ from + k = to
        BY <1>1, <1>3, <2>2, <3>1
    <3>3. At(path, t + k) = s[to]
      <4>1. At(path, t + k) = s[from + k]
        <5>1. \A i \in 0..(to - from) : At(path, t + i) = s[from + i]
            BY <1>2 DEF StartsAt
        <5>2. k \in 0..(to - from)
            BY <3>1
        <5> QED
            BY <5>1, <5>2
      <4> QED
          BY <3>2, <4>1
    <3>4. s[to] # 0
        BY <1>1, <3>2, AtFacts
    <3>5. t + k \in 1..end
      <4>1. t + k \in Int
          BY <1>5
      <4> QED
          BY <1>4, <3>3, <3>4, <4>1, AtFacts
    <3> QED
        BY <1>5, <3>1, <3>5
  <2> QED
      BY <2>1, <2>2
<1> QED
    BY <1>2, <1>4, <1>6

\* The first of the alternatives that match.
LEMMA ChoiceFacts ==
    ASSUME NEW s \in Chars, NEW p, NEW brace, Braced(s, p, brace),
           NEW alts, alts \subseteq Alternatives(s, p, brace), alts # {}
    PROVE  ChoiceOf(alts) \in alts
<1>1. \A a \in alts : a[1] \in Nat
  <2> TAKE a \in alts
  <2>1. PICK n \in Nat : p \in 1..n
      BY AtFacts, SMTT(30) DEF Braced
  <2>2. IsAlternative(s, p, brace, a) /\ brace \in Int
      BY AlternativeFacts DEF Braced
  <2> QED
      BY <2>1, <2>2 DEF IsAlternative
<1>2. PICK firsts : firsts = {a[1] : a \in alts}
    OBVIOUS
<1>3. firsts \subseteq Nat /\ firsts # {}
    BY <1>1, <1>2
<1>4. PICK least \in firsts : \A f \in firsts : least <= f
    BY <1>3, LeastNat
<1>5. PICK a \in alts : a[1] = least
    BY <1>2
<1>6. \A b \in alts : a[1] <= b[1]
    BY <1>2, <1>4, <1>5
<1> QED
    BY <1>6 DEF ChoiceOf

-----------------------------------------------------------------------------
(* Stars *)

LEMMA StarEndsFacts ==
    ASSUME NEW path \in Chars, NEW t \in 1..(Len(path) + 1)
    PROVE  /\ t \in StarEnds(path, t) /\ StarEnds(path, t) \subseteq t..(Len(path) + 1)
           /\ \A u \in StarEnds(path, t) : StarEnds(path, u) \subseteq StarEnds(path, t)
<1>1. PICK n \in Nat : n = Len(path) /\ t \in 1..(n + 1) /\ t \in Nat \ {0}
    BY AtFacts
<1>2. PICK slash : slash = Seek(path, t, {Slash})
    OBVIOUS
<1>3. \/ slash = 0 /\ \A j \in t..n : path[j] # Slash
      \/ slash \in t..n /\ path[slash] = Slash /\ \A j \in t..(slash - 1) : path[j] # Slash
    BY <1>1, <1>2, SeekFacts
<1>4. PICK last \in t..(n + 1) : last = IF slash = 0 THEN n + 1 ELSE slash
    BY <1>1, <1>3
<1>5. StarEnds(path, t) = t..last
    BY <1>1, <1>2, <1>4 DEF StarEnds
<1>6. ASSUME NEW u \in t..last PROVE StarEnds(path, u) \subseteq t..last
  <2>1. PICK v : v = Seek(path, u, {Slash})
      OBVIOUS
  <2>2. u \in Nat \ {0} /\ u \in 1..(n + 1)
      BY <1>1, <1>4
  <2>3. \/ v = 0 /\ \A j \in u..n : path[j] # Slash
        \/ v \in u..n /\ path[v] = Slash /\ \A j \in u..(v - 1) : path[j] # Slash
      BY <1>1, <2>1, <2>2, SeekFacts
  <2>4. StarEnds(path, u) = u..(IF v = 0 THEN n + 1 ELSE v)
      BY <1>1, <2>1 DEF StarEnds
  <2>5. (IF v = 0 THEN n + 1 ELSE v) = last
    <3>1. CASE slash = 0
      <4>1. v = 0
          BY <1>1, <1>3, <1>4, <2>3, <3>1
      <4> QED
          BY <1>4, <3>1, <4>1
    <3>2. CASE slash # 0
      <4>1. slash \in u..n /\ path[slash] = Slash /\ last = slash
          BY <1>1, <1>3, <1>4, <3>2
      <4>2. v # 0
          BY <2>3, <4>1
      <4>3. ~(v < slash)
        <5>1. v < slash => v \in t..(slash - 1)
          <6>1. v \in u..n /\ slash \in Int
              BY <2>3, <4>1, <4>2
          <6> QED
              BY <1>5, <6>1
        <5> QED
            BY <1>3, <2>3, <4>2, <5>1
      <4>4. ~(slash < v)
        <5>1. slash < v => slash \in u..(v - 1)
            BY <4>1, <2>3, <4>2
        <5> QED
            BY <2>3, <4>1, <4>2, <5>1
      <4> QED
          BY <2>3, <4>1, <4>2, <4>3, <4>4
    <3> QED
        BY <3>1, <3>2
  <2> QED
      BY <1>1, <2>2, <2>4, <2>5
<1>7. t \in t..last /\ t..last \subseteq t..(n + 1)
    BY <1>1, <1>4
<1> QED
    BY <1>1, <1>5, <1>6, <1>7

-----------------------------------------------------------------------------
(* What is returned, by the kind of the pattern's element *)

LEMMA KindsApart ==
    /\ Star # 0 /\ Slash # 0 /\ LBrace # 0 /\ LBracket # 0 /\ RBracket # 0
    /\ Star # Slash /\ Star # LBrace /\ Star # LBracket /\ Star # Question
    /\ Slash # LBrace /\ Slash # LBracket /\ Slash # Question
    /\ LBrace # LBracket /\ LBrace # Question /\ LBracket # Question
BY DEF Star, Slash, LBrace, LBracket, RBracket, Question

IsStar(s, p) == p \in 1..Len(s) /\ s[p] = Star
IsSlashes(s, p) == p \in 1..Len(s) /\ s[p] = Slash /\ At(s, p + 1) = Slash
IsBrace(s, p) == p \in 1..Len(s) /\ s[p] = LBrace
IsOne(s, p) == p \in 1..(Len(s) + 1) /\ ~IsStar(s, p) /\ ~IsSlashes(s, p) /\ ~IsBrace(s, p)

\* Where the path may go on behind several slashes.
SlashEnds(path, t) == {t} \cup {v \in (t + 1)..Len(path) : path[v] = Slash}

\* The alternatives of the braces at p that the path has at t.
Fitting(s, p, path, t) ==
    {a \in Alternatives(s, p, Seek(s, p, {RBrace})) : StartsAt(path, t, s, a)}

EndOf(t, a) == t + a[2] - a[1] + 1

\* An element for one character, and the place behind it.
OneFits(s, p, path, t) ==
    /\ p \in 1..Len(s) /\ t \in 1..Len(path)
    /\ \/ s[p] = Question
       \/ /\ s[p] = LBracket
          /\ At(s, Bracket(s, p).end) = RBracket /\ InBracket(s, p, path[t])
       \/ s[p] # LBracket /\ s[p] = path[t]

\* What is returned where it does not fit.
Stopped(s, p, path, t) ==
    IF t = Len(path) + 1 \/ (p # Len(s) + 1 /\ s[p] = LBracket) THEN p ELSE 0

Follow(s, p) == IF s[p] = LBracket THEN Bracket(s, p).end + 1 ELSE p + 1

LEMMA ReturnsStar ==
    ASSUME NEW s \in Chars, NEW path, NEW p, NEW t, NEW f, IsStar(s, p)
    PROVE  Returns(f, s, path, p, t) = Best({f[<<Skip(s, p, Star), u>>] : u \in StarEnds(path, t)})
<1>1. At(s, p) = Star
    BY AtFacts DEF IsStar
<1> QED
    BY <1>1 DEF Returns

LEMMA ReturnsSlashes ==
    ASSUME NEW s \in Chars, NEW path, NEW p, NEW t, NEW f, IsSlashes(s, p)
    PROVE  Returns(f, s, path, p, t) = Best({f[<<Skip(s, p, Slash) - 1, u>>] : u \in SlashEnds(path, t)})
<1>1. At(s, p) = Slash /\ At(s, p + 1) = Slash
    BY AtFacts DEF IsSlashes
<1>2. At(s, p) # Star
    BY <1>1, KindsApart
<1> QED
    BY <1>1, <1>2 DEF Returns, SlashEnds

LEMMA ReturnsBrace ==
    ASSUME NEW s \in Chars, NEW path, NEW p, NEW t, NEW f, IsBrace(s, p)
    PROVE  Returns(f, s, path, p, t) =
                IF Seek(s, p, {RBrace}) = 0 THEN 0
                ELSE IF Fitting(s, p, path, t) = {} THEN p
                ELSE f[<<Seek(s, p, {RBrace}) + 1, EndOf(t, ChoiceOf(Fitting(s, p, path, t)))>>]
<1>1. At(s, p) = LBrace
    BY AtFacts DEF IsBrace
<1>2. At(s, p) # Star /\ At(s, p) # Slash
    BY <1>1, KindsApart
<1> QED
    BY <1>1, <1>2 DEF Returns, Fitting, EndOf

LEMMA ReturnsOne ==
    ASSUME NEW s \in Chars, NEW path \in Chars, NEW p, NEW t \in 1..(Len(path) + 1), NEW f,
           IsOne(s, p)
    PROVE  Returns(f, s, path, p, t) =
                IF OneFits(s, p, path, t) THEN f[<<Follow(s, p), t + 1>>]
                ELSE Stopped(s, p, path, t)
<1>1. PICK n \in Nat : n = Len(s) /\ p \in 1..(n + 1)
    BY AtFacts DEF IsOne
<1>2. PICK end \in Nat : end = Len(path) + 1 /\ t \in 1..end
    BY AtFacts
<1>3. t < end <=> t \in 1..Len(path)
    BY <1>2, AtFacts
<1>4. p \in 1..n <=> p # n + 1
    BY <1>1
<1>5. p \in 1..n => At(s, p) = s[p] /\ s[p] # 0
    BY <1>1, AtFacts
<1>6. p = n + 1 => At(s, p) = 0
    BY <1>1, AtFacts
<1>7. At(s, p) # Star /\ At(s, p) # LBrace /\ ~(At(s, p) = Slash /\ At(s, p + 1) = Slash)
    BY <1>1, <1>4, <1>5, <1>6, KindsApart DEF IsOne, IsStar, IsBrace, IsSlashes
<1>8. Returns(f, s, path, p, t) =
        IF At(s, p) = LBracket /\ t < end
        THEN IF At(s, Bracket(s, p).end) = RBracket /\ InBracket(s, p, path[t])
             THEN f[<<Bracket(s, p).end + 1, t + 1>>] ELSE p
        ELSE IF At(s, p) # 0 /\ t < end /\ (At(s, p) = Question \/ At(s, p) = path[t])
        THEN f[<<p + 1, t + 1>>]
        ELSE IF t = end THEN p ELSE 0
    BY <1>2, <1>7 DEF Returns
<1>9. CASE p = n + 1
  <2>1. At(s, p) = 0 /\ At(s, p) # LBracket
      BY <1>6, <1>9, KindsApart
  <2>2. ~OneFits(s, p, path, t)
      BY <1>1, <1>4, <1>9 DEF OneFits
  <2> QED
      BY <1>1, <1>2, <1>8, <1>9, <2>1, <2>2 DEF Stopped
<1>10. CASE p # n + 1 /\ s[p] = LBracket
  <2>1. At(s, p) = LBracket /\ LBracket # Question /\ p \in 1..n
      BY <1>4, <1>5, <1>10, KindsApart
  <2>2. CASE t < end
    <3>1. OneFits(s, p, path, t) <=>
                At(s, Bracket(s, p).end) = RBracket /\ InBracket(s, p, path[t])
        BY <1>1, <1>3, <1>10, <2>1, <2>2 DEF OneFits
    <3> QED
        BY <1>1, <1>8, <1>10, <2>1, <2>2, <3>1 DEF Follow, Stopped
  <2>3. CASE ~(t < end)
    <3>1. ~OneFits(s, p, path, t) /\ t = end
        BY <1>2, <1>3, <2>3 DEF OneFits
    <3> QED
        BY <1>2, <1>8, <2>3, <3>1 DEF Stopped
  <2> QED
      BY <2>2, <2>3
<1>11. CASE p # n + 1 /\ s[p] # LBracket
  <2>1. At(s, p) = s[p] /\ s[p] # 0 /\ p \in 1..n
      BY <1>4, <1>5, <1>11
  <2>2. OneFits(s, p, path, t) <=> t < end /\ (s[p] = Question \/ s[p] = path[t])
      BY <1>1, <1>3, <1>11, <2>1 DEF OneFits
  <2>3. Follow(s, p) = p + 1
      BY <1>11 DEF Follow
  <2> QED
      BY <1>1, <1>2, <1>8, <1>11, <2>1, <2>2, <2>3 DEF Stopped
<1> QED
    BY <1>9, <1>10, <1>11

LEMMA ReturnsFitted ==
    ASSUME NEW s \in Chars, NEW path \in Chars, NEW p, NEW t \in 1..(Len(path) + 1), NEW f,
           IsOne(s, p), OneFits(s, p, path, t)
    PROVE  Returns(f, s, path, p, t) = f[<<Follow(s, p), t + 1>>]
BY ReturnsOne

LEMMA ReturnsStopped ==
    ASSUME NEW s \in Chars, NEW path \in Chars, NEW p, NEW t \in 1..(Len(path) + 1), NEW f,
           IsOne(s, p), ~OneFits(s, p, path, t)
    PROVE  Returns(f, s, path, p, t) = Stopped(s, p, path, t)
BY ReturnsOne, ZenonT(60)

-----------------------------------------------------------------------------
(* Where it goes on *)

LEMMA StarGoesOn ==
    ASSUME NEW s \in Chars, NEW p, IsStar(s, p)
    PROVE  /\ Skip(s, p, Star) \in (p + 1)..(Len(s) + 1)
           /\ Skip(s, p, Star) = Skip(s, p + 1, Star)
           /\ At(s, p + 1) # Star => Skip(s, p, Star) = p + 1
<1>1. p \in 1..Len(s) /\ At(s, p) = Star
    BY AtFacts DEF IsStar
<1> QED
    BY <1>1, SkipOneMore, KindsApart

LEMMA SlashesGoOn ==
    ASSUME NEW s \in Chars, NEW p, IsSlashes(s, p)
    PROVE  /\ Skip(s, p, Slash) - 1 \in (p + 1)..Len(s)
           /\ s[Skip(s, p, Slash) - 1] = Slash /\ At(s, Skip(s, p, Slash)) # Slash
<1>1. PICK n \in Nat : n = Len(s) /\ p \in 1..n /\ At(s, p) = Slash /\ At(s, p + 1) = Slash
    BY AtFacts DEF IsSlashes
<1>2. PICK k : /\ k = Skip(s, p, Slash) /\ k \in p..(n + 1) /\ At(s, k) # Slash
               /\ \A j \in p..(k - 1) : At(s, j) = Slash
  <2>1. p \in 1..(n + 1)
      BY <1>1
  <2> QED
      BY <1>1, <2>1, SkipFacts, KindsApart
<1>3. k # p /\ k # p + 1
    BY <1>1, <1>2
<1>4. k - 1 \in (p + 1)..n /\ k - 1 \in p..(k - 1)
    BY <1>1, <1>2, <1>3
<1>5. At(s, k - 1) = Slash
    BY <1>2, <1>4
<1>6. s[k - 1] = Slash
  <2>1. k - 1 \in 1..n
      BY <1>1, <1>4
  <2> QED
      BY <1>1, <1>5, <2>1, AtFacts
<1> QED
    BY <1>1, <1>2, <1>4, <1>6

LEMMA SlashEndsFacts ==
    ASSUME NEW path \in Chars, NEW t \in 1..(Len(path) + 1)
    PROVE  t \in SlashEnds(path, t) /\ SlashEnds(path, t) \subseteq t..(Len(path) + 1)
<1>1. PICK n \in Nat : n = Len(path) /\ t \in 1..(n + 1)
    BY AtFacts
<1> QED
    BY <1>1 DEF SlashEnds

LEMMA BraceGoesOn ==
    ASSUME NEW s \in Chars, NEW path \in Chars, NEW p, IsBrace(s, p), NEW t \in 1..(Len(path) + 1),
           Seek(s, p, {RBrace}) # 0
    PROVE  /\ Seek(s, p, {RBrace}) + 1 \in (p + 1)..(Len(s) + 1)
           /\ \A a \in Fitting(s, p, path, t) :
                IsAlternative(s, p, Seek(s, p, {RBrace}), a) /\ EndOf(t, a) \in t..(Len(path) + 1)
           /\ Fitting(s, p, path, t) # {} =>
                ChoiceOf(Fitting(s, p, path, t)) \in Fitting(s, p, path, t)
<1>1. PICK n \in Nat : n = Len(s) /\ p \in 1..n /\ s[p] = LBrace
    BY AtFacts DEF IsBrace
<1>2. PICK brace : brace = Seek(s, p, {RBrace}) /\ Braced(s, p, brace)
    BY <1>1, BraceFound
<1>3. brace + 1 \in (p + 1)..(n + 1)
  <2>1. brace \in (p + 1)..n
      BY <1>1, <1>2 DEF Braced
  <2> QED
      BY <1>1, <2>1
<1>4. ASSUME NEW a \in Fitting(s, p, path, t)
      PROVE  IsAlternative(s, p, brace, a) /\ EndOf(t, a) \in t..(Len(path) + 1)
  <2>1. a \in Alternatives(s, p, brace) /\ StartsAt(path, t, s, a)
      BY <1>2 DEF Fitting
  <2>2. IsAlternative(s, p, brace, a)
      BY <1>2, <2>1, AlternativeFacts
  <2> QED
      BY <1>2, <2>1, <2>2, StartsInside DEF EndOf
<1>5. ASSUME Fitting(s, p, path, t) # {}
      PROVE  ChoiceOf(Fitting(s, p, path, t)) \in Fitting(s, p, path, t)
  <2>1. Fitting(s, p, path, t) \subseteq Alternatives(s, p, brace)
      BY <1>2 DEF Fitting
  <2> QED
      BY <1>2, <1>5, <2>1, ChoiceFacts
<1> QED
    BY <1>1, <1>2, <1>3, <1>4, <1>5

LEMMA OneGoesOn ==
    ASSUME NEW s \in Chars, NEW path \in Chars, NEW p, NEW t, OneFits(s, p, path, t)
    PROVE  Follow(s, p) \in (p + 1)..(Len(s) + 1) /\ t + 1 \in 1..(Len(path) + 1)
<1>1. PICK n \in Nat : n = Len(s) /\ p \in 1..n
    BY AtFacts DEF OneFits
<1>2. t + 1 \in 1..(Len(path) + 1)
  <2>1. PICK end \in Nat : end = Len(path) /\ t \in 1..end
      BY AtFacts DEF OneFits
  <2> QED
      BY <2>1
<1>3. CASE s[p] # LBracket
    BY <1>1, <1>2, <1>3 DEF Follow
<1>4. CASE s[p] = LBracket
  <2>1. PICK close : close = Bracket(s, p).end /\ close \in (p + 1)..(n + 1)
      BY <1>1, BracketEnds
  <2>2. At(s, close) # 0
      BY <1>4, <2>1, KindsApart DEF OneFits
  <2>3. close \in 1..n
      BY <1>1, <2>1, <2>2, AtFacts
  <2>4. close + 1 \in (p + 1)..(n + 1)
      BY <1>1, <2>1, <2>3
  <2> QED
      BY <1>1, <1>2, <1>4, <2>1, <2>4 DEF Follow
<1> QED
    BY <1>3, <1>4

-----------------------------------------------------------------------------
(* The recursive function of Reached *)

\* The places the match can be at.
BothPlaces(s, path) == (1..(Len(s) + 1)) \X (1..(Len(path) + 1))

\* f and g return the same for all places of the pattern behind p.
SameBehind(f, g, s, path, p) ==
    \A q \in (p + 1)..(Len(s) + 1), u \in 1..(Len(path) + 1) : f[<<q, u>>] = g[<<q, u>>]

LEMMA SameRow ==
    ASSUME NEW f, NEW g, NEW k, NEW U, \A u \in U : f[<<k, u>>] = g[<<k, u>>]
    PROVE  Best({f[<<k, u>>] : u \in U}) = Best({g[<<k, u>>] : u \in U})
<1>1. {f[<<k, u>>] : u \in U} = {g[<<k, u>>] : u \in U}
    OBVIOUS
<1> QED
    BY <1>1

\* internalPatternMatch calls itself for later places of the pattern only.
LEMMA ReturnsSame ==
    ASSUME NEW s \in Chars, NEW path \in Chars, NEW p \in 1..(Len(s) + 1),
           NEW t \in 1..(Len(path) + 1), NEW f, NEW g, SameBehind(f, g, s, path, p)
    PROVE  Returns(f, s, path, p, t) = Returns(g, s, path, p, t)
<1>1. PICK n \in Nat : n = Len(s) /\ p \in 1..(n + 1)
    BY AtFacts
<1>2. PICK end \in Nat : end = Len(path) + 1 /\ t \in 1..end
    BY AtFacts
<1>3. \A q \in (p + 1)..(n + 1), u \in 1..end : f[<<q, u>>] = g[<<q, u>>]
    BY <1>1, <1>2 DEF SameBehind
<1>4. CASE IsStar(s, p)
  <2>1. PICK k : k = Skip(s, p, Star) /\ k \in (p + 1)..(n + 1)
      BY <1>1, <1>4, StarGoesOn
  <2>2. PICK U : U = StarEnds(path, t) /\ U \subseteq 1..end
    <3>1. StarEnds(path, t) \subseteq t..end
        BY <1>2, StarEndsFacts
    <3>2. t..end \subseteq 1..end
        BY <1>2
    <3> QED
        BY <3>1, <3>2
  <2>3. \A u \in U : f[<<k, u>>] = g[<<k, u>>]
      BY <1>3, <2>1, <2>2
  <2>4. Best({f[<<k, u>>] : u \in U}) = Best({g[<<k, u>>] : u \in U})
      BY <2>3, SameRow
  <2>5. /\ Returns(f, s, path, p, t) = Best({f[<<k, u>>] : u \in U})
        /\ Returns(g, s, path, p, t) = Best({g[<<k, u>>] : u \in U})
      BY <1>4, <2>1, <2>2, ReturnsStar, SMTT(30)
  <2> QED
      BY <2>4, <2>5
<1>5. CASE IsSlashes(s, p)
  <2>1. PICK k : k = Skip(s, p, Slash) - 1 /\ k \in (p + 1)..(n + 1)
    <3>1. Skip(s, p, Slash) - 1 \in (p + 1)..n
        BY <1>1, <1>5, SlashesGoOn
    <3>2. (p + 1)..n \subseteq (p + 1)..(n + 1)
        BY <1>1
    <3> QED
        BY <3>1, <3>2
  <2>2. PICK U : U = SlashEnds(path, t) /\ U \subseteq 1..end
    <3>1. SlashEnds(path, t) \subseteq t..end
        BY <1>2, SlashEndsFacts
    <3>2. t..end \subseteq 1..end
        BY <1>2
    <3> QED
        BY <3>1, <3>2
  <2>3. \A u \in U : f[<<k, u>>] = g[<<k, u>>]
      BY <1>3, <2>1, <2>2
  <2>4. Best({f[<<k, u>>] : u \in U}) = Best({g[<<k, u>>] : u \in U})
      BY <2>3, SameRow
  <2>5. /\ Returns(f, s, path, p, t) = Best({f[<<k, u>>] : u \in U})
        /\ Returns(g, s, path, p, t) = Best({g[<<k, u>>] : u \in U})
      BY <1>5, <2>1, <2>2, ReturnsSlashes
  <2> QED
      BY <2>4, <2>5
<1>6. CASE IsBrace(s, p)
  <2>1. CASE Seek(s, p, {RBrace}) = 0 \/ Fitting(s, p, path, t) = {}
      BY <1>6, <2>1, ReturnsBrace, ZenonT(60)
  <2>2. CASE Seek(s, p, {RBrace}) # 0 /\ Fitting(s, p, path, t) # {}
    <3>1. PICK k : k = Seek(s, p, {RBrace}) + 1 /\ k \in (p + 1)..(n + 1)
        BY <1>1, <1>6, <2>2, BraceGoesOn
    <3>2. PICK u : u = EndOf(t, ChoiceOf(Fitting(s, p, path, t))) /\ u \in 1..end
      <4>1. EndOf(t, ChoiceOf(Fitting(s, p, path, t))) \in t..end
          BY <1>2, <1>6, <2>2, BraceGoesOn
      <4>2. t..end \subseteq 1..end
          BY <1>2
      <4> QED
          BY <4>1, <4>2
    <3>3. f[<<k, u>>] = g[<<k, u>>]
        BY <1>3, <3>1, <3>2
    <3>4. Returns(f, s, path, p, t) = f[<<k, u>>] /\ Returns(g, s, path, p, t) = g[<<k, u>>]
        BY <1>6, <2>2, <3>1, <3>2, ReturnsBrace
    <3> QED
        BY <3>3, <3>4
  <2> QED
      BY <2>1, <2>2
<1>7. CASE IsOne(s, p)
  <2>1. CASE ~OneFits(s, p, path, t)
    <3>1. /\ Returns(f, s, path, p, t) = Stopped(s, p, path, t)
          /\ Returns(g, s, path, p, t) = Stopped(s, p, path, t)
        BY <1>7, <2>1, ReturnsStopped
    <3> QED
        BY <3>1
  <2>2. CASE OneFits(s, p, path, t)
    <3>1. PICK k : k = Follow(s, p) /\ k \in (p + 1)..(n + 1)
        BY <1>1, <2>2, OneGoesOn
    <3>2. PICK u : u = t + 1 /\ u \in 1..end
        BY <1>2, <2>2, OneGoesOn
    <3>3. f[<<k, u>>] = g[<<k, u>>]
        BY <1>3, <3>1, <3>2
    <3>4. Returns(f, s, path, p, t) = f[<<k, u>>] /\ Returns(g, s, path, p, t) = g[<<k, u>>]
        BY <1>7, <2>2, <3>1, <3>2, ReturnsFitted
    <3> QED
        BY <3>3, <3>4
  <2> QED
      BY <2>1, <2>2
<1> QED
    BY <1>4, <1>5, <1>6, <1>7 DEF IsOne

\* f solves the equation at the last k places of the pattern.
Matches(f, s, path, k) ==
    /\ f = [at \in BothPlaces(s, path) |-> f[at]]
    /\ \A p \in 1..(Len(s) + 1), t \in 1..(Len(path) + 1) :
          p + k > Len(s) + 1 => f[<<p, t>>] = Returns(f, s, path, p, t)

LEMMA MatchesSomeMore ==
    ASSUME NEW s \in Chars, NEW path \in Chars, NEW k \in Nat, NEW f, Matches(f, s, path, k)
    PROVE  \E g : Matches(g, s, path, k + 1)
<1>1. PICK n \in Nat : n = Len(s)
    BY AtFacts
<1>2. PICK end \in Nat : end = Len(path) + 1
    BY AtFacts
<1>3. PICK q \in Int : q = n + 1 - k
    BY <1>1
<1>4. PICK g : g = [at \in BothPlaces(s, path) |->
                      IF at[1] = q THEN Returns(f, s, path, q, at[2]) ELSE f[at]]
    OBVIOUS
<1>5. g = [at \in BothPlaces(s, path) |-> g[at]]
    BY <1>4
<1>6. \A p \in 1..(n + 1), t \in 1..end :
        g[<<p, t>>] = IF p = q THEN Returns(f, s, path, q, t) ELSE f[<<p, t>>]
  <2> TAKE p \in 1..(n + 1), t \in 1..end
  <2>1. PICK at : at = <<p, t>> /\ at[1] = p /\ at[2] = t
    <3>1. <<p, t>>[1] = p /\ <<p, t>>[2] = t
        OBVIOUS
    <3> QED
        BY <3>1
  <2>2. at \in BothPlaces(s, path)
      BY <1>1, <1>2, <2>1 DEF BothPlaces
  <2>3. g[at] = IF at[1] = q THEN Returns(f, s, path, q, at[2]) ELSE f[at]
      BY <1>4, <2>2
  <2> QED
      BY <2>1, <2>3
<1>7. ASSUME NEW p \in 1..(n + 1), NEW t \in 1..end, p + (k + 1) > n + 1
      PROVE  g[<<p, t>>] = Returns(g, s, path, p, t)
  <2>1. p >= q
      BY <1>3, <1>7
  <2>2. Returns(f, s, path, p, t) = Returns(g, s, path, p, t)
    <3>1. ASSUME NEW r \in (p + 1)..(n + 1), NEW u \in 1..end PROVE f[<<r, u>>] = g[<<r, u>>]
      <4>1. r \in 1..(n + 1) /\ r # q
          BY <2>1, <1>7
      <4> QED
          BY <1>6, <4>1
    <3>2. SameBehind(f, g, s, path, p)
        BY <1>1, <1>2, <3>1 DEF SameBehind
    <3> QED
        BY <1>1, <1>2, <3>2, ReturnsSame
  <2>3. g[<<p, t>>] = Returns(f, s, path, p, t)
    <3>1. CASE p = q
        BY <1>6, <3>1
    <3>2. CASE p # q
      <4>1. p + k > n + 1
          BY <1>3, <2>1, <3>2
      <4>2. f[<<p, t>>] = Returns(f, s, path, p, t)
          BY <1>1, <1>2, <4>1 DEF Matches
      <4> QED
          BY <1>6, <3>2, <4>2
    <3> QED
        BY <3>1, <3>2
  <2> QED
      BY <2>2, <2>3
<1>8. Matches(g, s, path, k + 1)
    BY <1>1, <1>2, <1>5, <1>7 DEF Matches
<1> QED
    BY <1>8

LEMMA MatchesExist ==
    ASSUME NEW s \in Chars, NEW path \in Chars
    PROVE  \E f : Matches(f, s, path, Len(s) + 1)
<1> DEFINE Solved == {k \in Nat : \E f : Matches(f, s, path, k)}
<1>1. PICK n \in Nat : n = Len(s)
    BY AtFacts
<1>2. 0 \in Solved
  <2>1. PICK f : f = [at \in BothPlaces(s, path) |-> 0]
      OBVIOUS
  <2>2. f = [at \in BothPlaces(s, path) |-> f[at]]
      BY <2>1
  <2>3. \A p \in 1..(n + 1) : ~(p + 0 > n + 1)
      OBVIOUS
  <2>4. Matches(f, s, path, 0)
      BY <1>1, <2>2, <2>3 DEF Matches
  <2> QED
      BY <2>4
<1>3. ASSUME NEW k \in Nat, k \in Solved PROVE k + 1 \in Solved
    BY <1>3, MatchesSomeMore
<1>4. Nat \subseteq Solved
  <2> HIDE DEF Solved
  <2> QED
      BY <1>2, <1>3, NatSetInduction
<1> QED
    BY <1>1, <1>4

\* So Reached has the value its equation gives it.
LEMMA ReachedUnfolds ==
    ASSUME NEW s \in Chars, NEW path \in Chars
    PROVE  \E f : Matches(f, s, path, Len(s) + 1) /\ Reached(s, path) = f[<<1, 1>>]
<1>1. PICK n \in Nat : n = Len(s)
    BY AtFacts
<1>2. PICK end \in Nat : end = Len(path) + 1
    BY AtFacts
<1> DEFINE Is(f) == f = [at \in BothPlaces(s, path) |-> Returns(f, s, path, at[1], at[2])]
           F == CHOOSE f : Is(f)
<1>3. \E f : Is(f)
  <2>1. PICK f : Matches(f, s, path, n + 1)
      BY <1>1, MatchesExist
  <2>2. \A at \in BothPlaces(s, path) : f[at] = Returns(f, s, path, at[1], at[2])
    <3> TAKE at \in BothPlaces(s, path)
    <3>1. PICK p \in 1..(n + 1), t \in 1..end : at = <<p, t>> /\ at[1] = p /\ at[2] = t
        BY <1>1, <1>2 DEF BothPlaces
    <3>2. p + (n + 1) > n + 1
        BY <3>1
    <3>3. f[<<p, t>>] = Returns(f, s, path, p, t)
        BY <1>1, <1>2, <2>1, <3>2 DEF Matches
    <3> QED
        BY <3>1, <3>3
  <2>3. f = [at \in BothPlaces(s, path) |-> f[at]]
      BY <2>1 DEF Matches
  <2>4. f = [at \in BothPlaces(s, path) |-> Returns(f, s, path, at[1], at[2])]
      BY <2>2, <2>3
  <2> QED
      BY <2>4
<1>4. Is(F)
    BY <1>3
<1>5. Reached(s, path) = F[<<1, 1>>]
    BY DEF Reached, BothPlaces
<1>6. PICK f : f = F /\ f = [at \in BothPlaces(s, path) |-> Returns(f, s, path, at[1], at[2])]
    BY <1>4
<1>7. f = [at \in BothPlaces(s, path) |-> f[at]]
    BY <1>6
<1>8. ASSUME NEW p \in 1..(n + 1), NEW t \in 1..end PROVE f[<<p, t>>] = Returns(f, s, path, p, t)
  <2>1. PICK at : at = <<p, t>> /\ at[1] = p /\ at[2] = t
    <3>1. <<p, t>>[1] = p /\ <<p, t>>[2] = t
        OBVIOUS
    <3> QED
        BY <3>1
  <2>2. at \in BothPlaces(s, path)
      BY <1>1, <1>2, <2>1 DEF BothPlaces
  <2>3. f[at] = Returns(f, s, path, at[1], at[2])
      BY <1>6, <2>2
  <2> QED
      BY <2>1, <2>3
<1>9. Matches(f, s, path, n + 1)
    BY <1>1, <1>2, <1>7, <1>8 DEF Matches
<1> QED
    BY <1>1, <1>5, <1>6, <1>9

-----------------------------------------------------------------------------
(* What is returned is a place of the pattern, or a null pointer *)

LEMMA BestIs ==
    ASSUME NEW bound \in Nat, NEW T, T \subseteq 0..bound, T # {}
    PROVE  Best(T) \in T /\ \A n \in T : n <= Best(T)
BY GreatestIs DEF Best

\* The results for places behind p are places.
PlacesBehind(f, s, path, p) ==
    \A q \in (p + 1)..(Len(s) + 1), u \in 1..(Len(path) + 1) : f[<<q, u>>] \in 0..(Len(s) + 1)

Row(f, k, U) == {f[<<k, u>>] : u \in U}

\* The best of the results at k for the places in U.
LEMMA BestOfRow ==
    ASSUME NEW s \in Chars, NEW path \in Chars, NEW p \in 1..(Len(s) + 1), NEW f,
           PlacesBehind(f, s, path, p),
           NEW k \in (p + 1)..(Len(s) + 1), NEW U, U \subseteq 1..(Len(path) + 1), U # {}
    PROVE  /\ \E u \in U : Best(Row(f, k, U)) = f[<<k, u>>]
           /\ \A u \in U : f[<<k, u>>] <= Best(Row(f, k, U))
           /\ Best(Row(f, k, U)) \in 0..(Len(s) + 1)
<1>1. PICK bound \in Nat : bound = Len(s) + 1
    BY AtFacts
<1>2. PICK T : T = {f[<<k, u>>] : u \in U}
    OBVIOUS
<1>3. T \subseteq 0..bound /\ T # {}
    BY <1>1, <1>2 DEF PlacesBehind
<1>4. Best(T) \in T /\ \A n \in T : n <= Best(T)
    BY <1>3, BestIs
<1> QED
    BY <1>1, <1>2, <1>3, <1>4 DEF Row

LEMMA ReturnsPlace ==
    ASSUME NEW s \in Chars, NEW path \in Chars,
           NEW p \in 1..(Len(s) + 1), NEW t \in 1..(Len(path) + 1), NEW f,
           PlacesBehind(f, s, path, p)
    PROVE  Returns(f, s, path, p, t) \in 0..(Len(s) + 1)
<1>1. PICK n \in Nat : n = Len(s) /\ p \in 1..(n + 1)
    BY AtFacts
<1>2. PICK end \in Nat : end = Len(path) + 1 /\ t \in 1..end
    BY AtFacts
<1>3. p \in 0..(n + 1) /\ 0 \in 0..(n + 1)
    BY <1>1
<1>4. CASE IsStar(s, p)
  <2>1. PICK k : k = Skip(s, p, Star) /\ k \in (p + 1)..(n + 1)
      BY <1>1, <1>4, StarGoesOn
  <2>2. PICK U : U = StarEnds(path, t) /\ U \subseteq 1..end /\ U # {}
    <3>1. StarEnds(path, t) \subseteq t..end /\ t \in StarEnds(path, t)
        BY <1>2, StarEndsFacts
    <3>2. t..end \subseteq 1..end
        BY <1>2
    <3> QED
        BY <3>1, <3>2
  <2>3. Returns(f, s, path, p, t) = Best(Row(f, k, U))
      BY <1>4, <2>1, <2>2, ReturnsStar DEF Row
  <2>4. k \in (p + 1)..(Len(s) + 1) /\ U \subseteq 1..(Len(path) + 1) /\ U # {}
      BY <1>1, <1>2, <2>1, <2>2
  <2>5. Best(Row(f, k, U)) \in 0..(Len(s) + 1)
      BY <2>4, BestOfRow
  <2> QED
      BY <2>3, <2>5
<1>5. CASE IsSlashes(s, p)
  <2>1. PICK k : k = Skip(s, p, Slash) - 1 /\ k \in (p + 1)..(n + 1)
    <3>1. Skip(s, p, Slash) - 1 \in (p + 1)..n
        BY <1>1, <1>5, SlashesGoOn
    <3>2. (p + 1)..n \subseteq (p + 1)..(n + 1)
        BY <1>1
    <3> QED
        BY <3>1, <3>2
  <2>2. PICK U : U = SlashEnds(path, t) /\ U \subseteq 1..end /\ U # {}
    <3>1. SlashEnds(path, t) \subseteq t..end /\ t \in SlashEnds(path, t)
        BY <1>2, SlashEndsFacts
    <3>2. t..end \subseteq 1..end
        BY <1>2
    <3> QED
        BY <3>1, <3>2
  <2>3. Returns(f, s, path, p, t) = Best(Row(f, k, U))
      BY <1>5, <2>1, <2>2, ReturnsSlashes DEF Row
  <2>4. k \in (p + 1)..(Len(s) + 1) /\ U \subseteq 1..(Len(path) + 1) /\ U # {}
      BY <1>1, <1>2, <2>1, <2>2
  <2>5. Best(Row(f, k, U)) \in 0..(Len(s) + 1)
      BY <2>4, BestOfRow
  <2> QED
      BY <2>3, <2>5
<1>6. CASE IsBrace(s, p)
  <2>1. CASE Seek(s, p, {RBrace}) = 0
    <3>1. Returns(f, s, path, p, t) = 0
        BY <1>6, <2>1, ReturnsBrace
    <3> QED
        BY <1>1, <1>3, <3>1
  <2>2. CASE Seek(s, p, {RBrace}) # 0 /\ Fitting(s, p, path, t) = {}
    <3>1. Returns(f, s, path, p, t) = p
        BY <1>6, <2>2, ReturnsBrace
    <3> QED
        BY <1>1, <1>3, <3>1
  <2>3. CASE Seek(s, p, {RBrace}) # 0 /\ Fitting(s, p, path, t) # {}
    <3>1. PICK k : k = Seek(s, p, {RBrace}) + 1 /\ k \in (p + 1)..(n + 1)
        BY <1>1, <1>6, <2>3, BraceGoesOn
    <3>2. PICK u : u = EndOf(t, ChoiceOf(Fitting(s, p, path, t))) /\ u \in 1..end
      <4>1. EndOf(t, ChoiceOf(Fitting(s, p, path, t))) \in t..end
          BY <1>2, <1>6, <2>3, BraceGoesOn
      <4>2. t..end \subseteq 1..end
          BY <1>2
      <4> QED
          BY <4>1, <4>2
    <3>3. Returns(f, s, path, p, t) = f[<<k, u>>]
        BY <1>6, <2>3, <3>1, <3>2, ReturnsBrace
    <3> QED
        BY <1>1, <1>2, <3>1, <3>2, <3>3 DEF PlacesBehind
  <2> QED
      BY <2>1, <2>2, <2>3
<1>7. CASE IsOne(s, p)
  <2>1. CASE ~OneFits(s, p, path, t)
    <3>1. Returns(f, s, path, p, t) = Stopped(s, p, path, t)
        BY <1>7, <2>1, ReturnsStopped
    <3>2. Stopped(s, p, path, t) \in {p, 0}
        BY DEF Stopped
    <3> QED
        BY <1>1, <1>3, <3>1, <3>2
  <2>2. CASE OneFits(s, p, path, t)
    <3>1. PICK k : k = Follow(s, p) /\ k \in (p + 1)..(n + 1)
        BY <1>1, <2>2, OneGoesOn
    <3>2. PICK u : u = t + 1 /\ u \in 1..end
        BY <1>2, <2>2, OneGoesOn
    <3>3. Returns(f, s, path, p, t) = f[<<k, u>>]
        BY <1>7, <2>2, <3>1, <3>2, ReturnsFitted
    <3> QED
        BY <1>1, <1>2, <3>1, <3>2, <3>3 DEF PlacesBehind
  <2> QED
      BY <2>1, <2>2
<1> QED
    BY <1>4, <1>5, <1>6, <1>7 DEF IsOne

\* f solves the equation of Reached, and its values are places.
Solves(f, s, path) ==
    \A p \in 1..(Len(s) + 1), t \in 1..(Len(path) + 1) :
        f[<<p, t>>] = Returns(f, s, path, p, t) /\ f[<<p, t>>] \in 0..(Len(s) + 1)

LEMMA SolvedInPlaces ==
    ASSUME NEW s \in Chars, NEW path \in Chars, NEW f, Matches(f, s, path, Len(s) + 1)
    PROVE  Solves(f, s, path)
<1>1. PICK n \in Nat : n = Len(s)
    BY AtFacts
<1>2. PICK end \in Nat : end = Len(path) + 1
    BY AtFacts
<1>3. \A p \in 1..(n + 1), t \in 1..end : f[<<p, t>>] = Returns(f, s, path, p, t)
  <2> TAKE p \in 1..(n + 1), t \in 1..end
  <2>1. p + (n + 1) > n + 1
      OBVIOUS
  <2> QED
      BY <1>1, <1>2, <2>1 DEF Matches
<1> DEFINE Done == {k \in Nat : \A p \in 1..(n + 1), t \in 1..end :
                        p + k > n + 1 => f[<<p, t>>] \in 0..(n + 1)}
<1>4. 0 \in Done
    BY <1>1
<1>5. ASSUME NEW k \in Nat, k \in Done PROVE k + 1 \in Done
  <2>1. ASSUME NEW p \in 1..(n + 1), NEW t \in 1..end, p + (k + 1) > n + 1
        PROVE  f[<<p, t>>] \in 0..(n + 1)
    <3>1. ASSUME NEW q \in (p + 1)..(n + 1), NEW u \in 1..end PROVE f[<<q, u>>] \in 0..(n + 1)
      <4>1. q \in 1..(n + 1) /\ q + k > n + 1
          BY <2>1
      <4> QED
          BY <1>5, <4>1
    <3>2. PlacesBehind(f, s, path, p)
        BY <1>1, <1>2, <3>1 DEF PlacesBehind
    <3>3. Returns(f, s, path, p, t) \in 0..(n + 1)
        BY <1>1, <1>2, <3>2, ReturnsPlace
    <3> QED
        BY <1>3, <3>3
  <2> QED
      BY <2>1
<1>6. Nat \subseteq Done
  <2> HIDE DEF Done
  <2> QED
      BY <1>4, <1>5, NatSetInduction
<1>7. ASSUME NEW p \in 1..(n + 1), NEW t \in 1..end PROVE f[<<p, t>>] \in 0..(n + 1)
  <2>1. n + 1 \in Done
    <3>1. n + 1 \in Nat
        OBVIOUS
    <3> HIDE DEF Done
    <3> QED
        BY <1>6, <3>1
  <2>2. p + (n + 1) > n + 1
      OBVIOUS
  <2> QED
      BY <2>1, <2>2
<1> QED
    BY <1>1, <1>2, <1>3, <1>7 DEF Solves

-----------------------------------------------------------------------------
(* What an element may match, by its kind *)

LEMMA SpansOfStar ==
    ASSUME NEW s \in Chars, NEW path, NEW p, NEW t, IsStar(s, p)
    PROVE  Spans(s, p, path, t) = StarEnds(path, t) /\ Behind(s, p) = p + 1
<1>1. s[p] = Star /\ Star # LBracket /\ Star # LBrace /\ Star # Slash
    BY KindsApart DEF IsStar
<1> QED
    BY <1>1 DEF Spans, Behind, StarEnds

LEMMA SpansOfSlashes ==
    ASSUME NEW s \in Chars, NEW path, NEW p, NEW t, IsSlashes(s, p)
    PROVE  /\ Spans(s, p, path, t) = {u \in t..Len(path) : path[u] = Slash}
           /\ Behind(s, p) = Skip(s, p, Slash) - 1
<1>1. /\ s[p] = Slash /\ At(s, p + 1) = Slash
      /\ Slash # LBracket /\ Slash # LBrace /\ Slash # Star
    BY KindsApart DEF IsSlashes
<1> QED
    BY <1>1 DEF Spans, Behind

EndsOf(s, p, path, t) == {EndOf(t, a) : a \in Fitting(s, p, path, t)}

LEMMA SpansOfBrace ==
    ASSUME NEW s \in Chars, NEW path, NEW p, NEW t, IsBrace(s, p)
    PROVE  /\ Spans(s, p, path, t) = IF Seek(s, p, {RBrace}) = 0 THEN {}
                                     ELSE EndsOf(s, p, path, t)
           /\ Behind(s, p) = Seek(s, p, {RBrace}) + 1
<1>1. /\ s[p] = LBrace /\ LBrace # LBracket /\ LBrace # Star /\ LBrace # Slash
    BY KindsApart DEF IsBrace
<1> QED
    BY <1>1 DEF Spans, Behind, EndsOf, EndOf, Fitting

LEMMA SpansOfOne ==
    ASSUME NEW s \in Chars, NEW path \in Chars, NEW p \in 1..Len(s), NEW t \in 1..(Len(path) + 1),
           IsOne(s, p)
    PROVE  /\ Spans(s, p, path, t) = IF OneFits(s, p, path, t) THEN {t + 1} ELSE {}
           /\ Behind(s, p) = Follow(s, p)
<1>1. s[p] # Star /\ s[p] # LBrace /\ ~(s[p] = Slash /\ At(s, p + 1) = Slash)
    BY DEF IsOne, IsStar, IsBrace, IsSlashes
<1>2. Behind(s, p) = Follow(s, p)
    BY <1>1 DEF Behind, Follow
<1>3. t < Len(path) + 1 <=> t \in 1..Len(path)
  <2>1. PICK end \in Nat : end = Len(path) /\ t \in 1..(end + 1)
      BY AtFacts
  <2> QED
      BY <2>1
<1>4. OneFits(s, p, path, t) <=>
        t < Len(path) + 1 /\ \/ s[p] = Question
                             \/ /\ s[p] = LBracket
                                /\ At(s, Bracket(s, p).end) = RBracket
                                /\ InBracket(s, p, path[t])
                             \/ s[p] # LBracket /\ s[p] = path[t]
    BY <1>3 DEF OneFits
<1>5. ASSUME OneFits(s, p, path, t) PROVE Spans(s, p, path, t) = {t + 1}
    BY <1>1, <1>4, <1>5, Zenon DEF Spans
<1>6. ASSUME ~OneFits(s, p, path, t) PROVE Spans(s, p, path, t) = {}
    BY <1>1, <1>4, <1>6, Zenon DEF Spans
<1> QED
    BY <1>2, <1>5, <1>6

\* An element matches a part of the path, and is not empty.
LEMMA SpansFacts ==
    ASSUME NEW s \in Chars, NEW path \in Chars, NEW p \in 1..Len(s), NEW t \in 1..(Len(path) + 1),
           NEW u \in Spans(s, p, path, t)
    PROVE  Behind(s, p) \in (p + 1)..(Len(s) + 1) /\ u \in 1..(Len(path) + 1)
<1>1. PICK n \in Nat : n = Len(s) /\ p \in 1..n
    BY AtFacts
<1>2. PICK end \in Nat : end = Len(path) + 1 /\ t \in 1..end
    BY AtFacts
<1>3. t..end \subseteq 1..end /\ (p + 1)..n \subseteq (p + 1)..(n + 1)
    BY <1>1, <1>2
<1>4. CASE IsStar(s, p)
  <2>1. Behind(s, p) = p + 1 /\ u \in t..end
      BY <1>2, <1>4, SpansOfStar, StarEndsFacts
  <2> QED
      BY <1>1, <1>2, <1>3, <2>1
<1>5. CASE IsSlashes(s, p)
  <2>1. Behind(s, p) \in (p + 1)..n
      BY <1>1, <1>5, SpansOfSlashes, SlashesGoOn
  <2>2. u \in t..Len(path)
      BY <1>5, SpansOfSlashes
  <2> QED
      BY <1>1, <1>2, <1>3, <2>1, <2>2
<1>6. CASE IsBrace(s, p)
  <2>1. PICK a \in Fitting(s, p, path, t) : Seek(s, p, {RBrace}) # 0 /\ u = EndOf(t, a)
    <3>1. Spans(s, p, path, t) = IF Seek(s, p, {RBrace}) = 0 THEN {}
                                 ELSE EndsOf(s, p, path, t)
        BY <1>6, SpansOfBrace
    <3>2. Seek(s, p, {RBrace}) # 0
        BY <3>1
    <3>3. u \in EndsOf(s, p, path, t)
        BY <3>1, <3>2
    <3> QED
        BY <3>2, <3>3 DEF EndsOf
  <2>2. Behind(s, p) \in (p + 1)..(n + 1) /\ u \in t..end
      BY <1>1, <1>2, <1>6, <2>1, SpansOfBrace, BraceGoesOn
  <2> QED
      BY <1>1, <1>2, <1>3, <2>2
<1>7. CASE IsOne(s, p)
  <2>1. OneFits(s, p, path, t) /\ u = t + 1 /\ Behind(s, p) = Follow(s, p)
      BY <1>7, SpansOfOne
  <2> QED
      BY <1>1, <2>1, OneGoesOn
<1>8. p \in 1..(Len(s) + 1)
    BY <1>1
<1> QED
    BY <1>4, <1>5, <1>6, <1>7, <1>8 DEF IsOne

\* What the pattern from p on means, by what it means further on.
MeansHere(m, s, path, partly, p, t) ==
    \/ t = Len(path) + 1 /\ (partly \/ p > Len(s))
    \/ p <= Len(s) /\ \E u \in Spans(s, p, path, t) : m[<<Behind(s, p), u>>]

LEMMA MeansSame ==
    ASSUME NEW s \in Chars, NEW path \in Chars, NEW partly,
           NEW p \in 1..(Len(s) + 1), NEW t \in 1..(Len(path) + 1), NEW f, NEW g,
           SameBehind(f, g, s, path, p)
    PROVE  MeansHere(f, s, path, partly, p, t) = MeansHere(g, s, path, partly, p, t)
<1>1. PICK n \in Nat : n = Len(s) /\ p \in 1..(n + 1)
    BY AtFacts
<1>2. ASSUME p <= n, NEW u \in Spans(s, p, path, t)
      PROVE  f[<<Behind(s, p), u>>] = g[<<Behind(s, p), u>>]
  <2>1. p \in 1..n
      BY <1>1, <1>2
  <2>2. Behind(s, p) \in (p + 1)..(n + 1) /\ u \in 1..(Len(path) + 1)
      BY <1>1, <1>2, <2>1, SpansFacts
  <2> QED
      BY <1>1, <2>2 DEF SameBehind
<1> QED
    BY <1>1, <1>2 DEF MeansHere

\* m solves the equation of Means at the last k places of the pattern.
MeaningUpTo(m, s, path, partly, k) ==
    /\ m = [at \in BothPlaces(s, path) |-> m[at]]
    /\ \A p \in 1..(Len(s) + 1), t \in 1..(Len(path) + 1) :
          p + k > Len(s) + 1 => m[<<p, t>>] = MeansHere(m, s, path, partly, p, t)

LEMMA MeaningSomeMore ==
    ASSUME NEW s \in Chars, NEW path \in Chars, NEW partly, NEW k \in Nat, NEW f, MeaningUpTo(f, s, path, partly, k)
    PROVE  \E g : MeaningUpTo(g, s, path, partly, k + 1)
<1>1. PICK n \in Nat : n = Len(s)
    BY AtFacts
<1>2. PICK end \in Nat : end = Len(path) + 1
    BY AtFacts
<1>3. PICK q \in Int : q = n + 1 - k
    BY <1>1
<1>4. PICK g : g = [at \in BothPlaces(s, path) |->
                      IF at[1] = q THEN MeansHere(f, s, path, partly, q, at[2]) ELSE f[at]]
    OBVIOUS
<1>5. g = [at \in BothPlaces(s, path) |-> g[at]]
    BY <1>4
<1>6. \A p \in 1..(n + 1), t \in 1..end :
        g[<<p, t>>] = IF p = q THEN MeansHere(f, s, path, partly, q, t) ELSE f[<<p, t>>]
  <2> TAKE p \in 1..(n + 1), t \in 1..end
  <2>1. PICK at : at = <<p, t>> /\ at[1] = p /\ at[2] = t
    <3>1. <<p, t>>[1] = p /\ <<p, t>>[2] = t
        OBVIOUS
    <3> QED
        BY <3>1
  <2>2. at \in BothPlaces(s, path)
      BY <1>1, <1>2, <2>1 DEF BothPlaces
  <2>3. g[at] = IF at[1] = q THEN MeansHere(f, s, path, partly, q, at[2]) ELSE f[at]
      BY <1>4, <2>2
  <2> QED
      BY <2>1, <2>3
<1>7. ASSUME NEW p \in 1..(n + 1), NEW t \in 1..end, p + (k + 1) > n + 1
      PROVE  g[<<p, t>>] = MeansHere(g, s, path, partly, p, t)
  <2>1. p >= q
      BY <1>3, <1>7
  <2>2. MeansHere(f, s, path, partly, p, t) = MeansHere(g, s, path, partly, p, t)
    <3>1. ASSUME NEW r \in (p + 1)..(n + 1), NEW u \in 1..end PROVE f[<<r, u>>] = g[<<r, u>>]
      <4>1. r \in 1..(n + 1) /\ r # q
          BY <2>1, <1>7
      <4> QED
          BY <1>6, <4>1
    <3>2. SameBehind(f, g, s, path, p)
        BY <1>1, <1>2, <3>1 DEF SameBehind
    <3> QED
        BY <1>1, <1>2, <3>2, MeansSame
  <2>3. g[<<p, t>>] = MeansHere(f, s, path, partly, p, t)
    <3>1. CASE p = q
        BY <1>6, <3>1
    <3>2. CASE p # q
      <4>1. p + k > n + 1
          BY <1>3, <2>1, <3>2
      <4>2. f[<<p, t>>] = MeansHere(f, s, path, partly, p, t)
          BY <1>1, <1>2, <4>1 DEF MeaningUpTo
      <4> QED
          BY <1>6, <3>2, <4>2
    <3> QED
        BY <3>1, <3>2
  <2> QED
      BY <2>2, <2>3
<1>8. MeaningUpTo(g, s, path, partly, k + 1)
    BY <1>1, <1>2, <1>5, <1>7 DEF MeaningUpTo
<1> QED
    BY <1>8

LEMMA MeaningExists ==
    ASSUME NEW s \in Chars, NEW path \in Chars, NEW partly
    PROVE  \E f : MeaningUpTo(f, s, path, partly, Len(s) + 1)
<1> DEFINE Solved == {k \in Nat : \E f : MeaningUpTo(f, s, path, partly, k)}
<1>1. PICK n \in Nat : n = Len(s)
    BY AtFacts
<1>2. 0 \in Solved
  <2>1. PICK f : f = [at \in BothPlaces(s, path) |-> FALSE]
      OBVIOUS
  <2>2. f = [at \in BothPlaces(s, path) |-> f[at]]
      BY <2>1
  <2>3. \A p \in 1..(n + 1) : ~(p + 0 > n + 1)
      OBVIOUS
  <2>4. MeaningUpTo(f, s, path, partly, 0)
      BY <1>1, <2>2, <2>3 DEF MeaningUpTo
  <2> QED
      BY <2>4
<1>3. ASSUME NEW k \in Nat, k \in Solved PROVE k + 1 \in Solved
    BY <1>3, MeaningSomeMore
<1>4. Nat \subseteq Solved
  <2> HIDE DEF Solved
  <2> QED
      BY <1>2, <1>3, NatSetInduction
<1> QED
    BY <1>1, <1>4

\* So a pattern means what the equation of Means says.
LEMMA MeansUnfolds ==
    ASSUME NEW s \in Chars, NEW path \in Chars, NEW partly
    PROVE  \E f : MeaningUpTo(f, s, path, partly, Len(s) + 1) /\ Means(s, path, partly) = f[<<1, 1>>]
<1>1. PICK n \in Nat : n = Len(s)
    BY AtFacts
<1>2. PICK end \in Nat : end = Len(path) + 1
    BY AtFacts
<1> DEFINE Is(f) == f = [at \in BothPlaces(s, path) |-> MeansHere(f, s, path, partly, at[1], at[2])]
           F == CHOOSE f : Is(f)
<1>3. \E f : Is(f)
  <2>1. PICK f : MeaningUpTo(f, s, path, partly, n + 1)
      BY <1>1, MeaningExists
  <2>2. \A at \in BothPlaces(s, path) : f[at] = MeansHere(f, s, path, partly, at[1], at[2])
    <3> TAKE at \in BothPlaces(s, path)
    <3>1. PICK p \in 1..(n + 1), t \in 1..end : at = <<p, t>> /\ at[1] = p /\ at[2] = t
        BY <1>1, <1>2 DEF BothPlaces
    <3>2. p + (n + 1) > n + 1
        BY <3>1
    <3>3. f[<<p, t>>] = MeansHere(f, s, path, partly, p, t)
        BY <1>1, <1>2, <2>1, <3>2 DEF MeaningUpTo
    <3> QED
        BY <3>1, <3>3
  <2>3. f = [at \in BothPlaces(s, path) |-> f[at]]
      BY <2>1 DEF MeaningUpTo
  <2>4. f = [at \in BothPlaces(s, path) |-> MeansHere(f, s, path, partly, at[1], at[2])]
      BY <2>2, <2>3
  <2> QED
      BY <2>4
<1>4. Is(F)
    BY <1>3
<1>5. Means(s, path, partly) = F[<<1, 1>>]
    BY DEF Means, BothPlaces, MeansHere
<1>6. PICK f : f = F /\ f = [at \in BothPlaces(s, path) |-> MeansHere(f, s, path, partly, at[1], at[2])]
    BY <1>4
<1>7. f = [at \in BothPlaces(s, path) |-> f[at]]
    BY <1>6
<1>8. ASSUME NEW p \in 1..(n + 1), NEW t \in 1..end PROVE f[<<p, t>>] = MeansHere(f, s, path, partly, p, t)
  <2>1. PICK at : at = <<p, t>> /\ at[1] = p /\ at[2] = t
    <3>1. <<p, t>>[1] = p /\ <<p, t>>[2] = t
        OBVIOUS
    <3> QED
        BY <3>1
  <2>2. at \in BothPlaces(s, path)
      BY <1>1, <1>2, <2>1 DEF BothPlaces
  <2>3. f[at] = MeansHere(f, s, path, partly, at[1], at[2])
      BY <1>6, <2>2
  <2> QED
      BY <2>1, <2>3
<1>9. MeaningUpTo(f, s, path, partly, n + 1)
    BY <1>1, <1>2, <1>7, <1>8 DEF MeaningUpTo
<1> QED
    BY <1>1, <1>5, <1>6, <1>9

-----------------------------------------------------------------------------
(* What is returned, and what is meant *)

\* A result that one of the two callers accepts: the end of the pattern for
\* fullPatternMatch, anything but a null pointer for partialPatternMatch.
Accepts(s, partly, result) == result = Len(s) + 1 \/ (partly /\ result # 0)

\* m solves the equation of Means.
Understands(m, s, path, partly) ==
    \A p \in 1..(Len(s) + 1), t \in 1..(Len(path) + 1) :
        m[<<p, t>>] = MeansHere(m, s, path, partly, p, t)

\* A pattern without brackets and braces.
Plain(s) == \A j \in 1..Len(s) : s[j] # LBracket /\ s[j] # LBrace

\* What is accepted for the places behind p is meant there, and what is meant
\* there is accepted.
SoundBehind(f, m, s, path, partly, p) ==
    \A q \in (p + 1)..(Len(s) + 1), u \in 1..(Len(path) + 1) :
        Accepts(s, partly, f[<<q, u>>]) => m[<<q, u>>]

CompleteBehind(f, m, s, path, partly, p) ==
    \A q \in (p + 1)..(Len(s) + 1), u \in 1..(Len(path) + 1) :
        m[<<q, u>>] => Accepts(s, partly, f[<<q, u>>])

\* The best of several results is accepted exactly if one of them is.
LEMMA RowAccepts ==
    ASSUME NEW s \in Chars, NEW path \in Chars, NEW partly, NEW f, Solves(f, s, path),
           NEW k \in 1..(Len(s) + 1), NEW U, U \subseteq 1..(Len(path) + 1), U # {}
    PROVE  Accepts(s, partly, Best(Row(f, k, U))) <=> \E u \in U : Accepts(s, partly, f[<<k, u>>])
<1>1. PICK last \in Nat : last = Len(s) + 1
    BY AtFacts
<1>2. Row(f, k, U) \subseteq 0..last /\ Row(f, k, U) # {}
  <2>1. \A u \in U : f[<<k, u>>] \in 0..last
      BY <1>1 DEF Solves
  <2> QED
      BY <2>1 DEF Row
<1>3. PICK best \in 0..last : best = Best(Row(f, k, U)) /\ best \in Row(f, k, U)
                           /\ \A v \in Row(f, k, U) : v <= best
    BY <1>2, BestIs
<1>4. PICK u \in U : best = f[<<k, u>>]
    BY <1>3 DEF Row
<1>5. ASSUME NEW w \in U, Accepts(s, partly, f[<<k, w>>]) PROVE Accepts(s, partly, best)
  <2>1. PICK v \in 0..last : v = f[<<k, w>>] /\ v \in Row(f, k, U)
      BY <1>2 DEF Row
  <2>2. v <= best
      BY <1>3, <2>1
  <2>3. v = last => best = last
      BY <2>2
  <2>4. v # 0 => best # 0
      BY <2>2
  <2> QED
      BY <1>1, <1>5, <2>1, <2>3, <2>4 DEF Accepts
<1> QED
    BY <1>3, <1>4, <1>5

\* A star may match nothing: what is accepted behind several of them is
\* accepted behind the first.
LEMMA BehindOneStar ==
    ASSUME NEW s \in Chars, NEW path \in Chars, NEW partly, NEW f, Solves(f, s, path),
           NEW p, IsStar(s, p), NEW u \in 1..(Len(path) + 1)
    PROVE  Accepts(s, partly, f[<<Skip(s, p, Star), u>>]) => Accepts(s, partly, f[<<p + 1, u>>])
<1>1. PICK n \in Nat : n = Len(s) /\ p \in 1..n
    BY AtFacts DEF IsStar
<1>2. PICK k : k = Skip(s, p, Star) /\ k \in (p + 1)..(n + 1)
    BY <1>1, StarGoesOn
<1>3. CASE At(s, p + 1) # Star
  <2>1. k = p + 1
      BY <1>2, <1>3, StarGoesOn
  <2> QED
      BY <1>2, <2>1
<1>4. CASE At(s, p + 1) = Star
  <2>1. PICK q \in 1..n : q = p + 1 /\ IsStar(s, q)
    <3>1. p + 1 \in 1..n
        BY <1>1, <1>4, AtFacts, KindsApart
    <3>2. s[p + 1] = Star
        BY <1>1, <1>4, <3>1, AtFacts
    <3> QED
        BY <1>1, <3>1, <3>2 DEF IsStar
  <2>2. Skip(s, q, Star) = k
      BY <1>2, <2>1, StarGoesOn
  <2>3. PICK U : U = StarEnds(path, u) /\ U \subseteq 1..(Len(path) + 1) /\ u \in U
    <3>1. StarEnds(path, u) \subseteq u..(Len(path) + 1) /\ u \in StarEnds(path, u)
        BY StarEndsFacts
    <3>2. u..(Len(path) + 1) \subseteq 1..(Len(path) + 1)
        OBVIOUS
    <3> QED
        BY <3>1, <3>2
  <2>4. f[<<q, u>>] = Best(Row(f, k, U))
    <3>1. f[<<q, u>>] = Returns(f, s, path, q, u)
        BY <1>1, <2>1 DEF Solves
    <3>2. Returns(f, s, path, q, u) = Best({f[<<Skip(s, q, Star), v>>] : v \in StarEnds(path, u)})
        BY <2>1, ReturnsStar, SMTT(30)
    <3> QED
        BY <2>2, <2>3, <3>1, <3>2 DEF Row
  <2>5. k \in 1..(Len(s) + 1)
      BY <1>1, <1>2
  <2>6. Accepts(s, partly, f[<<k, u>>]) => Accepts(s, partly, f[<<q, u>>])
      BY <2>3, <2>4, <2>5, RowAccepts
  <2> QED
      BY <1>2, <2>1, <2>6
<1> QED
    BY <1>3, <1>4

\* When a star, and when several slashes are accepted.
LEMMA StarAccepts ==
    ASSUME NEW s \in Chars, NEW path \in Chars, NEW partly, NEW f, Solves(f, s, path),
           NEW p \in 1..Len(s), IsStar(s, p), NEW t \in 1..(Len(path) + 1)
    PROVE  Accepts(s, partly, f[<<p, t>>]) <=>
                \E u \in StarEnds(path, t) : Accepts(s, partly, f[<<Skip(s, p, Star), u>>])
<1>1. PICK n \in Nat : n = Len(s) /\ p \in 1..n
    BY AtFacts
<1>2. PICK k : k = Skip(s, p, Star) /\ k \in (p + 1)..(n + 1)
    BY <1>1, StarGoesOn
<1>3. PICK U : U = StarEnds(path, t) /\ U \subseteq 1..(Len(path) + 1) /\ U # {}
  <2>1. StarEnds(path, t) \subseteq t..(Len(path) + 1) /\ t \in StarEnds(path, t)
      BY StarEndsFacts
  <2>2. t..(Len(path) + 1) \subseteq 1..(Len(path) + 1)
      OBVIOUS
  <2> QED
      BY <2>1, <2>2
<1>4. f[<<p, t>>] = Best(Row(f, k, U))
  <2>1. f[<<p, t>>] = Returns(f, s, path, p, t)
      BY <1>1 DEF Solves
  <2>2. Returns(f, s, path, p, t) = Best(Row(f, k, U))
      BY <1>2, <1>3, ReturnsStar DEF Row
  <2> QED
      BY <2>1, <2>2
<1>5. k \in 1..(Len(s) + 1)
    BY <1>1, <1>2
<1> QED
    BY <1>2, <1>3, <1>4, <1>5, RowAccepts

\* The last of the slashes at p.
LastOf(s, p) == Skip(s, p, Slash) - 1

LEMMA SlashesAccept ==
    ASSUME NEW s \in Chars, NEW path \in Chars, NEW partly, NEW f, Solves(f, s, path),
           NEW p \in 1..Len(s), IsSlashes(s, p), NEW t \in 1..(Len(path) + 1)
    PROVE  Accepts(s, partly, f[<<p, t>>]) <=>
                \E u \in SlashEnds(path, t) : Accepts(s, partly, f[<<LastOf(s, p), u>>])
<1>1. PICK n \in Nat : n = Len(s) /\ p \in 1..n
    BY AtFacts
<1>2. PICK k : k = LastOf(s, p) /\ k \in (p + 1)..n
    BY <1>1, SlashesGoOn DEF LastOf
<1>3. PICK U : U = SlashEnds(path, t) /\ U \subseteq 1..(Len(path) + 1) /\ U # {}
  <2>1. SlashEnds(path, t) \subseteq t..(Len(path) + 1) /\ t \in SlashEnds(path, t)
      BY SlashEndsFacts
  <2>2. t..(Len(path) + 1) \subseteq 1..(Len(path) + 1)
      OBVIOUS
  <2> QED
      BY <2>1, <2>2
<1>4. f[<<p, t>>] = Best(Row(f, k, U))
  <2>1. f[<<p, t>>] = Returns(f, s, path, p, t)
      BY <1>1 DEF Solves
  <2>2. Returns(f, s, path, p, t) = Best(Row(f, k, U))
      BY <1>2, <1>3, ReturnsSlashes DEF Row, LastOf
  <2> QED
      BY <2>1, <2>2
<1>5. k \in 1..(Len(s) + 1)
    BY <1>1, <1>2
<1> QED
    BY <1>2, <1>3, <1>4, <1>5, RowAccepts

\* The equation of Means, in one direction each.
LEMMA MeansBefore ==
    ASSUME NEW s \in Chars, NEW path \in Chars, NEW partly, NEW m, Understands(m, s, path, partly),
           NEW p \in 1..Len(s), NEW t \in 1..(Len(path) + 1),
           NEW u \in Spans(s, p, path, t), m[<<Behind(s, p), u>>]
    PROVE  m[<<p, t>>]
<1>1. PICK n \in Nat : n = Len(s) /\ p \in 1..n /\ p \in 1..(n + 1) /\ p <= n
    BY AtFacts
<1>2. MeansHere(m, s, path, partly, p, t)
    BY <1>1 DEF MeansHere
<1> QED
    BY <1>1, <1>2 DEF Understands

LEMMA MeansAtEnd ==
    ASSUME NEW s \in Chars, NEW path \in Chars, NEW partly, NEW m, Understands(m, s, path, partly),
           NEW p \in 1..(Len(s) + 1), partly \/ p = Len(s) + 1
    PROVE  m[<<p, Len(path) + 1>>]
<1>1. PICK n \in Nat : n = Len(s) /\ p \in 1..(n + 1) /\ (partly \/ p > n)
    BY AtFacts
<1>2. PICK end \in Nat : end = Len(path) + 1 /\ end \in 1..end
    BY AtFacts
<1>3. MeansHere(m, s, path, partly, p, end)
    BY <1>1, <1>2 DEF MeansHere
<1> QED
    BY <1>1, <1>2, <1>3 DEF Understands

-----------------------------------------------------------------------------
(* No alternative is the beginning of another, so at most one fits *)

LEMMA ShorterBegins ==
    ASSUME NEW s \in Chars, NEW path \in Chars, NEW p, NEW brace, Braced(s, p, brace),
           NEW a, NEW b, IsAlternative(s, p, brace, a), IsAlternative(s, p, brace, b),
           NEW t, StartsAt(path, t, s, a), StartsAt(path, t, s, b),
           a[2] - a[1] <= b[2] - b[1]
    PROVE  StartsAt(s, b[1], s, a)
<1>1. PICK n \in Nat : n = Len(s) /\ p \in 1..n /\ brace \in (p + 1)..n
    BY AtFacts DEF Braced
<1>2. PICK a1 \in Nat, a2 \in Int : a1 = a[1] /\ a2 = a[2]
    BY <1>1, SMTT(30) DEF IsAlternative
<1>3. PICK b1 \in Nat, b2 \in Int : b1 = b[1] /\ b2 = b[2]
    BY <1>1, SMTT(30) DEF IsAlternative
<1>4. b1 \in (p + 1)..brace /\ b2 <= brace - 1
    BY <1>1, <1>3 DEF IsAlternative
<1>5. a2 - a1 <= b2 - b1
    BY <1>2, <1>3
<1>6. ASSUME NEW k \in 0..(a2 - a1) PROVE At(s, b1 + k) = s[a1 + k]
  <2>1. k \in 0..(b2 - b1) /\ b1 + k \in 1..n
      BY <1>1, <1>4, <1>5
  <2>2. At(path, t + k) = s[a1 + k]
      BY <1>2 DEF StartsAt
  <2>3. At(path, t + k) = s[b1 + k]
      BY <1>3, <2>1 DEF StartsAt
  <2>4. At(s, b1 + k) = s[b1 + k]
      BY <1>1, <2>1, AtFacts
  <2> QED
      BY <2>2, <2>3, <2>4
<1> QED
    BY <1>2, <1>3, <1>6 DEF StartsAt

LEMMA FitsOnce ==
    ASSUME NEW s \in Chars, NEW path \in Chars, NEW p, IsBrace(s, p), PrefixFree(s), NEW t,
           Seek(s, p, {RBrace}) # 0,
           NEW a \in Fitting(s, p, path, t), NEW b \in Fitting(s, p, path, t)
    PROVE  a = b
<1>1. PICK n \in Nat : n = Len(s) /\ p \in 1..n /\ s[p] = LBrace
    BY AtFacts DEF IsBrace
<1>2. PICK brace : brace = Seek(s, p, {RBrace}) /\ Braced(s, p, brace)
    BY <1>1, BraceFound
<1>3. /\ a \in Alternatives(s, p, brace) /\ StartsAt(path, t, s, a)
      /\ b \in Alternatives(s, p, brace) /\ StartsAt(path, t, s, b)
    BY <1>2 DEF Fitting
<1>4. IsAlternative(s, p, brace, a) /\ IsAlternative(s, p, brace, b)
    BY <1>2, <1>3, AlternativeFacts
<1>5. p \in DOMAIN s
    BY <1>1, LenProperties DEF Chars
<1>6. a # b => ~StartsAt(s, b[1], s, a) /\ ~StartsAt(s, a[1], s, b)
    BY <1>1, <1>2, <1>3, <1>5 DEF PrefixFree
<1>7. a[2] - a[1] \in Int /\ b[2] - b[1] \in Int
  <2>1. p \in Int /\ brace \in Int
      BY <1>1, <1>2 DEF Braced
  <2>2. a[1] \in Int /\ a[2] \in Int /\ b[1] \in Int /\ b[2] \in Int
      BY <1>4, <2>1 DEF IsAlternative
  <2> QED
      BY <2>2
<1>8. CASE a[2] - a[1] <= b[2] - b[1]
    BY <1>2, <1>3, <1>4, <1>6, <1>8, ShorterBegins
<1>9. CASE b[2] - b[1] <= a[2] - a[1]
    BY <1>2, <1>3, <1>4, <1>6, <1>9, ShorterBegins
<1> QED
    BY <1>7, <1>8, <1>9

-----------------------------------------------------------------------------
(* What is accepted is meant *)

\* One slash is left of several: it needs one in the path, unless the path is at
\* its end and its beginning is asked for.
LEMMA LastSlash ==
    ASSUME NEW s \in Chars, NEW path \in Chars, NEW partly, NEW f, Solves(f, s, path),
           NEW k \in 1..Len(s), s[k] = Slash, At(s, k + 1) # Slash,
           NEW t \in 1..(Len(path) + 1), Accepts(s, partly, f[<<k, t>>])
    PROVE  \/ t \in 1..Len(path) /\ path[t] = Slash
           \/ partly /\ t = Len(path) + 1
<1>1. PICK n \in Nat : n = Len(s) /\ k \in 1..n /\ k \in 1..(n + 1)
    BY AtFacts
<1>2. IsOne(s, k)
    BY <1>1, KindsApart DEF IsOne, IsStar, IsSlashes, IsBrace
<1>3. f[<<k, t>>] = Returns(f, s, path, k, t)
    BY <1>1 DEF Solves
<1>4. CASE OneFits(s, k, path, t)
    BY <1>4, KindsApart DEF OneFits
<1>5. CASE ~OneFits(s, k, path, t)
  <2>1. f[<<k, t>>] = Stopped(s, k, path, t)
      BY <1>2, <1>3, <1>5, ReturnsStopped
  <2>2. Stopped(s, k, path, t) = IF t = Len(path) + 1 THEN k ELSE 0
      BY KindsApart DEF Stopped
  <2>3. Stopped(s, k, path, t) # n + 1
      BY <1>1, <2>2
  <2>4. partly /\ Stopped(s, k, path, t) # 0
      BY <1>1, <2>1, <2>3 DEF Accepts
  <2> QED
      BY <2>2, <2>4
<1> QED
    BY <1>4, <1>5

LEMMA Sound ==
    ASSUME NEW s \in Chars, NEW path \in Chars, NEW partly \in BOOLEAN,
           NEW f, Solves(f, s, path), NEW m, Understands(m, s, path, partly),
           partly => Plain(s),
           NEW p \in 1..(Len(s) + 1), NEW t \in 1..(Len(path) + 1),
           SoundBehind(f, m, s, path, partly, p), Accepts(s, partly, f[<<p, t>>])
    PROVE  m[<<p, t>>]
<1>1. PICK n \in Nat : n = Len(s) /\ p \in 1..(n + 1)
    BY AtFacts
<1>2. PICK end \in Nat : end = Len(path) + 1 /\ t \in 1..end
    BY AtFacts
<1>3. t..end \subseteq 1..end /\ (p + 1)..n \subseteq (p + 1)..(n + 1)
    BY <1>1, <1>2
<1>4. CASE IsStar(s, p)
  <2>1. p \in 1..Len(s)
      BY <1>4 DEF IsStar
  <2>2. PICK u \in StarEnds(path, t) : Accepts(s, partly, f[<<Skip(s, p, Star), u>>])
      BY <1>4, <2>1, StarAccepts
  <2>3. u \in 1..end
    <3>1. StarEnds(path, t) \subseteq t..end
        BY <1>2, StarEndsFacts
    <3> QED
        BY <1>3, <3>1
  <2>4. Accepts(s, partly, f[<<p + 1, u>>])
      BY <1>2, <1>4, <2>2, <2>3, BehindOneStar
  <2>5. p + 1 \in (p + 1)..(Len(s) + 1)
      BY <1>1, <2>1
  <2>6. m[<<p + 1, u>>]
      BY <1>2, <2>3, <2>4, <2>5 DEF SoundBehind
  <2>7. u \in Spans(s, p, path, t) /\ Behind(s, p) = p + 1
      BY <1>4, <2>2, SpansOfStar
  <2>8. m[<<Behind(s, p), u>>]
      BY <2>6, <2>7
  <2> QED
      BY <2>1, <2>7, <2>8, MeansBefore
<1>5. CASE IsSlashes(s, p)
  <2>1. p \in 1..Len(s)
      BY <1>5 DEF IsSlashes
  <2>2. PICK k : k = Skip(s, p, Slash) - 1 /\ k \in (p + 1)..n /\ s[k] = Slash
               /\ At(s, k + 1) # Slash
    <3>1. PICK k : k = Skip(s, p, Slash) - 1 /\ k \in (p + 1)..n /\ s[k] = Slash
        BY <1>1, <1>5, SlashesGoOn
    <3>2. Skip(s, p, Slash) = k + 1
      <4>1. Skip(s, p, Slash) \in Int
        <5>1. p \in 1..(Len(s) + 1) /\ Slash # 0
            BY KindsApart
        <5>2. Skip(s, p, Slash) \in p..(Len(s) + 1)
            BY <5>1, SkipFacts
        <5> QED
            BY <1>1, <5>2
      <4> QED
          BY <3>1, <4>1
    <3>3. At(s, Skip(s, p, Slash)) # Slash
        BY <1>5, SlashesGoOn
    <3> QED
        BY <3>1, <3>2, <3>3
  <2>3. PICK u \in SlashEnds(path, t) : Accepts(s, partly, f[<<k, u>>])
    <3>1. k = LastOf(s, p)
        BY <2>2 DEF LastOf
    <3>2. PICK u \in SlashEnds(path, t) : Accepts(s, partly, f[<<LastOf(s, p), u>>])
        BY <1>5, <2>1, SlashesAccept
    <3> QED
        BY <3>1, <3>2
  <2>4. u \in t..end
      BY <1>2, <2>3, SlashEndsFacts
  <2>5. k \in 1..Len(s) /\ u \in 1..(Len(path) + 1) /\ k \in (p + 1)..(Len(s) + 1)
      BY <1>1, <1>2, <1>3, <2>2, <2>4
  <2>6. \/ u \in 1..Len(path) /\ path[u] = Slash
        \/ partly /\ u = Len(path) + 1
      BY <2>2, <2>3, <2>5, LastSlash, SMTT(30)
  <2>7. CASE u \in 1..Len(path) /\ path[u] = Slash
    <3>1. u \in t..Len(path)
        BY <1>2, <2>4, <2>7
    <3>2. u \in Spans(s, p, path, t) /\ Behind(s, p) = k
      <4>1. Spans(s, p, path, t) = {v \in t..Len(path) : path[v] = Slash}
          BY <1>5, SpansOfSlashes
      <4> QED
          BY <1>5, <2>2, <2>7, <3>1, <4>1, SpansOfSlashes
    <3>3. m[<<k, u>>]
        BY <2>3, <2>5 DEF SoundBehind
    <3>4. m[<<Behind(s, p), u>>]
        BY <3>2, <3>3
    <3> QED
        BY <2>1, <3>2, <3>4, MeansBefore
  <2>8. CASE partly /\ u = Len(path) + 1 /\ ~(u \in 1..Len(path) /\ path[u] = Slash)
    <3>1. t = Len(path) + 1
      <4>1. u \in (t + 1)..Len(path) => u \in 1..Len(path)
          BY <1>2, <2>4
      <4> QED
          BY <1>2, <2>3, <2>8, <4>1 DEF SlashEnds
    <3> QED
        BY <2>8, <3>1, MeansAtEnd
  <2> QED
      BY <2>6, <2>7, <2>8
<1>6. CASE IsBrace(s, p)
  <2>1. p \in 1..n /\ s[p] = LBrace
      BY <1>1, <1>6 DEF IsBrace
  <2>2. ~partly
      BY <1>1, <2>1 DEF Plain
  <2>3. f[<<p, t>>] = n + 1 /\ f[<<p, t>>] = Returns(f, s, path, p, t)
      BY <1>1, <2>2 DEF Accepts, Solves
  <2>4. Seek(s, p, {RBrace}) # 0 /\ Fitting(s, p, path, t) # {}
    <3>1. Seek(s, p, {RBrace}) = 0 => Returns(f, s, path, p, t) = 0
        BY <1>6, ReturnsBrace
    <3>2. Seek(s, p, {RBrace}) # 0 /\ Fitting(s, p, path, t) = {} =>
                Returns(f, s, path, p, t) = p
        BY <1>6, ReturnsBrace
    <3>3. n + 1 # 0 /\ n + 1 # p
        BY <2>1
    <3> QED
        BY <2>3, <3>1, <3>2, <3>3
  <2>5. PICK k : k = Seek(s, p, {RBrace}) + 1 /\ k \in (p + 1)..(n + 1)
      BY <1>1, <1>6, <2>4, BraceGoesOn
  <2>6. PICK a \in Fitting(s, p, path, t) : a = ChoiceOf(Fitting(s, p, path, t))
      BY <1>6, <2>4, BraceGoesOn
  <2>7. PICK u : u = EndOf(t, a) /\ u \in 1..end
    <3>1. EndOf(t, a) \in t..end
        BY <1>2, <1>6, <2>4, BraceGoesOn
    <3> QED
        BY <1>3, <3>1
  <2>8. Returns(f, s, path, p, t) = f[<<k, u>>]
      BY <1>6, <2>4, <2>5, <2>6, <2>7, ReturnsBrace
  <2>9. Accepts(s, partly, f[<<k, u>>])
      BY <1>1, <2>3, <2>8 DEF Accepts
  <2>10. m[<<k, u>>]
      BY <1>1, <1>2, <2>5, <2>7, <2>9 DEF SoundBehind
  <2>11. u \in Spans(s, p, path, t) /\ Behind(s, p) = k
    <3>1. Spans(s, p, path, t) = EndsOf(s, p, path, t)
        BY <1>6, <2>4, SpansOfBrace
    <3> QED
        BY <1>6, <2>5, <2>7, <3>1, SpansOfBrace DEF EndsOf
  <2>12. m[<<Behind(s, p), u>>]
      BY <2>10, <2>11
  <2> QED
      BY <1>1, <2>1, <2>11, <2>12, MeansBefore
<1>7. CASE IsOne(s, p)
  <2>1. f[<<p, t>>] = Returns(f, s, path, p, t)
      BY DEF Solves
  <2>2. CASE ~OneFits(s, p, path, t)
    <3>1. f[<<p, t>>] = Stopped(s, p, path, t)
        BY <1>7, <2>1, <2>2, ReturnsStopped
    <3>2. CASE p = n + 1
      <4>1. Stopped(s, p, path, t) = IF t = Len(path) + 1 THEN p ELSE 0
          BY <1>1, <3>2 DEF Stopped
      <4>2. t = Len(path) + 1
        <5>1. n + 1 # 0
            OBVIOUS
        <5> QED
            BY <1>1, <3>1, <4>1, <5>1 DEF Accepts
      <4> QED
          BY <1>1, <3>2, <4>2, MeansAtEnd
    <3>3. CASE p # n + 1
      <4>1. p \in 1..n /\ 0 # n + 1
          BY <1>1, <3>3
      <4>2. Stopped(s, p, path, t) \in {p, 0}
          BY DEF Stopped
      <4>3. partly /\ Stopped(s, p, path, t) # 0
          BY <1>1, <3>1, <3>3, <4>1, <4>2 DEF Accepts
      <4>4. s[p] # LBracket
          BY <1>1, <4>1, <4>3 DEF Plain
      <4>5. t = Len(path) + 1
          BY <4>3, <4>4 DEF Stopped
      <4> QED
          BY <4>3, <4>5, MeansAtEnd
    <3> QED
        BY <3>2, <3>3
  <2>3. CASE OneFits(s, p, path, t)
    <3>1. PICK k : k = Follow(s, p) /\ k \in (p + 1)..(n + 1)
        BY <1>1, <2>3, OneGoesOn
    <3>2. PICK u : u = t + 1 /\ u \in 1..end
        BY <1>2, <2>3, OneGoesOn
    <3>3. f[<<p, t>>] = f[<<k, u>>]
        BY <1>7, <2>1, <2>3, <3>1, <3>2, ReturnsFitted
    <3>4. m[<<k, u>>]
        BY <1>1, <1>2, <3>1, <3>2, <3>3 DEF SoundBehind
    <3>5. p \in 1..Len(s)
        BY <2>3 DEF OneFits
    <3>6. u \in Spans(s, p, path, t) /\ Behind(s, p) = k
        BY <1>7, <2>3, <3>1, <3>2, <3>5, SpansOfOne
    <3>7. m[<<Behind(s, p), u>>]
        BY <3>4, <3>6
    <3> QED
        BY <3>5, <3>6, <3>7, MeansBefore
  <2> QED
      BY <2>2, <2>3
<1> QED
    BY <1>4, <1>5, <1>6, <1>7 DEF IsOne

-----------------------------------------------------------------------------
(* What is meant is accepted *)

LEMMA Complete ==
    ASSUME NEW s \in Chars, NEW path \in Chars, NEW partly \in BOOLEAN,
           NEW f, Solves(f, s, path), NEW m, Understands(m, s, path, partly),
           partly => Plain(s), PrefixFree(s),
           NEW p \in 1..(Len(s) + 1), NEW t \in 1..(Len(path) + 1),
           CompleteBehind(f, m, s, path, partly, p), m[<<p, t>>]
    PROVE  Accepts(s, partly, f[<<p, t>>])
<1>1. PICK n \in Nat : n = Len(s) /\ p \in 1..(n + 1)
    BY AtFacts
<1>2. PICK end \in Nat : end = Len(path) + 1 /\ t \in 1..end
    BY AtFacts
<1>3. t..end \subseteq 1..end /\ (p + 1)..n \subseteq (p + 1)..(n + 1)
    BY <1>1, <1>2
<1>4. MeansHere(m, s, path, partly, p, t)
    BY DEF Understands
<1>5. ASSUME p \in 1..n
      PROVE  \/ t = Len(path) + 1 /\ partly
             \/ \E u \in Spans(s, p, path, t) : m[<<Behind(s, p), u>>]
  <2>1. ~(p > Len(s))
      BY <1>1, <1>5
  <2> QED
      BY <1>4, <2>1 DEF MeansHere
\* At the end of the path everything is meant to match in part.
<1>6. ASSUME partly, NEW q \in (p + 1)..(n + 1)
      PROVE  Accepts(s, partly, f[<<q, Len(path) + 1>>])
  <2>1. q \in 1..(Len(s) + 1) /\ q \in (p + 1)..(Len(s) + 1)
      BY <1>1, <1>6
  <2>2. Len(path) + 1 \in 1..(Len(path) + 1)
      BY <1>2
  <2>3. m[<<q, Len(path) + 1>>]
      BY <1>6, <2>1, MeansAtEnd
  <2> QED
      BY <2>1, <2>2, <2>3 DEF CompleteBehind
<1>7. CASE IsStar(s, p)
  <2>1. p \in 1..n /\ p \in 1..Len(s)
      BY <1>1, <1>7 DEF IsStar
  <2>2. PICK k : k = Skip(s, p, Star) /\ k \in (p + 1)..(n + 1)
      BY <1>1, <1>7, StarGoesOn
  <2>3. \E u \in StarEnds(path, t) : Accepts(s, partly, f[<<k, u>>])
    <3>1. CASE t = Len(path) + 1 /\ partly
      <4>1. t \in StarEnds(path, t)
          BY StarEndsFacts
      <4> QED
          BY <1>6, <2>2, <3>1, <4>1
    <3>2. CASE \E u \in Spans(s, p, path, t) : m[<<Behind(s, p), u>>]
      <4>1. PICK u \in StarEnds(path, t) : m[<<p + 1, u>>]
          BY <1>7, <3>2, SpansOfStar
      <4>2. u \in 1..(Len(path) + 1)
        <5>1. StarEnds(path, t) \subseteq t..end
            BY <1>2, StarEndsFacts
        <5> QED
            BY <1>2, <1>3, <5>1
      <4>3. Accepts(s, partly, f[<<p + 1, u>>])
        <5>1. p + 1 \in (p + 1)..(Len(s) + 1)
            BY <1>1, <2>1
        <5> QED
            BY <4>1, <4>2, <5>1 DEF CompleteBehind
      <4>4. CASE At(s, p + 1) # Star
        <5>1. k = p + 1
            BY <1>7, <2>2, <4>4, StarGoesOn
        <5> QED
            BY <4>1, <4>3, <5>1
      <4>5. CASE At(s, p + 1) = Star
        <5>1. PICK q : q = p + 1 /\ q \in 1..Len(s) /\ IsStar(s, q)
          <6>1. p + 1 \in 1..Len(s)
              BY <1>1, <2>1, <4>5, AtFacts, KindsApart
          <6>2. s[p + 1] = Star
              BY <4>5, <6>1, AtFacts
          <6> QED
              BY <6>1, <6>2 DEF IsStar
        <5>2. Skip(s, q, Star) = k
            BY <1>7, <2>2, <5>1, StarGoesOn
        <5>3. Accepts(s, partly, f[<<q, u>>])
            BY <4>3, <5>1
        <5>4. PICK v \in StarEnds(path, u) : Accepts(s, partly, f[<<Skip(s, q, Star), v>>])
          <6>1. q \in 1..Len(s) /\ IsStar(s, q)
              BY <5>1
          <6> QED
              BY <4>2, <5>3, <6>1, StarAccepts, ZenonT(60)
        <5>5. v \in StarEnds(path, t)
            BY <4>1, <5>4, StarEndsFacts
        <5> QED
            BY <5>2, <5>4, <5>5
      <4> QED
          BY <4>4, <4>5
    <3> QED
        BY <1>5, <2>1, <3>1, <3>2
  <2> QED
      BY <1>7, <2>1, <2>2, <2>3, StarAccepts
<1>8. CASE IsSlashes(s, p)
  <2>1. p \in 1..n /\ p \in 1..Len(s)
      BY <1>1, <1>8 DEF IsSlashes
  <2>2. PICK k : k = Skip(s, p, Slash) - 1 /\ k \in (p + 1)..n
      BY <1>1, <1>8, SlashesGoOn
  <2>3. k \in (p + 1)..(n + 1) /\ k = LastOf(s, p)
      BY <1>3, <2>2 DEF LastOf
  <2>4. \E u \in SlashEnds(path, t) : Accepts(s, partly, f[<<k, u>>])
    <3>1. CASE t = Len(path) + 1 /\ partly
      <4>1. t \in SlashEnds(path, t)
          BY SlashEndsFacts
      <4> QED
          BY <1>6, <2>3, <3>1, <4>1
    <3>2. CASE \E u \in Spans(s, p, path, t) : m[<<Behind(s, p), u>>]
      <4>1. PICK u \in Spans(s, p, path, t) : m[<<k, u>>]
          BY <1>8, <2>2, <3>2, SpansOfSlashes
      <4>2. Spans(s, p, path, t) = {v \in t..Len(path) : path[v] = Slash}
          BY <1>8, SpansOfSlashes
      <4>3. u \in t..Len(path) /\ path[u] = Slash
          BY <4>1, <4>2
      <4>4. u \in SlashEnds(path, t)
        <5>1. u = t \/ u \in (t + 1)..Len(path)
            BY <1>2, <4>3
        <5> QED
            BY <4>3, <5>1 DEF SlashEnds
      <4>5. u \in 1..(Len(path) + 1) /\ k \in (p + 1)..(Len(s) + 1)
          BY <1>1, <1>2, <2>3, <4>3
      <4>6. Accepts(s, partly, f[<<k, u>>])
          BY <4>1, <4>5 DEF CompleteBehind
      <4> QED
          BY <4>4, <4>6
    <3> QED
        BY <1>5, <2>1, <3>1, <3>2
  <2>5. \E u \in SlashEnds(path, t) : Accepts(s, partly, f[<<LastOf(s, p), u>>])
      BY <2>3, <2>4
  <2> QED
      BY <1>8, <2>1, <2>5, SlashesAccept
<1>9. CASE IsBrace(s, p)
  <2>1. p \in 1..n /\ s[p] = LBrace
      BY <1>1, <1>9 DEF IsBrace
  <2>2. ~partly
      BY <1>1, <2>1 DEF Plain
  <2>3. PICK u \in Spans(s, p, path, t) : m[<<Behind(s, p), u>>]
      BY <1>5, <2>1, <2>2
  <2>4. Seek(s, p, {RBrace}) # 0 /\ u \in EndsOf(s, p, path, t)
    <3>1. Spans(s, p, path, t) = IF Seek(s, p, {RBrace}) = 0 THEN {} ELSE EndsOf(s, p, path, t)
        BY <1>9, SpansOfBrace
    <3>2. Seek(s, p, {RBrace}) # 0
        BY <2>3, <3>1
    <3> QED
        BY <2>3, <3>1, <3>2
  <2>5. PICK a \in Fitting(s, p, path, t) : u = EndOf(t, a)
      BY <2>4 DEF EndsOf
  <2>6. PICK k : k = Seek(s, p, {RBrace}) + 1 /\ k \in (p + 1)..(n + 1)
      BY <1>1, <1>9, <2>4, BraceGoesOn
  <2>7. Fitting(s, p, path, t) # {}
      BY <2>5
  <2>8. ChoiceOf(Fitting(s, p, path, t)) \in Fitting(s, p, path, t)
      BY <1>9, <2>4, <2>7, BraceGoesOn
  <2>9. ChoiceOf(Fitting(s, p, path, t)) = a
      BY <1>9, <2>4, <2>5, <2>8, FitsOnce
  <2>10. u \in 1..(Len(path) + 1)
    <3>1. EndOf(t, a) \in t..end
        BY <1>2, <1>9, <2>4, <2>5, BraceGoesOn
    <3> QED
        BY <1>2, <1>3, <2>5, <3>1
  <2>11. f[<<p, t>>] = Returns(f, s, path, p, t)
      BY DEF Solves
  <2>12. Returns(f, s, path, p, t) = f[<<k, u>>]
      BY <1>9, <2>4, <2>5, <2>6, <2>7, <2>9, ReturnsBrace
  <2>13. m[<<k, u>>]
    <3>1. Behind(s, p) = k
        BY <1>9, <2>6, SpansOfBrace
    <3> QED
        BY <2>3, <3>1
  <2>14. Accepts(s, partly, f[<<k, u>>])
      BY <1>1, <2>6, <2>10, <2>13 DEF CompleteBehind
  <2> QED
      BY <2>11, <2>12, <2>14
<1>10. CASE IsOne(s, p)
  <2>1. f[<<p, t>>] = Returns(f, s, path, p, t)
      BY DEF Solves
  <2>2. CASE ~OneFits(s, p, path, t)
    <3>1. f[<<p, t>>] = Stopped(s, p, path, t)
        BY <1>10, <2>1, <2>2, ReturnsStopped
    <3>2. t = Len(path) + 1 /\ (partly \/ p = n + 1)
      <4>1. CASE p = n + 1
        <5>1. ~(p <= Len(s))
            BY <1>1, <4>1
        <5> QED
            BY <1>4, <4>1, <5>1 DEF MeansHere
      <4>2. CASE p # n + 1
        <5>1. p \in 1..n /\ p \in 1..Len(s)
            BY <1>1, <4>2
        <5>2. Spans(s, p, path, t) = {}
            BY <1>10, <2>2, <5>1, SpansOfOne
        <5> QED
            BY <1>5, <5>1, <5>2
      <4> QED
          BY <4>1, <4>2
    <3>3. f[<<p, t>>] = p
        BY <3>1, <3>2 DEF Stopped
    <3>4. p # 0
        BY <1>1
    <3> QED
        BY <1>1, <3>2, <3>3, <3>4 DEF Accepts
  <2>3. CASE OneFits(s, p, path, t)
    <3>1. PICK k : k = Follow(s, p) /\ k \in (p + 1)..(n + 1)
        BY <1>1, <2>3, OneGoesOn
    <3>2. PICK u : u = t + 1 /\ u \in 1..end
        BY <1>2, <2>3, OneGoesOn
    <3>3. f[<<p, t>>] = f[<<k, u>>]
        BY <1>10, <2>1, <2>3, <3>1, <3>2, ReturnsFitted
    <3>4. p \in 1..Len(s) /\ p \in 1..n
        BY <1>1, <2>3 DEF OneFits
    <3>5. Spans(s, p, path, t) = {t + 1} /\ Behind(s, p) = k
        BY <1>10, <2>3, <3>1, <3>4, SpansOfOne
    <3>6. t # Len(path) + 1
        BY <1>2, <3>2
    <3>7. m[<<k, u>>]
        BY <1>5, <3>2, <3>4, <3>5, <3>6
    <3>8. Accepts(s, partly, f[<<k, u>>])
        BY <1>1, <1>2, <3>1, <3>2, <3>7 DEF CompleteBehind
    <3> QED
        BY <3>3, <3>8
  <2> QED
      BY <2>2, <2>3
<1> QED
    BY <1>7, <1>8, <1>9, <1>10 DEF IsOne

-----------------------------------------------------------------------------
(* From the last place of the pattern to the first *)

LEMMA SoundEverywhere ==
    ASSUME NEW s \in Chars, NEW path \in Chars, NEW partly \in BOOLEAN,
           NEW f, Solves(f, s, path), NEW m, Understands(m, s, path, partly),
           partly => Plain(s),
           NEW p \in 1..(Len(s) + 1), NEW t \in 1..(Len(path) + 1),
           Accepts(s, partly, f[<<p, t>>])
    PROVE  m[<<p, t>>]
<1>1. PICK n \in Nat : n = Len(s) /\ p \in 1..(n + 1)
    BY AtFacts
<1>2. PICK end \in Nat : end = Len(path) + 1 /\ t \in 1..end
    BY AtFacts
<1> DEFINE Done == {k \in Nat : \A q \in 1..(n + 1), u \in 1..end :
                        q + k > n + 1 /\ Accepts(s, partly, f[<<q, u>>]) => m[<<q, u>>]}
<1>3. 0 \in Done
    BY <1>1
<1>4. ASSUME NEW k \in Nat, k \in Done PROVE k + 1 \in Done
  <2>1. ASSUME NEW q \in 1..(n + 1), NEW u \in 1..end, q + (k + 1) > n + 1,
               Accepts(s, partly, f[<<q, u>>])
        PROVE  m[<<q, u>>]
    <3>1. ASSUME NEW r \in (q + 1)..(n + 1), NEW v \in 1..end, Accepts(s, partly, f[<<r, v>>])
          PROVE  m[<<r, v>>]
      <4>1. r \in 1..(n + 1) /\ r + k > n + 1
          BY <2>1, SMTT(30)
      <4> QED
          BY <1>4, <3>1, <4>1
    <3>2. SoundBehind(f, m, s, path, partly, q)
        BY <1>1, <1>2, <3>1 DEF SoundBehind
    <3>3. q \in 1..(Len(s) + 1) /\ u \in 1..(Len(path) + 1)
        BY <1>1, <1>2
    <3> QED
        BY <2>1, <3>2, <3>3, Sound
  <2> QED
      BY <2>1
<1>5. Nat \subseteq Done
  <2> HIDE DEF Done
  <2> QED
      BY <1>3, <1>4, NatSetInduction
<1>6. n + 1 \in Done
  <2>1. n + 1 \in Nat
      OBVIOUS
  <2> HIDE DEF Done
  <2> QED
      BY <1>5, <2>1
<1>7. p + (n + 1) > n + 1
    BY <1>1
<1> QED
    BY <1>1, <1>2, <1>6, <1>7

LEMMA CompleteEverywhere ==
    ASSUME NEW s \in Chars, NEW path \in Chars, NEW partly \in BOOLEAN,
           NEW f, Solves(f, s, path), NEW m, Understands(m, s, path, partly),
           partly => Plain(s), PrefixFree(s),
           NEW p \in 1..(Len(s) + 1), NEW t \in 1..(Len(path) + 1),
           m[<<p, t>>]
    PROVE  Accepts(s, partly, f[<<p, t>>])
<1>1. PICK n \in Nat : n = Len(s) /\ p \in 1..(n + 1)
    BY AtFacts
<1>2. PICK end \in Nat : end = Len(path) + 1 /\ t \in 1..end
    BY AtFacts
<1> DEFINE Done == {k \in Nat : \A q \in 1..(n + 1), u \in 1..end :
                        q + k > n + 1 /\ m[<<q, u>>] => Accepts(s, partly, f[<<q, u>>])}
<1>3. 0 \in Done
    BY <1>1
<1>4. ASSUME NEW k \in Nat, k \in Done PROVE k + 1 \in Done
  <2>1. ASSUME NEW q \in 1..(n + 1), NEW u \in 1..end, q + (k + 1) > n + 1, m[<<q, u>>]
        PROVE  Accepts(s, partly, f[<<q, u>>])
    <3>1. ASSUME NEW r \in (q + 1)..(n + 1), NEW v \in 1..end, m[<<r, v>>]
          PROVE  Accepts(s, partly, f[<<r, v>>])
      <4>1. r \in 1..(n + 1) /\ r + k > n + 1
          BY <2>1, SMTT(30)
      <4> QED
          BY <1>4, <3>1, <4>1
    <3>2. CompleteBehind(f, m, s, path, partly, q)
        BY <1>1, <1>2, <3>1 DEF CompleteBehind
    <3>3. q \in 1..(Len(s) + 1) /\ u \in 1..(Len(path) + 1)
        BY <1>1, <1>2
    <3> QED
        BY <2>1, <3>2, <3>3, Complete
  <2> QED
      BY <2>1, SMTT(30)
<1>5. Nat \subseteq Done
  <2> HIDE DEF Done
  <2> QED
      BY <1>3, <1>4, NatSetInduction
<1>6. n + 1 \in Done
  <2>1. n + 1 \in Nat
      OBVIOUS
  <2> HIDE DEF Done
  <2> QED
      BY <1>5, <2>1
<1>7. p + (n + 1) > n + 1
    BY <1>1
<1> QED
    BY <1>1, <1>2, <1>6, <1>7

\* What the matcher accepts at the beginning of both, and what it should.
LEMMA Understood ==
    ASSUME NEW s \in Chars, NEW path \in Chars, NEW partly \in BOOLEAN, partly => Plain(s)
    PROVE  /\ Accepts(s, partly, Reached(s, path)) => Means(s, path, partly)
           /\ PrefixFree(s) /\ Means(s, path, partly) => Accepts(s, partly, Reached(s, path))
<1>1. PICK f : Solves(f, s, path) /\ Reached(s, path) = f[<<1, 1>>]
    BY ReachedUnfolds, SolvedInPlaces
<1>2. PICK m : MeaningUpTo(m, s, path, partly, Len(s) + 1) /\ Means(s, path, partly) = m[<<1, 1>>]
    BY MeansUnfolds
<1>3. Understands(m, s, path, partly)
  <2>1. ASSUME NEW p \in 1..(Len(s) + 1) PROVE p + (Len(s) + 1) > Len(s) + 1
    <3>1. PICK n \in Nat : n = Len(s)
        BY AtFacts
    <3> QED
        BY <3>1
  <2> QED
      BY <1>2, <2>1 DEF MeaningUpTo, Understands
<1>4. 1 \in 1..(Len(s) + 1) /\ 1 \in 1..(Len(path) + 1)
  <2>1. Len(s) \in Nat /\ Len(path) \in Nat
      BY AtFacts
  <2> QED
      BY <2>1
<1>5. Accepts(s, partly, f[<<1, 1>>]) => m[<<1, 1>>]
    BY <1>1, <1>3, <1>4, SoundEverywhere
<1>6. PrefixFree(s) /\ m[<<1, 1>>] => Accepts(s, partly, f[<<1, 1>>])
    BY <1>1, <1>3, <1>4, CompleteEverywhere
<1> QED
    BY <1>1, <1>2, <1>5, <1>6

\* fullPatternMatch accepts what a pattern means and nothing else, whatever the
\* pattern and the path.
THEOREM FullMatchUnderstood ==
    ASSUME NEW s \in Chars, NEW path \in Chars
    PROVE  FullMatchIsMeant(s, path)
<1>1. Accepts(s, FALSE, Reached(s, path)) <=> FullPatternMatch(s, path)
    BY DEF Accepts, FullPatternMatch
<1> QED
    BY <1>1, Understood DEF FullMatchIsMeant

\* partialPatternMatch accepts what the beginning of a pattern without brackets
\* and braces means.
THEOREM PartialMatchUnderstood ==
    ASSUME NEW s \in Chars, NEW path \in Chars
    PROVE  PartialMatchIsMeant(s, path)
<1>1. SUFFICES ASSUME Seek(s, 1, {LBracket, LBrace}) = 0
               PROVE  PartialPatternMatch(s, path) <=> Means(s, path, TRUE)
    BY DEF PartialMatchIsMeant
<1>2. PICK n \in Nat : n = Len(s) /\ DOMAIN s = 1..n
    BY LenProperties DEF Chars
<1>3. \A j \in 1..n : s[j] \notin {LBracket, LBrace}
  <2>1. \A j \in 1..n : j \in Nat
      OBVIOUS
  <2> QED
      BY <1>1, <1>2, <2>1, SeekFacts
<1>4. Plain(s)
    BY <1>2, <1>3 DEF Plain
<1>5. PrefixFree(s)
    BY <1>2, <1>3 DEF PrefixFree
<1>6. Accepts(s, TRUE, Reached(s, path)) <=> PartialPatternMatch(s, path)
  <2>1. Len(s) + 1 # 0
      BY <1>2
  <2> QED
      BY <2>1 DEF Accepts, PartialPatternMatch
<1> QED
    BY <1>4, <1>5, <1>6, Understood

-----------------------------------------------------------------------------
(* The directory of a path that matches *)

\* dir is path up to its last slash, at n; all of it is behind n if it has none.
IsDirectory(dir, path, n) ==
    /\ n \in Nat /\ n <= Len(path)
    /\ dir \in Chars /\ Len(dir) = n /\ \A i \in 1..n : dir[i] = path[i]
    /\ n > 0 => path[n] = Slash
    /\ \A i \in (n + 1)..Len(path) : path[i] # Slash

\* Directory is that.
LEMMA DirectoryIs ==
    ASSUME NEW path \in Chars
    PROVE  \E n : IsDirectory(Directory(path), path, n)
<1>1. PICK len \in Nat : len = Len(path) /\ DOMAIN path = 1..len
    BY LenProperties DEF Chars
<1>2. PICK places : places = {0} \cup {i \in 1..len : path[i] = Slash}
    OBVIOUS
<1>3. PICK n : n = Max(places) /\ n \in places /\ \A i \in places : i <= n
  <2>1. places \subseteq 0..len /\ places # {}
      BY <1>2
  <2> QED
      BY <2>1, GreatestIs
<1>4. n \in Nat /\ n <= len /\ (n > 0 => path[n] = Slash)
    BY <1>2, <1>3
<1>5. ASSUME NEW i \in (n + 1)..len PROVE path[i] # Slash
  <2>1. i \in 1..len /\ ~(i <= n)
      BY <1>4
  <2> QED
      BY <1>2, <1>3, <2>1
<1>6. \A i \in 1..len : path[i] \in 1..255
    BY <1>1, ElementOfSeq, SMTT(30) DEF Chars
<1>7. PICK one \in Int : one = 1
    OBVIOUS
<1>8. PICK dir : dir = SubSeq(path, one, n)
    OBVIOUS
<1>9. \A i \in one..n : path[i] \in 1..255
    BY <1>4, <1>6, <1>7
<1>10. /\ dir \in Seq(1..255) /\ Len(dir) = IF one <= n THEN n - one + 1 ELSE 0
       /\ \A i \in 1..(n - one + 1) : dir[i] = path[one + i - 1]
    BY <1>4, <1>8, <1>9, SubSeqProperties
<1>11. Len(dir) = n
    BY <1>4, <1>7, <1>10
<1>12. ASSUME NEW i \in 1..n PROVE dir[i] = path[i]
  <2>1. i \in 1..(n - one + 1) /\ one + i - 1 = i
      BY <1>4, <1>7
  <2> QED
      BY <1>10, <2>1
<1>13. dir = Directory(path)
    BY <1>1, <1>2, <1>3, <1>7, <1>8 DEF Directory
<1> QED
    BY <1>1, <1>4, <1>5, <1>10, <1>11, <1>12, <1>13 DEF IsDirectory, Chars

\* The place in the directory for a place in the path: the same, or its end.
Short(t, n) == IF t <= n THEN t ELSE n + 1

\* Such a place has the same character.
LEMMA ShortFacts ==
    ASSUME NEW path \in Chars, NEW dir, NEW n, IsDirectory(dir, path, n), NEW t \in 1..(Len(path) + 1)
    PROVE  /\ Short(t, n) \in 1..(n + 1)
           /\ t <= n => /\ Short(t, n) = t /\ t \in 1..n /\ n \in 1..Len(path)
                        /\ dir[t] = path[t] /\ path[n] = Slash
           /\ ~(t <= n) => Short(t, n) = n + 1 /\ \A i \in t..Len(path) : path[i] # Slash
<1>1. PICK len \in Nat : len = Len(path)
    BY AtFacts
<1>2. n \in Nat /\ n <= len /\ t \in 1..(len + 1)
    BY <1>1 DEF IsDirectory
<1>3. Short(t, n) \in 1..(n + 1)
    BY <1>2 DEF Short
<1>4. ASSUME t <= n
      PROVE  /\ Short(t, n) = t /\ t \in 1..n /\ n \in 1..Len(path)
             /\ dir[t] = path[t] /\ path[n] = Slash
  <2>1. t \in 1..n /\ n > 0 /\ n \in 1..len
      BY <1>2, <1>4
  <2> QED
      BY <1>1, <1>4, <2>1 DEF IsDirectory, Short
<1>5. ASSUME ~(t <= n) PROVE Short(t, n) = n + 1 /\ \A i \in t..Len(path) : path[i] # Slash
  <2>1. \A i \in t..len : i \in (n + 1)..len
      BY <1>2, <1>5
  <2> QED
      BY <1>1, <1>5, <2>1 DEF IsDirectory, Short
<1> QED
    BY <1>3, <1>4, <1>5

\* A star may end in the directory where it may in the path.
LEMMA StarShort ==
    ASSUME NEW path \in Chars, NEW dir, NEW n, IsDirectory(dir, path, n),
           NEW t \in 1..(Len(path) + 1), NEW u \in StarEnds(path, t)
    PROVE  Short(u, n) \in StarEnds(dir, Short(t, n))
<1>1. PICK len \in Nat : len = Len(path) /\ t \in 1..(len + 1) /\ t \in Nat \ {0}
    BY AtFacts
<1>2. n \in Nat /\ n <= len /\ dir \in Chars /\ Len(dir) = n
    BY <1>1 DEF IsDirectory
<1>3. u \in t..(len + 1)
    BY <1>1, StarEndsFacts
<1>4. CASE ~(t <= n)
  <2>1. Short(u, n) = n + 1 /\ Short(t, n) = n + 1
      BY <1>1, <1>2, <1>3, <1>4 DEF Short
  <2>2. n + 1 \in 1..(Len(dir) + 1)
      BY <1>2
  <2> QED
      BY <1>2, <2>1, <2>2, StarEndsFacts
<1>5. CASE t <= n
  <2>1. Short(t, n) = t /\ t \in 1..n /\ n \in 1..len /\ path[n] = Slash
      BY <1>1, <1>5, ShortFacts
  <2>2. PICK slash : slash = Seek(path, t, {Slash})
      OBVIOUS
  <2>3. slash \in t..len /\ \A j \in t..(slash - 1) : path[j] # Slash
    <3>1. \/ slash = 0 /\ \A j \in t..len : path[j] # Slash
          \/ slash \in t..len /\ \A j \in t..(slash - 1) : path[j] # Slash
        BY <1>1, <2>2, SeekFacts
    <3>2. n \in t..len
        BY <1>1, <1>2, <1>5
    <3> QED
        BY <2>1, <3>1, <3>2
  <2>4. u \in t..slash
    <3>1. slash # 0
        BY <1>1, <2>3
    <3> QED
        BY <2>2, <3>1 DEF StarEnds
  <2>5. slash <= n
    <3>1. ~(slash <= n) => n \in t..(slash - 1)
        BY <1>1, <1>2, <1>5, <2>3
    <3>2. \A j \in t..(slash - 1) : path[j] # Slash
        BY <2>3
    <3> QED
        BY <2>1, <3>1, <3>2, Zenon
  <2>6. Short(u, n) = u
      BY <1>1, <1>2, <2>3, <2>4, <2>5 DEF Short
  <2>7. PICK last : last = Seek(dir, t, {Slash})
      OBVIOUS
  <2>8. \/ last = 0
        \/ last \in t..n /\ dir[last] = Slash
      BY <1>1, <1>2, <2>7, SeekFacts
  <2>9. CASE last = 0
    <3>1. StarEnds(dir, t) = t..(n + 1)
        BY <1>2, <2>7, <2>9 DEF StarEnds
    <3> QED
        BY <1>1, <1>2, <2>1, <2>3, <2>4, <2>5, <2>6, <3>1
  <2>10. CASE last \in t..n /\ dir[last] = Slash
    <3>1. last # 0
        BY <1>1, <2>10
    <3>2. StarEnds(dir, t) = t..last
        BY <2>7, <3>1 DEF StarEnds
    <3>3. path[last] = Slash
      <4>1. last \in 1..n
          BY <1>1, <1>2, <2>10
      <4> QED
          BY <2>10, <4>1 DEF IsDirectory
    <3>4. ~(last < slash)
      <4>1. last < slash => last \in t..(slash - 1)
          BY <1>1, <1>2, <2>3, <2>10
      <4> QED
          BY <2>3, <3>3, <4>1
    <3> QED
        BY <1>1, <1>2, <2>1, <2>3, <2>4, <2>6, <2>10, <3>2, <3>4
  <2> QED
      BY <2>8, <2>9, <2>10
<1> QED
    BY <1>4, <1>5

\* So may several slashes.
LEMMA SlashesShort ==
    ASSUME NEW path \in Chars, NEW dir, NEW n, IsDirectory(dir, path, n),
           NEW t \in 1..(Len(path) + 1), NEW u \in SlashEnds(path, t)
    PROVE  Short(u, n) \in SlashEnds(dir, Short(t, n))
<1>1. PICK len \in Nat : len = Len(path) /\ t \in 1..(len + 1)
    BY AtFacts
<1>2. n \in Nat /\ n <= len /\ Len(dir) = n
    BY <1>1 DEF IsDirectory
<1>3. CASE u = t
    BY <1>3 DEF SlashEnds
<1>4. CASE u # t
  <2>1. u \in (t + 1)..len /\ path[u] = Slash
      BY <1>1, <1>4 DEF SlashEnds
  <2>2. u <= n
    <3>1. ~(u <= n) => u \in (n + 1)..len
        BY <1>1, <1>2, <2>1
    <3> QED
        BY <1>1, <2>1, <3>1 DEF IsDirectory
  <2>3. t <= n /\ u \in 1..n /\ u \in (t + 1)..n
      BY <1>1, <1>2, <2>1, <2>2
  <2>4. Short(u, n) = u /\ Short(t, n) = t
      BY <2>2, <2>3 DEF Short
  <2>5. dir[u] = Slash
      BY <2>1, <2>3 DEF IsDirectory
  <2> QED
      BY <1>2, <2>3, <2>4, <2>5 DEF SlashEnds
<1> QED
    BY <1>3, <1>4

\* An alternative without a slash fits the path where it fits its directory, and
\* there it ends within the directory.
LEMMA AlternativeShort ==
    ASSUME NEW s \in Chars, NEW path \in Chars, NEW dir, NEW n, IsDirectory(dir, path, n),
           NEW p, NEW brace, Braced(s, p, brace), \A j \in p..brace : s[j] # Slash,
           NEW a, IsAlternative(s, p, brace, a),
           NEW t \in 1..(Len(path) + 1), t <= n
    PROVE  /\ StartsAt(path, t, s, a) <=> StartsAt(dir, t, s, a)
           /\ StartsAt(path, t, s, a) => EndOf(t, a) \in t..n
<1>1. PICK m \in Nat : m = Len(s) /\ p \in 1..m /\ brace \in (p + 1)..m
    BY AtFacts DEF Braced
<1>2. PICK from \in Nat, to \in Int : from = a[1] /\ to = a[2]
    BY <1>1 DEF IsAlternative
<1>3. from \in (p + 1)..brace /\ to \in (from - 1)..(brace - 1)
    BY <1>2 DEF IsAlternative
<1>4. PICK len \in Nat : len = Len(path) /\ t \in 1..(len + 1)
    BY AtFacts
<1>5. t \in 1..n /\ n \in 1..len /\ path[n] = Slash /\ n \in Nat
    BY <1>4, ShortFacts
<1>6. dir \in Chars /\ Len(dir) = n /\ \A i \in 1..n : dir[i] = path[i]
    BY DEF IsDirectory
<1>7. ASSUME NEW k \in 0..(to - from)
      PROVE  s[from + k] # 0 /\ s[from + k] # Slash
  <2>1. from + k \in 1..m /\ from + k \in p..brace
      BY <1>1, <1>3
  <2> QED
      BY <1>1, <2>1, AtFacts
<1>8. \A i \in 1..n : At(dir, i) = path[i] /\ At(path, i) = path[i]
  <2> TAKE i \in 1..n
  <2>1. i \in 1..len /\ i \in Int
      BY <1>5
  <2> QED
      BY <1>4, <1>6, <2>1, AtFacts
<1>9. ASSUME StartsAt(path, t, s, a), NEW k \in 0..(to - from)
      PROVE  t + k \in 1..(n - 1)
  <2>1. \A i \in 0..(to - from) : At(path, t + i) = s[from + i]
      BY <1>2, <1>9 DEF StartsAt
  <2>2. ~(t + k >= n)
    <3> SUFFICES ASSUME t + k >= n PROVE FALSE
        OBVIOUS
    <3>1. PICK i \in 0..(to - from) : t + i = n
      <4>1. n - t \in 0..(to - from) /\ t + (n - t) = n
          BY <1>3, <1>5
      <4> QED
          BY <4>1
    <3>2. At(path, n) = s[from + i]
        BY <2>1, <3>1
    <3>3. At(path, n) = Slash
      <4>1. n \in 1..n
          BY <1>5
      <4> QED
          BY <1>5, <1>8, <4>1
    <3> QED
        BY <1>7, <3>2, <3>3
  <2> QED
      BY <1>3, <1>5, <2>2
<1>10. ASSUME StartsAt(path, t, s, a) PROVE StartsAt(dir, t, s, a)
  <2>1. ASSUME NEW k \in 0..(to - from) PROVE At(dir, t + k) = s[from + k]
    <3>1. t + k \in 1..n
      <4>1. t + k \in 1..(n - 1)
          BY <1>9, <1>10, <2>1, Zenon
      <4> QED
          BY <1>5, <4>1
    <3>2. At(path, t + k) = s[from + k]
        BY <1>2, <1>10 DEF StartsAt
    <3> QED
        BY <1>8, <3>1, <3>2
  <2> QED
      BY <1>2, <2>1 DEF StartsAt
<1>11. ASSUME StartsAt(dir, t, s, a) PROVE StartsAt(path, t, s, a)
  <2>1. ASSUME NEW k \in 0..(to - from) PROVE At(path, t + k) = s[from + k]
    <3>1. At(dir, t + k) = s[from + k]
        BY <1>2, <1>11 DEF StartsAt
    <3>2. t + k \in Int
        BY <1>3, <1>5
    <3>3. t + k \in 1..n
        BY <1>6, <1>7, <3>1, <3>2, AtFacts
    <3> QED
        BY <1>8, <3>1, <3>3
  <2> QED
      BY <1>2, <2>1 DEF StartsAt
<1>12. ASSUME StartsAt(path, t, s, a) PROVE EndOf(t, a) \in t..n
  <2>1. EndOf(t, a) = t + to - from + 1
      BY <1>2 DEF EndOf
  <2>2. CASE to = from - 1
      BY <1>3, <1>5, <2>1, <2>2
  <2>3. CASE to # from - 1
    <3>1. to - from \in 0..(to - from)
        BY <1>3, <2>3
    <3>2. t + (to - from) \in 1..(n - 1)
        BY <1>9, <1>12, <3>1
    <3> QED
        BY <1>3, <1>5, <2>1, <2>3, <3>2
  <2> QED
      BY <2>2, <2>3
<1> QED
    BY <1>10, <1>11, <1>12

\* What matches to the end behind p comes to the directory's end before that.
ShortBehind(f, g, s, path, n, p) ==
    \A q \in (p + 1)..(Len(s) + 1), u \in 1..(Len(path) + 1) :
        f[<<q, u>>] = Len(s) + 1 => g[<<q, Short(u, n)>>] # 0

\* f is what is returned for the path, g what is returned for its directory.
Pair(f, g, s, path, dir, n) ==
    IsDirectory(dir, path, n) /\ Solves(f, s, path) /\ Solves(g, s, dir)

LEMMA RowShort ==
    ASSUME NEW s \in Chars, NEW path \in Chars, NEW dir, NEW n, NEW f, NEW g,
           Pair(f, g, s, path, dir, n),
           NEW p \in 1..(Len(s) + 1), ShortBehind(f, g, s, path, n, p),
           NEW k \in (p + 1)..(Len(s) + 1),
           NEW U, U \subseteq 1..(Len(path) + 1), U # {}, Best(Row(f, k, U)) = Len(s) + 1,
           NEW V, V \subseteq 1..(n + 1), \A u \in U : Short(u, n) \in V
    PROVE  Best(Row(g, k, V)) # 0
<1>1. PICK m \in Nat : m = Len(s) /\ p \in 1..(m + 1) /\ k \in (p + 1)..(m + 1)
    BY AtFacts
<1>2. Len(dir) = n /\ dir \in Chars
    BY DEF Pair, IsDirectory
<1>3. PlacesBehind(f, s, path, p) /\ PlacesBehind(g, s, dir, p)
  <2>1. (p + 1)..(m + 1) \subseteq 1..(m + 1)
      BY <1>1
  <2> QED
      BY <1>1, <2>1 DEF Pair, Solves, PlacesBehind
<1>4. PICK u \in U : f[<<k, u>>] = Len(s) + 1
  <2>1. \E u \in U : Best(Row(f, k, U)) = f[<<k, u>>]
    <3>1. /\ \E u \in U : Best(Row(f, k, U)) = f[<<k, u>>]
          /\ \A u \in U : f[<<k, u>>] <= Best(Row(f, k, U))
          /\ Best(Row(f, k, U)) \in 0..(Len(s) + 1)
        BY <1>3, BestOfRow, Zenon
    <3> QED
        BY <3>1
  <2> QED
      BY <2>1
<1>5. g[<<k, Short(u, n)>>] # 0 /\ Short(u, n) \in V
    BY <1>4 DEF ShortBehind
<1>6. /\ g[<<k, Short(u, n)>>] <= Best(Row(g, k, V)) /\ g[<<k, Short(u, n)>>] \in 0..(m + 1)
      /\ Best(Row(g, k, V)) \in 0..(m + 1)
  <2>1. V \subseteq 1..(Len(dir) + 1) /\ V # {}
      BY <1>2, <1>5
  <2>2. /\ \A v \in V : g[<<k, v>>] <= Best(Row(g, k, V))
        /\ Best(Row(g, k, V)) \in 0..(Len(s) + 1)
      BY <1>2, <1>3, <2>1, BestOfRow, Zenon
  <2>3. g[<<k, Short(u, n)>>] \in 0..(m + 1)
      BY <1>1, <1>3, <1>5, <2>1 DEF PlacesBehind
  <2> QED
      BY <1>1, <1>5, <2>2, <2>3
<1> QED
    BY <1>5, <1>6

LEMMA DirectoryStep ==
    ASSUME NEW s \in Chars, NEW path \in Chars, NEW dir, NEW n, NEW f, NEW g,
           Pair(f, g, s, path, dir, n), BracesWithinElements(s),
           NEW p \in 1..(Len(s) + 1), ShortBehind(f, g, s, path, n, p),
           NEW t \in 1..(Len(path) + 1), f[<<p, t>>] = Len(s) + 1
    PROVE  g[<<p, Short(t, n)>>] # 0
<1>1. PICK m \in Nat : m = Len(s) /\ p \in 1..(m + 1)
    BY AtFacts
<1>2. PICK len \in Nat : len = Len(path) /\ t \in 1..(len + 1)
    BY AtFacts
<1>3. IsDirectory(dir, path, n) /\ dir \in Chars /\ Len(dir) = n /\ n \in Nat /\ n <= len
    BY <1>2 DEF Pair, IsDirectory
<1>4. PICK v \in 1..(n + 1) : v = Short(t, n)
    BY <1>3, ShortFacts
<1>5. f[<<p, t>>] = Returns(f, s, path, p, t)
    BY DEF Pair, Solves
<1>6. g[<<p, v>>] = Returns(g, s, dir, p, v)
  <2>1. v \in 1..(Len(dir) + 1)
      BY <1>3
  <2> QED
      BY <2>1 DEF Pair, Solves
<1>7. CASE IsStar(s, p)
  <2>1. PICK k \in (p + 1)..(Len(s) + 1) : k = Skip(s, p, Star)
      BY <1>7, StarGoesOn
  <2>2. PICK U : U = StarEnds(path, t) /\ U \subseteq 1..(Len(path) + 1) /\ U # {}
    <3>1. StarEnds(path, t) \subseteq t..(len + 1) /\ t \in StarEnds(path, t)
        BY <1>2, StarEndsFacts
    <3>2. t..(len + 1) \subseteq 1..(len + 1)
        BY <1>2
    <3> QED
        BY <1>2, <3>1, <3>2
  <2>3. PICK V : V = StarEnds(dir, v) /\ V \subseteq 1..(n + 1)
    <3>1. StarEnds(dir, v) \subseteq v..(n + 1)
        BY <1>3, StarEndsFacts
    <3>2. v..(n + 1) \subseteq 1..(n + 1)
        OBVIOUS
    <3> QED
        BY <3>1, <3>2
  <2>4. \A u \in U : Short(u, n) \in V
      BY <1>3, <1>4, <2>2, <2>3, StarShort
  <2>5. Returns(f, s, path, p, t) = Best(Row(f, k, U)) /\ Returns(g, s, dir, p, v) = Best(Row(g, k, V))
      BY <1>7, <2>1, <2>2, <2>3, ReturnsStar DEF Row
  <2>6. Best(Row(g, k, V)) # 0
      BY <1>5, <2>2, <2>3, <2>4, <2>5, RowShort
  <2> QED
      BY <1>4, <1>6, <2>5, <2>6
<1>8. CASE IsSlashes(s, p)
  <2>1. PICK k \in (p + 1)..(Len(s) + 1) : k = Skip(s, p, Slash) - 1
    <3>1. Skip(s, p, Slash) - 1 \in (p + 1)..m
        BY <1>1, <1>8, SlashesGoOn
    <3>2. (p + 1)..m \subseteq (p + 1)..(m + 1)
        BY <1>1
    <3> QED
        BY <1>1, <3>1, <3>2
  <2>2. PICK U : U = SlashEnds(path, t) /\ U \subseteq 1..(Len(path) + 1) /\ U # {}
    <3>1. SlashEnds(path, t) \subseteq t..(len + 1) /\ t \in SlashEnds(path, t)
        BY <1>2, SlashEndsFacts
    <3>2. t..(len + 1) \subseteq 1..(len + 1)
        BY <1>2
    <3> QED
        BY <1>2, <3>1, <3>2
  <2>3. PICK V : V = SlashEnds(dir, v) /\ V \subseteq 1..(n + 1)
    <3>1. SlashEnds(dir, v) \subseteq v..(n + 1)
        BY <1>3, SlashEndsFacts
    <3>2. v..(n + 1) \subseteq 1..(n + 1)
        OBVIOUS
    <3> QED
        BY <3>1, <3>2
  <2>4. \A u \in U : Short(u, n) \in V
      BY <1>3, <1>4, <2>2, <2>3, SlashesShort
  <2>5. Returns(f, s, path, p, t) = Best(Row(f, k, U)) /\ Returns(g, s, dir, p, v) = Best(Row(g, k, V))
      BY <1>8, <2>1, <2>2, <2>3, ReturnsSlashes, SMTT(30) DEF Row
  <2>6. Best(Row(g, k, V)) # 0
      BY <1>5, <2>2, <2>3, <2>4, <2>5, RowShort
  <2> QED
      BY <1>4, <1>6, <2>5, <2>6
<1>9. CASE IsBrace(s, p)
  <2>1. p \in 1..m /\ p # m + 1 /\ p # 0 /\ s[p] = LBrace
      BY <1>1, <1>9 DEF IsBrace
  <2>2. Seek(s, p, {RBrace}) # 0 /\ Fitting(s, p, path, t) # {}
    <3>1. Seek(s, p, {RBrace}) = 0 => Returns(f, s, path, p, t) = 0
        BY <1>9, ReturnsBrace
    <3>2. Seek(s, p, {RBrace}) # 0 /\ Fitting(s, p, path, t) = {} => Returns(f, s, path, p, t) = p
        BY <1>9, ReturnsBrace
    <3> QED
        BY <1>1, <1>5, <2>1, <3>1, <3>2
  <2>3. PICK brace : brace = Seek(s, p, {RBrace}) /\ Braced(s, p, brace)
      BY <1>1, <2>1, <2>2, BraceFound
  <2>4. \A j \in p..brace : s[j] # Slash
    <3>1. p \in DOMAIN s
        BY <1>1, <2>1, LenProperties DEF Chars
    <3> QED
        BY <2>1, <2>3, <3>1 DEF BracesWithinElements
  <2>5. PICK a \in Fitting(s, p, path, t) : /\ a = ChoiceOf(Fitting(s, p, path, t))
                                            /\ IsAlternative(s, p, brace, a)
                                            /\ EndOf(t, a) \in t..(len + 1)
      BY <1>2, <1>9, <2>2, <2>3, BraceGoesOn
  <2>6. PICK k \in (p + 1)..(Len(s) + 1) : k = brace + 1
      BY <1>2, <1>9, <2>2, <2>3, BraceGoesOn
  <2>7. PICK u : u = EndOf(t, a) /\ u \in t..(len + 1) /\ u \in 1..(Len(path) + 1)
    <3>1. t..(len + 1) \subseteq 1..(len + 1)
        BY <1>2
    <3> QED
        BY <1>2, <2>5, <3>1
  <2>8. f[<<k, u>>] = Len(s) + 1
      BY <1>5, <1>9, <2>2, <2>3, <2>5, <2>6, <2>7, ReturnsBrace
  <2>9. g[<<k, Short(u, n)>>] # 0
      BY <2>6, <2>7, <2>8 DEF ShortBehind
  <2>10. CASE t <= n
    <3>1. v = t
        BY <1>4, <2>10 DEF Short
    <3>2. Fitting(s, p, path, t) = Fitting(s, p, dir, t)
      <4>1. ASSUME NEW b \in Alternatives(s, p, brace)
            PROVE  StartsAt(path, t, s, b) <=> StartsAt(dir, t, s, b)
        <5>1. IsAlternative(s, p, brace, b)
            BY <2>3, AlternativeFacts
        <5> QED
            BY <1>3, <2>3, <2>4, <2>10, <5>1, AlternativeShort
      <4> QED
          BY <2>3, <4>1 DEF Fitting
    <3>3. Short(u, n) = u
      <4>1. StartsAt(path, t, s, a)
          BY <2>5 DEF Fitting
      <4>2. u \in t..n
          BY <1>3, <2>3, <2>4, <2>5, <2>7, <2>10, <4>1, AlternativeShort
      <4> QED
          BY <1>3, <4>2 DEF Short
    <3>4. Returns(g, s, dir, p, t) = g[<<k, u>>]
        BY <1>9, <2>2, <2>3, <2>5, <2>6, <2>7, <3>2, ReturnsBrace
    <3> QED
        BY <1>4, <1>6, <2>9, <3>1, <3>3, <3>4
  <2>11. CASE ~(t <= n)
    <3>1. v = n + 1 /\ Short(u, n) = n + 1
        BY <1>2, <1>3, <1>4, <2>7, <2>11 DEF Short
    <3>2. CASE Fitting(s, p, dir, v) = {}
      <4>1. Returns(g, s, dir, p, v) = p
          BY <1>9, <2>2, <3>2, ReturnsBrace
      <4> QED
          BY <1>4, <1>6, <2>1, <4>1
    <3>3. CASE Fitting(s, p, dir, v) # {}
      <4>1. PICK b : b = ChoiceOf(Fitting(s, p, dir, v)) /\ EndOf(v, b) \in v..(n + 1)
        <5>1. v \in 1..(Len(dir) + 1)
            BY <1>3
        <5> QED
            BY <1>3, <1>9, <2>2, <3>3, <5>1, BraceGoesOn
      <4>2. EndOf(v, b) = n + 1
          BY <1>3, <3>1, <4>1
      <4>3. Returns(g, s, dir, p, v) = g[<<k, n + 1>>]
          BY <1>9, <2>2, <2>3, <2>6, <3>3, <4>1, <4>2, ReturnsBrace
      <4> QED
          BY <1>4, <1>6, <2>9, <3>1, <4>3
    <3> QED
        BY <3>2, <3>3
  <2> QED
      BY <2>10, <2>11
<1>10. CASE IsOne(s, p)
  <2>0. v \in 1..(Len(dir) + 1)
      BY <1>3
  <2>1. CASE ~OneFits(s, p, path, t)
    <3>1. Stopped(s, p, path, t) = m + 1
        BY <1>1, <1>5, <1>10, <2>1, ReturnsStopped
    <3>2. p = m + 1
        BY <1>1, <3>1 DEF Stopped
    <3>3. t = len + 1
        BY <1>1, <1>2, <3>1, <3>2 DEF Stopped
    <3>4. v = n + 1 /\ ~OneFits(s, p, dir, v)
      <4>1. ~(t <= n) /\ p \notin 1..Len(s)
          BY <1>1, <1>2, <1>3, <3>2, <3>3
      <4> QED
          BY <1>4, <4>1 DEF Short, OneFits
    <3>5. Returns(g, s, dir, p, v) = p
      <4>1. Stopped(s, p, dir, v) = p
          BY <1>3, <3>4 DEF Stopped
      <4> QED
          BY <1>3, <1>10, <2>0, <3>4, <4>1, ReturnsStopped
    <3> QED
        BY <1>1, <1>4, <1>6, <3>5
  <2>2. CASE OneFits(s, p, path, t)
    <3>1. PICK k \in (p + 1)..(Len(s) + 1) : k = Follow(s, p)
        BY <2>2, OneGoesOn
    <3>2. f[<<k, t + 1>>] = Len(s) + 1 /\ t + 1 \in 1..(Len(path) + 1)
        BY <1>5, <1>10, <2>2, <3>1, ReturnsFitted, OneGoesOn
    <3>3. g[<<k, Short(t + 1, n)>>] # 0
        BY <3>1, <3>2 DEF ShortBehind
    <3>4. CASE t <= n
      <4>1. v = t /\ Short(t + 1, n) = t + 1
          BY <1>2, <1>3, <1>4, <3>4 DEF Short
      <4>2. t \in 1..Len(dir) /\ dir[t] = path[t]
          BY <1>3, <3>4, ShortFacts
      <4>3. OneFits(s, p, dir, v)
          BY <2>2, <4>1, <4>2 DEF OneFits
      <4>4. Returns(g, s, dir, p, v) = g[<<k, v + 1>>]
          BY <1>3, <1>10, <2>0, <3>1, <4>3, ReturnsFitted
      <4> QED
          BY <1>4, <1>6, <3>3, <4>1, <4>4
    <3>5. CASE ~(t <= n)
      <4>1. v = n + 1
          BY <1>4, <3>5 DEF Short
      <4>2. ~OneFits(s, p, dir, v)
        <5>1. v \notin 1..Len(dir)
            BY <1>3, <4>1
        <5> QED
            BY <5>1 DEF OneFits
      <4>3. Stopped(s, p, dir, v) = p
          BY <1>3, <4>1 DEF Stopped
      <4>4. Returns(g, s, dir, p, v) = p
          BY <1>3, <1>10, <2>0, <4>2, <4>3, ReturnsStopped
      <4> QED
          BY <1>1, <1>4, <1>6, <4>4
    <3> QED
        BY <3>4, <3>5
  <2> QED
      BY <2>1, <2>2
<1> QED
    BY <1>7, <1>8, <1>9, <1>10 DEF IsOne

\* Where fullPatternMatch accepts a path, partialPatternMatch accepts its
\* directory, whatever the pattern, if no slash is in braces.
THEOREM DirectoryUnderstood ==
    ASSUME NEW s \in Chars, NEW path \in Chars
    PROVE  DirectoryIsMatched(s, path)
<1>1. SUFFICES ASSUME BracesWithinElements(s), Reached(s, path) = Len(s) + 1
               PROVE  Reached(s, Directory(path)) # 0
    BY DEF DirectoryIsMatched, FullPatternMatch, PartialPatternMatch
<1>2. PICK dir, n : dir = Directory(path) /\ IsDirectory(dir, path, n)
    BY DirectoryIs
<1>3. dir \in Chars
    BY <1>2 DEF IsDirectory
<1>4. PICK f : Solves(f, s, path) /\ Reached(s, path) = f[<<1, 1>>]
    BY ReachedUnfolds, SolvedInPlaces
<1>5. PICK g : Solves(g, s, dir) /\ Reached(s, dir) = g[<<1, 1>>]
    BY <1>3, ReachedUnfolds, SolvedInPlaces
<1>6. Pair(f, g, s, path, dir, n)
    BY <1>2, <1>4, <1>5 DEF Pair
<1>7. PICK m \in Nat : m = Len(s)
    BY AtFacts
<1>8. PICK end \in Nat : end = Len(path) + 1 /\ end > 0
  <2>1. Len(path) \in Nat
      BY AtFacts
  <2> QED
      BY <2>1
<1> DEFINE Done == {k \in Nat : \A q \in 1..(m + 1), u \in 1..end :
                        q + k > m + 1 /\ f[<<q, u>>] = m + 1 => g[<<q, Short(u, n)>>] # 0}
<1>9. 0 \in Done
    BY <1>7
<1>10. ASSUME NEW k \in Nat, k \in Done PROVE k + 1 \in Done
  <2>1. ASSUME NEW q \in 1..(m + 1), NEW u \in 1..end, q + (k + 1) > m + 1, f[<<q, u>>] = m + 1
        PROVE  g[<<q, Short(u, n)>>] # 0
    <3>1. ASSUME NEW r \in (q + 1)..(m + 1), NEW w \in 1..end, f[<<r, w>>] = m + 1
          PROVE  g[<<r, Short(w, n)>>] # 0
      <4>1. r \in 1..(m + 1) /\ r + k > m + 1
          BY <2>1
      <4> QED
          BY <1>10, <3>1, <4>1
    <3>2. ShortBehind(f, g, s, path, n, q)
        BY <1>7, <1>8, <3>1 DEF ShortBehind
    <3>3. q \in 1..(Len(s) + 1) /\ u \in 1..(Len(path) + 1) /\ f[<<q, u>>] = Len(s) + 1
        BY <1>7, <1>8, <2>1
    <3> QED
        BY <1>1, <1>6, <3>2, <3>3, DirectoryStep
  <2> QED
      BY <2>1
<1>11. Nat \subseteq Done
  <2> HIDE DEF Done
  <2> QED
      BY <1>9, <1>10, NatSetInduction
<1>12. m + 1 \in Done
  <2>1. m + 1 \in Nat
      OBVIOUS
  <2> HIDE DEF Done
  <2> QED
      BY <1>11, <2>1
<1>13. g[<<1, Short(1, n)>>] # 0
  <2>1. 1 \in 1..(m + 1) /\ 1 \in 1..end /\ 1 + (m + 1) > m + 1
      BY <1>8
  <2>2. f[<<1, 1>>] = m + 1
      BY <1>1, <1>4, <1>7
  <2> QED
      BY <1>12, <2>1, <2>2
<1>14. Short(1, n) = 1
  <2>1. n \in Nat
      BY <1>2 DEF IsDirectory
  <2> QED
      BY <2>1 DEF Short
<1> QED
    BY <1>2, <1>5, <1>13, <1>14

-----------------------------------------------------------------------------
(* Literal patterns *)

\* The pattern's element at p stands for the character it is.
LiteralAt(s, p) ==
    /\ p \in 1..Len(s) /\ s[p] \notin {Star, Question, LBracket, LBrace}
    /\ ~(s[p] = Slash /\ At(s, p + 1) = Slash)

\* m tells of each place of the pattern and of the path whether what follows both
\* is understood, to the end of the path.
WholeMeans(m, s, path) == Understands(m, s, path, FALSE)

\* A literal of the pattern is understood where the path has the same character,
\* and then what follows both is.
LEMMA LiteralStep ==
    ASSUME NEW s \in Chars, NEW path \in Chars, NEW m, WholeMeans(m, s, path),
           NEW p, LiteralAt(s, p), NEW t \in 1..(Len(path) + 1)
    PROVE  m[<<p, t>>] <=> t \in 1..Len(path) /\ path[t] = s[p] /\ m[<<p + 1, t + 1>>]
<1>1. PICK n \in Nat : n = Len(s) /\ p \in 1..n /\ p \in 1..(n + 1) /\ p <= n /\ ~(p > n)
    BY AtFacts DEF LiteralAt
<1>2. IsOne(s, p)
    BY <1>1 DEF LiteralAt, IsOne, IsStar, IsSlashes, IsBrace
<1>3. /\ Spans(s, p, path, t) = IF OneFits(s, p, path, t) THEN {t + 1} ELSE {}
      /\ Behind(s, p) = Follow(s, p)
    BY <1>1, <1>2, SpansOfOne
<1>4. Follow(s, p) = p + 1
    BY DEF Follow, LiteralAt
<1>5. OneFits(s, p, path, t) <=> t \in 1..Len(path) /\ path[t] = s[p]
    BY <1>1 DEF OneFits, LiteralAt
<1>6. m[<<p, t>>] = MeansHere(m, s, path, FALSE, p, t)
    BY <1>1 DEF WholeMeans, Understands
<1>7. MeansHere(m, s, path, FALSE, p, t) <=> \E u \in Spans(s, p, path, t) : m[<<p + 1, u>>]
    BY <1>1, <1>3, <1>4 DEF MeansHere
<1> QED
    BY <1>3, <1>5, <1>6, <1>7

\* The path has, from t on, the n characters the pattern has from p on.
SameRun(s, p, path, t, n) ==
    \A i \in Nat : i < n => t + i \in 1..Len(path) /\ path[t + i] = s[p + i]

\* A run of literals is understood where the path has the same characters.
LEMMA LiteralRun ==
    ASSUME NEW s \in Chars, NEW path \in Chars, NEW m, WholeMeans(m, s, path),
           NEW p \in Nat, NEW t \in 1..(Len(path) + 1), NEW n \in Nat,
           \A i \in Nat : i < n => LiteralAt(s, p + i)
    PROVE  m[<<p, t>>] <=> SameRun(s, p, path, t, n) /\ m[<<p + n, t + n>>]
<1>1. PICK end \in Nat : end = Len(path) /\ t \in 1..(end + 1)
    BY AtFacts
<1> DEFINE S == {k \in Nat : k <= n =>
                    (m[<<p, t>>] <=> SameRun(s, p, path, t, k) /\ m[<<p + k, t + k>>])}
<1>2. 0 \in S
  <2>1. SameRun(s, p, path, t, 0)
      BY DEF SameRun
  <2>2. p + 0 = p /\ t + 0 = t
      BY <1>1
  <2> QED
      BY <2>1, <2>2
<1>3. ASSUME NEW k \in Nat, k \in S PROVE k + 1 \in S
  <2> SUFFICES ASSUME k + 1 <= n
               PROVE  m[<<p, t>>] <=> SameRun(s, p, path, t, k + 1) /\ m[<<p + (k + 1), t + (k + 1)>>]
      OBVIOUS
  <2>1. m[<<p, t>>] <=> SameRun(s, p, path, t, k) /\ m[<<p + k, t + k>>]
      BY <1>3
  <2>2. LiteralAt(s, p + k)
      OBVIOUS
  <2>3. PICK q, u, q1, u1 : /\ q = p + k /\ u = t + k /\ q1 = p + (k + 1) /\ u1 = t + (k + 1)
      OBVIOUS
  <2>4. q1 = q + 1 /\ u1 = u + 1
      BY <1>1, <2>3
  <2>5. SameRun(s, p, path, t, k) => u \in 1..(end + 1)
    <3>1. CASE k = 0
        BY <1>1, <2>3, <3>1
    <3>2. CASE k > 0
      <4>1. ASSUME SameRun(s, p, path, t, k) PROVE t + (k - 1) \in 1..end
        <5>1. k - 1 \in Nat /\ k - 1 < k
            BY <3>2
        <5> QED
            BY <1>1, <4>1, <5>1 DEF SameRun
      <4> QED
          BY <1>1, <2>3, <3>2, <4>1
    <3> QED
        BY <3>1, <3>2
  <2>6. SameRun(s, p, path, t, k) =>
            (m[<<q, u>>] <=> u \in 1..end /\ path[u] = s[q] /\ m[<<q + 1, u + 1>>])
    <3>1. ASSUME SameRun(s, p, path, t, k)
          PROVE  m[<<q, u>>] <=> u \in 1..end /\ path[u] = s[q] /\ m[<<q + 1, u + 1>>]
      <4>1. LiteralAt(s, q) /\ u \in 1..(Len(path) + 1)
          BY <1>1, <2>2, <2>3, <2>5, <3>1
      <4>2. m[<<q, u>>] <=> u \in 1..Len(path) /\ path[u] = s[q] /\ m[<<q + 1, u + 1>>]
          BY <4>1, LiteralStep
      <4> QED
          BY <1>1, <4>2
    <3> QED
        BY <3>1
  <2>7. SameRun(s, p, path, t, k + 1) <=>
            SameRun(s, p, path, t, k) /\ u \in 1..end /\ path[u] = s[q]
    <3>1. \A i \in Nat : i < k + 1 <=> i < k \/ i = k
        OBVIOUS
    <3> QED
        BY <1>1, <2>3, <3>1 DEF SameRun
  <2> HIDE DEF S
  <2> QED
      BY <2>1, <2>3, <2>4, <2>6, <2>7
<1>4. n \in S
  <2> HIDE DEF S
  <2> QED
      BY <1>2, <1>3, NatSetInduction
<1> QED
    BY <1>4

\* Nothing is left to match behind the pattern.
LEMMA WholeAtEnd ==
    ASSUME NEW s \in Chars, NEW path \in Chars, NEW m, WholeMeans(m, s, path),
           NEW t \in 1..(Len(path) + 1), NEW p, p = Len(s) + 1
    PROVE  m[<<p, t>>] <=> t = Len(path) + 1
<1>1. PICK n \in Nat : n = Len(s) /\ p = n + 1 /\ p \in 1..(n + 1) /\ p > n /\ ~(p <= n)
    BY AtFacts
<1>2. m[<<p, t>>] = MeansHere(m, s, path, FALSE, p, t)
    BY <1>1 DEF WholeMeans, Understands
<1> QED
    BY <1>1, <1>2 DEF MeansHere

\* fullPatternMatch is what the pattern means from the front of both.
LEMMA WholeUnfolds ==
    ASSUME NEW s \in Chars, NEW path \in Chars, \A i \in 1..Len(s) : s[i] # LBrace
    PROVE  \E m : WholeMeans(m, s, path) /\ (FullPatternMatch(s, path) <=> m[<<1, 1>>])
<1>1. PICK m : MeaningUpTo(m, s, path, FALSE, Len(s) + 1) /\ Means(s, path, FALSE) = m[<<1, 1>>]
    BY MeansUnfolds, ZenonT(60)
<1>2. WholeMeans(m, s, path)
  <2>1. ASSUME NEW p \in 1..(Len(s) + 1) PROVE p + (Len(s) + 1) > Len(s) + 1
    <3>1. PICK n \in Nat : n = Len(s)
        BY AtFacts
    <3> QED
        BY <3>1
  <2> QED
      BY <1>1, <2>1 DEF MeaningUpTo, Understands, WholeMeans
<1>3. PrefixFree(s)
  <2>1. DOMAIN s = 1..Len(s)
      BY LenProperties DEF Chars
  <2> QED
      BY <2>1 DEF PrefixFree
<1>4. FullPatternMatch(s, path) <=> Means(s, path, FALSE)
    BY <1>3, FullMatchUnderstood DEF FullMatchIsMeant
<1> QED
    BY <1>1, <1>2, <1>4

\* A run of characters that both have ends in the path or right behind it.
LEMMA RunStaysInside ==
    ASSUME NEW s, NEW path \in Chars, NEW p, NEW t \in 1..(Len(path) + 1), NEW n \in Nat,
           SameRun(s, p, path, t, n)
    PROVE  t + n \in 1..(Len(path) + 1)
<1>1. PICK end \in Nat : end = Len(path) /\ t \in 1..(end + 1)
    BY AtFacts
<1>2. CASE n = 0
    BY <1>1, <1>2
<1>3. CASE n > 0
  <2>1. n - 1 \in Nat /\ n - 1 < n
      BY <1>3
  <2>2. t + (n - 1) \in 1..end
      BY <1>1, <2>1 DEF SameRun
  <2> QED
      BY <1>1, <1>3, <2>2
<1> QED
    BY <1>2, <1>3

\* A pattern of literal characters matches itself and nothing else.
THEOREM LiteralMatches ==
    ASSUME NEW s \in Chars, NEW path \in Chars, \A p \in 1..Len(s) : LiteralAt(s, p)
    PROVE  FullPatternMatch(s, path) <=> path = s
<1>1. PICK n \in Nat : n = Len(s)
    BY AtFacts
<1>2. PICK end \in Nat : end = Len(path)
    BY AtFacts
<1>3. PICK m : WholeMeans(m, s, path) /\ (FullPatternMatch(s, path) <=> m[<<1, 1>>])
    BY WholeUnfolds DEF LiteralAt
<1>4. 1 \in 1..(end + 1) /\ 1 + n = n + 1
    BY <1>2
<1>5. m[<<1, 1>>] <=> SameRun(s, 1, path, 1, n) /\ m[<<n + 1, n + 1>>]
  <2>1. \A i \in Nat : i < n => LiteralAt(s, 1 + i)
    <3>1. \A i \in Nat : i < n => 1 + i \in 1..n
        OBVIOUS
    <3> QED
        BY <1>1, <3>1
  <2> QED
      BY <1>2, <1>3, <1>4, <2>1, LiteralRun
<1>6. SameRun(s, 1, path, 1, n) => n + 1 \in 1..(end + 1)
    BY <1>2, <1>4, RunStaysInside
<1>7. n + 1 \in 1..(end + 1) => (m[<<n + 1, n + 1>>] <=> n + 1 = end + 1)
    BY <1>1, <1>2, <1>3, WholeAtEnd
<1>8. SameRun(s, 1, path, 1, n) /\ n = end <=> path = s
  <2>1. CASE n # end
      BY <1>1, <1>2, <2>1
  <2>2. CASE n = end
    <3>1. SameRun(s, 1, path, 1, n) <=> \A i \in 1..n : path[i] = s[i]
      <4>1. \A i \in Nat : i < n => 1 + i \in 1..n
          OBVIOUS
      <4>2. ASSUME NEW i \in 1..n, SameRun(s, 1, path, 1, n) PROVE path[i] = s[i]
        <5>1. PICK j \in Nat : j < n /\ 1 + j = i
          <6>1. i - 1 \in Nat /\ i - 1 < n /\ 1 + (i - 1) = i
              OBVIOUS
          <6> QED
              BY <6>1
        <5> QED
            BY <4>2, <5>1 DEF SameRun
      <4> QED
          BY <1>2, <2>2, <4>1, <4>2 DEF SameRun
    <3>2. (\A i \in 1..n : path[i] = s[i]) => path = s
        BY <1>1, <1>2, <2>2, SeqEqual DEF Chars
    <3> QED
        BY <2>2, <3>1, <3>2
  <2> QED
      BY <2>1, <2>2
<1> QED
    BY <1>3, <1>5, <1>6, <1>7, <1>8

\* The pattern is n literals, a star and k literals.
IsStarred(s, n, k) ==
    /\ Len(s) = n + 1 + k /\ s[n + 1] = Star
    /\ \A p \in 1..Len(s) : p # n + 1 => LiteralAt(s, p)

\* The path is n characters of the pattern, what the star takes, and k others.
IsAround(path, s, n, k) ==
    /\ SameRun(s, 1, path, 1, n)
    /\ \E u \in StarEnds(path, n + 1) : SameRun(s, n + 2, path, u, k) /\ u + k = Len(path) + 1

\* A star between literal characters.
LEMMA StarredMatches ==
    ASSUME NEW s \in Chars, NEW path \in Chars, NEW n \in Nat, NEW k \in Nat, IsStarred(s, n, k)
    PROVE  FullPatternMatch(s, path) <=> IsAround(path, s, n, k)
<1>0. /\ Len(s) = n + 1 + k /\ s[n + 1] = Star
      /\ \A p \in 1..Len(s) : p # n + 1 => LiteralAt(s, p)
    BY DEF IsStarred
<1> USE <1>0
<1>1. PICK end \in Nat : end = Len(path)
    BY AtFacts
<1>2. \A i \in 1..Len(s) : s[i] # LBrace
    BY KindsApart DEF LiteralAt
<1>3. PICK m : WholeMeans(m, s, path) /\ (FullPatternMatch(s, path) <=> m[<<1, 1>>])
    BY <1>2, WholeUnfolds
<1>4. 1 \in 1..(end + 1) /\ 1 + n = n + 1
    BY <1>1
<1>5. m[<<1, 1>>] <=> SameRun(s, 1, path, 1, n) /\ m[<<n + 1, n + 1>>]
  <2>1. \A i \in Nat : i < n => LiteralAt(s, 1 + i)
    <3>1. \A i \in Nat : i < n => 1 + i \in 1..(n + 1 + k) /\ 1 + i # n + 1
        OBVIOUS
    <3> QED
        BY <3>1
  <2> QED
      BY <1>1, <1>3, <1>4, <2>1, LiteralRun
<1>6. SameRun(s, 1, path, 1, n) => n + 1 \in 1..(end + 1)
    BY <1>1, <1>4, RunStaysInside
<1>7. ASSUME n + 1 \in 1..(end + 1)
      PROVE  m[<<n + 1, n + 1>>] <=> \E u \in StarEnds(path, n + 1) : m[<<n + 2, u>>]
  <2>1. n + 1 \in 1..Len(s) /\ n + 1 \in 1..(Len(s) + 1) /\ n + 1 <= Len(s) /\ ~(n + 1 > Len(s))
      OBVIOUS
  <2>2. IsStar(s, n + 1)
      BY <2>1 DEF IsStar
  <2>3. Spans(s, n + 1, path, n + 1) = StarEnds(path, n + 1) /\ Behind(s, n + 1) = (n + 1) + 1
      BY <2>2, SpansOfStar
  <2>4. (n + 1) + 1 = n + 2
      OBVIOUS
  <2>5. m[<<n + 1, n + 1>>] = MeansHere(m, s, path, FALSE, n + 1, n + 1)
      BY <1>1, <1>3, <1>7, <2>1 DEF WholeMeans, Understands
  <2> QED
      BY <2>1, <2>3, <2>4, <2>5 DEF MeansHere
<1>8. ASSUME n + 1 \in 1..(end + 1), NEW u \in StarEnds(path, n + 1)
      PROVE  m[<<n + 2, u>>] <=> SameRun(s, n + 2, path, u, k) /\ u + k = end + 1
  <2>1. u \in 1..(end + 1)
    <3>1. u \in (n + 1)..(end + 1)
        BY <1>1, <1>8, StarEndsFacts
    <3> QED
        BY <3>1
  <2>2. PICK q \in Nat : q = n + 2 /\ q + k = Len(s) + 1
      OBVIOUS
  <2>3. \A i \in Nat : i < k => LiteralAt(s, q + i)
    <3>1. \A i \in Nat : i < k => q + i \in 1..(n + 1 + k) /\ q + i # n + 1
        BY <2>2
    <3> QED
        BY <3>1
  <2>4. m[<<q, u>>] <=> SameRun(s, q, path, u, k) /\ m[<<q + k, u + k>>]
      BY <1>1, <1>3, <2>1, <2>3, LiteralRun
  <2>5. SameRun(s, q, path, u, k) => u + k \in 1..(end + 1)
      BY <1>1, <2>1, RunStaysInside
  <2>6. u + k \in 1..(end + 1) => (m[<<q + k, u + k>>] <=> u + k = end + 1)
      BY <1>1, <1>3, <2>2, WholeAtEnd
  <2> QED
      BY <2>2, <2>4, <2>5, <2>6
<1> QED
    BY <1>1, <1>3, <1>5, <1>6, <1>7, <1>8 DEF IsAround
=============================================================================
