--------------------------- MODULE HttpTextProofs ---------------------------
(***************************************************************************)
(* Proofs about HttpText for every set of words, every number of pairs and *)
(* headers, and every number and set of digits of an address.              *)
(*                                                                         *)
(* The loops over a text are the recursive function of Scan.  What it      *)
(* computes is shown by induction on the length of the text, stated here   *)
(* for sets of numbers.  First the requests and the objects, then the      *)
(* addresses: a text and its segments, numerals, the two sides of a "::",  *)
(* what is printed, and what a text means.                                 *)
(***************************************************************************)
EXTENDS HttpText, WellFoundedInduction, SequenceTheorems, FiniteSetTheorems,
        TLAPS

-----------------------------------------------------------------------------
(* Induction over numbers and over the characters of a text.               *)

\* Every set of numbers that is not empty has a least one.
LEMMA LeastNumber == ASSUME NEW T \in SUBSET Nat, T # {}
  PROVE \E n \in T : \A m \in T : n <= m
<1>1. PICK R : R = OpToRel(<, Nat)
  OBVIOUS
<1>2. IsWellFoundedOn(R, Nat)
  BY <1>1, NatLessThanWellFounded
<1>3. \A x, y \in Nat : x < y => <<x, y>> \in R
  BY <1>1 DEF OpToRel
<1>4. \E x \in T : \A y \in T : ~(<<y, x>> \in R)
  BY <1>2, WFMin
<1>5. PICK n \in T : \A m \in T : ~(<<m, n>> \in R)
  BY <1>4
<1>6. \A m \in T : ~(m < n)
  BY <1>3, <1>5
<1> QED BY <1>6

\* What holds of 0, and of n + 1 if of n, holds of every number.
LEMMA Induction == ASSUME NEW T, 0 \in T, \A n \in Nat : n \in T => n + 1 \in T
  PROVE Nat \subseteq T
<1> SUFFICES ASSUME Nat \ T # {} PROVE FALSE
  OBVIOUS
<1>1. PICK n \in Nat \ T : \A m \in Nat \ T : n <= m
  <2>1. Nat \ T \in SUBSET Nat
    OBVIOUS
  <2> QED BY <2>1, LeastNumber
<1>2. n # 0 /\ n - 1 \in Nat /\ n - 1 \in T
  BY <1>1
<1>3. (n - 1) + 1 = n
  OBVIOUS
<1> QED BY <1>1, <1>2, <1>3

IsScan(f, loop, s, n) ==
  f = [i \in 0..n |-> IF i = 0 THEN Start(loop)
      ELSE Step(loop, f[i - 1], s[i])]

\* Two runs of a loop over the same text agree as far as both go.
LEMMA ScanUnique ==
  ASSUME NEW loop, NEW s, NEW n \in Nat, NEW m \in Nat, NEW f, NEW g,
         IsScan(f, loop, s, n), IsScan(g, loop, s, m)
  PROVE  \A i \in 0..n : i <= m => f[i] = g[i]
<1> DEFINE T == {i \in Nat : i <= n /\ i <= m => f[i] = g[i]}
<1>1. 0 \in T
  BY DEF IsScan
<1>2. ASSUME NEW i \in Nat, i \in T PROVE i + 1 \in T
  <2> SUFFICES ASSUME i + 1 <= n, i + 1 <= m PROVE f[i + 1] = g[i + 1]
    OBVIOUS
  <2>1. f[i] = g[i] /\ i + 1 \in 0..n /\ i + 1 \in 0..m /\ i + 1 # 0
        /\ (i + 1) - 1 = i
    BY <1>2
  <2>2. f[i + 1] = Step(loop, f[i], s[i + 1])
    BY <2>1 DEF IsScan
  <2>3. g[i + 1] = Step(loop, g[i], s[i + 1])
    BY <2>1 DEF IsScan
  <2> QED BY <2>1, <2>2, <2>3
<1>3. Nat \subseteq T
  <2> HIDE DEF T
  <2> QED BY <1>1, <1>2, Induction
<1> QED BY <1>3

\* Every loop runs over every text.
LEMMA ScanExists ==
  ASSUME NEW loop, NEW s, NEW k \in Nat
  PROVE  \E f : IsScan(f, loop, s, k)
<1> DEFINE T == {n \in Nat : \E f : IsScan(f, loop, s, n)}
<1>1. 0 \in T
  <2>1. IsScan([i \in 0..0 |-> Start(loop)], loop, s, 0)
    BY DEF IsScan
  <2> QED BY <2>1
<1>2. ASSUME NEW n \in Nat, n \in T PROVE n + 1 \in T
  <2>1. PICK f : IsScan(f, loop, s, n)
    BY <1>2
  <2> DEFINE g == [i \in 0..(n + 1) |-> IF i <= n THEN f[i]
          ELSE Step(loop, f[n], s[n + 1])]
  <2>2. ASSUME NEW i \in 0..(n + 1)
        PROVE  g[i] = IF i = 0 THEN Start(loop) ELSE Step(loop, g[i - 1], s[i])
    <3>1. CASE i = 0
      BY <2>1, <3>1 DEF IsScan
    <3>2. CASE i # 0 /\ i <= n
      <4>1. i \in 0..n /\ i - 1 \in 0..(n + 1) /\ i - 1 <= n
        BY <3>2
      <4>2. f[i] = Step(loop, f[i - 1], s[i])
        BY <2>1, <3>2, <4>1 DEF IsScan
      <4> QED BY <3>2, <4>1, <4>2
    <3>3. CASE i = n + 1
      <4>1. n \in 0..(n + 1) /\ i - 1 = n /\ ~(i <= n) /\ i # 0
        BY <3>3
      <4> QED BY <3>3, <4>1
    <3> QED BY <3>1, <3>2, <3>3
  <2>3. IsScan(g, loop, s, n + 1)
    BY <2>2 DEF IsScan
  <2> QED BY <2>3
<1>3. Nat \subseteq T
  <2> HIDE DEF T
  <2> QED BY <1>1, <1>2, Induction
<1> QED BY <1>3

\* Scan is where the run of the loop ends.
LEMMA ScanValue ==
  ASSUME NEW loop, NEW s, Len(s) \in Nat, NEW f, IsScan(f, loop, s, Len(s))
  PROVE  Scan(loop, s) = f[Len(s)]
<1> DEFINE g == CHOOSE h : IsScan(h, loop, s, Len(s))
<1>1. IsScan(g, loop, s, Len(s))
  BY ScanExists
<1>2. Scan(loop, s) = g[Len(s)]
  BY DEF Scan, IsScan
<1>3. Len(s) \in 0..Len(s)
  OBVIOUS
<1> HIDE DEF g
<1> QED BY <1>1, <1>2, <1>3, ScanUnique

\* Before the first character a loop is in its first state.
LEMMA ScanEmpty == \A loop : Scan(loop, <<>>) = Start(loop)
<1> TAKE loop
<1>1. PICK f : IsScan(f, loop, <<>>, Len(<<>>)) 
  BY ScanExists
<1>2. Scan(loop, <<>>) = f[Len(<<>>)]
  BY <1>1, ScanValue
<1> QED BY <1>1, <1>2 DEF IsScan

\* One more character is one more step of the loop.
LEMMA ScanAppend ==
  ASSUME NEW loop, NEW S, NEW s \in Seq(S), NEW c \in S
  PROVE  Scan(loop, Append(s, c)) = Step(loop, Scan(loop, s), c)
<1>1. PICK t : t = Append(s, c)
  OBVIOUS
<1>2. Len(t) = Len(s) + 1 /\ Len(s) \in Nat /\ Len(t) \in Nat
      /\ t[Len(s) + 1] = c
      /\ \A i \in 1..Len(s) : t[i] = s[i]
  BY <1>1
<1>3. PICK f : IsScan(f, loop, t, Len(t))
  BY <1>2, ScanExists
<1>4. PICK g : IsScan(g, loop, s, Len(s))
  BY <1>2, ScanExists
<1>5. IsScan(g, loop, t, Len(s))
  BY <1>2, <1>4 DEF IsScan
<1>6. f[Len(s)] = g[Len(s)]
  <2>1. Len(s) \in 0..Len(s) /\ Len(s) <= Len(t)
    BY <1>2
  <2> QED BY <1>2, <1>3, <1>5, <2>1, ScanUnique
<1>7. f[Len(t)] = Step(loop, f[Len(s)], c)
  <2>1. Len(t) \in 0..Len(t) /\ Len(t) # 0 /\ Len(t) - 1 = Len(s)
    BY <1>2
  <2> QED BY <1>2, <1>3, <2>1 DEF IsScan
<1> QED BY <1>1, <1>2, <1>3, <1>4, <1>6, <1>7, ScanValue

-----------------------------------------------------------------------------
(* The characters that the parsers look for are different from each other. *)

Marks == {CR, LF, SPACE, QUOTE, SEMI, COMMA, LBRACE, RBRACE,
          ":", "=", "&", "?", "/", "H"}
Char == STRING \cup Marks

\* The characters that the parsers tell apart are different.
LEMMA Characters ==
  /\ Marks \subseteq Char
  /\ CR # LF
  /\ SPACE \notin {CR, LF, ":", "=", "&", "?", "/", "H"}
  /\ QUOTE \notin {COMMA, LBRACE, RBRACE, ":"}
  /\ SEMI \notin {CR, LF, SPACE, "&"}
  /\ CR \notin {":", "=", "&", "?", "/", "H"}
  /\ LF \notin {":", "=", "&", "?", "/", "H"}
<1>1. Marks \subseteq Char
  BY DEF Char
<1>2. CR # LF
  BY Zenon DEF CR, LF
<1>3. SPACE \notin {CR, LF, ":", "=", "&", "?", "/", "H"}
  BY Zenon DEF CR, LF, SPACE
<1>4. QUOTE \notin {COMMA, LBRACE, RBRACE, ":"}
  BY Zenon DEF QUOTE, COMMA, LBRACE, RBRACE
<1>5. SEMI \notin {CR, LF, SPACE, "&"}
  BY Zenon DEF CR, LF, SPACE, SEMI
<1>6. CR \notin {":", "=", "&", "?", "/", "H"}
  BY Zenon DEF CR
<1>7. LF \notin {":", "=", "&", "?", "/", "H"}
  BY Zenon DEF LF
<1> QED BY <1>1, <1>2, <1>3, <1>4, <1>5, <1>6, <1>7

-----------------------------------------------------------------------------
(* The invariant: what the three loops hold at every place of the text.    *)

\* A state of the loop over an object or over the headers, and of the loop
\* over the request line.
J(mode, key, val, map) ==
  [mode |-> mode, key |-> key, val |-> val, map |-> map]
L(mode, loop, url, key, val, map) ==
  [mode |-> mode, loop |-> loop, url |-> url,
   key |-> key, val |-> val, map |-> map]

\* What the first n pairs say.
First(pairs, n) == FirstWins(SubSeq(pairs, 1, n))

\* An object: p is the state of parse_simple_json when a is reached.
JsonPlace(m, a, p) ==
  \/ /\ a.part = "brace" /\ a.i = 0 /\ a.j \in 0..1
     /\ p = J("pre_key", <<>>, <<>>, First(m, 0))
  \/ /\ a.part = "open" /\ a.i \in 1..Len(m) /\ a.j \in 0..1
     /\ p = J(IF a.j = 0 THEN "pre_key" ELSE "key", <<>>, <<>>,
              First(m, a.i - 1))
  \/ /\ a.part = "member" /\ a.i \in 1..Len(m) /\ a.j \in 0..Len(m[a.i][1])
     /\ p = J("key", SubSeq(m[a.i][1], 1, a.j), <<>>, First(m, a.i - 1))
  \/ /\ a.part = "is" /\ a.i \in 1..Len(m) /\ a.j \in 0..3
     /\ p = J(<<"key", "middle", "pre_value", "value">>[a.j + 1],
              m[a.i][1], <<>>, First(m, a.i - 1))
  \/ /\ a.part = "string" /\ a.i \in 1..Len(m) /\ a.j \in 0..Len(m[a.i][2])
     /\ p = J("value", m[a.i][1], SubSeq(m[a.i][2], 1, a.j),
              First(m, a.i - 1))
  \/ /\ a.part = "shut" /\ a.i \in 1..Len(m) /\ a.j \in 0..1
     /\ p = IF a.j = 0
            THEN J("value", m[a.i][1], m[a.i][2], First(m, a.i - 1))
            ELSE J("pre_key", <<>>, <<>>, First(m, a.i))
  \/ /\ a.part = "comma" /\ a.i \in 1..Len(m) - 1 /\ a.j \in 0..1
     /\ p = J("pre_key", <<>>, <<>>, First(m, a.i))
  \/ /\ a.part = "end" /\ a.i = Len(m) /\ a.j \in 0..1
     /\ p = J("pre_key", <<>>, <<>>, First(m, a.i))
  \/ /\ a.part = "done" /\ a.j = 0
     /\ p = J("pre_key", <<>>, <<>>, First(m, Len(m)))

\* Where in an object a is; a value that is empty makes the parser refuse it.
JsonSpot(m, a) ==
  \/ a.part = "brace" /\ a.i = 0
  \/ /\ a.part \in {"open", "member", "is", "string", "shut"}
     /\ a.i \in 1..Len(m)
  \/ a.part = "comma" /\ a.i \in 1..Len(m) - 1
  \/ a.part = "end" /\ a.i = Len(m)
  \/ a.part = "done"
Refused(m, p) ==
  p.mode = "error" /\ \E i \in 1..Len(m) : m[i][2] = <<>>

\* The loop over the request line after the url or the i-th pair, and after
\* the space that ends them.
Ended(m, i) ==
  IF i = 0 THEN L("url", "runs", m.url, <<>>, <<>>, First(m.pairs, 0))
  ELSE L("value", "runs", m.url, m.pairs[i][1], m.pairs[i][2],
         First(m.pairs, i - 1))
Closed(m) ==
  L(IF m.pairs = <<>> THEN "url" ELSE "value", "left", m.url, <<>>, <<>>,
    First(m.pairs, Len(m.pairs)))

\* The parts after the request line.
HeadParts == {"name", "colon", "field", "crlf", "blank", "body", "done"}

\* The request line: p is the state of its loop when a is reached.
LinePlace(m, a, p) ==
  \/ /\ a.part = "method" /\ a.i = 0 /\ a.j \in 0..Len(m.method) + 1
     /\ p = LineStart
  \/ /\ a.part = "url" /\ a.i = 0 /\ a.j \in 0..Len(m.url)
     /\ p = IF a.j = 0 THEN LineStart
            ELSE L("url", "runs", SubSeq(m.url, 1, a.j), <<>>, <<>>,
                   First(m.pairs, 0))
  \/ /\ a.part = "mark" /\ a.i \in 1..Len(m.pairs) /\ a.j \in 0..1
     /\ p = IF a.j = 0 THEN Ended(m, a.i - 1)
            ELSE L("key", "runs", m.url, <<>>, <<>>, First(m.pairs, a.i - 1))
  \/ /\ a.part = "key" /\ a.i \in 1..Len(m.pairs)
     /\ a.j \in 0..Len(m.pairs[a.i][1])
     /\ p = L("key", "runs", m.url, SubSeq(m.pairs[a.i][1], 1, a.j), <<>>,
              First(m.pairs, a.i - 1))
  \/ /\ a.part = "equals" /\ a.i \in 1..Len(m.pairs) /\ a.j \in 0..1
     /\ p = L(IF a.j = 0 THEN "key" ELSE "value", "runs", m.url,
              m.pairs[a.i][1], <<>>, First(m.pairs, a.i - 1))
  \/ /\ a.part = "value" /\ a.i \in 1..Len(m.pairs)
     /\ a.j \in 0..Len(m.pairs[a.i][2])
     /\ p = L("value", "runs", m.url, m.pairs[a.i][1],
              SubSeq(m.pairs[a.i][2], 1, a.j), First(m.pairs, a.i - 1))
  \/ /\ a.part = "version" /\ a.i = Len(m.pairs) /\ a.j \in 0..4
     /\ p = IF a.j = 0 THEN Ended(m, a.i) ELSE Closed(m)
  \/ a.part \in HeadParts /\ p = Closed(m)

\* Where in a request a is, as far as its first line goes.
LineSpot(m, a) ==
  \/ a.part \in {"method", "url"} /\ a.i = 0
  \/ a.part \in {"mark", "key", "equals", "value"} /\ a.i \in 1..Len(m.pairs)
  \/ a.part = "version" /\ a.i = Len(m.pairs)
  \/ a.part \in HeadParts

\* LinePlace is what the loop holds if no value is empty.  In any case it has
\* the url, and it stops at the space behind the parameters.
PlainPairs(m) == \A i \in 1..Len(m.pairs) : m.pairs[i][2] # <<>>
IsLine(p) == p = L(p.mode, p.loop, p.url, p.key, p.val, p.map)
LineKnows(m, a, p) ==
  /\ IsLine(p)
  /\ a.part = "method" \/ (a.part = "url" /\ a.j = 0) =>
       p.mode = "start" /\ p.loop = "runs" /\ p.key = <<>>
  /\ a.part = "url" /\ a.j > 0 =>
       p.mode = "url" /\ p.loop = "runs" /\ p.url = SubSeq(m.url, 1, a.j)
  /\ \/ a.part \in {"mark", "key", "equals", "value"}
     \/ a.part = "version" /\ a.j = 0
     => /\ p.loop = "runs" /\ p.url = m.url
        /\ \/ p.mode \in {"key", "value"}
           \/ /\ p.mode = "url"
              /\ \/ a.part = "mark" /\ a.i = 1 /\ a.j = 0
                 \/ a.part = "version"
  /\ (a.part = "version" /\ a.j > 0) \/ a.part \in HeadParts =>
       p.mode # "start" /\ p.loop = "left" /\ p.url = m.url

\* Where a line of s ends, and where an empty line follows.
LineEnd(s, q) == q \in 1..Len(s) - 1 /\ s[q] = CR /\ s[q + 1] = LF
BlankLine(s, q) == LineEnd(s, q) /\ LineEnd(s, q + 2)
FirstLineEnd(s, q) == LineEnd(s, q) /\ \A r \in 1..q - 1 : ~LineEnd(s, r)
FirstBlankLine(s, q) ==
  BlankLine(s, q) /\ \A r \in 1..q - 1 : ~BlankLine(s, r)
NoBlankLine(s) == \A r \in 1..Len(s) : ~BlankLine(s, r)

\* The loop for full_url: p is its state when a is reached and s was read.
FullOf(m, s, n) ==
  SubSeq(m.method, 5, Len(m.method)) \o SubSeq(s, Len(m.method) + 2, n)
MethodRead(m, s) ==
  /\ Len(s) >= Len(m.method) + 1 /\ s[Len(m.method) + 1] = SPACE
  /\ \A x \in 1..Len(m.method) : s[x] = m.method[x]
FullPlace(m, a, s, p) ==
  /\ p = [mode |-> p.mode, full |-> p.full]
  /\ a.part = "method" =>
       /\ Len(s) = a.j /\ a.j <= Len(m.method) + 1 /\ p.mode = "start"
       /\ \A x \in 1..a.j : x <= Len(m.method) => s[x] = m.method[x]
       /\ a.j = Len(m.method) + 1 => s[a.j] = SPACE
       /\ p.full = SubSeq(m.method, 5, IF a.j <= Len(m.method) THEN a.j
                                       ELSE Len(m.method))
  /\ a.part # "method" => MethodRead(m, s)
  /\ a.part = "url" /\ a.j = 0 =>
       p.mode = "start" /\ p.full = FullOf(m, s, Len(s))
  /\ \/ a.part = "url" /\ a.j > 0
     \/ a.part \in {"mark", "key", "equals", "value"}
     \/ a.part = "version" /\ a.j = 0
     => p.mode = "url" /\ p.full = FullOf(m, s, Len(s))
  /\ a.part = "version" /\ a.j > 0 =>
       /\ p.mode = "left" /\ p.full = FullOf(m, s, Len(s) - a.j)
       /\ Len(s) - a.j \in Nat
  /\ a.part \in HeadParts =>
       /\ p.mode = "left"
       /\ \E e \in 1..Len(s) : FirstLineEnd(s, e) /\ p.full = FullOf(m, s, e - 3)

\* The first n headers, as the parser keeps them.
Fields(m, n) ==
  {<<LowerCase(m.heads[x][1]), trim_whitespace(m.heads[x][2])>> : x \in 1..n}

\* A header with an empty value spoils the request when its line ends: h is the
\* state of the loop, q what it is if none of the first n headers is empty.
Unspoilt(m, n) == \A x \in 1..n : m.heads[x][2] # <<>>
HeadState(m, n, h, q) ==
  IF Unspoilt(m, n) THEN h = q ELSE h.mode = "error"

\* The loop over the headers after a part of s; when the blank line is at b,
\* the line ends at e before it, the last header is still to be taken.
H(s, from, to) == Scan(<<"head">>, SubSeq(s, from, to))
HeadDone(m, s, e, b) ==
  IF m.heads = <<>> THEN b = e
  ELSE /\ b >= e + 2
       /\ HeadState(m, Len(m.heads) - 1, H(s, e + 2, b - 1),
                    J("value", m.heads[Len(m.heads)][1],
                      m.heads[Len(m.heads)][2], Fields(m, Len(m.heads) - 1)))

\* The text s as far as a, before the end of its first line ...
BeforeHead(m, a, s) ==
  /\ \A x \in 1..Len(s) : s[x] # LF
  /\ a.part = "method" => Len(s) = a.j
  /\ a.part # "method" => Len(s) >= 4
  /\ a.part = "version" => a.j < 4 /\ (a.j = 3 => s[Len(s)] = CR)

\* ... and after it, the line ending at e.
HeadPlace(m, a, s, e) ==
  \/ a.part = "version" /\ a.j = 4 /\ Len(s) = e + 1
  \/ /\ a.part = "name" /\ a.i \in 1..Len(m.heads)
     /\ a.j \in 0..Len(m.heads[a.i][1]) /\ NoBlankLine(s)
     /\ HeadState(m, a.i - 1, H(s, e + 2, Len(s)),
                  J("key", SubSeq(m.heads[a.i][1], 1, a.j), <<>>,
                    Fields(m, a.i - 1)))
  \/ /\ a.part = "colon" /\ a.i \in 1..Len(m.heads) /\ a.j \in 0..1
     /\ NoBlankLine(s)
     /\ a.j = 1 => s[Len(s)] = ":"
     /\ HeadState(m, a.i - 1, H(s, e + 2, Len(s)),
                  J(IF a.j = 0 THEN "key" ELSE "value", m.heads[a.i][1],
                    <<>>, Fields(m, a.i - 1)))
  \/ /\ a.part = "field" /\ a.i \in 1..Len(m.heads)
     /\ a.j \in 0..Len(m.heads[a.i][2]) /\ NoBlankLine(s)
     /\ s[Len(s)] = IF a.j = 0 THEN ":" ELSE m.heads[a.i][2][a.j]
     /\ HeadState(m, a.i - 1, H(s, e + 2, Len(s)),
                  J("value", m.heads[a.i][1],
                    SubSeq(m.heads[a.i][2], 1, a.j), Fields(m, a.i - 1)))
  \/ /\ a.part = "crlf" /\ a.i \in 1..Len(m.heads) /\ a.j \in 0..2
     /\ NoBlankLine(s) /\ Len(s) - a.j > e + 1 /\ s[Len(s) - a.j] # LF
     /\ a.j > 0 => s[Len(s) - a.j + 1] = CR
     /\ a.j = 2 => s[Len(s)] = LF
     /\ HeadState(m, a.i - 1, H(s, e + 2, Len(s) - a.j),
                  J("value", m.heads[a.i][1], m.heads[a.i][2],
                    Fields(m, a.i - 1)))
     /\ a.j > 0 => HeadState(m, a.i, H(s, e + 2, Len(s)),
                             J(IF a.j = 1 THEN "cr" ELSE "key", <<>>, <<>>,
                               Fields(m, a.i)))
  \/ /\ a.part = "blank" /\ a.i = Len(m.heads) /\ a.j \in 0..2
     /\ LineEnd(s, Len(s) - a.j - 1) /\ HeadDone(m, s, e, Len(s) - a.j - 1)
     /\ a.j > 0 => s[Len(s) - a.j + 1] = CR
     /\ a.j = 2 => s[Len(s)] = LF
     /\ IF a.j = 2 THEN FirstBlankLine(s, Len(s) - 3) ELSE NoBlankLine(s)
     /\ a.j = 0 => HeadState(m, a.i, H(s, e + 2, Len(s)),
                             J("key", <<>>, <<>>, Fields(m, a.i)))
     /\ a.j = 1 => H(s, e + 2, Len(s)).mode = "error"
  \/ /\ a.part \in {"body", "done"} /\ a.j \in 0..Len(m.body)
     /\ LET n == IF a.part = "body" THEN a.j ELSE Len(m.body)
            b == Len(s) - 3 - n
        IN  /\ FirstBlankLine(s, b) /\ HeadDone(m, s, e, b)
            /\ SubSeq(s, b + 4, Len(s)) = SubSeq(m.body, 1, n)

TextPlace(m, a, s) ==
  \/ a.part \notin HeadParts /\ BeforeHead(m, a, s)
  \/ \E e \in 1..Len(s) :
       e >= 4 /\ FirstLineEnd(s, e) /\ HeadPlace(m, a, s, e)

Parts == {"brace", "open", "member", "is", "string", "shut", "comma", "end",
          "method", "url", "mark", "key", "equals", "value", "version",
          "name", "colon", "field", "crlf", "blank", "body", "done"}
Spots == [part : Parts, i : Nat, j : Nat]

\* The two loops over the request line.
LinesOk(m, a, s) ==
  /\ PlainLine(m) =>
       LinePlace(m, a, Scan(<<"line">>, SubSeq(s, 5, Len(s))))
  /\ LineKnows(m, a, Scan(<<"line">>, SubSeq(s, 5, Len(s))))
  /\ FullPlace(m, a, s, Scan(<<"full">>, SubSeq(s, 5, Len(s))))

\* What has been read, at every place of the sender.
TornInv ==
  /\ text \in Seq(Char)
  /\ at \in Spots
  /\ kind = "json" =>
       /\ msg \in Pairs /\ JsonSpot(msg, at)
       /\ \/ JsonPlace(msg, at, Scan(<<"json">>, text))
          \/ Refused(msg, Scan(<<"json">>, text))
  /\ kind = "request" =>
       /\ msg \in Requests /\ LineSpot(msg, at)
       /\ LinesOk(msg, at, text)
       /\ TextPlace(msg, at, text)
  /\ kind \notin {"json", "request"} => at = To("done", 0)

-----------------------------------------------------------------------------
(* The pairs that were read: the first value of a key wins.                *)

\* Min is the least member of a set of numbers.
LEMMA MinIsLeast ==
  ASSUME NEW T \in SUBSET Nat, T # {}
  PROVE  Min(T) \in T /\ \A m \in T : Min(T) <= m
BY LeastNumber DEF Min

\* The places of key k among the first n pairs, and what the first says.
Places(pairs, k, n) == {i \in 1..n : pairs[i][1] = k}
Winners(pairs, n) ==
  [k \in {pairs[i][1] : i \in 1..n} |-> pairs[Min(Places(pairs, k, n))][2]]

\* What the first n pairs say, without cutting the sequence.
LEMMA FirstIsWinners ==
  ASSUME NEW S, NEW pairs \in Seq(S), NEW n \in 0..Len(pairs)
  PROVE  First(pairs, n) = Winners(pairs, n)
<1>1. PICK q : q = SubSeq(pairs, 1, n)
  OBVIOUS
<1>2. DOMAIN q = 1..n /\ \A i \in 1..n : q[i] = pairs[i]
  BY <1>1
<1>3. {q[i][1] : i \in DOMAIN q} = {pairs[i][1] : i \in 1..n}
  BY <1>2
<1>4. ASSUME NEW k PROVE {i \in DOMAIN q : q[i][1] = k} = Places(pairs, k, n)
  BY <1>2 DEF Places
<1>5. ASSUME NEW k \in {pairs[i][1] : i \in 1..n}
      PROVE  q[Min(Places(pairs, k, n))] = pairs[Min(Places(pairs, k, n))]
  <2>1. Places(pairs, k, n) \in SUBSET Nat /\ Places(pairs, k, n) # {}
    BY DEF Places
  <2>2. Min(Places(pairs, k, n)) \in Places(pairs, k, n)
    BY <2>1, MinIsLeast
  <2> QED BY <1>2, <2>2 DEF Places
<1>6. FirstWins(q) = Winners(pairs, n)
  BY <1>3, <1>4, <1>5 DEF FirstWins, Winners
<1> QED BY <1>1, <1>6 DEF First

\* Later pairs do not change what a key has.
LEMMA WinnersStay ==
  ASSUME NEW pairs, NEW m \in Nat, NEW n \in Nat, m <= n,
         NEW k \in {pairs[i][1] : i \in 1..m}
  PROVE  Min(Places(pairs, k, n)) = Min(Places(pairs, k, m))
<1>1. /\ Places(pairs, k, m) \in SUBSET Nat /\ Places(pairs, k, m) # {}
      /\ Places(pairs, k, n) \in SUBSET Nat /\ Places(pairs, k, n) # {}
  BY DEF Places
<1>2. PICK x, y : x = Min(Places(pairs, k, m)) /\ y = Min(Places(pairs, k, n))
  OBVIOUS
<1>3. /\ x \in Places(pairs, k, m) /\ \A z \in Places(pairs, k, m) : x <= z
      /\ y \in Places(pairs, k, n) /\ \A z \in Places(pairs, k, n) : y <= z
  BY <1>1, <1>2, MinIsLeast
<1>4. x \in Places(pairs, k, n)
  BY <1>3 DEF Places
<1>5. y <= x
  BY <1>3, <1>4
<1>6. y \in Places(pairs, k, m)
  BY <1>3, <1>5 DEF Places
<1>7. x <= y
  BY <1>3, <1>6
<1>8. x \in Nat /\ y \in Nat
  BY <1>1, <1>3
<1> QED BY <1>2, <1>5, <1>7, <1>8

\* One more pair is an emplace.
LEMMA FirstStep ==
  ASSUME NEW S, NEW pairs \in Seq(S), NEW n \in 1..Len(pairs)
  PROVE  First(pairs, n) = Emplace(First(pairs, n - 1), pairs[n][1],
      pairs[n][2])
<1>1. n \in 0..Len(pairs) /\ n - 1 \in 0..Len(pairs) /\ n - 1 \in Nat
      /\ n \in Nat
      /\ n - 1 <= n
  OBVIOUS
<1> DEFINE w0 == Winners(pairs, n - 1)
           w == Winners(pairs, n)
<1>2. First(pairs, n - 1) = w0 /\ First(pairs, n) = w
  BY <1>1, FirstIsWinners
<1>3. {pairs[i][1] : i \in 1..n} = {pairs[i][1] : i \in 1..(n - 1)}
          \cup {pairs[n][1]}
  OBVIOUS
<1>4. ASSUME NEW k \in {pairs[i][1] : i \in 1..(n - 1)}
      PROVE  Min(Places(pairs, k, n)) = Min(Places(pairs, k, n - 1))
  BY <1>1, WinnersStay
<1>5. ASSUME pairs[n][1] \notin {pairs[i][1] : i \in 1..(n - 1)}
      PROVE  Min(Places(pairs, pairs[n][1], n)) = n
  <2>1. Places(pairs, pairs[n][1], n) = {n}
    BY <1>5 DEF Places
  <2> QED BY <1>1, <2>1, MinIsLeast
<1>6. w = [k \in {pairs[i][1] : i \in 1..(n - 1)} \cup {pairs[n][1]} |->
             IF k \in {pairs[i][1] : i \in 1..(n - 1)}
             THEN pairs[Min(Places(pairs, k, n - 1))][2] ELSE pairs[n][2]]
  BY <1>3, <1>4, <1>5 DEF Winners
<1>7. Emplace(w0, pairs[n][1], pairs[n][2])
        = [k \in {pairs[i][1] : i \in 1..(n - 1)} \cup {pairs[n][1]} |->
             IF k \in {pairs[i][1] : i \in 1..(n - 1)}
             THEN pairs[Min(Places(pairs, k, n - 1))][2] ELSE pairs[n][2]]
  BY DEF Emplace, Winners
<1> QED BY <1>2, <1>6, <1>7

\* What the first pairs say, all of them say.
LEMMA FirstOfAll ==
  ASSUME NEW S, NEW pairs \in Seq(S), NEW n \in 0..Len(pairs)
  PROVE  /\ First(pairs, Len(pairs)) = FirstWins(pairs)
         /\ DOMAIN First(pairs, n) \subseteq DOMAIN FirstWins(pairs)
         /\ \A k \in DOMAIN First(pairs, n) :
              First(pairs, n)[k] = FirstWins(pairs)[k]
<1>1. SubSeq(pairs, 1, Len(pairs)) = pairs
  OBVIOUS
<1>2. First(pairs, Len(pairs)) = FirstWins(pairs)
  BY <1>1 DEF First
<1>3. Len(pairs) \in 0..Len(pairs) /\ n \in Nat /\ Len(pairs) \in Nat
      /\ n <= Len(pairs)
  OBVIOUS
<1>4. /\ First(pairs, n) = Winners(pairs, n)
      /\ FirstWins(pairs) = Winners(pairs, Len(pairs))
  BY <1>2, <1>3, FirstIsWinners
<1>5. {pairs[i][1] : i \in 1..n} \subseteq {pairs[i][1] : i \in 1..Len(pairs)}
  BY <1>3
<1>6. ASSUME NEW k \in {pairs[i][1] : i \in 1..n}
      PROVE  Winners(pairs, n)[k] = Winners(pairs, Len(pairs))[k]
  <2>1. Min(Places(pairs, k, Len(pairs))) = Min(Places(pairs, k, n))
    BY <1>3, WinnersStay
  <2> QED BY <1>5, <2>1 DEF Winners
<1>7. /\ DOMAIN Winners(pairs, n) = {pairs[i][1] : i \in 1..n}
      /\ DOMAIN Winners(pairs, Len(pairs))
           = {pairs[i][1] : i \in 1..Len(pairs)}
  BY DEF Winners
<1> QED BY <1>2, <1>4, <1>5, <1>6, <1>7

\* No pairs, no members.
LEMMA FirstEmpty == \A pairs : First(pairs, 0) = NoPairs
<1> TAKE pairs
<1>1. SubSeq(pairs, 1, 0) = <<>>
  OBVIOUS
<1>2. FirstWins(<<>>) = NoPairs
  BY DEF FirstWins, NoPairs
<1> QED BY <1>1, <1>2 DEF First
-----------------------------------------------------------------------------
(* The words that arrive.                                                  *)

\* A bounded sequence is a sequence.
LEMMA BoundedIsSeq ==
  ASSUME NEW S, NEW n \in Nat, NEW s \in BoundedSeq(S, n)
  PROVE  s \in Seq(S)
<1>1. PICK m \in 0..n : s \in [1..m -> S]
  BY DEF BoundedSeq, SeqOf
<1> QED BY <1>1

\* A word that ends with none of these characters.
Word(w, ends) ==
  /\ w \in Seq(Char) /\ Len(w) \in Nat
  /\ \A i \in 1..Len(w) : w[i] \in Char /\ w[i] \notin ends

\* The words of the assumptions, character by character.
LEMMA WordsAreWords ==
  ASSUME NEW W, NEW ends, Words(W, ends), NEW w \in W
  PROVE  Word(w, ends)
<1>1. w \in Seq(STRING) /\ ToSet(w) \cap ends = {}
  BY DEF Words
<1>2. DOMAIN w = 1..Len(w) /\ Len(w) \in Nat
  BY <1>1
<1>3. \A i \in 1..Len(w) : w[i] \in Char /\ w[i] \in ToSet(w)
  BY <1>1, <1>2 DEF ToSet, Char
<1>4. w \in Seq(Char)
  BY <1>1, <1>2, <1>3
<1> QED BY <1>1, <1>2, <1>3, <1>4 DEF Word

KeyWord(w) == Word(w, {QUOTE, "=", SPACE, CR, LF}) /\ w # <<>>
ValueWord(w) == Word(w, {QUOTE, "&", SEMI, SPACE, CR, LF})

\* The keys and the values of an object or a query are words.
LEMMA PairsAreWords ==
  ASSUME NEW m \in Pairs
  PROVE  /\ m \in Seq(Keys \X Values) /\ Len(m) \in Nat
         /\ \A i \in 1..Len(m) : KeyWord(m[i][1]) /\ ValueWord(m[i][2])
<1>1. m \in Seq(Keys \X Values)
  BY BoundedIsSeq, TextAssumption DEF Pairs
<1>2. ASSUME NEW i \in 1..Len(m) PROVE m[i][1] \in Keys /\ m[i][2] \in Values
  BY <1>1
<1>3. Words(Keys, {QUOTE, "=", SPACE, CR, LF})
      /\ Words(Values, {QUOTE, "&", SEMI, SPACE, CR, LF})
  BY WordsAssumption
<1>4. ASSUME NEW i \in 1..Len(m) PROVE KeyWord(m[i][1])
  <2>1. m[i][1] # <<>>
    BY <1>2, WordsAssumption
  <2> QED BY <1>2, <1>3, <2>1, WordsAreWords DEF KeyWord
<1>5. ASSUME NEW i \in 1..Len(m) PROVE ValueWord(m[i][2])
  BY <1>2, <1>3, WordsAreWords DEF ValueWord
<1> QED BY <1>1, <1>4, <1>5

\* The beginning of a word, one character longer.
LEMMA PrefixStep ==
  ASSUME NEW S, NEW w \in Seq(S), NEW j \in 0..Len(w) - 1
  PROVE  SubSeq(w, 1, j + 1) = Append(SubSeq(w, 1, j), w[j + 1])
OBVIOUS

\* The beginning of a word that is as long as the word is the word.
LEMMA PrefixEnds ==
  ASSUME NEW S, NEW w \in Seq(S)
  PROVE  SubSeq(w, 1, 0) = <<>> /\ SubSeq(w, 1, Len(w)) = w
OBVIOUS

-----------------------------------------------------------------------------
(* parse_simple_json.                                                      *)

\* A character of an object: parse_simple_json is at the next place, or it
\* met an empty value.
LEMMA JsonArrives ==
  ASSUME NEW m \in Pairs, NEW a \in Spots, NEW p, JsonPlace(m, a, p),
         a.j < Len(Piece(m, a))
  PROVE  \/ JsonPlace(m, [a EXCEPT !.j = @ + 1],
                      JsonChar(p, Piece(m, a)[a.j + 1]))
         \/ Refused(m, JsonChar(p, Piece(m, a)[a.j + 1]))
<1>1. /\ m \in Seq(Keys \X Values) /\ Len(m) \in Nat
      /\ \A i \in 1..Len(m) : KeyWord(m[i][1]) /\ ValueWord(m[i][2])
  BY PairsAreWords
<1>0. a.i \in Nat /\ a.j \in Nat
  BY DEF Spots
<1>2. PICK b : b = [a EXCEPT !.j = @ + 1]
  OBVIOUS
<1>3. b.part = a.part /\ b.i = a.i /\ b.j = a.j + 1
  BY <1>2 DEF Spots
<1>4. PICK c : c = Piece(m, a)[a.j + 1]
  OBVIOUS
<1> SUFFICES JsonPlace(m, b, JsonChar(p, c)) \/ Refused(m, JsonChar(p, c))
  BY <1>2, <1>4
<1>5. CASE a.part \in {"brace", "comma", "end"}
  <2>1. PICK d \in {LBRACE, COMMA, RBRACE} : Piece(m, a) = <<d>>
    <3>1. CASE a.part = "brace"
      <4>1. Piece(m, a) = <<LBRACE>>
        BY <3>1 DEF Piece
      <4> QED BY <4>1
    <3>2. CASE a.part = "comma"
      <4>1. Piece(m, a) = <<COMMA>>
        BY <3>2 DEF Piece
      <4> QED BY <4>1
    <3>3. CASE a.part = "end"
      <4>1. Piece(m, a) = <<RBRACE>>
        BY <3>3 DEF Piece
      <4> QED BY <4>1
    <3> QED BY <1>5, <3>1, <3>2, <3>3
  <2>0. a.j = 0
    BY <1>0, <2>1
  <2>2. a.j = 0 /\ c # QUOTE
    BY <1>4, <2>0, <2>1, Characters
  <2>3. p = J("pre_key", <<>>, <<>>, First(m, a.i))
    BY <1>5 DEF JsonPlace
  <2>4. JsonChar(p, c) = p
    BY <2>2, <2>3 DEF JsonChar, J, JsonStart
  <2> QED BY <1>3, <1>5, <2>2, <2>4 DEF JsonPlace
<1>6. CASE a.part = "open"
  <2>1. Piece(m, a) = <<QUOTE>>
    BY <1>6 DEF Piece
  <2>0. a.j = 0
    BY <1>0, <2>1
  <2>2. a.j = 0 /\ c = QUOTE
    BY <1>4, <2>0, <2>1
  <2>3. a.i \in 1..Len(m) /\ p = J("pre_key", <<>>, <<>>, First(m, a.i - 1))
    BY <1>6, <2>2 DEF JsonPlace
  <2>4. JsonChar(p, c) = J("key", <<>>, <<>>, First(m, a.i - 1))
    BY <2>2, <2>3 DEF JsonChar, J, JsonStart
  <2> QED BY <1>3, <1>6, <2>2, <2>3, <2>4 DEF JsonPlace
<1>7. CASE a.part = "member"
  <2>1. Piece(m, a) = m[a.i][1]
    BY <1>7 DEF Piece
  <2>2. /\ a.i \in 1..Len(m)
        /\ p = J("key", SubSeq(m[a.i][1], 1, a.j), <<>>, First(m, a.i - 1))
    BY <1>7 DEF JsonPlace
  <2>3. PICK w : w = m[a.i][1]
    OBVIOUS
  <2>4. KeyWord(w)
    BY <1>1, <2>2, <2>3
  <2>5. w \in Seq(Char) /\ Len(w) \in Nat
    BY <2>4 DEF KeyWord, Word
  <2>6. a.j \in 0..Len(w) - 1 /\ a.j + 1 \in 1..Len(w) /\ c = w[a.j + 1]
    BY <1>0, <1>4, <2>1, <2>3, <2>5
  <2>7. c # QUOTE 
    BY <2>4, <2>6 DEF KeyWord, Word
  <2>8. SubSeq(w, 1, a.j + 1) = Append(SubSeq(w, 1, a.j), c)
    BY <2>5, <2>6, PrefixStep
  <2>9. JsonChar(p, c) = J("key", SubSeq(w, 1, a.j + 1), <<>>,
            First(m, a.i - 1))
    BY <2>2, <2>3, <2>7, <2>8 DEF JsonChar, J, JsonStart
  <2>10. b.j \in 0..Len(w)
    BY <1>3, <2>6
  <2> QED BY <1>3, <1>7, <2>2, <2>3, <2>9, <2>10 DEF JsonPlace
<1>8. CASE a.part = "is"
  <2>1. Piece(m, a) = <<QUOTE, ":", QUOTE>>
    BY <1>8 DEF Piece
  <2>2. /\ a.i \in 1..Len(m)
        /\ p = J(<<"key", "middle", "pre_value", "value">>[a.j + 1],
                 m[a.i][1], <<>>, First(m, a.i - 1))
    BY <1>8 DEF JsonPlace
  <2>3. m[a.i][1] # <<>>
    BY <1>1, <2>2 DEF KeyWord, Word
  <2>4. a.j \in {0, 1, 2}
    BY <1>0, <2>1
  <2>5. JsonChar(p, c) = J(<<"key", "middle", "pre_value", "value">>[b.j + 1],
                           m[a.i][1], <<>>, First(m, a.i - 1))
    <3>1. CASE a.j = 0
      BY <1>3, <1>4, <2>1, <2>2, <2>3, <3>1 DEF JsonChar, J, JsonStart
    <3>2. CASE a.j = 1
      BY <1>3, <1>4, <2>1, <2>2, <2>3, <3>2 DEF JsonChar, J, JsonStart
    <3>3. CASE a.j = 2
      BY <1>3, <1>4, <2>1, <2>2, <2>3, <3>3 DEF JsonChar, J, JsonStart
    <3> QED BY <2>4, <3>1, <3>2, <3>3
  <2>6. b.j \in 0..3
    BY <1>3, <2>4
  <2> QED BY <1>3, <1>8, <2>2, <2>5, <2>6 DEF JsonPlace
<1>9. CASE a.part = "string"
  <2>1. Piece(m, a) = m[a.i][2]
    BY <1>9 DEF Piece
  <2>2. /\ a.i \in 1..Len(m)
        /\ p = J("value", m[a.i][1], SubSeq(m[a.i][2], 1, a.j),
             First(m, a.i - 1))
    BY <1>9 DEF JsonPlace
  <2>3. PICK w : w = m[a.i][2]
    OBVIOUS
  <2>4. ValueWord(w)
    BY <1>1, <2>2, <2>3
  <2>5. w \in Seq(Char) /\ Len(w) \in Nat
    BY <2>4 DEF ValueWord, Word
  <2>6. a.j \in 0..Len(w) - 1 /\ a.j + 1 \in 1..Len(w) /\ c = w[a.j + 1]
    BY <1>0, <1>4, <2>1, <2>3, <2>5
  <2>7. c # QUOTE 
    BY <2>4, <2>6 DEF ValueWord, Word
  <2>8. SubSeq(w, 1, a.j + 1) = Append(SubSeq(w, 1, a.j), c)
    BY <2>5, <2>6, PrefixStep
  <2>9. JsonChar(p, c)
          = J("value", m[a.i][1], SubSeq(w, 1, a.j + 1), First(m, a.i - 1))
    BY <2>2, <2>3, <2>7, <2>8 DEF JsonChar, J, JsonStart
  <2>10. b.j \in 0..Len(w)
    BY <1>3, <2>6
  <2> QED BY <1>3, <1>9, <2>2, <2>3, <2>9, <2>10 DEF JsonPlace
<1>10. CASE a.part = "shut"
  <2>1. Piece(m, a) = <<QUOTE>>
    BY <1>10 DEF Piece
  <2>0. a.j = 0
    BY <1>0, <2>1
  <2>2. a.j = 0 /\ c = QUOTE
    BY <1>4, <2>0, <2>1
  <2>3. /\ a.i \in 1..Len(m)
        /\ p = J("value", m[a.i][1], m[a.i][2], First(m, a.i - 1))
    BY <1>10, <2>2 DEF JsonPlace
  <2>4. CASE m[a.i][2] = <<>>
    <3>1. JsonChar(p, c).mode = "error"
      BY <2>2, <2>3, <2>4 DEF JsonChar, J
    <3> QED BY <2>3, <2>4, <3>1 DEF Refused
  <2>5. CASE m[a.i][2] # <<>>
    <3>1. JsonChar(p, c)
            = J("pre_key", <<>>, <<>>,
                Emplace(First(m, a.i - 1), m[a.i][1], m[a.i][2]))
      BY <2>2, <2>3, <2>5 DEF JsonChar, J, JsonStart
    <3>2. JsonChar(p, c) = J("pre_key", <<>>, <<>>, First(m, a.i))
      BY <1>1, <2>3, <3>1, FirstStep
    <3> QED BY <1>3, <1>10, <2>2, <2>3, <3>2 DEF JsonPlace
  <2> QED BY <2>4, <2>5
<1>11. CASE a.part = "done"
  <2>1. Piece(m, a) = <<>>
    BY <1>11 DEF Piece
  <2> QED BY <1>0, <2>1
<1> QED BY <1>5, <1>6, <1>7, <1>8, <1>9, <1>10, <1>11 DEF JsonPlace

\* An object that was refused stays refused.
LEMMA RefusedStays ==
  ASSUME NEW m, NEW p, Refused(m, p), NEW c
  PROVE  Refused(m, JsonChar(p, c))
BY DEF Refused, JsonChar

\* A part begins with none of its characters.
LEMMA ToSpot ==
  ASSUME NEW part \in Parts, NEW i \in Nat
  PROVE  /\ To(part, i) \in Spots
         /\ To(part, i).part = part /\ To(part, i).i = i /\ To(part, i).j = 0
BY DEF Spots, To

\* The next part of an object: the parser stays where it is.
LEMMA JsonTurns ==
  ASSUME NEW m \in Pairs, NEW a \in Spots, NEW p, JsonPlace(m, a, p),
         a.j = Len(Piece(m, a)), a.part # "done"
  PROVE  JsonPlace(m, Following(m, a), p)
<1>1. /\ m \in Seq(Keys \X Values) /\ Len(m) \in Nat
      /\ \A i \in 1..Len(m) : KeyWord(m[i][1]) /\ ValueWord(m[i][2])
  BY PairsAreWords
<1>0. a.i \in Nat /\ a.j \in Nat
  BY DEF Spots
<1>2. PICK b : b = Following(m, a)
  OBVIOUS
<1> SUFFICES JsonPlace(m, b, p)
  BY <1>2
<1>4. CASE a.part = "brace"
  <2>1. Piece(m, a) = <<LBRACE>>
    BY <1>4 DEF Piece
  <2>2. a.j = 1 /\ a.i = 0 /\ p = J("pre_key", <<>>, <<>>, First(m, 0))
    BY <1>4, <2>1 DEF JsonPlace
  <2>3. b = IF m = <<>> THEN To("end", 0) ELSE To("open", 1)
    BY <1>2, <1>4 DEF Following
  <2>4. CASE m = <<>>
    <3>1. b \in Spots /\ b.part = "end" /\ b.i = 0 /\ b.j = 0 /\ Len(m) = 0
      BY <2>3, <2>4, ToSpot DEF Parts
    <3> QED BY <2>2, <3>1 DEF JsonPlace
  <2>5. CASE m # <<>>
    <3>1. b \in Spots /\ b.part = "open" /\ b.i = 1 /\ b.j = 0
      BY <2>3, <2>5, ToSpot DEF Parts
    <3>2. Len(m) > 0 /\ 1 \in 1..Len(m) /\ b.i - 1 = 0
      BY <1>1, <2>5, <3>1
    <3> QED BY <2>2, <3>1, <3>2 DEF JsonPlace
  <2> QED BY <2>4, <2>5
<1>5. CASE a.part = "open"
  <2>1. Piece(m, a) = <<QUOTE>>
    BY <1>5 DEF Piece
  <2>2. /\ a.j = 1 /\ a.i \in 1..Len(m)
        /\ p = J("key", <<>>, <<>>, First(m, a.i - 1))
    BY <1>5, <2>1 DEF JsonPlace
  <2>3. b = To("member", a.i)
    BY <1>2, <1>5 DEF Following
  <2>4. b \in Spots /\ b.part = "member" /\ b.i = a.i /\ b.j = 0
    BY <1>0, <2>3, ToSpot DEF Parts
  <2>5. SubSeq(m[a.i][1], 1, 0) = <<>> /\ 0 \in 0..Len(m[a.i][1])
    BY <1>1, <2>2 DEF KeyWord, Word
  <2> QED BY <2>2, <2>4, <2>5 DEF JsonPlace
<1>6. CASE a.part = "member"
  <2>1. Piece(m, a) = m[a.i][1]
    BY <1>6 DEF Piece
  <2>2. /\ a.i \in 1..Len(m)
        /\ p = J("key", SubSeq(m[a.i][1], 1, a.j), <<>>, First(m, a.i - 1))
    BY <1>6 DEF JsonPlace
  <2>3. b = To("is", a.i)
    BY <1>2, <1>6 DEF Following
  <2>4. b \in Spots /\ b.part = "is" /\ b.i = a.i /\ b.j = 0
    BY <1>0, <2>3, ToSpot DEF Parts
  <2>5. SubSeq(m[a.i][1], 1, a.j) = m[a.i][1]
    BY <1>1, <2>1, <2>2, PrefixEnds DEF KeyWord, Word
  <2>6. p = J(<<"key", "middle", "pre_value", "value">>[b.j + 1],
              m[b.i][1], <<>>, First(m, b.i - 1))
    <3>1. <<"key", "middle", "pre_value", "value">>[b.j + 1] = "key"
      BY <2>4
    <3> QED BY <2>2, <2>4, <2>5, <3>1
  <2> QED BY <2>2, <2>4, <2>6 DEF JsonPlace
<1>7. CASE a.part = "is"
  <2>1. Piece(m, a) = <<QUOTE, ":", QUOTE>>
    BY <1>7 DEF Piece
  <2>2. a.j = 3
    BY <2>1
  <2>3. /\ a.i \in 1..Len(m)
        /\ p = J("value", m[a.i][1], <<>>, First(m, a.i - 1))
    BY <1>7, <2>2 DEF JsonPlace
  <2>4. b = To("string", a.i)
    BY <1>2, <1>7 DEF Following
  <2>5. b \in Spots /\ b.part = "string" /\ b.i = a.i /\ b.j = 0
    BY <1>0, <2>4, ToSpot DEF Parts
  <2>6. SubSeq(m[a.i][2], 1, 0) = <<>> /\ 0 \in 0..Len(m[a.i][2])
    BY <1>1, <2>3 DEF ValueWord, Word
  <2> QED BY <2>3, <2>5, <2>6 DEF JsonPlace
<1>8. CASE a.part = "string"
  <2>1. Piece(m, a) = m[a.i][2]
    BY <1>8 DEF Piece
  <2>2. /\ a.i \in 1..Len(m)
        /\ p = J("value", m[a.i][1], SubSeq(m[a.i][2], 1, a.j),
             First(m, a.i - 1))
    BY <1>8 DEF JsonPlace
  <2>3. b = To("shut", a.i)
    BY <1>2, <1>8 DEF Following
  <2>4. b \in Spots /\ b.part = "shut" /\ b.i = a.i /\ b.j = 0
    BY <1>0, <2>3, ToSpot DEF Parts
  <2>5. SubSeq(m[a.i][2], 1, a.j) = m[a.i][2]
    BY <1>1, <2>1, <2>2, PrefixEnds DEF ValueWord, Word
  <2>6. p = J("value", m[b.i][1], m[b.i][2], First(m, b.i - 1))
    BY <2>2, <2>4, <2>5
  <2> QED BY <2>2, <2>4, <2>6 DEF JsonPlace
<1>9. CASE a.part = "shut"
  <2>1. Piece(m, a) = <<QUOTE>>
    BY <1>9 DEF Piece
  <2>2. /\ a.j = 1 /\ a.i \in 1..Len(m)
        /\ p = J("pre_key", <<>>, <<>>, First(m, a.i))
    BY <1>9, <2>1 DEF JsonPlace
  <2>3. b = To(IF a.i < Len(m) THEN "comma" ELSE "end", a.i)
    BY <1>2, <1>9 DEF Following
  <2>4. /\ b \in Spots /\ b.i = a.i /\ b.j = 0
        /\ b.part = IF a.i < Len(m) THEN "comma" ELSE "end"
    BY <1>0, <2>3, ToSpot DEF Parts
  <2>5. IF a.i < Len(m) THEN a.i \in 1..Len(m) - 1 ELSE a.i = Len(m)
    BY <1>1, <2>2
  <2> QED BY <2>2, <2>4, <2>5 DEF JsonPlace
<1>10. CASE a.part = "comma"
  <2>2. /\ a.i \in 1..Len(m) - 1
        /\ p = J("pre_key", <<>>, <<>>, First(m, a.i))
    BY <1>10 DEF JsonPlace
  <2>3. b = To("open", a.i + 1)
    BY <1>2, <1>10 DEF Following
  <2>4. b \in Spots /\ b.part = "open" /\ b.i = a.i + 1 /\ b.j = 0
    BY <1>0, <2>3, ToSpot DEF Parts
  <2>5. b.i \in 1..Len(m) /\ b.i - 1 = a.i
    BY <1>1, <2>2, <2>4
  <2> QED BY <2>2, <2>4, <2>5 DEF JsonPlace
<1>11. CASE a.part = "end"
  <2>2. p = J("pre_key", <<>>, <<>>, First(m, Len(m)))
    BY <1>11 DEF JsonPlace
  <2>3. b = To("done", 0)
    BY <1>2, <1>11 DEF Following
  <2>4. b \in Spots /\ b.part = "done" /\ b.j = 0
    BY <2>3, ToSpot DEF Parts
  <2> QED BY <2>2, <2>4 DEF JsonPlace
<1> QED BY <1>4, <1>5, <1>6, <1>7, <1>8, <1>9, <1>10, <1>11 DEF JsonPlace

\* Where the next part of an object is.
LEMMA JsonSpotTurns ==
  ASSUME NEW m \in Pairs, NEW a \in Spots, JsonSpot(m, a), a.part # "done"
  PROVE  JsonSpot(m, Following(m, a)) /\ Following(m, a) \in Spots
<1>1. Len(m) \in Nat /\ (m # <<>> => Len(m) > 0)
  <2>1. m \in Seq(Keys \X Values)
    BY PairsAreWords
  <2> QED BY <2>1
<1>0. a.i \in Nat
  BY DEF Spots
<1>2. PICK b : b = Following(m, a)
  OBVIOUS
<1> SUFFICES JsonSpot(m, b) /\ b \in Spots
  BY <1>2
<1>3. CASE a.part = "brace"
  <2>1. CASE m = <<>>
    <3>1. b = To("end", 0)
      BY <1>2, <1>3, <2>1 DEF Following
    <3>2. b \in Spots /\ b.part = "end" /\ b.i = 0 /\ Len(m) = 0
      BY <2>1, <3>1, ToSpot DEF Parts
    <3> QED BY <3>2 DEF JsonSpot
  <2>2. CASE m # <<>>
    <3>1. b = To("open", 1)
      BY <1>2, <1>3, <2>2 DEF Following
    <3>2. b \in Spots /\ b.part = "open" /\ b.i = 1 /\ 1 \in 1..Len(m)
      BY <1>1, <2>2, <3>1, ToSpot DEF Parts
    <3> QED BY <3>2 DEF JsonSpot
  <2> QED BY <2>1, <2>2
<1>4. CASE a.part \in {"open", "member", "is", "string"}
  <2>1. \E n \in {"member", "is", "string", "shut"} : b = To(n, a.i)
    BY <1>2, <1>4 DEF Following
  <2>2. PICK n \in {"member", "is", "string", "shut"} : b = To(n, a.i)
    BY <2>1
  <2>3. b \in Spots /\ b.part = n /\ b.i = a.i
    BY <1>0, <2>2, ToSpot DEF Parts
  <2>4. a.i \in 1..Len(m)
    BY <1>4 DEF JsonSpot
  <2> QED BY <2>3, <2>4 DEF JsonSpot
<1>5. CASE a.part = "shut"
  <2>1. a.i \in 1..Len(m)
    BY <1>5 DEF JsonSpot
  <2>2. b = To(IF a.i < Len(m) THEN "comma" ELSE "end", a.i)
    BY <1>2, <1>5 DEF Following
  <2>3. /\ b \in Spots /\ b.i = a.i
        /\ b.part = IF a.i < Len(m) THEN "comma" ELSE "end"
    BY <1>0, <2>2, ToSpot DEF Parts
  <2>4. IF a.i < Len(m) THEN a.i \in 1..Len(m) - 1 ELSE a.i = Len(m)
    BY <1>1, <2>1
  <2> QED BY <2>3, <2>4 DEF JsonSpot
<1>6. CASE a.part = "comma"
  <2>1. a.i \in 1..Len(m) - 1
    BY <1>6 DEF JsonSpot
  <2>2. b = To("open", a.i + 1)
    BY <1>2, <1>6 DEF Following
  <2>3. b \in Spots /\ b.part = "open" /\ b.i = a.i + 1
    BY <1>0, <2>2, ToSpot DEF Parts
  <2>4. b.i \in 1..Len(m)
    BY <1>1, <2>1, <2>3
  <2> QED BY <2>3, <2>4 DEF JsonSpot
<1>7. CASE a.part = "end"
  <2>1. b = To("done", 0)
    BY <1>2, <1>7 DEF Following
  <2>2. b \in Spots /\ b.part = "done"
    BY <2>1, ToSpot DEF Parts
  <2> QED BY <2>2 DEF JsonSpot
<1> QED BY <1>3, <1>4, <1>5, <1>6, <1>7 DEF JsonSpot

\* The map of the parser holds the first of the pairs.
LEMMA JsonIsTrue ==
  ASSUME NEW m \in Pairs, NEW a \in Spots, NEW s,
         JsonPlace(m, a, Scan(<<"json">>, s))
  PROVE  /\ parse_simple_json(s).st = "ok"
         /\ DOMAIN parse_simple_json(s).val \subseteq DOMAIN FirstWins(m)
         /\ \A k \in DOMAIN parse_simple_json(s).val :
              parse_simple_json(s).val[k] = FirstWins(m)[k]
         /\ a.part = "done" => parse_simple_json(s).val = FirstWins(m)
<1>1. PICK p : p = Scan(<<"json">>, s)
  OBVIOUS
<1>2. m \in Seq(Keys \X Values) /\ Len(m) \in Nat
  BY PairsAreWords
<1>3. /\ p.mode # "error"
      /\ \E n \in 0..Len(m) :
           p.map = First(m, n) /\ (a.part = "done" => n = Len(m))
  <2>1. JsonPlace(m, a, p)
    BY <1>1
  <2>2. CASE a.part \in {"brace", "end", "comma"}
    BY <1>2, <2>1, <2>2 DEF JsonPlace, J
  <2>3. CASE a.part \in {"open", "member", "string", "shut"}
    <3>0. a.i \in 1..Len(m)
      BY <2>1, <2>3 DEF JsonPlace
    <3>1. p.mode # "error"
      BY <2>1, <2>3 DEF JsonPlace, J
    <3>2. p.map = First(m, a.i - 1) \/ p.map = First(m, a.i)
      BY <2>1, <2>3 DEF JsonPlace, J
    <3>3. a.i - 1 \in 0..Len(m) /\ a.i \in 0..Len(m)
      BY <1>2, <3>0
    <3> QED BY <2>3, <3>1, <3>2, <3>3
  <2>4. CASE a.part = "is"
    <3>1. /\ a.j \in {0, 1, 2, 3}
          /\ p.mode = <<"key", "middle", "pre_value", "value">>[a.j + 1]
      BY <2>1, <2>4 DEF JsonPlace, J
    <3>2. p.mode # "error"
      BY <3>1
    <3>3. a.i \in 1..Len(m) /\ p.map = First(m, a.i - 1)
      BY <2>1, <2>4 DEF JsonPlace, J
    <3>4. a.i - 1 \in 0..Len(m)
      BY <1>2, <3>3
    <3> QED BY <2>4, <3>2, <3>3, <3>4
  <2>5. CASE a.part = "done"
    BY <1>2, <2>1, <2>5 DEF JsonPlace, J
  <2> QED BY <2>1, <2>2, <2>3, <2>4, <2>5 DEF JsonPlace
<1>4. parse_simple_json(s) = Ok(p.map)
  BY <1>1, <1>3 DEF parse_simple_json, JsonResult
<1>5. PICK n \in 0..Len(m) : p.map = First(m, n)
      /\ (a.part = "done" => n = Len(m))
  BY <1>3
<1>6. parse_simple_json(s).st = "ok" /\ parse_simple_json(s).val = First(m, n)
  BY <1>4, <1>5 DEF Ok
<1> QED BY <1>2, <1>5, <1>6, FirstOfAll

\* An object is only refused for an empty value.
LEMMA RefusedForEmpty ==
  ASSUME NEW m \in Pairs, NEW s, Refused(m, Scan(<<"json">>, s))
  PROVE  /\ parse_simple_json(s).st # "ok"
         /\ \E i \in DOMAIN m : m[i][2] = <<>>
<1>1. m \in Seq(Keys \X Values)
  BY PairsAreWords
<1>2. parse_simple_json(s) = Error
  BY DEF parse_simple_json, JsonResult, Refused
<1>3. DOMAIN m = 1..Len(m)
  BY <1>1
<1> QED BY <1>2, <1>3 DEF Refused, Error

-----------------------------------------------------------------------------
(* handle_request_parse: the request line.                                 *)

UrlWord(w) == Word(w, {"?", SPACE, CR, LF}) /\ w # <<>> /\ w[1] = "/"
MethodWord(w) == Word(w, Blank \cup {"/"}) /\ Len(w) >= 3
NameWord(w) == Word(w, {":", SPACE, CR, LF}) /\ w # <<>>
FieldWord(w) == Word(w, {CR, LF})

\* The parts of a request are words.
LEMMA RequestWords ==
  ASSUME NEW m \in Requests
  PROVE  /\ m.pairs \in Pairs /\ UrlWord(m.url) /\ MethodWord(m.method)
         /\ m.heads \in Seq(Heads) /\ Len(m.heads) \in Nat
         /\ \A i \in 1..Len(m.heads) : NameWord(m.heads[i][1])
                                       /\ FieldWord(m.heads[i][2])
         /\ m.body \in Seq(Char) /\ Len(m.body) \in Nat
<1>1. /\ m.method \in Methods /\ m.url \in Urls /\ m.pairs \in Pairs
      /\ m.heads \in BoundedSeq(Heads, MaxPairs) /\ m.body \in Bodies
  BY DEF Requests
<1>2. UrlWord(m.url)
  BY <1>1, WordsAssumption, WordsAreWords DEF UrlWord
<1>3. MethodWord(m.method)
  BY <1>1, WordsAssumption, WordsAreWords DEF MethodWord
<1>4. m.heads \in Seq(Heads) /\ Len(m.heads) \in Nat
  BY <1>1, BoundedIsSeq, TextAssumption
<1>5. ASSUME NEW i \in 1..Len(m.heads)
      PROVE  NameWord(m.heads[i][1]) /\ FieldWord(m.heads[i][2])
  <2>1. PICK h \in Heads : h = m.heads[i]
    BY <1>4
  <2>2. /\ Words({h[1]}, {":", SPACE, CR, LF}) /\ Words({h[2]}, {CR, LF})
        /\ h[1] # <<>>
    BY WordsAssumption
  <2>3. Word(h[1], {":", SPACE, CR, LF})
    BY <2>2, WordsAreWords
  <2>4. Word(h[2], {CR, LF})
    BY <2>2, WordsAreWords
  <2> QED BY <2>1, <2>2, <2>3, <2>4 DEF NameWord, FieldWord
<1>6. m.body \in Seq(Char) /\ Len(m.body) \in Nat
  <2>1. m.body \in Seq(STRING)
    BY <1>1, WordsAssumption
  <2> QED BY <2>1 DEF Char
<1> QED BY <1>1, <1>2, <1>3, <1>4, <1>5, <1>6

\* A character of a request line after the method, if no value is empty.
LEMMA LineArrives ==
  ASSUME NEW m \in Requests, PlainPairs(m), NEW a \in Spots, NEW p, LinePlace(m, a, p),
         a.j < Len(Piece(m, a)), a.part # "method"
  PROVE  LinePlace(m, [a EXCEPT !.j = @ + 1],
      LineChar(p, Piece(m, a)[a.j + 1]))
<1>1. /\ m.pairs \in Pairs /\ UrlWord(m.url)
      /\ m.pairs \in Seq(Keys \X Values) /\ Len(m.pairs) \in Nat
      /\ \A i \in 1..Len(m.pairs) : KeyWord(m.pairs[i][1])
                                    /\ ValueWord(m.pairs[i][2])
  BY RequestWords, PairsAreWords
<1>0. a.i \in Nat /\ a.j \in Nat
  BY DEF Spots
<1>2. PICK b : b = [a EXCEPT !.j = @ + 1]
  OBVIOUS
<1>3. b.part = a.part /\ b.i = a.i /\ b.j = a.j + 1
  BY <1>2 DEF Spots
<1>4. PICK c : c = Piece(m, a)[a.j + 1]
  OBVIOUS
<1> SUFFICES LinePlace(m, b, LineChar(p, c))
  BY <1>2, <1>4
<1>5. CASE a.part = "url"
  <2>1. PICK w : w = m.url
    OBVIOUS
  <2>2. Piece(m, a) = w
    BY <1>5, <2>1 DEF Piece
  <2>3. w \in Seq(Char) /\ Len(w) \in Nat /\ w[1] = "/"
    BY <1>1, <2>1 DEF UrlWord, Word
  <2>4. a.j \in 0..Len(w) - 1 /\ a.j + 1 \in 1..Len(w) /\ c = w[a.j + 1]
    BY <1>0, <1>4, <2>2, <2>3
  <2>5. c \notin {"?", SPACE, CR, LF}
    BY <1>1, <2>1, <2>4 DEF UrlWord, Word
  <2>6. SubSeq(w, 1, a.j + 1) = Append(SubSeq(w, 1, a.j), c)
    BY <2>3, <2>4, PrefixStep
  <2>7. LineChar(p, c)
          = L("url", "runs", SubSeq(w, 1, a.j + 1), <<>>, <<>>,
              First(m.pairs, 0))
    <3>1. CASE a.j = 0
      <4>1. p = LineStart
        BY <1>5, <3>1 DEF LinePlace, HeadParts
      <4>2. c = "/"
        BY <2>3, <2>4, <3>1
      <4>3. SubSeq(w, 1, a.j + 1) = <<"/">>
        <5>1. SubSeq(w, 1, 0) = <<>>
          BY <2>3
        <5>2. SubSeq(w, 1, a.j + 1) = Append(<<>>, c)
          BY <2>6, <3>1, <5>1
        <5> QED BY <4>2, <5>2
      <4>4. LineChar(p, c) = L("url", "runs", <<"/">>, <<>>, <<>>, NoPairs)
        BY <4>1, <4>2, Characters DEF LineChar, LineStart, L
      <4> QED BY <4>3, <4>4, FirstEmpty
    <3>2. CASE a.j # 0
      <4>1. p = L("url", "runs", SubSeq(w, 1, a.j), <<>>, <<>>,
                First(m.pairs, 0))
        BY <1>5, <2>1, <3>2 DEF LinePlace, HeadParts
      <4> QED BY <2>5, <2>6, <4>1 DEF LineChar, L
    <3> QED BY <3>1, <3>2
  <2>8. b.j \in 0..Len(w) /\ b.j # 0 /\ b.i = 0
    BY <1>3, <1>5, <2>3, <2>4 DEF LinePlace, HeadParts
  <2> QED BY <1>3, <1>5, <2>1, <2>7, <2>8 DEF LinePlace, HeadParts
<1>6. CASE a.part = "mark"
  <2>1. /\ a.i \in 1..Len(m.pairs)
        /\ Piece(m, a) = IF a.i = 1 THEN <<"?">> ELSE <<"&">>
    BY <1>6 DEF Piece, LinePlace, HeadParts
  <2>2. a.j = 0 /\ c = IF a.i = 1 THEN "?" ELSE "&"
    BY <1>0, <1>4, <2>1
  <2>3. p = Ended(m, a.i - 1)
    BY <1>6, <2>2 DEF LinePlace, HeadParts
  <2>4. LineChar(p, c)
          = L("key", "runs", m.url, <<>>, <<>>, First(m.pairs, a.i - 1))
    <3>1. CASE a.i = 1
      <4>1. p = L("url", "runs", m.url, <<>>, <<>>, First(m.pairs, 0))
        BY <2>3, <3>1 DEF Ended
      <4>2. c = "?" /\ a.i - 1 = 0
        BY <2>2, <3>1
      <4> QED BY <4>1, <4>2, Characters DEF LineChar, L
    <3>2. CASE a.i # 1
      <4>1. PICK i : i = a.i - 1
        OBVIOUS
      <4>2. i \in 1..Len(m.pairs) /\ i # 0
        BY <2>1, <3>2, <4>1
      <4>3. p = L("value", "runs", m.url, m.pairs[i][1], m.pairs[i][2],
                  First(m.pairs, i - 1))
        BY <2>3, <4>1, <4>2 DEF Ended
      <4>4. m.pairs[i][1] # <<>> /\ m.pairs[i][2] # <<>>
        BY <1>1, <4>2 DEF KeyWord, PlainPairs
      <4>5. c = "&"
        BY <2>2, <3>2
      <4>6. HasPair(p)
        BY <4>3, <4>4 DEF HasPair, L
      <4>7. First(m.pairs, i)
              = Emplace(First(m.pairs, i - 1), m.pairs[i][1], m.pairs[i][2])
        BY <1>1, <4>2, FirstStep
      <4>8. TakePair(p, "key", "runs")
              = L("key", "runs", m.url, <<>>, <<>>, First(m.pairs, i))
        BY <4>3, <4>7 DEF TakePair, L
      <4>9. LineChar(p, c) = TakePair(p, "key", "runs")
        BY <4>3, <4>5, <4>6, Characters DEF LineChar, L
      <4> QED BY <4>1, <4>8, <4>9
    <3> QED BY <3>1, <3>2
  <2> QED BY <1>3, <1>6, <2>1, <2>2, <2>4 DEF LinePlace, HeadParts
<1>7. CASE a.part = "key"
  <2>1. Piece(m, a) = m.pairs[a.i][1]
    BY <1>7 DEF Piece
  <2>2. /\ a.i \in 1..Len(m.pairs)
        /\ p = L("key", "runs", m.url, SubSeq(m.pairs[a.i][1], 1, a.j), <<>>,
                 First(m.pairs, a.i - 1))
    BY <1>7 DEF LinePlace, HeadParts
  <2>3. PICK w : w = m.pairs[a.i][1]
    OBVIOUS
  <2>4. KeyWord(w)
    BY <1>1, <2>2, <2>3
  <2>5. w \in Seq(Char) /\ Len(w) \in Nat
    BY <2>4 DEF KeyWord, Word
  <2>6. a.j \in 0..Len(w) - 1 /\ a.j + 1 \in 1..Len(w) /\ c = w[a.j + 1]
    BY <1>0, <1>4, <2>1, <2>3, <2>5
  <2>7. c \notin {"=", SPACE, CR, LF}
    BY <2>4, <2>6 DEF KeyWord, Word
  <2>8. SubSeq(w, 1, a.j + 1) = Append(SubSeq(w, 1, a.j), c)
    BY <2>5, <2>6, PrefixStep
  <2>9. LineChar(p, c) = L("key", "runs", m.url, SubSeq(w, 1, a.j + 1), <<>>,
                           First(m.pairs, a.i - 1))
    BY <2>2, <2>3, <2>7, <2>8 DEF LineChar, L
  <2>10. b.j \in 0..Len(w)
    BY <1>3, <2>6
  <2> QED BY <1>3, <1>7, <2>2, <2>3, <2>9, <2>10 DEF LinePlace, HeadParts
<1>8. CASE a.part = "equals"
  <2>1. Piece(m, a) = <<"=">>
    BY <1>8 DEF Piece
  <2>2. a.j = 0 /\ c = "="
    BY <1>0, <1>4, <2>1
  <2>3. /\ a.i \in 1..Len(m.pairs)
        /\ p = L("key", "runs", m.url, m.pairs[a.i][1], <<>>,
             First(m.pairs, a.i - 1))
    BY <1>8, <2>2 DEF LinePlace, HeadParts
  <2>4. LineChar(p, c)
          = L("value", "runs", m.url, m.pairs[a.i][1], <<>>,
              First(m.pairs, a.i - 1))
    BY <2>2, <2>3, Characters DEF LineChar, L
  <2> QED BY <1>3, <1>8, <2>2, <2>3, <2>4 DEF LinePlace, HeadParts
<1>9. CASE a.part = "value"
  <2>1. Piece(m, a) = m.pairs[a.i][2]
    BY <1>9 DEF Piece
  <2>2. /\ a.i \in 1..Len(m.pairs)
        /\ p = L("value", "runs", m.url, m.pairs[a.i][1],
                 SubSeq(m.pairs[a.i][2], 1, a.j), First(m.pairs, a.i - 1))
    BY <1>9 DEF LinePlace, HeadParts
  <2>3. PICK w : w = m.pairs[a.i][2]
    OBVIOUS
  <2>4. ValueWord(w)
    BY <1>1, <2>2, <2>3
  <2>5. w \in Seq(Char) /\ Len(w) \in Nat
    BY <2>4 DEF ValueWord, Word
  <2>6. a.j \in 0..Len(w) - 1 /\ a.j + 1 \in 1..Len(w) /\ c = w[a.j + 1]
    BY <1>0, <1>4, <2>1, <2>3, <2>5
  <2>7. c \notin {"&", SEMI, SPACE, CR, LF}
    BY <2>4, <2>6 DEF ValueWord, Word
  <2>8. SubSeq(w, 1, a.j + 1) = Append(SubSeq(w, 1, a.j), c)
    BY <2>5, <2>6, PrefixStep
  <2>9. LineChar(p, c) = L("value", "runs", m.url, m.pairs[a.i][1],
                           SubSeq(w, 1, a.j + 1), First(m.pairs, a.i - 1))
    BY <2>2, <2>3, <2>7, <2>8 DEF LineChar, L
  <2>10. b.j \in 0..Len(w)
    BY <1>3, <2>6
  <2> QED BY <1>3, <1>9, <2>2, <2>3, <2>9, <2>10 DEF LinePlace, HeadParts
<1>10. CASE a.part = "version"
  <2>1. Piece(m, a) = <<SPACE, "H", CR, LF>>
    BY <1>10 DEF Piece
  <2>2. a.j \in 0..3 /\ a.i = Len(m.pairs) /\ b.j \in 0..4 /\ b.j # 0
    BY <1>0, <1>3, <1>10, <2>1 DEF LinePlace, HeadParts
  <2>3. CASE a.j # 0
    <3>1. p = Closed(m)
      BY <1>10, <2>3 DEF LinePlace, HeadParts
    <3>2. LineChar(p, c) = p
      BY <3>1 DEF Closed, L, LineChar, Leave
    <3> QED BY <1>3, <1>10, <2>2, <3>1, <3>2 DEF LinePlace, HeadParts
  <2>4. CASE a.j = 0
    <3>1. p = Ended(m, a.i) /\ c = SPACE
      BY <1>4, <1>10, <2>1, <2>4 DEF LinePlace, HeadParts
    <3>2. LineChar(p, c) = Closed(m)
      <4>1. CASE Len(m.pairs) = 0
        <5>1. m.pairs = <<>>
          BY <1>1, <4>1
        <5>2. p = L("url", "runs", m.url, <<>>, <<>>, First(m.pairs, 0))
          BY <2>2, <3>1, <4>1 DEF Ended
        <5> QED BY <3>1, <4>1, <5>1, <5>2, Characters
               DEF Closed, L, LineChar, Leave
      <4>2. CASE Len(m.pairs) # 0
        <5>1. PICK i : i = Len(m.pairs)
          OBVIOUS
        <5>2. i \in 1..Len(m.pairs) /\ i # 0 /\ m.pairs # <<>>
          BY <1>1, <4>2, <5>1
        <5>3. p = L("value", "runs", m.url, m.pairs[i][1], m.pairs[i][2],
                    First(m.pairs, i - 1))
          BY <2>2, <3>1, <5>1, <5>2 DEF Ended
        <5>4. m.pairs[i][1] # <<>> /\ m.pairs[i][2] # <<>>
          BY <1>1, <5>2 DEF KeyWord, PlainPairs
        <5>5. HasPair(p)
          BY <5>3, <5>4 DEF HasPair, L
        <5>6. First(m.pairs, i)
                = Emplace(First(m.pairs, i - 1), m.pairs[i][1], m.pairs[i][2])
          BY <1>1, <5>2, FirstStep
        <5>7. TakePair(p, p.mode, "left") = Closed(m)
          BY <5>1, <5>2, <5>3, <5>6 DEF TakePair, L, Closed
        <5>8. LineChar(p, c) = TakePair(p, p.mode, "left")
          BY <3>1, <5>3, <5>5, Characters DEF LineChar, L
        <5> QED BY <5>7, <5>8
      <4> QED BY <4>1, <4>2
    <3> QED BY <1>3, <1>10, <2>2, <3>2 DEF LinePlace, HeadParts
  <2> QED BY <2>3, <2>4
<1>11. CASE a.part \in HeadParts
  <2>1. p = Closed(m)
    BY <1>11 DEF LinePlace, HeadParts
  <2>2. LineChar(p, c) = p
    BY <2>1 DEF Closed, L, LineChar, Leave
  <2> QED BY <1>3, <1>11, <2>1, <2>2 DEF LinePlace, HeadParts
<1> QED BY <1>5, <1>6, <1>7, <1>8, <1>9, <1>10, <1>11 DEF LinePlace, HeadParts

\* The next part of a request: the loop stays where it is.
LEMMA LineTurns ==
  ASSUME NEW m \in Requests, NEW a \in Spots, NEW p, LinePlace(m, a, p),
         a.j = Len(Piece(m, a)), a.part # "done"
  PROVE  LinePlace(m, Following(m, a), p)
<1>1. /\ m.pairs \in Pairs /\ UrlWord(m.url)
      /\ m.pairs \in Seq(Keys \X Values) /\ Len(m.pairs) \in Nat
      /\ \A i \in 1..Len(m.pairs) : KeyWord(m.pairs[i][1])
                                    /\ ValueWord(m.pairs[i][2])
  BY RequestWords, PairsAreWords
<1>0. a.i \in Nat /\ a.j \in Nat
  BY DEF Spots
<1>2. PICK b : b = Following(m, a)
  OBVIOUS
<1> SUFFICES LinePlace(m, b, p)
  BY <1>2
<1>3. CASE a.part = "method"
  <2>1. p = LineStart
    BY <1>3 DEF LinePlace, HeadParts
  <2>2. b = To("url", 0)
    BY <1>2, <1>3 DEF Following
  <2>3. b \in Spots /\ b.part = "url" /\ b.i = 0 /\ b.j = 0
    BY <2>2, ToSpot DEF Parts
  <2>4. 0 \in 0..Len(m.url)
    BY <1>1 DEF UrlWord, Word
  <2> QED BY <2>1, <2>3, <2>4 DEF LinePlace
<1>4. CASE a.part = "url"
  <2>1. Piece(m, a) = m.url
    BY <1>4 DEF Piece
  <2>2. SubSeq(m.url, 1, a.j) = m.url /\ a.j # 0
    BY <1>1, <2>1, PrefixEnds DEF UrlWord, Word
  <2>3. p = L("url", "runs", m.url, <<>>, <<>>, First(m.pairs, 0))
    BY <1>4, <2>2 DEF LinePlace, HeadParts
  <2>4. p = Ended(m, 0)
    BY <2>3 DEF Ended
  <2>5. b = IF m.pairs = <<>> THEN To("version", 0) ELSE To("mark", 1)
    BY <1>2, <1>4 DEF Following
  <2>6. CASE m.pairs = <<>>
    <3>1. b \in Spots /\ b.part = "version" /\ b.i = 0 /\ b.j = 0
      BY <2>5, <2>6, ToSpot DEF Parts
    <3>2. Len(m.pairs) = 0
      BY <2>6
    <3> QED BY <2>4, <3>1, <3>2 DEF LinePlace
  <2>7. CASE m.pairs # <<>>
    <3>1. b \in Spots /\ b.part = "mark" /\ b.i = 1 /\ b.j = 0
      BY <2>5, <2>7, ToSpot DEF Parts
    <3>2. 1 \in 1..Len(m.pairs) /\ b.i - 1 = 0
      BY <1>1, <2>7, <3>1
    <3> QED BY <2>4, <3>1, <3>2 DEF LinePlace
  <2> QED BY <2>6, <2>7
<1>5. CASE a.part = "mark"
  <2>1. Piece(m, a) = IF a.i = 1 THEN <<"?">> ELSE <<"&">>
    BY <1>5 DEF Piece
  <2>2. a.j = 1
    BY <2>1
  <2>3. /\ a.i \in 1..Len(m.pairs)
        /\ p = L("key", "runs", m.url, <<>>, <<>>, First(m.pairs, a.i - 1))
    BY <1>5, <2>2 DEF LinePlace, HeadParts
  <2>4. b = To("key", a.i)
    BY <1>2, <1>5 DEF Following
  <2>5. b \in Spots /\ b.part = "key" /\ b.i = a.i /\ b.j = 0
    BY <1>0, <2>4, ToSpot DEF Parts
  <2>6. SubSeq(m.pairs[a.i][1], 1, 0) = <<>> /\ 0 \in 0..Len(m.pairs[a.i][1])
    BY <1>1, <2>3 DEF KeyWord, Word
  <2> QED BY <2>3, <2>5, <2>6 DEF LinePlace
<1>6. CASE a.part = "key"
  <2>1. Piece(m, a) = m.pairs[a.i][1]
    BY <1>6 DEF Piece
  <2>2. /\ a.i \in 1..Len(m.pairs)
        /\ p = L("key", "runs", m.url, SubSeq(m.pairs[a.i][1], 1, a.j), <<>>,
                 First(m.pairs, a.i - 1))
    BY <1>6 DEF LinePlace, HeadParts
  <2>3. b = To("equals", a.i)
    BY <1>2, <1>6 DEF Following
  <2>4. b \in Spots /\ b.part = "equals" /\ b.i = a.i /\ b.j = 0
    BY <1>0, <2>3, ToSpot DEF Parts
  <2>5. SubSeq(m.pairs[a.i][1], 1, a.j) = m.pairs[a.i][1]
    BY <1>1, <2>1, <2>2, PrefixEnds DEF KeyWord, Word
  <2>6. p = L("key", "runs", m.url, m.pairs[b.i][1], <<>>,
            First(m.pairs, b.i - 1))
    BY <2>2, <2>4, <2>5
  <2> QED BY <2>2, <2>4, <2>6 DEF LinePlace
<1>7. CASE a.part = "equals"
  <2>1. Piece(m, a) = <<"=">>
    BY <1>7 DEF Piece
  <2>2. a.j = 1
    BY <2>1
  <2>3. /\ a.i \in 1..Len(m.pairs)
        /\ p = L("value", "runs", m.url, m.pairs[a.i][1], <<>>,
                 First(m.pairs, a.i - 1))
    BY <1>7, <2>2 DEF LinePlace, HeadParts
  <2>4. b = To("value", a.i)
    BY <1>2, <1>7 DEF Following
  <2>5. b \in Spots /\ b.part = "value" /\ b.i = a.i /\ b.j = 0
    BY <1>0, <2>4, ToSpot DEF Parts
  <2>6. SubSeq(m.pairs[a.i][2], 1, 0) = <<>> /\ 0 \in 0..Len(m.pairs[a.i][2])
    BY <1>1, <2>3 DEF ValueWord, Word
  <2> QED BY <2>3, <2>5, <2>6 DEF LinePlace
<1>8. CASE a.part = "value"
  <2>1. Piece(m, a) = m.pairs[a.i][2]
    BY <1>8 DEF Piece
  <2>2. /\ a.i \in 1..Len(m.pairs)
        /\ p = L("value", "runs", m.url, m.pairs[a.i][1],
                 SubSeq(m.pairs[a.i][2], 1, a.j), First(m.pairs, a.i - 1))
    BY <1>8 DEF LinePlace, HeadParts
  <2>3. b = IF a.i < Len(m.pairs) THEN To("mark", a.i + 1)
            ELSE To("version", a.i)
    BY <1>2, <1>8 DEF Following
  <2>4. SubSeq(m.pairs[a.i][2], 1, a.j) = m.pairs[a.i][2]
    BY <1>1, <2>1, <2>2, PrefixEnds DEF ValueWord, Word
  <2>5. a.i # 0
    BY <2>2
  <2>6. p = Ended(m, a.i)
    BY <2>2, <2>4, <2>5 DEF Ended
  <2>7. CASE a.i < Len(m.pairs)
    <3>1. b \in Spots /\ b.part = "mark" /\ b.i = a.i + 1 /\ b.j = 0
      BY <1>0, <2>3, <2>7, ToSpot DEF Parts
    <3>2. b.i \in 1..Len(m.pairs) /\ b.i - 1 = a.i
      BY <1>1, <2>2, <2>7, <3>1
    <3> QED BY <2>6, <3>1, <3>2 DEF LinePlace
  <2>8. CASE ~(a.i < Len(m.pairs))
    <3>1. b \in Spots /\ b.part = "version" /\ b.i = a.i /\ b.j = 0
      BY <1>0, <2>3, <2>8, ToSpot DEF Parts
    <3>2. b.i = Len(m.pairs)
      BY <1>1, <2>2, <2>8, <3>1
    <3> QED BY <2>6, <3>1, <3>2 DEF LinePlace
  <2> QED BY <2>7, <2>8
<1>9. CASE a.part = "version"
  <2>1. Piece(m, a) = <<SPACE, "H", CR, LF>>
    BY <1>9 DEF Piece
  <2>2. a.j = 4
    BY <2>1
  <2>3. p = Closed(m)
    BY <1>9, <2>2 DEF LinePlace, HeadParts
  <2>4. b = IF m.heads = <<>> THEN To("blank", 0) ELSE To("name", 1)
    BY <1>2, <1>9 DEF Following
  <2>5. b \in Spots /\ b.part \in {"blank", "name"}
    BY <2>4, ToSpot DEF Parts
  <2> QED BY <2>3, <2>5 DEF LinePlace, HeadParts
<1>10. CASE a.part \in HeadParts
  <2>1. p = Closed(m)
    BY <1>10 DEF LinePlace, HeadParts
  <2>2. b \in {To("colon", a.i), To("field", a.i), To("crlf", a.i),
               To("name", a.i + 1), To("blank", a.i), To("body", 0),
                   To("done", 0)}
    BY <1>2, <1>10 DEF Following, HeadParts
  <2>3. b \in Spots /\ b.part \in HeadParts
    BY <1>0, <2>2, ToSpot DEF Parts, HeadParts
  <2> QED BY <2>1, <2>3 DEF LinePlace
<1> QED BY <1>3, <1>4, <1>5, <1>6, <1>7, <1>8, <1>9, <1>10 DEF LinePlace

\* The loop stops at the space after the url and its pairs: what it holds
\* then is the url and the pairs of the request.
LEMMA LineIsTrue ==
  ASSUME NEW m \in Requests, NEW p, p = Closed(m)
  PROVE  p.mode # "start" /\ LineQuery(p) = FirstWins(m.pairs) /\ p.url = m.url
<1>1. m.pairs \in Seq(Keys \X Values) /\ Len(m.pairs) \in Nat
  BY RequestWords, PairsAreWords
<1>2. First(m.pairs, Len(m.pairs)) = FirstWins(m.pairs)
  <2>1. Len(m.pairs) \in 0..Len(m.pairs)
    BY <1>1
  <2> QED BY <1>1, <2>1, FirstOfAll
<1>3. /\ p.mode \in {"url", "value"} /\ p.key = <<>> /\ p.url = m.url
      /\ p.map = FirstWins(m.pairs)
  BY <1>2 DEF Closed, L
<1>4. ~HasPair(p)
  BY <1>3 DEF HasPair
<1> QED BY <1>3, <1>4 DEF LineQuery

\* Where the next part of a request is.
LEMMA LineSpotTurns ==
  ASSUME NEW m \in Requests, NEW a \in Spots, LineSpot(m, a),
         a.part # "done"
  PROVE  LineSpot(m, Following(m, a)) /\ Following(m, a) \in Spots
<1>1. Len(m.pairs) \in Nat /\ (m.pairs # <<>> => Len(m.pairs) > 0)
  <2>1. m.pairs \in Seq(Keys \X Values)
    BY RequestWords, PairsAreWords
  <2> QED BY <2>1
<1>0. a.i \in Nat
  BY DEF Spots
<1>2. PICK b : b = Following(m, a)
  OBVIOUS
<1> SUFFICES LineSpot(m, b) /\ b \in Spots
  BY <1>2
<1>3. CASE a.part = "method"
  <2>1. b = To("url", 0)
    BY <1>2, <1>3 DEF Following
  <2>2. b \in Spots /\ b.part = "url" /\ b.i = 0
    BY <2>1, ToSpot DEF Parts
  <2> QED BY <2>2 DEF LineSpot
<1>4. CASE a.part = "url"
  <2>1. CASE m.pairs = <<>>
    <3>1. b = To("version", 0)
      BY <1>2, <1>4, <2>1 DEF Following
    <3>2. b \in Spots /\ b.part = "version" /\ b.i = 0 /\ Len(m.pairs) = 0
      BY <2>1, <3>1, ToSpot DEF Parts
    <3> QED BY <3>2 DEF LineSpot
  <2>2. CASE m.pairs # <<>>
    <3>1. b = To("mark", 1)
      BY <1>2, <1>4, <2>2 DEF Following
    <3>2. b \in Spots /\ b.part = "mark" /\ b.i = 1 /\ 1 \in 1..Len(m.pairs)
      BY <1>1, <2>2, <3>1, ToSpot DEF Parts
    <3> QED BY <3>2 DEF LineSpot
  <2> QED BY <2>1, <2>2
<1>5. CASE a.part \in {"mark", "key", "equals"}
  <2>1. \E n \in {"key", "equals", "value"} : b = To(n, a.i)
    BY <1>2, <1>5 DEF Following
  <2>2. PICK n \in {"key", "equals", "value"} : b = To(n, a.i)
    BY <2>1
  <2>3. b \in Spots /\ b.part = n /\ b.i = a.i
    BY <1>0, <2>2, ToSpot DEF Parts
  <2>4. a.i \in 1..Len(m.pairs)
    BY <1>5 DEF LineSpot, HeadParts
  <2> QED BY <2>3, <2>4 DEF LineSpot
<1>6. CASE a.part = "value"
  <2>0. a.i \in 1..Len(m.pairs)
    BY <1>6 DEF LineSpot, HeadParts
  <2>1. CASE a.i < Len(m.pairs)
    <3>1. b = To("mark", a.i + 1)
      BY <1>2, <1>6, <2>1 DEF Following
    <3>2. b \in Spots /\ b.part = "mark" /\ b.i = a.i + 1
      BY <1>0, <3>1, ToSpot DEF Parts
    <3>3. b.i \in 1..Len(m.pairs)
      BY <1>1, <2>0, <2>1, <3>2
    <3> QED BY <3>2, <3>3 DEF LineSpot
  <2>2. CASE ~(a.i < Len(m.pairs))
    <3>1. b = To("version", a.i)
      BY <1>2, <1>6, <2>2 DEF Following
    <3>2. b \in Spots /\ b.part = "version" /\ b.i = a.i
      BY <1>0, <3>1, ToSpot DEF Parts
    <3>3. a.i = Len(m.pairs)
      BY <1>1, <2>0, <2>2
    <3> QED BY <3>2, <3>3 DEF LineSpot
  <2> QED BY <2>1, <2>2
<1>7. CASE a.part = "version"
  <2>1. b = To("blank", 0) \/ b = To("name", 1)
    BY <1>2, <1>7 DEF Following
  <2>2. b \in Spots /\ b.part \in {"blank", "name"}
    BY <2>1, ToSpot DEF Parts
  <2> QED BY <2>2 DEF LineSpot, HeadParts
<1>8. CASE a.part \in HeadParts
  <2>1. b \in {To("colon", a.i), To("field", a.i), To("crlf", a.i),
               To("name", a.i + 1), To("blank", a.i), To("body", 0),
               To("done", 0)}
    BY <1>2, <1>8 DEF Following, HeadParts
  <2>2. b \in Spots /\ b.part \in HeadParts
    BY <1>0, <2>1, ToSpot DEF Parts, HeadParts
  <2> QED BY <2>2 DEF LineSpot
<1> QED BY <1>3, <1>4, <1>5, <1>6, <1>7, <1>8 DEF LineSpot

\* What a character does to the loop, whatever the parameters: before the url
\* it stays before the url,
LEMMA StartChar ==
  ASSUME NEW p, IsLine(p), p.mode = "start", p.loop = "runs", p.key = <<>>,
         NEW c, c \notin {"/", CR, LF}, NEW q, q = LineChar(p, c)
  PROVE  /\ IsLine(q) /\ q.mode = "start" /\ q.loop = "runs"
         /\ q.key = <<>>
<1>1. PICK u, v, f : p = L("start", "runs", u, <<>>, v, f)
  BY DEF IsLine
<1>2. ~HasPair(p)
  BY DEF HasPair
<1>3. q = p \/ q = [p EXCEPT !.val = Append(@, c)]
  BY <1>2 DEF LineChar
<1>4. q = p \/ q = L("start", "runs", u, <<>>, Append(v, c), f)
  BY <1>1, <1>3 DEF L
<1> QED BY <1>1, <1>4 DEF L, IsLine

\* in the parameters it stays in the parameters,
LEMMA RunChar ==
  ASSUME NEW p, IsLine(p), p.mode \in {"key", "value"}, p.loop = "runs",
         NEW c, c \notin {SPACE, CR, LF}, NEW q, q = LineChar(p, c)
  PROVE  /\ IsLine(q) /\ q.mode \in {"key", "value"} /\ q.loop = "runs"
         /\ q.url = p.url
<1>1. PICK mo, u, k, v, f : p = L(mo, "runs", u, k, v, f) /\ mo = p.mode
  BY DEF IsLine
<1>2. CASE mo = "key"
  <2>1. \/ q = [p EXCEPT !.mode = "value"]
        \/ q = [p EXCEPT !.key = Append(@, c)]
    BY <1>1, <1>2 DEF LineChar
  <2>2. \/ q = L("value", "runs", u, k, v, f)
        \/ q = L("key", "runs", u, Append(k, c), v, f)
    BY <1>1, <1>2, <2>1 DEF L
  <2> QED BY <1>1, <2>2 DEF L, IsLine
<1>3. CASE mo = "value"
  <2>1. \/ q = p \/ q = [p EXCEPT !.val = Append(@, c)]
        \/ q = TakePair(p, "key", "runs")
    BY <1>1, <1>3 DEF LineChar
  <2>2. \/ q = p \/ q = L("value", "runs", u, k, Append(v, c), f)
        \/ q = L("key", "runs", u, <<>>, <<>>, Emplace(f, k, v))
    BY <1>1, <1>3, <2>1 DEF L, TakePair
  <2> QED BY <1>1, <1>3, <2>2 DEF L, IsLine
<1> QED BY <1>1, <1>2, <1>3

\* at the space behind them it stops,
LEMMA SpaceChar ==
  ASSUME NEW p, IsLine(p), p.mode \in {"url", "key", "value"},
         p.loop = "runs", NEW q, q = LineChar(p, SPACE)
  PROVE  /\ IsLine(q) /\ q.mode # "start" /\ q.loop = "left"
         /\ q.url = p.url
<1>1. PICK mo, u, k, v, f : p = L(mo, "runs", u, k, v, f) /\ mo = p.mode
  BY DEF IsLine
<1>2. q = Leave(p) \/ q = TakePair(p, p.mode, "left")
  <2>1. CASE mo = "url"
    BY <1>1, <2>1, Characters DEF LineChar
  <2>2. CASE mo = "key"
    BY <1>1, <2>2, Characters DEF LineChar
  <2>3. CASE mo = "value"
    BY <1>1, <2>3, Characters DEF LineChar
  <2> QED BY <1>1, <2>1, <2>2, <2>3
<1>3. \/ q = L(mo, "left", u, k, v, f)
      \/ q = L(mo, "left", u, <<>>, <<>>, Emplace(f, k, v))
  BY <1>1, <1>2 DEF L, Leave, TakePair
<1> QED BY <1>1, <1>3 DEF L, IsLine

\* and then nothing changes it.
LEMMA LeftChar ==
  ASSUME NEW p, p.loop = "left", NEW c
  PROVE  LineChar(p, c) = p
BY DEF LineChar

\* What arrives after the method and before the space behind the url and the
\* parameters.
LEMMA PieceChar ==
  ASSUME NEW m \in Requests, NEW a \in Spots, LineSpot(m, a),
         a.part \in {"url", "mark", "key", "equals", "value"},
         a.j < Len(Piece(m, a)), NEW c, c = Piece(m, a)[a.j + 1]
  PROVE  /\ c \notin {SPACE, CR, LF}
         /\ a.part = "url" => c # "?"
         /\ a.part = "url" /\ a.j = 0 => c = "/"
         /\ a.part = "mark" /\ a.i = 1 => c = "?"
<1>1. /\ UrlWord(m.url)
      /\ \A i \in 1..Len(m.pairs) : KeyWord(m.pairs[i][1])
                                    /\ ValueWord(m.pairs[i][2])
  BY RequestWords, PairsAreWords
<1>0. a.j \in Nat /\ a.j < Len(Piece(m, a)) /\ c = Piece(m, a)[a.j + 1]
  BY DEF Spots
<1>2. CASE a.part = "mark"
  <2>1. Piece(m, a) = IF a.i = 1 THEN <<"?">> ELSE <<"&">>
    BY <1>2 DEF Piece
  <2>2. PICK d \in {"?", "&"} : Piece(m, a) = <<d>>
                               /\ (a.i = 1 => d = "?")
    BY <2>1
  <2>3. a.j = 0
    BY ONLY <1>0, <2>2
  <2> QED BY <1>0, <1>2, <2>2, <2>3, Characters
<1>3. CASE a.part = "equals"
  <2>1. Piece(m, a) = <<"=">>
    BY <1>3 DEF Piece
  <2>2. a.j = 0
    BY ONLY <1>0, <2>1
  <2> QED BY <1>0, <1>3, <2>1, <2>2, Characters
<1>4. CASE a.part \in {"key", "value"}
  <2>0. a.i \in 1..Len(m.pairs)
    BY <1>4 DEF LineSpot, HeadParts
  <2>1. PICK w : w = Piece(m, a)
    OBVIOUS
  <2>2. w = m.pairs[a.i][1] \/ w = m.pairs[a.i][2]
    BY <1>4, <2>1 DEF Piece
  <2>3. KeyWord(w) \/ ValueWord(w)
    BY <1>1, <2>0, <2>2
  <2>4. /\ Len(w) \in Nat
        /\ \A i \in 1..Len(w) : w[i] \notin {SPACE, CR, LF}
    BY <2>3 DEF KeyWord, ValueWord, Word
  <2>5. a.j + 1 \in 1..Len(w)
    BY ONLY <1>0, <2>1, <2>4
  <2> QED BY <1>0, <1>4, <2>1, <2>4, <2>5
<1>5. CASE a.part = "url"
  <2>1. PICK w : w = m.url
    OBVIOUS
  <2>2. Piece(m, a) = w
    BY <1>5, <2>1 DEF Piece
  <2>3. /\ Len(w) \in Nat /\ w[1] = "/"
        /\ \A i \in 1..Len(w) : w[i] \notin {"?", SPACE, CR, LF}
    BY <1>1, <2>1 DEF UrlWord, Word
  <2>4. a.j + 1 \in 1..Len(w) /\ c = w[a.j + 1]
    BY ONLY <1>0, <2>2, <2>3
  <2>5. a.j = 0 => c = "/"
    BY ONLY <2>3, <2>4
  <2> QED BY <1>5, <2>3, <2>4, <2>5
<1> QED BY <1>2, <1>3, <1>4, <1>5

\* A character of a request line after the method, whatever the parameters.
LEMMA LineKnowsArrives ==
  ASSUME NEW m \in Requests, NEW a \in Spots, LineSpot(m, a),
         NEW p, LineKnows(m, a, p),
         a.j < Len(Piece(m, a)), a.part # "method"
  PROVE  LineKnows(m, [a EXCEPT !.j = @ + 1],
                   LineChar(p, Piece(m, a)[a.j + 1]))
<1>1. UrlWord(m.url)
  BY RequestWords
<1>0. a.i \in Nat /\ a.j \in Nat /\ a.j < Len(Piece(m, a)) /\ IsLine(p)
  BY DEF Spots, LineKnows
<1>2. PICK b : b = [a EXCEPT !.j = @ + 1]
  OBVIOUS
<1>3. b.part = a.part /\ b.i = a.i /\ b.j = a.j + 1 /\ b.j > 0
  BY <1>0, <1>2 DEF Spots
<1>4. PICK c : c = Piece(m, a)[a.j + 1]
  OBVIOUS
<1>5. PICK q : q = LineChar(p, c)
  OBVIOUS
<1> SUFFICES LineKnows(m, b, q)
  BY <1>2, <1>4, <1>5
<1>6. CASE a.part = "url"
  <2>1. PICK w : w = m.url
    OBVIOUS
  <2>2. Piece(m, a) = w
    BY <1>6, <2>1 DEF Piece
  <2>3. w \in Seq(Char) /\ Len(w) \in Nat /\ w[1] = "/"
    BY <1>1, <2>1 DEF UrlWord, Word
  <2>4. a.j \in 0..Len(w) - 1 /\ a.j + 1 \in 1..Len(w) /\ c = w[a.j + 1]
    BY ONLY <1>0, <1>4, <2>2, <2>3
  <2>5. c \notin {"?", SPACE, CR, LF} /\ (a.j = 0 => c = "/")
    BY <1>4, <1>6, PieceChar
  <2>6. SubSeq(w, 1, a.j + 1) = Append(SubSeq(w, 1, a.j), c)
    BY <2>3, <2>4, PrefixStep
  <2>7. IsLine(q) /\ q.mode = "url" /\ q.loop = "runs"
        /\ q.url = SubSeq(w, 1, a.j + 1)
    <3>1. CASE a.j = 0
      <4>1. PICK u, v, f : p = L("start", "runs", u, <<>>, v, f)
        BY <1>0, <1>6, <3>1 DEF LineKnows, IsLine
      <4>2. c = "/"
        BY <2>5, <3>1
      <4>3. SubSeq(w, 1, a.j + 1) = <<"/">>
        <5>1. SubSeq(w, 1, 0) = <<>>
          BY <2>3
        <5>2. SubSeq(w, 1, a.j + 1) = Append(<<>>, c)
          BY <2>6, <3>1, <5>1
        <5> QED BY <4>2, <5>2
      <4>4. q = L("url", "runs", <<"/">>, <<>>, v, f)
        BY <1>5, <4>1, <4>2, Characters DEF LineChar, L
      <4> QED BY <4>3, <4>4 DEF L, IsLine
    <3>2. CASE a.j # 0
      <4>1. a.j > 0
        BY <1>0, <3>2
      <4>2. PICK k, v, f : p = L("url", "runs", SubSeq(w, 1, a.j), k, v, f)
        BY <1>0, <1>6, <2>1, <4>1 DEF LineKnows, IsLine
      <4>3. PICK u : u = SubSeq(w, 1, a.j)
        OBVIOUS
      <4>4. q = L("url", "runs", Append(u, c), k, v, f)
        BY <1>5, <2>5, <4>2, <4>3 DEF LineChar, L
      <4> QED BY <2>6, <4>3, <4>4 DEF L, IsLine
    <3> QED BY <3>1, <3>2
  <2> QED BY <1>3, <1>6, <2>1, <2>7 DEF LineKnows, HeadParts
<1>7. CASE a.part \in {"mark", "key", "equals", "value"}
  <2>2. c \notin {SPACE, CR, LF} /\ (a.part = "mark" /\ a.i = 1 => c = "?")
    BY <1>4, <1>7, PieceChar
  <2>3. /\ p.loop = "runs" /\ p.url = m.url
        /\ \/ p.mode \in {"key", "value"}
           \/ p.mode = "url" /\ a.part = "mark" /\ a.i = 1
    BY <1>7 DEF LineKnows
  <2>4. IsLine(q) /\ q.mode \in {"key", "value"} /\ q.loop = "runs"
        /\ q.url = m.url
    <3>1. CASE p.mode \in {"key", "value"}
      BY <1>0, <1>5, <2>2, <2>3, <3>1, RunChar
    <3>2. CASE p.mode = "url" /\ a.part = "mark" /\ a.i = 1
      <4>1. PICK k, v, f : p = L("url", "runs", m.url, k, v, f)
        BY <1>0, <2>3, <3>2 DEF IsLine
      <4>2. q = L("key", "runs", m.url, k, v, f)
        BY <1>5, <2>2, <3>2, <4>1, Characters DEF LineChar, L
      <4> QED BY <4>2 DEF L, IsLine
    <3> QED BY <2>3, <3>1, <3>2
  <2> QED BY <1>3, <1>7, <2>4 DEF LineKnows, HeadParts
<1>8. CASE a.part = "version" /\ a.j = 0
  <2>1. Piece(m, a) = <<SPACE, "H", CR, LF>>
    BY <1>8 DEF Piece
  <2>2. c = SPACE
    BY <1>4, <1>8, <2>1
  <2>3. /\ p.loop = "runs" /\ p.url = m.url
        /\ p.mode \in {"url", "key", "value"}
    BY <1>8 DEF LineKnows
  <2>4. IsLine(q) /\ q.mode # "start" /\ q.loop = "left" /\ q.url = m.url
    BY <1>0, <1>5, <2>2, <2>3, SpaceChar
  <2> QED BY <1>3, <1>8, <2>4 DEF LineKnows, HeadParts
<1>9. CASE (a.part = "version" /\ a.j # 0) \/ a.part \in HeadParts
  <2>1. p.mode # "start" /\ p.loop = "left" /\ p.url = m.url
    BY <1>0, <1>9 DEF LineKnows
  <2>2. q = p
    BY <1>5, <2>1, LeftChar
  <2> QED BY <1>0, <1>3, <1>9, <2>1, <2>2 DEF LineKnows, HeadParts
<1> QED BY <1>6, <1>7, <1>8, <1>9 DEF LineSpot

\* The next part, whatever the parameters.
LEMMA LineKnowsTurns ==
  ASSUME NEW m \in Requests, NEW a \in Spots, LineSpot(m, a),
         NEW p, LineKnows(m, a, p),
         a.j = Len(Piece(m, a)), a.part # "done"
  PROVE  LineKnows(m, Following(m, a), p)
<1>1. UrlWord(m.url) /\ Len(m.pairs) \in Nat
  BY RequestWords, PairsAreWords
<1>0. a.i \in Nat /\ a.j \in Nat /\ a.j = Len(Piece(m, a)) /\ IsLine(p)
  BY DEF Spots, LineKnows
<1>9. LineKnows(m, a, p)
  OBVIOUS
<1>2. PICK b : b = Following(m, a)
  OBVIOUS
<1> SUFFICES LineKnows(m, b, p)
  BY <1>2
<1>3. CASE a.part = "method"
  <2>1. b = To("url", 0)
    BY <1>2, <1>3 DEF Following
  <2>2. b.part = "url" /\ b.j = 0
    BY <2>1, ToSpot DEF Parts
  <2>3. p.mode = "start" /\ p.loop = "runs" /\ p.key = <<>>
    BY <1>3 DEF LineKnows
  <2> QED BY <1>0, <2>2, <2>3 DEF LineKnows, HeadParts
<1>4. CASE a.part = "url"
  <2>1. Piece(m, a) = m.url
    BY <1>4 DEF Piece
  <2>2. SubSeq(m.url, 1, a.j) = m.url /\ a.j > 0
    BY <1>0, <1>1, <2>1, PrefixEnds DEF UrlWord, Word
  <2>3. p.mode = "url" /\ p.loop = "runs" /\ p.url = m.url
    BY <1>4, <2>2 DEF LineKnows
  <2>4. b = To("version", 0) \/ b = To("mark", 1)
    BY <1>2, <1>4 DEF Following
  <2>5. b.j = 0 /\ (b.part = "version" \/ (b.part = "mark" /\ b.i = 1))
    BY <2>4, ToSpot DEF Parts
  <2> QED BY <1>0, <2>3, <2>5 DEF LineKnows, HeadParts
<1>5. CASE a.part \in {"mark", "key", "equals", "value"}
  <2>1. a.part = "mark" => a.j = 1
    <3> SUFFICES ASSUME a.part = "mark" PROVE a.j = 1
      OBVIOUS
    <3>1. Len(Piece(m, a)) = 1
      BY DEF Piece
    <3> QED BY ONLY <1>0, <3>1
  <2>2. p.loop = "runs" /\ p.url = m.url /\ p.mode \in {"key", "value"}
    BY ONLY <1>5, <1>9, <2>1 DEF LineKnows
  <2>3. b \in {To("key", a.i), To("equals", a.i), To("value", a.i),
               To("mark", a.i + 1), To("version", a.i)}
    BY <1>2, <1>5 DEF Following
  <2>4. b.j = 0 /\ b.part \in {"key", "equals", "value", "mark", "version"}
    BY <1>0, <2>3, ToSpot DEF Parts
  <2> QED BY <1>0, <2>2, <2>4 DEF LineKnows, HeadParts
<1>6. CASE a.part = "version" \/ a.part \in HeadParts
  <2>1. a.part = "version" => a.j = 4
    <3> SUFFICES ASSUME a.part = "version" PROVE a.j = 4
      OBVIOUS
    <3>1. Len(Piece(m, a)) = 4
      BY DEF Piece
    <3> QED BY ONLY <1>0, <3>1
  <2>2. p.mode # "start" /\ p.loop = "left" /\ p.url = m.url
    BY ONLY <1>6, <1>9, <2>1 DEF LineKnows
  <2>3. b.part \in HeadParts
    <3>1. b \in {To("colon", a.i), To("field", a.i), To("crlf", a.i),
                 To("name", a.i + 1), To("name", 1), To("blank", 0),
                 To("blank", a.i), To("body", 0), To("done", 0)}
      BY <1>2, <1>6 DEF Following, HeadParts
    <3> QED BY <1>0, <3>1, ToSpot DEF Parts, HeadParts
  <2> QED BY <1>0, <2>2, <2>3 DEF LineKnows, HeadParts
<1> QED BY <1>3, <1>4, <1>5, <1>6 DEF LineSpot

-----------------------------------------------------------------------------
(* handle_request_parse: where the lines end.                              *)

\* t is s and the character c.
Longer(s, c, t) ==
  /\ s \in Seq(Char) /\ Len(s) \in Nat /\ c \in Char
  /\ t = Append(s, c) /\ t \in Seq(Char) /\ Len(t) = Len(s) + 1
  /\ t[Len(s) + 1] = c /\ \A i \in 1..Len(s) : t[i] = s[i]

\* A text with one more character.
LEMMA AppendIsLonger ==
  ASSUME NEW s \in Seq(Char), NEW c \in Char
  PROVE  Longer(s, c, Append(s, c))
BY DEF Longer

\* The line ends of a text stay; a new one ends with LF after CR.
LEMMA LineEndStays ==
  ASSUME NEW s, NEW c, NEW t, Longer(s, c, t)
  PROVE  /\ \A q \in Nat : LineEnd(s, q) => LineEnd(t, q)
         /\ \A q \in Nat : LineEnd(t, q) =>
              LineEnd(s, q) \/ (q = Len(s) /\ c = LF /\ s[Len(s)] = CR)
<1>1. ASSUME NEW q \in Nat, LineEnd(s, q) PROVE LineEnd(t, q)
  BY <1>1 DEF LineEnd, Longer
<1>2. ASSUME NEW q \in Nat, LineEnd(t, q), ~LineEnd(s, q)
      PROVE  q = Len(s) /\ c = LF /\ s[Len(s)] = CR
  <2>1. q \in 1..Len(s) /\ t[q] = CR /\ t[q + 1] = LF
    BY <1>2 DEF LineEnd, Longer
  <2>2. s[q] = CR
    BY <2>1 DEF Longer
  <2>3. CASE q < Len(s)
    <3>1. q + 1 \in 1..Len(s) /\ q \in 1..Len(s) - 1
      BY <2>1, <2>3 DEF Longer
    <3>2. s[q + 1] = LF
      BY <2>1, <3>1 DEF Longer
    <3> QED BY <1>2, <2>2, <3>1, <3>2 DEF LineEnd
  <2>4. CASE q = Len(s)
    BY <2>1, <2>2, <2>4 DEF Longer
  <2>5. q < Len(s) \/ q = Len(s)
    BY <2>1 DEF Longer
  <2> QED BY <2>3, <2>4, <2>5
<1> QED BY <1>1, <1>2

\* The first line end stays the first.
LEMMA FirstLineEndStays ==
  ASSUME NEW s, NEW c, NEW t, Longer(s, c, t), NEW e, FirstLineEnd(s, e)
  PROVE  FirstLineEnd(t, e)
<1>1. e \in 1..Len(s) - 1 /\ Len(s) \in Nat /\ e \in Nat
  BY DEF FirstLineEnd, LineEnd, Longer
<1>2. LineEnd(t, e)
  BY <1>1, LineEndStays DEF FirstLineEnd
<1>3. ASSUME NEW r \in 1..e - 1 PROVE ~LineEnd(t, r)
  <2>1. r \in Nat /\ r # Len(s)
    BY <1>1
  <2> QED BY <2>1, LineEndStays DEF FirstLineEnd
<1> QED BY <1>2, <1>3 DEF FirstLineEnd

\* Only an LF after LF and CR makes a blank line.
LEMMA NoBlankLineStays ==
  ASSUME NEW s, NEW c, NEW t, Longer(s, c, t), NoBlankLine(s),
         c # LF \/ s[Len(s)] # CR \/ ~LineEnd(s, Len(s) - 2)
  PROVE  NoBlankLine(t)
<1>0. Len(s) \in Nat /\ Len(t) = Len(s) + 1
  BY DEF Longer
<1> SUFFICES ASSUME NEW r \in 1..Len(t), BlankLine(t, r) PROVE FALSE
  BY DEF NoBlankLine
<1>1. LineEnd(t, r) /\ LineEnd(t, r + 2) /\ r \in Nat /\ r + 2 \in Nat
  BY <1>0 DEF BlankLine
<1>2. r + 2 \in 1..Len(t) - 1
  BY <1>1 DEF LineEnd
<1>3. r \in 1..Len(s) /\ r # Len(s)
  BY <1>0, <1>2
<1>4. LineEnd(s, r)
  BY <1>1, <1>3, LineEndStays
<1>5. CASE LineEnd(s, r + 2)
  BY <1>3, <1>4, <1>5 DEF NoBlankLine, BlankLine
<1>6. CASE ~LineEnd(s, r + 2)
  <2>1. r + 2 = Len(s) /\ c = LF /\ s[Len(s)] = CR
    BY <1>1, <1>6, LineEndStays
  <2>2. r = Len(s) - 2
    BY <1>0, <2>1
  <2> QED BY <1>4, <2>1, <2>2
<1> QED BY <1>5, <1>6

\* The first blank line stays the first.
LEMMA FirstBlankLineStays ==
  ASSUME NEW s, NEW c, NEW t, Longer(s, c, t), NEW b, FirstBlankLine(s, b)
  PROVE  FirstBlankLine(t, b)
<1>0. Len(s) \in Nat /\ Len(t) = Len(s) + 1
  BY DEF Longer
<1>1. LineEnd(s, b) /\ LineEnd(s, b + 2)
  BY DEF FirstBlankLine, BlankLine
<1>2. b \in Nat /\ b + 2 \in Nat /\ b + 2 <= Len(s) - 1
  BY <1>0, <1>1 DEF LineEnd
<1>3. BlankLine(t, b)
  BY <1>1, <1>2, LineEndStays DEF BlankLine
<1>4. ASSUME NEW r \in 1..b - 1, BlankLine(t, r) PROVE FALSE
  <2>1. r \in Nat /\ r + 2 \in Nat /\ r # Len(s) /\ r + 2 # Len(s)
    BY <1>0, <1>2
  <2>2. LineEnd(s, r) /\ LineEnd(s, r + 2)
    BY <1>4, <2>1, LineEndStays DEF BlankLine
  <2> QED BY <2>2 DEF FirstBlankLine, BlankLine
<1> QED BY <1>3, <1>4 DEF FirstBlankLine

-----------------------------------------------------------------------------
(* handle_request_parse: the loops from the fifth character on.            *)

\* One more character of a text from k on, and of a part of it.
LEMMA TailStep ==
  ASSUME NEW S, NEW s \in Seq(S), NEW c \in S, NEW k \in Nat, k > 0,
         k <= Len(s) + 1
  PROVE  /\ SubSeq(Append(s, c), k, Len(s) + 1)
              = Append(SubSeq(s, k, Len(s)), c)
         /\ SubSeq(s, k, Len(s)) \in Seq(S)
<1>1. SubSeq(s, k, Len(s)) \in Seq(S)
  OBVIOUS
<1>2. SubSeq(Append(s, c), k, Len(s) + 1) = Append(SubSeq(s, k, Len(s)), c)
  OBVIOUS
<1> QED BY <1>1, <1>2

\* One more character of a part.
LEMMA MiddleStep ==
  ASSUME NEW S, NEW w \in Seq(S), NEW k \in Nat, k > 0, NEW j \in Nat,
         k <= j + 1, j < Len(w)
  PROVE  SubSeq(w, k, j + 1) = Append(SubSeq(w, k, j), w[j + 1])
OBVIOUS

\* The index of the next character of a word.
LEMMA NextIndex ==
  ASSUME NEW l \in Nat, NEW j \in Nat, j < l
  PROVE  j \in 0..l - 1 /\ j + 1 \in 1..l
OBVIOUS

\* The loop begins at the fifth character.
LEMMA FifthStep ==
  ASSUME NEW s, NEW c, NEW t, Longer(s, c, t), NEW loop
  PROVE  /\ Len(s) >= 4 =>
              Scan(loop, SubSeq(t, 5, Len(t)))
                = Step(loop, Scan(loop, SubSeq(s, 5, Len(s))), c)
         /\ Len(s) < 4 => Scan(loop, SubSeq(t, 5, Len(t))) = Start(loop)
<1>1. /\ s \in Seq(Char) /\ t \in Seq(Char) /\ c \in Char
      /\ Len(s) \in Nat /\ Len(t) = Len(s) + 1 /\ t = Append(s, c)
  BY DEF Longer
<1>2. ASSUME Len(s) >= 4
      PROVE  Scan(loop, SubSeq(t, 5, Len(t)))
               = Step(loop, Scan(loop, SubSeq(s, 5, Len(s))), c)
  <2>1. PICK u : u = SubSeq(s, 5, Len(s))
    OBVIOUS
  <2>2. u \in Seq(Char) /\ SubSeq(t, 5, Len(t)) = Append(u, c)
    <3>1. PICK x \in Nat : x = 5
      OBVIOUS
    <3>2. x > 0 /\ x <= Len(s) + 1
      BY <1>1, <1>2, <3>1
    <3>3. /\ SubSeq(Append(s, c), x, Len(s) + 1)
               = Append(SubSeq(s, x, Len(s)), c)
          /\ SubSeq(s, x, Len(s)) \in Seq(Char)
      BY ONLY <1>1, <3>2, TailStep
    <3> QED BY ONLY <1>1, <2>1, <3>1, <3>3
  <2>3. Scan(loop, Append(u, c)) = Step(loop, Scan(loop, u), c)
    BY <1>1, <2>2, ScanAppend
  <2> QED BY <2>1, <2>2, <2>3
<1>3. ASSUME Len(s) < 4
      PROVE  Scan(loop, SubSeq(t, 5, Len(t))) = Start(loop)
  <2>1. SubSeq(t, 5, Len(t)) = <<>>
    BY <1>1, <1>3
  <2> QED BY <2>1, ScanEmpty
<1> QED BY <1>2, <1>3

\* The characters of a method and the space behind it.
LEMMA MethodPiece ==
  ASSUME NEW m \in Requests, NEW a \in Spots, a.part = "method",
         a.j < Len(Piece(m, a)), NEW c, c = Piece(m, a)[a.j + 1]
  PROVE  /\ m.method \in Seq(Char) /\ Len(m.method) \in Nat
         /\ Len(m.method) >= 3 /\ a.j \in 0..Len(m.method)
         /\ a.j = Len(m.method) => c = SPACE
         /\ a.j < Len(m.method) => c = m.method[a.j + 1]
                                   /\ c \notin {"/", SPACE, CR, LF}
<1>1. MethodWord(m.method)
  BY RequestWords
<1>2. PICK w : w = m.method
  OBVIOUS
<1>3. /\ w \in Seq(Char) /\ Len(w) \in Nat /\ Len(w) >= 3 /\ SPACE \in Char
      /\ \A i \in 1..Len(w) : w[i] \notin {"/", SPACE, CR, LF}
  BY <1>1, <1>2, Characters DEF MethodWord, Word, Blank, Marks
<1>4. Piece(m, a) = Append(w, SPACE) /\ a.j \in Nat
  BY <1>2 DEF Piece, Spots
<1>5. /\ Len(Append(w, SPACE)) = Len(w) + 1
      /\ Append(w, SPACE)[Len(w) + 1] = SPACE
      /\ \A i \in 1..Len(w) : Append(w, SPACE)[i] = w[i]
  BY <1>3
<1>6. a.j \in 0..Len(w)
  BY <1>3, <1>4, <1>5
<1>7. a.j = Len(w) => c = SPACE
  BY <1>4, <1>5
<1>8. ASSUME a.j < Len(w)
      PROVE  c = w[a.j + 1] /\ c \notin {"/", SPACE, CR, LF}
  <2>1. a.j + 1 \in 1..Len(w)
    BY <1>3, <1>6, <1>8
  <2> QED BY <1>3, <1>4, <1>5, <2>1
<1> QED BY <1>2, <1>3, <1>6, <1>7, <1>8

\* At least four characters were read when the method was.
LEMMA FourRead ==
  ASSUME NEW m \in Requests, NEW a \in Spots, NEW s, Len(s) \in Nat,
         TextPlace(m, a, s), a.part # "method"
  PROVE  Len(s) >= 4
<1>1. CASE a.part \notin HeadParts /\ BeforeHead(m, a, s)
  BY <1>1 DEF BeforeHead
<1>2. CASE \E e \in 1..Len(s) : e >= 4
  BY <1>2
<1> QED BY <1>1, <1>2 DEF TextPlace

\* One more character of a request, whatever the parameters.
LEMMA LineKnowsScan ==
  ASSUME NEW m \in Requests, NEW a \in Spots, LineSpot(m, a),
         a.j < Len(Piece(m, a)),
         NEW s, NEW c, NEW t, Longer(s, c, t), c = Piece(m, a)[a.j + 1],
         LineKnows(m, a, Scan(<<"line">>, SubSeq(s, 5, Len(s)))),
         TextPlace(m, a, s)
  PROVE  LineKnows(m, [a EXCEPT !.j = @ + 1],
                   Scan(<<"line">>, SubSeq(t, 5, Len(t))))
<1>1. PICK p, q : /\ p = Scan(<<"line">>, SubSeq(s, 5, Len(s)))
                  /\ q = Scan(<<"line">>, SubSeq(t, 5, Len(t)))
  OBVIOUS
<1>2. Len(s) \in Nat /\ LineKnows(m, a, p)
  BY <1>1 DEF Longer
<1>3. /\ Len(s) >= 4 => q = LineChar(p, c)
      /\ Len(s) < 4 => q = LineStart
  <2>1. \A x, d : Step(<<"line">>, x, d) = LineChar(x, d)
    BY DEF Step
  <2>2. Start(<<"line">>) = LineStart
    BY DEF Start
  <2> QED BY <1>1, <2>1, <2>2, FifthStep
<1>4. CASE a.part # "method"
  <2>1. q = LineChar(p, c)
    BY <1>2, <1>3, <1>4, FourRead
  <2>2. LineKnows(m, [a EXCEPT !.j = @ + 1], LineChar(p, c))
    BY <1>2, <1>4, LineKnowsArrives
  <2> QED BY <1>1, <2>1, <2>2
<1>5. CASE a.part = "method"
  <2>1. IsLine(p) /\ p.mode = "start" /\ p.loop = "runs" /\ p.key = <<>>
    BY <1>2, <1>5 DEF LineKnows
  <2>2. c = SPACE \/ c \notin {"/", SPACE, CR, LF}
    <3>1. /\ a.j \in 0..Len(m.method) /\ Len(m.method) \in Nat
          /\ (a.j = Len(m.method) => c = SPACE)
          /\ (a.j < Len(m.method) => c \notin {"/", SPACE, CR, LF})
      BY <1>5, MethodPiece
    <3>2. a.j = Len(m.method) \/ a.j < Len(m.method)
      BY ONLY <3>1
    <3> QED BY <3>1, <3>2
  <2>3. IsLine(q) /\ q.mode = "start" /\ q.loop = "runs" /\ q.key = <<>>
    <3>1. CASE Len(s) < 4
      <4>1. q = LineStart
        BY <1>3, <3>1
      <4> QED BY <4>1 DEF LineStart, L, IsLine
    <3>2. CASE Len(s) >= 4 /\ c = SPACE
      <4>1. q = p
        BY <1>3, <2>1, <3>2, Characters DEF LineChar
      <4> QED BY <2>1, <4>1
    <3>3. CASE Len(s) >= 4 /\ c \notin {"/", SPACE, CR, LF}
      BY <1>3, <2>1, <3>3, StartChar
    <3>4. Len(s) < 4 \/ Len(s) >= 4
      BY <1>2
    <3> QED BY <2>2, <3>1, <3>2, <3>3, <3>4
  <2>4. PICK b : b = [a EXCEPT !.j = @ + 1]
    OBVIOUS
  <2>5. b.part = "method"
    BY <1>5, <2>4 DEF Spots
  <2>6. LineKnows(m, b, q)
    BY <2>3, <2>5 DEF LineKnows, HeadParts
  <2> QED BY <1>1, <2>4, <2>6
<1> QED BY <1>4, <1>5

\* One more element of the second part.
LEMMA ConcatAppend ==
  ASSUME NEW S, NEW s \in Seq(S), NEW t \in Seq(S), NEW c \in S
  PROVE  s \o Append(t, c) = Append(s \o t, c)
<1>1. <<c>> \in Seq(S) /\ s \o t \in Seq(S)
  BY ConcatProperties
<1>2. Append(t, c) = t \o <<c>>
  BY AppendIsConcat
<1>3. Append(s \o t, c) = (s \o t) \o <<c>>
  BY <1>1, AppendIsConcat
<1>4. (s \o t) \o <<c>> = s \o (t \o <<c>>)
  BY <1>1, ConcatAssociative
<1> QED BY <1>2, <1>3, <1>4

\* The text for full_url: what is behind it does not change it, and one more
\* character makes it longer.
LEMMA FullOfStays ==
  ASSUME NEW m \in Requests, NEW s, NEW c, NEW t, Longer(s, c, t)
  PROVE  /\ \A n \in Int : n <= Len(s) => FullOf(m, t, n) = FullOf(m, s, n)
         /\ Len(s) >= Len(m.method) + 1 =>
              FullOf(m, t, Len(t)) = Append(FullOf(m, s, Len(s)), c)
<1>1. PICK w : w = m.method
  OBVIOUS
<1>2. w \in Seq(Char) /\ Len(w) \in Nat
  BY <1>1, RequestWords DEF MethodWord, Word
<1>3. PICK k : k = Len(w) + 2
  OBVIOUS
<1>4. k \in Nat /\ k > 0 /\ k = Len(w) + 2
  BY <1>2, <1>3
<1>5. PICK r : r = SubSeq(w, 5, Len(w))
  OBVIOUS
<1>6. r \in Seq(Char)
  BY <1>2, <1>5
<1>7. ASSUME NEW n \in Int, n <= Len(s) PROVE SubSeq(t, k, n) = SubSeq(s, k, n)
  BY ONLY <1>4, <1>7, Longer(s, c, t) DEF Longer
<1>8. ASSUME NEW n \in Int, n <= Len(s) PROVE FullOf(m, t, n) = FullOf(m, s, n)
  <2>1. SubSeq(t, k, n) = SubSeq(s, k, n)
    BY <1>7, <1>8
  <2> QED BY <1>1, <1>3, <2>1 DEF FullOf
<1>9. ASSUME Len(s) >= Len(m.method) + 1
      PROVE  FullOf(m, t, Len(t)) = Append(FullOf(m, s, Len(s)), c)
  <2>1. k <= Len(s) + 1
    <3>1. Len(s) \in Nat /\ Len(s) >= Len(w) + 1
      BY <1>1, <1>9 DEF Longer
    <3> QED BY ONLY <1>2, <1>4, <3>1
  <2>2. PICK u : u = SubSeq(s, k, Len(s))
    OBVIOUS
  <2>3. SubSeq(t, k, Len(t)) = Append(u, c)
    <3>1. /\ s \in Seq(Char) /\ c \in Char /\ t = Append(s, c)
          /\ Len(t) = Len(s) + 1
      BY DEF Longer
    <3>2. SubSeq(Append(s, c), k, Len(s) + 1) = Append(SubSeq(s, k, Len(s)), c)
      BY ONLY <1>4, <2>1, <3>1, TailStep
    <3> QED BY ONLY <2>2, <3>1, <3>2
  <2>4. u \in Seq(Char) /\ c \in Char
    BY ONLY <1>4, <2>2, Longer(s, c, t) DEF Longer
  <2>5. r \o Append(u, c) = Append(r \o u, c)
    BY <1>6, <2>4, ConcatAppend
  <2> QED BY <1>1, <1>3, <1>5, <2>2, <2>3, <2>5 DEF FullOf
<1> QED BY <1>8, <1>9

\* The method that was read stays.
LEMMA MethodReadStays ==
  ASSUME NEW m \in Requests, NEW s, NEW c, NEW t, Longer(s, c, t),
         MethodRead(m, s)
  PROVE  MethodRead(m, t)
<1>1. PICK n : n = Len(m.method)
  OBVIOUS
<1>2. n \in Nat
  BY <1>1, RequestWords DEF MethodWord, Word
<1>3. /\ Len(s) >= n + 1 /\ s[n + 1] = SPACE
      /\ \A x \in 1..n : s[x] = m.method[x]
  BY <1>1 DEF MethodRead
<1>4. /\ Len(s) \in Nat /\ Len(t) = Len(s) + 1
      /\ \A i \in 1..Len(s) : t[i] = s[i]
  BY DEF Longer
<1>5. n + 1 \in 1..Len(s) /\ \A x \in 1..n : x \in 1..Len(s)
  BY ONLY <1>2, <1>3, <1>4
<1>6. Len(t) >= n + 1
  BY ONLY <1>2, <1>3, <1>4
<1>7. t[n + 1] = SPACE /\ \A x \in 1..n : t[x] = m.method[x]
  BY <1>3, <1>4, <1>5
<1> QED BY <1>1, <1>6, <1>7 DEF MethodRead

\* One more character for the loop of full_url: of the method,
LEMMA FullMethodArrives ==
  ASSUME NEW m \in Requests, NEW a \in Spots, a.part = "method",
         a.j < Len(Piece(m, a)),
         NEW s, NEW c, NEW t, Longer(s, c, t), c = Piece(m, a)[a.j + 1],
         NEW p, FullPlace(m, a, s, p), NEW q,
         Len(s) >= 4 => q = FullChar(p, c), Len(s) < 4 => q = FullStart
  PROVE  FullPlace(m, [a EXCEPT !.j = @ + 1], t, q)
<1>1. PICK w, n, j : w = m.method /\ n = Len(w) /\ j = a.j
  OBVIOUS
<1>2. /\ w \in Seq(Char) /\ n \in Nat /\ n >= 3 /\ j \in 0..n
      /\ (j = n => c = SPACE)
      /\ (j < n => c = w[j + 1] /\ c \notin {"/", SPACE, CR, LF})
  BY <1>1, MethodPiece
<1>3. /\ p = [mode |-> p.mode, full |-> p.full] /\ p.mode = "start"
      /\ Len(s) = j /\ \A x \in 1..j : x <= n => s[x] = w[x]
      /\ p.full = SubSeq(w, 5, IF j <= n THEN j ELSE n)
  BY <1>1 DEF FullPlace
<1>4. /\ Len(t) = j + 1 /\ t[j + 1] = c
      /\ \A i \in 1..j : t[i] = s[i]
  BY <1>3 DEF Longer
<1>5. PICK b : b = [a EXCEPT !.j = @ + 1]
  OBVIOUS
<1>6. b.part = "method" /\ b.j = j + 1
  BY <1>1, <1>5 DEF Spots
<1>7. j + 1 <= n + 1 /\ (j + 1 = n + 1 => t[j + 1] = SPACE)
  BY ONLY <1>2, <1>4
<1>8. ASSUME NEW x \in 1..j + 1, x <= n PROVE t[x] = w[x]
  <2>1. CASE x \in 1..j
    BY <1>3, <1>4, <1>8, <2>1
  <2>2. CASE x = j + 1
    <3>1. j < n
      BY ONLY <1>2, <1>8, <2>2
    <3> QED BY <1>2, <1>4, <2>2, <3>1
  <2>3. x \in 1..j \/ x = j + 1
    BY ONLY <1>2, x \in 1..j + 1
  <2> QED BY <2>1, <2>2, <2>3
<1>9. /\ q = [mode |-> q.mode, full |-> q.full] /\ q.mode = "start"
      /\ q.full = SubSeq(w, 5, IF j + 1 <= n THEN j + 1 ELSE n)
  <2>1. CASE j < 4
    <3>1. q = FullStart
      BY <1>3, <2>1
    <3>2. PICK k : k = IF j + 1 <= n THEN j + 1 ELSE n
      OBVIOUS
    <3>3. k \in Nat /\ k < 5
      BY ONLY <1>2, <2>1, <3>2
    <3>4. SubSeq(w, 5, k) = <<>>
      BY ONLY <1>2, <3>3
    <3> QED BY <3>1, <3>2, <3>4 DEF FullStart
  <2>2. CASE j >= 4 /\ j = n
    <3>1. q = FullChar(p, c) /\ c = SPACE
      BY <1>2, <1>3, <2>2
    <3>2. q = p
      BY <1>3, <3>1, Characters DEF FullChar
    <3>3. (IF j <= n THEN j ELSE n) = n /\ (IF j + 1 <= n THEN j + 1 ELSE n) = n
      BY ONLY <1>2, <2>2
    <3> QED BY <1>3, <3>2, <3>3
  <2>3. CASE j >= 4 /\ j < n
    <3>1. q = FullChar(p, c) /\ c = w[j + 1] /\ c \notin {"/", SPACE, CR, LF}
      BY <1>2, <1>3, <2>3
    <3>2. q = [mode |-> "start", full |-> Append(p.full, c)]
      BY <1>3, <3>1 DEF FullChar
    <3>3. (IF j <= n THEN j ELSE n) = j
          /\ (IF j + 1 <= n THEN j + 1 ELSE n) = j + 1
      BY ONLY <1>2, <2>3
    <3>4. SubSeq(w, 5, j + 1) = Append(SubSeq(w, 5, j), w[j + 1])
      <4>1. PICK x \in Nat : x = 5
        OBVIOUS
      <4>2. x > 0 /\ x <= j + 1 /\ j \in Nat /\ j < Len(w)
        BY ONLY <1>1, <1>2, <2>3, <4>1
      <4>3. SubSeq(w, x, j + 1) = Append(SubSeq(w, x, j), w[j + 1])
        BY ONLY <1>2, <4>2, MiddleStep
      <4> QED BY ONLY <4>1, <4>3
    <3>5. p.full = SubSeq(w, 5, j) /\ q.mode = "start"
          /\ q.full = Append(p.full, c)
      BY <1>3, <3>2, <3>3
    <3>6. q.full = SubSeq(w, 5, j + 1)
      BY ONLY <3>1, <3>4, <3>5
    <3> QED BY <3>2, <3>3, <3>5, <3>6
  <2>4. j < 4 \/ (j >= 4 /\ j = n) \/ (j >= 4 /\ j < n)
    BY ONLY <1>2
  <2> QED BY <2>1, <2>2, <2>3, <2>4
<1>10. FullPlace(m, b, t, q)
  BY <1>1, <1>4, <1>6, <1>7, <1>8, <1>9 DEF FullPlace, HeadParts
<1> QED BY <1>5, <1>10

\* What a character does to the loop of full_url.
LEMMA FullCharOf ==
  ASSUME NEW p, p = [mode |-> p.mode, full |-> p.full], NEW c, NEW q,
         q = FullChar(p, c)
  PROVE  /\ p.mode = "left" => q = p
         /\ p.mode = "url" /\ c = SPACE => q = [mode |-> "left", full |-> p.full]
         /\ p.mode = "url" /\ c \notin {SPACE, CR, LF} =>
              q = [mode |-> "url", full |-> Append(p.full, c)]
         /\ p.mode = "start" /\ c = "/" =>
              q = [mode |-> "url", full |-> Append(p.full, c)]
<1>1. p.mode = "left" => q = p
  BY DEF FullChar
<1>2. ASSUME p.mode = "url", c = SPACE
      PROVE  q = [mode |-> "left", full |-> p.full]
  <2>1. q = [p EXCEPT !.mode = "left"]
    BY <1>2, Characters DEF FullChar
  <2> QED BY <2>1
<1>3. ASSUME p.mode = "url", c \notin {SPACE, CR, LF}
      PROVE  q = [mode |-> "url", full |-> Append(p.full, c)]
  BY <1>3 DEF FullChar
<1>4. ASSUME p.mode = "start", c = "/"
      PROVE  q = [mode |-> "url", full |-> Append(p.full, c)]
  BY <1>4, Characters DEF FullChar
<1> QED BY <1>1, <1>2, <1>3, <1>4

\* and of what follows it.
LEMMA FullArrives ==
  ASSUME NEW m \in Requests, NEW a \in Spots, LineSpot(m, a),
         a.part # "method", a.j < Len(Piece(m, a)),
         NEW s, NEW c, NEW t, Longer(s, c, t), c = Piece(m, a)[a.j + 1],
         NEW p, FullPlace(m, a, s, p), NEW q, q = FullChar(p, c)
  PROVE  FullPlace(m, [a EXCEPT !.j = @ + 1], t, q)
<1>1. PICK b : b = [a EXCEPT !.j = @ + 1]
  OBVIOUS
<1>2. /\ b.part = a.part /\ b.i = a.i /\ b.j = a.j + 1 /\ b.j > 0
      /\ a.j \in Nat /\ a.i \in Nat
  BY <1>1 DEF Spots
<1>3. p = [mode |-> p.mode, full |-> p.full] /\ MethodRead(m, s)
  BY DEF FullPlace
<1>4. /\ p.mode = "left" => q = p
      /\ p.mode = "url" /\ c = SPACE => q = [mode |-> "left", full |-> p.full]
      /\ p.mode = "url" /\ c \notin {SPACE, CR, LF} =>
           q = [mode |-> "url", full |-> Append(p.full, c)]
      /\ p.mode = "start" /\ c = "/" =>
           q = [mode |-> "url", full |-> Append(p.full, c)]
  BY <1>3, FullCharOf
<1>5. MethodRead(m, t)
  BY <1>3, MethodReadStays
<1>6. /\ \A n \in Int : n <= Len(s) => FullOf(m, t, n) = FullOf(m, s, n)
      /\ FullOf(m, t, Len(t)) = Append(FullOf(m, s, Len(s)), c)
  <2>1. Len(s) >= Len(m.method) + 1
    BY <1>3 DEF MethodRead
  <2> QED BY <2>1, FullOfStays
<1>7. Len(s) \in Nat /\ Len(t) = Len(s) + 1
  BY DEF Longer
<1> SUFFICES FullPlace(m, b, t, q)
  BY <1>1
<1>8. CASE a.part \in {"url", "mark", "key", "equals", "value"}
  <2>1. c \notin {SPACE, CR, LF} /\ (a.part = "url" /\ a.j = 0 => c = "/")
    BY <1>8, PieceChar
  <2>2. /\ p.full = FullOf(m, s, Len(s))
        /\ \/ p.mode = "url"
           \/ p.mode = "start" /\ c = "/"
    <3>1. CASE a.part = "url" /\ a.j = 0
      BY <2>1, <3>1 DEF FullPlace
    <3>2. CASE ~(a.part = "url" /\ a.j = 0)
      <4>1. \/ a.part = "url" /\ a.j > 0
            \/ a.part \in {"mark", "key", "equals", "value"}
        BY <1>2, <1>8, <3>2
      <4> QED BY <4>1 DEF FullPlace
    <3> QED BY <3>1, <3>2
  <2>3. q = [mode |-> "url", full |-> Append(p.full, c)]
    BY <1>4, <2>1, <2>2
  <2>4. q.mode = "url" /\ q.full = FullOf(m, t, Len(t))
        /\ q = [mode |-> q.mode, full |-> q.full]
    BY <1>6, <2>2, <2>3
  <2> QED BY <1>2, <1>5, <1>8, <2>4 DEF FullPlace, HeadParts
<1>9. CASE a.part = "version" /\ a.j = 0
  <2>1. Piece(m, a) = <<SPACE, "H", CR, LF>>
    BY <1>9 DEF Piece
  <2>2. c = SPACE
    BY <1>9, <2>1
  <2>3. p.mode = "url" /\ p.full = FullOf(m, s, Len(s))
    BY <1>9 DEF FullPlace
  <2>4. q.mode = "left" /\ q.full = FullOf(m, s, Len(s))
        /\ q = [mode |-> q.mode, full |-> q.full]
    BY <1>4, <2>2, <2>3
  <2>5. Len(t) - b.j = Len(s) /\ Len(s) \in Int /\ Len(s) <= Len(s)
    BY ONLY <1>2, <1>7, <1>9
  <2>6. FullOf(m, t, Len(t) - b.j) = FullOf(m, s, Len(s))
    BY <1>6, <2>5
  <2>7. Len(t) - b.j \in Nat
    BY ONLY <1>7, <2>5
  <2> QED BY <1>2, <1>5, <1>9, <2>4, <2>6, <2>7 DEF FullPlace, HeadParts
<1>10. CASE a.part = "version" /\ a.j > 0
  <2>1. /\ p.mode = "left" /\ p.full = FullOf(m, s, Len(s) - a.j)
        /\ Len(s) - a.j \in Nat
    BY <1>10 DEF FullPlace
  <2>2. q = p
    BY <1>4, <2>1
  <2>3. Len(t) - b.j = Len(s) - a.j /\ Len(s) - a.j \in Int
        /\ Len(s) - a.j <= Len(s)
    BY ONLY <1>2, <1>7
  <2>4. FullOf(m, t, Len(t) - b.j) = FullOf(m, s, Len(s) - a.j)
    BY <1>6, <2>3
  <2> QED BY <1>2, <1>3, <1>5, <1>10, <2>1, <2>2, <2>3, <2>4
       DEF FullPlace, HeadParts
<1>11. CASE a.part \in HeadParts
  <2>1. p.mode = "left" /\ \E e \in 1..Len(s) :
          FirstLineEnd(s, e) /\ p.full = FullOf(m, s, e - 3)
    BY <1>11 DEF FullPlace
  <2>2. PICK e \in 1..Len(s) :
          FirstLineEnd(s, e) /\ p.full = FullOf(m, s, e - 3)
    BY <2>1
  <2>3. q = p
    BY <1>4, <2>1
  <2>4. FirstLineEnd(t, e)
    BY <2>2, FirstLineEndStays
  <2>5. e \in 1..Len(t) /\ e - 3 \in Int /\ e - 3 <= Len(s)
    BY ONLY <1>7, e \in 1..Len(s)
  <2>6. p.full = FullOf(m, t, e - 3)
    BY <1>6, <2>2, <2>5
  <2> QED BY <1>2, <1>3, <1>5, <1>11, <2>1, <2>3, <2>4, <2>5, <2>6
       DEF FullPlace, HeadParts
<1>12. a.part = "version" => a.j = 0 \/ a.j > 0
  BY ONLY <1>2
<1> QED BY <1>8, <1>9, <1>10, <1>11, <1>12 DEF LineSpot

\* One more character of a request, for full_url.
LEMMA FullScan ==
  ASSUME NEW m \in Requests, NEW a \in Spots, LineSpot(m, a),
         a.j < Len(Piece(m, a)),
         NEW s, NEW c, NEW t, Longer(s, c, t), c = Piece(m, a)[a.j + 1],
         FullPlace(m, a, s, Scan(<<"full">>, SubSeq(s, 5, Len(s)))),
         TextPlace(m, a, s)
  PROVE  FullPlace(m, [a EXCEPT !.j = @ + 1], t,
                   Scan(<<"full">>, SubSeq(t, 5, Len(t))))
<1>1. PICK p, q : /\ p = Scan(<<"full">>, SubSeq(s, 5, Len(s)))
                  /\ q = Scan(<<"full">>, SubSeq(t, 5, Len(t)))
  OBVIOUS
<1>2. Len(s) \in Nat /\ FullPlace(m, a, s, p)
  BY <1>1 DEF Longer
<1>3. /\ Len(s) >= 4 => q = FullChar(p, c)
      /\ Len(s) < 4 => q = FullStart
  <2>1. \A x, d : Step(<<"full">>, x, d) = FullChar(x, d)
    BY DEF Step
  <2>2. Start(<<"full">>) = FullStart
    BY DEF Start
  <2> QED BY <1>1, <2>1, <2>2, FifthStep
<1>4. CASE a.part # "method"
  <2>1. q = FullChar(p, c)
    BY <1>2, <1>3, <1>4, FourRead
  <2> QED BY <1>1, <1>2, <1>4, <2>1, FullArrives
<1>5. CASE a.part = "method"
  BY <1>1, <1>2, <1>3, <1>5, FullMethodArrives
<1> QED BY <1>4, <1>5

\* The next part, for full_url.
LEMMA FullTurns ==
  ASSUME NEW m \in Requests, NEW a \in Spots, LineSpot(m, a),
         NEW s \in Seq(Char), TextPlace(m, a, s),
         NEW p, FullPlace(m, a, s, p),
         a.j = Len(Piece(m, a)), a.part # "done"
  PROVE  FullPlace(m, Following(m, a), s, p)
<1>0. /\ a.i \in Nat /\ a.j \in Nat /\ a.j = Len(Piece(m, a))
      /\ p = [mode |-> p.mode, full |-> p.full] /\ Len(s) \in Nat
  BY DEF Spots, FullPlace
<1>1. UrlWord(m.url) /\ MethodWord(m.method)
  BY RequestWords
<1>2. PICK b : b = Following(m, a)
  OBVIOUS
<1>3. FullPlace(m, a, s, p)
  OBVIOUS
<1> SUFFICES FullPlace(m, b, s, p)
  BY <1>2
<1>4. CASE a.part = "method"
  <2>1. PICK w, n : w = m.method /\ n = Len(w)
    OBVIOUS
  <2>2. w \in Seq(Char) /\ n \in Nat
    BY <1>1, <2>1 DEF MethodWord, Word
  <2>3. Piece(m, a) = Append(w, SPACE) /\ SPACE \in Char
    <3>1. Piece(m, a) = Append(w, SPACE)
      BY <1>4, <2>1 DEF Piece
    <3> QED BY <3>1 DEF Char, Marks
  <2>4. a.j = n + 1
    BY ONLY <1>0, <2>1, <2>2, <2>3
  <2>5. b.part = "url" /\ b.j = 0
    <3>1. b = To("url", 0)
      BY <1>2, <1>4 DEF Following
    <3> QED BY <3>1, ToSpot DEF Parts
  <2>6. /\ Len(s) = a.j /\ p.mode = "start"
        /\ \A x \in 1..a.j : x <= n => s[x] = w[x]
        /\ (a.j = n + 1 => s[a.j] = SPACE)
        /\ p.full = SubSeq(w, 5, IF a.j <= n THEN a.j ELSE n)
    BY <1>4, <2>1 DEF FullPlace
  <2>7. /\ Len(s) = n + 1 /\ s[n + 1] = SPACE /\ Len(s) >= n + 1
        /\ (IF a.j <= n THEN a.j ELSE n) = n
        /\ \A x \in 1..n : x \in 1..a.j /\ x <= n
    BY ONLY <2>2, <2>4, <2>6
  <2>8. MethodRead(m, s)
    BY <2>1, <2>6, <2>7 DEF MethodRead
  <2>9. p.full = FullOf(m, s, Len(s))
    <3>1. SubSeq(s, n + 2, n + 1) = <<>>
      BY <2>2
    <3>2. SubSeq(w, 5, n) \in Seq(Char)
      BY <2>1, <2>2
    <3>3. SubSeq(w, 5, n) \o <<>> = SubSeq(w, 5, n)
      BY <3>2, ConcatEmptySeq
    <3> QED BY <2>1, <2>6, <2>7, <3>1, <3>3 DEF FullOf
  <2> QED BY <1>0, <2>5, <2>6, <2>8, <2>9 DEF FullPlace, HeadParts
<1>5. CASE a.part \in {"url", "mark", "key", "equals", "value"}
  <2>1. a.part = "url" => a.j > 0
    <3> SUFFICES ASSUME a.part = "url" PROVE a.j > 0
      OBVIOUS
    <3>1. Piece(m, a) = m.url
      BY DEF Piece
    <3> QED BY <1>0, <1>1, <3>1 DEF UrlWord, Word
  <2>2. p.mode = "url" /\ p.full = FullOf(m, s, Len(s)) /\ MethodRead(m, s)
    BY ONLY <1>3, <1>5, <2>1 DEF FullPlace
  <2>3. b \in {To("key", a.i), To("equals", a.i), To("value", a.i),
               To("mark", a.i + 1), To("mark", 1),
               To("version", 0), To("version", a.i)}
    BY <1>2, <1>5 DEF Following
  <2>4. b.j = 0 /\ b.part \in {"key", "equals", "value", "mark", "version"}
    <3>1. PICK part \in {"key", "equals", "value", "mark", "version"},
               i \in Nat : b = To(part, i)
      BY ONLY <1>0, <2>3
    <3>2. part \in Parts
      BY DEF Parts
    <3> QED BY <3>1, <3>2, ToSpot
  <2> QED BY <1>0, <2>2, <2>4 DEF FullPlace, HeadParts
<1>6. CASE a.part = "version" \/ a.part \in HeadParts
  <2>1. /\ p.mode = "left" /\ MethodRead(m, s)
        /\ \E e \in 1..Len(s) :
             FirstLineEnd(s, e) /\ p.full = FullOf(m, s, e - 3)
    <3>1. CASE a.part \in HeadParts
      BY ONLY <1>3, <3>1 DEF FullPlace, HeadParts
    <3>2. CASE a.part = "version"
      <4>1. Len(Piece(m, a)) = 4
        BY <3>2 DEF Piece
      <4>2. a.j = 4 /\ ~(a.j < 4) /\ a.j > 0
        BY ONLY <1>0, <4>1
      <4>3. ~BeforeHead(m, a, s) /\ a.part \notin HeadParts
        BY <3>2, <4>2 DEF BeforeHead, HeadParts
      <4>4. PICK e \in 1..Len(s) : FirstLineEnd(s, e) /\ HeadPlace(m, a, s, e)
        BY <4>3 DEF TextPlace
      <4>5. Len(s) = e + 1
        BY <3>2, <4>4 DEF HeadPlace
      <4>6. Len(s) - a.j = e - 3
        BY ONLY <1>0, <4>2, <4>5, e \in 1..Len(s)
      <4>7. p.mode = "left" /\ p.full = FullOf(m, s, Len(s) - a.j)
            /\ MethodRead(m, s)
        BY ONLY <1>3, <3>2, <4>2 DEF FullPlace
      <4> QED BY <4>4, <4>6, <4>7
    <3> QED BY <1>6, <3>1, <3>2
  <2>2. b.part \in HeadParts
    <3>1. b \in {To("colon", a.i), To("field", a.i), To("crlf", a.i),
                 To("name", a.i + 1), To("name", 1), To("blank", 0),
                 To("blank", a.i), To("body", 0), To("done", 0)}
      BY <1>2, <1>6 DEF Following, HeadParts
    <3> QED BY <1>0, <3>1, ToSpot DEF Parts, HeadParts
  <2> QED BY <1>0, <2>1, <2>2 DEF FullPlace, HeadParts
<1> QED BY <1>4, <1>5, <1>6 DEF LineSpot

\* The method that is found is the one that was sent.
LEMMA MethodIs ==
  ASSUME NEW m \in Requests, NEW s \in Seq(Char), MethodRead(m, s)
  PROVE  Method(s) = m.method
<1>1. PICK w, n : w = m.method /\ n = Len(w)
  OBVIOUS
<1>2. /\ w \in Seq(Char) /\ n \in Nat
      /\ \A x \in 1..n : w[x] \notin Blank
  BY <1>1, RequestWords DEF MethodWord, Word
<1>3. /\ Len(s) >= n + 1 /\ s[n + 1] = SPACE /\ Len(s) \in Nat
      /\ \A x \in 1..n : s[x] = w[x]
  BY <1>1 DEF MethodRead
<1>4. PICK T : T = {x \in DOMAIN s : s[x] \in Blank} \cup {Len(s) + 1}
  OBVIOUS
<1>5. n + 1 \in DOMAIN s
  BY <1>2, <1>3
<1>6. n + 1 \in T
  BY <1>3, <1>4, <1>5 DEF Blank
<1>7. ASSUME NEW x \in T PROVE n + 1 <= x
  <2>1. CASE x = Len(s) + 1
    BY ONLY <1>2, <1>3, <2>1
  <2>2. CASE x \in 1..Len(s) /\ s[x] \in Blank
    <3>1. x \notin 1..n
      BY <1>2, <1>3, <2>2
    <3> QED BY ONLY <1>2, <1>3, <2>2, <3>1
  <2>3. DOMAIN s = 1..Len(s)
    OBVIOUS
  <2> QED BY <1>4, <2>1, <2>2, <2>3
<1>8. T \subseteq Nat
  <2>1. DOMAIN s = 1..Len(s)
    OBVIOUS
  <2> QED BY ONLY <1>3, <1>4, <2>1
<1>9. Min(T) = n + 1
  <2>1. T # {} /\ T \in SUBSET Nat
    BY <1>6, <1>8
  <2>2. PICK k : k = Min(T)
    OBVIOUS
  <2>3. k \in T /\ k <= n + 1
    BY <1>6, <2>1, <2>2, MinIsLeast
  <2>4. k \in Nat /\ n + 1 <= k
    BY <1>7, <1>8, <2>3
  <2>5. k = n + 1
    BY ONLY <1>2, <2>3, <2>4
  <2> QED BY ONLY <2>2, <2>5
<1>10. PICK k : k = Min(T)
  OBVIOUS
<1>11. k - 1 = n
  BY ONLY <1>2, <1>9, <1>10
<1>13. Method(s) = SubSeq(s, 1, k - 1)
  BY ONLY <1>4, <1>10 DEF Method
<1>12. SubSeq(s, 1, n) = w
  <2>1. n \in 0..Len(s)
    BY ONLY <1>2, <1>3
  <2>2. /\ SubSeq(s, 1, n) \in Seq(Char) /\ Len(SubSeq(s, 1, n)) = n
        /\ \A x \in 1..n : SubSeq(s, 1, n)[x] = s[x]
    BY <2>1
  <2>3. \A x \in 1..n : SubSeq(s, 1, n)[x] = w[x]
    BY <1>3, <2>2
  <2> QED BY <1>1, <1>2, <2>2, <2>3, SeqEqual
<1> QED BY <1>1, <1>11, <1>12, <1>13

\* The headers that were read: from the same place to the same place, and one
\* character further.
LEMMA HeadSame ==
  ASSUME NEW s, NEW c, NEW t, Longer(s, c, t), NEW x \in Nat, NEW y \in Int,
         x > 0, y <= Len(s)
  PROVE  H(t, x, y) = H(s, x, y)
<1>1. SubSeq(t, x, y) = SubSeq(s, x, y)
  BY DEF Longer
<1> QED BY <1>1 DEF H

\* The headers that were read, one character further.
LEMMA HeadStep ==
  ASSUME NEW s, NEW c, NEW t, Longer(s, c, t), NEW x \in Nat,
         x > 0, x <= Len(s) + 1
  PROVE  H(t, x, Len(t)) = HeadChar(H(s, x, Len(s)), c)
<1>1. SubSeq(t, x, Len(t)) = Append(SubSeq(s, x, Len(s)), c)
  BY DEF Longer
<1>2. PICK u : u = SubSeq(s, x, Len(s))
  OBVIOUS
<1>3. Scan(<<"head">>, Append(u, c)) = Step(<<"head">>, Scan(<<"head">>, u), c)
  <2>1. u \in Seq(Char) /\ c \in Char
    BY <1>2 DEF Longer
  <2> QED BY <2>1, ScanAppend
<1>4. \A p, d : Step(<<"head">>, p, d) = HeadChar(p, d)
  BY DEF Step
<1> QED BY <1>1, <1>2, <1>3, <1>4 DEF H

\* One more header.
LEMMA FieldsStep ==
  ASSUME NEW m, NEW n \in Nat, n > 0
  PROVE  Fields(m, n) = Fields(m, n - 1) \cup
           {<<LowerCase(m.heads[n][1]), trim_whitespace(m.heads[n][2])>>}
<1>1. 1..n = 1..(n - 1) \cup {n}
  OBVIOUS
<1> QED BY <1>1 DEF Fields

\* Whether a header of the first n is empty.
LEMMA UnspoiltStep ==
  ASSUME NEW m, NEW n \in Nat, n > 0
  PROVE  Unspoilt(m, n) <=> Unspoilt(m, n - 1) /\ m.heads[n][2] # <<>>
<1>1. 1..n = 1..(n - 1) \cup {n}
  OBVIOUS
<1> QED BY <1>1 DEF Unspoilt

\* A request that is spoilt stays so.
LEMMA HeadStateStep ==
  ASSUME NEW m, NEW n, NEW h, NEW q, HeadState(m, n, h, q), NEW c
  PROVE  HeadState(m, n, HeadChar(h, c), HeadChar(q, c))
<1>1. CASE Unspoilt(m, n)
  BY <1>1 DEF HeadState
<1>2. CASE ~Unspoilt(m, n)
  <2>1. h.mode = "error"
    BY <1>2 DEF HeadState
  <2>2. HeadChar(h, c) = h
    BY <2>1 DEF HeadChar
  <2> QED BY <1>2, <2>1, <2>2 DEF HeadState
<1> QED BY <1>1, <1>2

\* What follows the blank line does not change the headers.
LEMMA HeadDoneStays ==
  ASSUME NEW s, NEW c, NEW t, Longer(s, c, t), NEW m, NEW e \in Nat,
         NEW b \in Int, b <= Len(s), HeadDone(m, s, e, b)
  PROVE  HeadDone(m, t, e, b)
<1>1. e + 2 \in Nat /\ e + 2 > 0 /\ b - 1 \in Int /\ b - 1 <= Len(s)
  BY DEF Longer
<1>2. H(t, e + 2, b - 1) = H(s, e + 2, b - 1)
  BY <1>1, HeadSame
<1> QED BY <1>2 DEF HeadDone

\* A character of the name of a header.
LEMMA HeadKeyChar ==
  ASSUME NEW c, c \notin {":", SPACE, CR, LF}, NEW k, NEW f, NEW p,
         p = J("key", k, <<>>, f)
  PROVE  HeadChar(p, c) = J("key", Append(k, c), <<>>, f)
BY DEF HeadChar, J

\* A character of the value of a header.
LEMMA HeadValueChar ==
  ASSUME NEW c, c \notin {CR, LF}, NEW k, NEW v, NEW f, NEW p,
         p = J("value", k, v, f)
  PROVE  HeadChar(p, c) = J("value", k, Append(v, c), f)
BY DEF HeadChar, J

\* A character after the request line.
LEMMA HeadArrives ==
  ASSUME NEW m \in Requests, NEW a \in Spots, a.j < Len(Piece(m, a)),
         NEW s, NEW c, NEW t, Longer(s, c, t), c = Piece(m, a)[a.j + 1],
         NEW e, FirstLineEnd(s, e), HeadPlace(m, a, s, e)
  PROVE  HeadPlace(m, [a EXCEPT !.j = @ + 1], t, e)
<1>0. /\ a.i \in Nat /\ a.j \in Nat /\ a.j < Len(Piece(m, a))
      /\ c = Piece(m, a)[a.j + 1]
  BY DEF Spots
<1>1. /\ m.heads \in Seq(Heads) /\ Len(m.heads) \in Nat
      /\ \A i \in 1..Len(m.heads) : NameWord(m.heads[i][1])
                                    /\ FieldWord(m.heads[i][2])
      /\ m.body \in Seq(Char) /\ Len(m.body) \in Nat
  BY RequestWords
<1>2. PICK b : b = [a EXCEPT !.j = @ + 1]
  OBVIOUS
<1>3. b.part = a.part /\ b.i = a.i /\ b.j = a.j + 1
  BY <1>2 DEF Spots
<1>4. /\ Len(s) \in Nat /\ Len(t) = Len(s) + 1 /\ t[Len(t)] = c
      /\ \A i \in 1..Len(s) : t[i] = s[i]
  BY DEF Longer
<1>5. e \in Nat /\ e > 0 /\ e + 2 \in Nat /\ e + 2 > 0 /\ e + 2 <= Len(s) + 1
  BY <1>4 DEF FirstLineEnd, LineEnd
<1>6. H(t, e + 2, Len(t)) = HeadChar(H(s, e + 2, Len(s)), c)
  BY <1>5, HeadStep
<1>7. ASSUME c # LF, NoBlankLine(s) PROVE NoBlankLine(t)
  BY <1>7, NoBlankLineStays
<1> SUFFICES HeadPlace(m, b, t, e)
  BY <1>2
<1>8. CASE a.part = "version"
  <2>1. Piece(m, a) = <<SPACE, "H", CR, LF>>
    BY <1>8 DEF Piece
  <2>2. a.j = 4
    BY <1>8 DEF HeadPlace
  <2> QED BY <2>1, <2>2
<1>9. CASE a.part = "name"
  <2>1. Piece(m, a) = m.heads[a.i][1]
    BY <1>9 DEF Piece
  <2>2. /\ a.i \in 1..Len(m.heads) /\ NoBlankLine(s)
        /\ HeadState(m, a.i - 1, H(s, e + 2, Len(s)),
                     J("key", SubSeq(m.heads[a.i][1], 1, a.j), <<>>,
                       Fields(m, a.i - 1)))
    BY <1>9 DEF HeadPlace
  <2>3. PICK w : w = m.heads[a.i][1]
    OBVIOUS
  <2>4. NameWord(w)
    BY <1>1, <2>2, <2>3
  <2>5. w \in Seq(Char) /\ Len(w) \in Nat
    BY <2>4 DEF NameWord, Word
  <2>6. a.j \in 0..Len(w) - 1 /\ a.j + 1 \in 1..Len(w) /\ c = w[a.j + 1]
    <3>1. Piece(m, a) = w
      BY ONLY <2>1, <2>3
    <3>2. a.j \in Nat /\ a.j < Len(w) /\ c = w[a.j + 1]
      BY ONLY <1>0, <3>1
    <3> QED BY ONLY <2>5, <3>2, NextIndex
  <2>7. c \notin {":", SPACE, CR, LF}
    BY <2>4, <2>6 DEF NameWord, Word
  <2>8. SubSeq(w, 1, a.j + 1) = Append(SubSeq(w, 1, a.j), c)
    BY <2>5, <2>6, PrefixStep
  <2>9. HeadState(m, a.i - 1, H(t, e + 2, Len(t)),
          J("key", SubSeq(w, 1, a.j + 1), <<>>, Fields(m, a.i - 1)))
    <3>1. PICK k, f, p, q :
            /\ k = SubSeq(w, 1, a.j) /\ f = Fields(m, a.i - 1)
            /\ p = H(s, e + 2, Len(s)) /\ q = J("key", k, <<>>, f)
      OBVIOUS
    <3>2. HeadState(m, a.i - 1, p, q)
      BY <2>2, <2>3, <3>1
    <3>3. HeadState(m, a.i - 1, HeadChar(p, c), HeadChar(q, c))
      BY <3>2, HeadStateStep
    <3>4. HeadChar(q, c) = J("key", Append(k, c), <<>>, f)
      BY <2>7, <3>1, HeadKeyChar
    <3> QED BY <1>6, <2>8, <3>1, <3>3, <3>4
  <2>10. b.j \in 0..Len(w) /\ NoBlankLine(t)
    <3>1. b.j \in 0..Len(w)
      BY ONLY <1>3, <2>5, <2>6
    <3>2. NoBlankLine(t)
      BY <1>7, <2>2, <2>7
    <3> QED BY <3>1, <3>2
  <2> QED BY <1>3, <1>9, <2>2, <2>3, <2>9, <2>10 DEF HeadPlace
<1>10. CASE a.part = "colon"
  <2>1. Piece(m, a) = <<":">>
    BY <1>10 DEF Piece
  <2>2. a.j = 0 /\ c = ":"
    BY <1>0, <2>1
  <2>3. /\ a.i \in 1..Len(m.heads) /\ NoBlankLine(s)
        /\ HeadState(m, a.i - 1, H(s, e + 2, Len(s)),
                     J("key", m.heads[a.i][1], <<>>, Fields(m, a.i - 1)))
    BY <1>10, <2>2 DEF HeadPlace
  <2>4. HeadState(m, a.i - 1, H(t, e + 2, Len(t)),
          J("value", m.heads[a.i][1], <<>>, Fields(m, a.i - 1)))
    <3>1. PICK k, f, p, q :
            /\ k = m.heads[a.i][1] /\ f = Fields(m, a.i - 1)
            /\ p = H(s, e + 2, Len(s)) /\ q = J("key", k, <<>>, f)
      OBVIOUS
    <3>2. HeadState(m, a.i - 1, HeadChar(p, c), HeadChar(q, c))
      BY <2>3, <3>1, HeadStateStep
    <3>3. HeadChar(q, c) = J("value", k, <<>>, f)
      BY <2>2, <3>1, Characters DEF HeadChar, J
    <3> QED BY <1>6, <3>1, <3>2, <3>3
  <2>6. b.j = 1 /\ t[Len(t)] = ":"
    BY <1>3, <1>4, <2>2
  <2>5. NoBlankLine(t)
    BY <1>7, <2>2, <2>3, Characters
  <2> QED BY <1>3, <1>10, <2>3, <2>4, <2>5, <2>6 DEF HeadPlace
<1>11. CASE a.part = "field"
  <2>1. Piece(m, a) = m.heads[a.i][2]
    BY <1>11 DEF Piece
  <2>2. /\ a.i \in 1..Len(m.heads) /\ NoBlankLine(s)
        /\ HeadState(m, a.i - 1, H(s, e + 2, Len(s)),
                     J("value", m.heads[a.i][1],
                       SubSeq(m.heads[a.i][2], 1, a.j), Fields(m, a.i - 1)))
    BY <1>11 DEF HeadPlace
  <2>3. PICK w : w = m.heads[a.i][2]
    OBVIOUS
  <2>4. FieldWord(w)
    BY <1>1, <2>2, <2>3
  <2>5. w \in Seq(Char) /\ Len(w) \in Nat
    BY <2>4 DEF FieldWord, Word
  <2>6. a.j \in 0..Len(w) - 1 /\ a.j + 1 \in 1..Len(w) /\ c = w[a.j + 1]
    <3>1. Piece(m, a) = w
      BY ONLY <2>1, <2>3
    <3>2. a.j \in Nat /\ a.j < Len(w) /\ c = w[a.j + 1]
      BY ONLY <1>0, <3>1
    <3> QED BY ONLY <2>5, <3>2, NextIndex
  <2>7. c \notin {CR, LF}
    BY <2>4, <2>6 DEF FieldWord, Word
  <2>8. SubSeq(w, 1, a.j + 1) = Append(SubSeq(w, 1, a.j), c)
    BY <2>5, <2>6, PrefixStep
  <2>9. HeadState(m, a.i - 1, H(t, e + 2, Len(t)),
          J("value", m.heads[a.i][1], SubSeq(w, 1, a.j + 1),
            Fields(m, a.i - 1)))
    <3>1. PICK k, v, f, p, q :
            /\ k = m.heads[a.i][1] /\ v = SubSeq(w, 1, a.j)
            /\ f = Fields(m, a.i - 1)
            /\ p = H(s, e + 2, Len(s)) /\ q = J("value", k, v, f)
      OBVIOUS
    <3>2. HeadState(m, a.i - 1, p, q)
      BY <2>2, <2>3, <3>1
    <3>3. HeadState(m, a.i - 1, HeadChar(p, c), HeadChar(q, c))
      BY <3>2, HeadStateStep
    <3>4. HeadChar(q, c) = J("value", k, Append(v, c), f)
      BY <2>7, <3>1, HeadValueChar
    <3> QED BY <1>6, <2>8, <3>1, <3>3, <3>4
  <2>10. b.j \in 0..Len(w) /\ NoBlankLine(t)
    <3>1. b.j \in 0..Len(w)
      BY ONLY <1>3, <2>5, <2>6
    <3>2. NoBlankLine(t)
      BY <1>7, <2>2, <2>7
    <3> QED BY <3>1, <3>2
  <2>11. t[Len(t)] = w[b.j] /\ b.j # 0
    BY <1>3, <1>4, <2>6
  <2> QED BY <1>3, <1>11, <2>2, <2>3, <2>9, <2>10, <2>11 DEF HeadPlace
<1>12. CASE a.part = "crlf"
  <2>1. Piece(m, a) = <<CR, LF>>
    BY <1>12 DEF Piece, CRLF
  <2>2. a.j \in {0, 1}
    BY <1>0, <2>1
  <2>3. /\ a.i \in 1..Len(m.heads) /\ NoBlankLine(s)
        /\ Len(s) - a.j > e + 1
        /\ s[Len(s) - a.j] # LF
        /\ (a.j > 0 => s[Len(s) - a.j + 1] = CR)
        /\ HeadState(m, a.i - 1, H(s, e + 2, Len(s) - a.j),
                     J("value", m.heads[a.i][1], m.heads[a.i][2],
                       Fields(m, a.i - 1)))
        /\ (a.j > 0 => HeadState(m, a.i, H(s, e + 2, Len(s)),
              J(IF a.j = 1 THEN "cr" ELSE "key", <<>>, <<>>, Fields(m, a.i))))
    BY <1>12 DEF HeadPlace
  <2>4. PICK n : n = Len(s) - a.j
    OBVIOUS
  <2>5. n \in 1..Len(s) /\ n <= Len(s) /\ n \in Int /\ n = Len(t) - b.j
        /\ n > e + 1
    <3>1. a.j \in Nat /\ Len(s) - a.j > e + 1 /\ b.j = a.j + 1
      BY <1>0, <1>3, <2>3
    <3>2. PICK x, y : x = a.j /\ y = Len(s)
      OBVIOUS
    <3>3. /\ x \in Nat /\ y \in Nat /\ n = y - x /\ y - x > e + 1
          /\ b.j = x + 1 /\ Len(t) = y + 1
      BY ONLY <1>4, <2>4, <3>1, <3>2
    <3>4. n \in 1..y /\ n <= y /\ n \in Int /\ n > e + 1
      BY ONLY <1>5, <3>3
    <3>5. n = Len(t) - b.j
      BY ONLY <3>3
    <3> QED BY ONLY <3>2, <3>4, <3>5
  <2>6. t[n] # LF /\ HeadState(m, a.i - 1, H(t, e + 2, n),
                               J("value", m.heads[a.i][1], m.heads[a.i][2],
                                 Fields(m, a.i - 1)))
    <3>1. H(t, e + 2, n) = H(s, e + 2, n)
      BY <1>5, <2>5, HeadSame
    <3> QED BY <1>4, <2>3, <2>4, <2>5, <3>1
  <2>7. CASE a.j = 0
    <3>1. c = CR /\ n = Len(s)
      BY <1>4, <2>1, <2>4, <2>7
    <3>2. NoBlankLine(t)
      BY <1>7, <2>3, <3>1, Characters
    <3>3. PICK p : p = J("value", m.heads[a.i][1], m.heads[a.i][2],
                         Fields(m, a.i - 1))
      OBVIOUS
    <3>4. PICK h : h = H(s, e + 2, Len(s))
      OBVIOUS
    <3>5. HeadState(m, a.i - 1, h, p)
      BY <2>3, <2>4, <3>1, <3>3, <3>4
    <3>10. a.i > 0
      BY <2>3
    <3>6. TakeHeader(p) = J("key", <<>>, <<>>, Fields(m, a.i))
      <4>1. a.i > 0
        BY <2>3
      <4>2. Fields(m, a.i) = Fields(m, a.i - 1) \cup
              {<<LowerCase(m.heads[a.i][1]),
                  trim_whitespace(m.heads[a.i][2])>>}
        BY <1>0, <4>1, FieldsStep
      <4>3. p.key = m.heads[a.i][1] /\ p.val = m.heads[a.i][2]
            /\ p.map = Fields(m, a.i - 1)
        BY <3>3 DEF J
      <4>4. TakeHeader(p) = [HeadStart EXCEPT !.map = Fields(m, a.i)]
        BY <4>2, <4>3 DEF TakeHeader
      <4> QED BY <4>4 DEF HeadStart, J
    <3>7. ASSUME m.heads[a.i][2] # <<>>
          PROVE  HeadChar(p, c) = J("cr", <<>>, <<>>, Fields(m, a.i))
      <4>1. HeadChar(p, c) = [TakeHeader(p) EXCEPT !.mode = "cr"]
        BY <3>1, <3>3, <3>7 DEF HeadChar, J
      <4> QED BY <3>6, <4>1 DEF J
    <3>11. ASSUME m.heads[a.i][2] = <<>> PROVE HeadChar(p, c).mode = "error"
      <4>1. HeadChar(p, c) = [p EXCEPT !.mode = "error"]
        BY <3>1, <3>3, <3>11 DEF HeadChar, J
      <4>2. p = J(p.mode, p.key, p.val, p.map)
        BY <3>3 DEF J
      <4> QED BY <4>1, <4>2 DEF J
    <3>12. HeadState(m, a.i - 1, HeadChar(h, c), HeadChar(p, c))
      BY <3>5, HeadStateStep
    <3>13. Unspoilt(m, a.i) <=>
             Unspoilt(m, a.i - 1) /\ m.heads[a.i][2] # <<>>
      BY <1>0, <3>10, UnspoiltStep
    <3>14. HeadState(m, a.i, HeadChar(h, c),
                     J("cr", <<>>, <<>>, Fields(m, a.i)))
      BY <3>7, <3>11, <3>12, <3>13 DEF HeadState
    <3>8. HeadState(m, a.i, H(t, e + 2, Len(t)),
                    J("cr", <<>>, <<>>, Fields(m, a.i)))
      BY <1>6, <3>4, <3>14
    <3>9. b.j = 1 /\ t[Len(t) - b.j + 1] = CR
      BY <1>3, <1>4, <2>7, <3>1
    <3> QED BY <1>3, <1>12, <2>3, <2>5, <2>6, <3>2, <3>8, <3>9 DEF HeadPlace
  <2>8. CASE a.j = 1
    <3>1. c = LF /\ n = Len(s) - 1
      BY <2>1, <2>4, <2>8
    <3>2. NoBlankLine(t)
      <4>1. ~LineEnd(s, Len(s) - 2)
        <5>1. Len(s) - 2 + 1 = n
          BY <1>4, <3>1
        <5>2. s[n] # LF
          BY <2>3, <2>4
        <5> QED BY <5>1, <5>2 DEF LineEnd
      <4> QED BY <2>3, <4>1, NoBlankLineStays
    <3>3. HeadState(m, a.i, H(t, e + 2, Len(t)),
                    J("key", <<>>, <<>>, Fields(m, a.i)))
      <4>1. PICK f, h, p : /\ f = Fields(m, a.i) /\ h = H(s, e + 2, Len(s))
                           /\ p = J("cr", <<>>, <<>>, f)
        OBVIOUS
      <4>2. HeadState(m, a.i, h, p)
        BY <2>3, <2>8, <4>1
      <4>3. HeadState(m, a.i, HeadChar(h, c), HeadChar(p, c))
        BY <4>2, HeadStateStep
      <4>4. HeadChar(p, c) = J("key", <<>>, <<>>, f)
        BY ONLY <3>1, <4>1 DEF HeadChar, J
      <4> QED BY <1>6, <4>1, <4>3, <4>4
    <3>4. b.j = 2 /\ t[Len(t)] = LF /\ t[Len(t) - b.j + 1] = CR
      <4>1. Len(t) - b.j + 1 = Len(s) /\ Len(s) \in 1..Len(s)
            /\ Len(s) - a.j + 1 = Len(s)
        BY <1>3, <1>4, <2>5, <2>8
      <4> QED BY <1>3, <1>4, <2>3, <2>8, <3>1, <4>1
    <3> QED BY <1>3, <1>12, <2>3, <2>5, <2>6, <3>2, <3>3, <3>4 DEF HeadPlace
  <2> QED BY <2>2, <2>7, <2>8
<1>13. CASE a.part = "blank"
  <2>1. Piece(m, a) = <<CR, LF>>
    BY <1>13 DEF Piece, CRLF
  <2>2. a.j \in {0, 1}
    BY <1>0, <2>1
  <2>3. /\ a.i = Len(m.heads)
        /\ LineEnd(s, Len(s) - a.j - 1) /\ HeadDone(m, s, e, Len(s) - a.j - 1)
        /\ (a.j > 0 => s[Len(s) - a.j + 1] = CR)
        /\ NoBlankLine(s)
        /\ (a.j = 0 => HeadState(m, a.i, H(s, e + 2, Len(s)),
                                 J("key", <<>>, <<>>, Fields(m, a.i))))
    BY <1>13, <2>2 DEF HeadPlace
  <2>4. PICK n : n = Len(s) - a.j - 1
    OBVIOUS
  <2>5. /\ n \in Nat /\ n > 0 /\ n \in Int /\ n <= Len(s)
        /\ Len(t) - b.j - 1 = n
    <3>1. Len(s) - a.j - 1 \in 1..Len(s) - 1
      BY <2>3 DEF LineEnd
    <3>2. PICK x, y : x = a.j /\ y = Len(s)
      OBVIOUS
    <3>3. /\ x \in {0, 1} /\ y \in Nat /\ n = y - x - 1 /\ n \in 1..y - 1
          /\ b.j = x + 1 /\ Len(t) = y + 1
      BY ONLY <1>3, <1>4, <2>2, <2>4, <3>1, <3>2
    <3>4. n \in Nat /\ n > 0 /\ n \in Int /\ n <= y
      BY ONLY <3>3
    <3>5. Len(t) - b.j - 1 = n
      BY ONLY <3>3
    <3> QED BY ONLY <3>2, <3>4, <3>5
  <2>6. LineEnd(t, n) /\ HeadDone(m, t, e, n)
    BY <1>5, <2>3, <2>4, <2>5, LineEndStays, HeadDoneStays
  <2>7. CASE a.j = 0
    <3>1. c = CR /\ b.j = 1
      BY <1>3, <2>1, <2>7
    <3>2. NoBlankLine(t)
      BY <1>7, <2>3, <3>1, Characters
    <3>3. t[Len(t) - b.j + 1] = CR
      BY <1>4, <3>1
    <3>4. H(t, e + 2, Len(t)).mode = "error"
      <4>1. PICK f, h, p : /\ f = Fields(m, a.i) /\ h = H(s, e + 2, Len(s))
                           /\ p = J("key", <<>>, <<>>, f)
        OBVIOUS
      <4>2. HeadState(m, a.i, HeadChar(h, c), HeadChar(p, c))
        BY <2>3, <2>7, <4>1, HeadStateStep
      <4>3. HeadChar(p, c) = [p EXCEPT !.mode = "error"]
        BY <3>1, <4>1, Characters DEF HeadChar, J
      <4>4. HeadChar(p, c).mode = "error"
        BY <4>1, <4>3 DEF J
      <4>5. HeadChar(h, c).mode = "error"
        BY <4>2, <4>4 DEF HeadState
      <4> QED BY <1>6, <4>1, <4>5
    <3> QED BY <1>3, <1>13, <2>3, <2>5, <2>6, <3>1, <3>2, <3>3, <3>4
         DEF HeadPlace
  <2>8. CASE a.j = 1
    <3>1. c = LF /\ b.j = 2 /\ n = Len(s) - 2 /\ Len(t) - 3 = n
      BY <1>3, <1>4, <2>1, <2>4, <2>8
    <3>2. t[Len(t) - b.j + 1] = CR /\ t[Len(t)] = LF
      <4>1. Len(t) - b.j + 1 = Len(s) /\ Len(s) \in 1..Len(s)
            /\ Len(s) - a.j + 1 = Len(s)
        BY <1>4, <2>5, <2>8, <3>1
      <4> QED BY <1>4, <2>3, <2>8, <3>1, <4>1
    <3>3. LineEnd(t, n + 2)
      <4>1. n + 2 = Len(s) /\ n + 2 \in 1..Len(t) - 1 /\ n + 2 + 1 = Len(t)
            /\ Len(t) - b.j + 1 = n + 2
        BY <1>4, <2>5, <3>1
      <4> QED BY <3>2, <4>1 DEF LineEnd
    <3>4. ASSUME NEW r \in 1..n - 1, BlankLine(t, r) PROVE FALSE
      <4>1. r \in 1..Len(s) /\ r \in Nat /\ r + 2 \in Nat
            /\ r # Len(s) /\ r + 2 # Len(s)
        <5>1. r \in Int /\ 1 <= r /\ r <= n - 1
          BY <2>5
        <5>2. n = Len(s) - 2 /\ Len(s) \in Nat /\ n \in Nat
          BY <1>4, <2>5, <3>1
        <5> QED BY ONLY <5>1, <5>2
      <4>2. LineEnd(s, r) /\ LineEnd(s, r + 2)
        BY <3>4, <4>1, LineEndStays DEF BlankLine
      <4> QED BY <2>3, <4>1, <4>2 DEF NoBlankLine, BlankLine
    <3>5. FirstBlankLine(t, Len(t) - 3)
      BY <2>6, <3>1, <3>3, <3>4 DEF FirstBlankLine, BlankLine
    <3> QED BY <1>3, <1>13, <2>3, <2>5, <2>6, <3>1, <3>2, <3>5 DEF HeadPlace
  <2> QED BY <2>2, <2>7, <2>8
<1>14. CASE a.part = "body"
  <2>1. Piece(m, a) = m.body
    BY <1>14 DEF Piece
  <2>2. a.j \in 0..Len(m.body) - 1 /\ c = m.body[a.j + 1]
        /\ b.j \in 0..Len(m.body)
    BY <1>0, <1>1, <1>3, <2>1
  <2>3. PICK n : n = Len(s) - 3 - a.j
    OBVIOUS
  <2>4. /\ FirstBlankLine(s, n) /\ HeadDone(m, s, e, n)
        /\ SubSeq(s, n + 4, Len(s)) = SubSeq(m.body, 1, a.j)
    BY <1>14, <2>3 DEF HeadPlace
  <2>5. /\ n \in Int /\ n > 0 /\ n <= Len(s) /\ Len(t) - 3 - b.j = n
        /\ n + 4 <= Len(s) + 1
    <3>1. LineEnd(s, n) /\ LineEnd(s, n + 2)
      BY <2>4 DEF FirstBlankLine, BlankLine
    <3>2. n \in Int /\ n > 0 /\ n <= Len(s)
      BY <1>4, <3>1 DEF LineEnd
    <3>3. a.j \in Nat /\ b.j = a.j + 1
      BY <1>0, <1>3
    <3> QED BY ONLY <1>4, <2>3, <3>2, <3>3
  <2>6. FirstBlankLine(t, n) /\ HeadDone(m, t, e, n)
    BY <1>5, <2>4, <2>5, FirstBlankLineStays, HeadDoneStays
  <2>7. SubSeq(t, n + 4, Len(t)) = SubSeq(m.body, 1, b.j)
    <3>1. SubSeq(t, n + 4, Len(t)) = Append(SubSeq(s, n + 4, Len(s)), c)
      <4>1. PICK x : x = n + 4
        OBVIOUS
      <4>2. x \in Nat /\ x > 0 /\ x <= Len(s) + 1
        BY ONLY <1>4, <2>5, <4>1
      <4>3. s \in Seq(Char) /\ c \in Char /\ t = Append(s, c)
        BY DEF Longer
      <4>4. SubSeq(Append(s, c), x, Len(s) + 1)
              = Append(SubSeq(s, x, Len(s)), c)
        BY ONLY <4>2, <4>3, TailStep
      <4> QED BY ONLY <1>4, <4>1, <4>3, <4>4
    <3>2. SubSeq(m.body, 1, b.j) = Append(SubSeq(m.body, 1, a.j), c)
      BY <1>1, <1>3, <2>2, PrefixStep
    <3> QED BY <2>4, <3>1, <3>2
  <2> QED BY <1>3, <1>14, <2>2, <2>5, <2>6, <2>7 DEF HeadPlace
<1>15. CASE a.part = "done"
  <2>1. Piece(m, a) = <<>>
    BY <1>15 DEF Piece
  <2> QED BY <1>0, <2>1
<1> QED BY <1>8, <1>9, <1>10, <1>11, <1>12, <1>13, <1>14, <1>15 DEF HeadPlace

\* One more character of a request, wherever it stopped.
LEMMA TextArrives ==
  ASSUME NEW m \in Requests, NEW a \in Spots, a.j < Len(Piece(m, a)),
         NEW s, NEW c, NEW t, Longer(s, c, t), c = Piece(m, a)[a.j + 1],
         LineSpot(m, a), TextPlace(m, a, s)
  PROVE  TextPlace(m, [a EXCEPT !.j = @ + 1], t)
<1>0. a.i \in Nat /\ a.j \in Nat /\ a.j < Len(Piece(m, a))
  BY DEF Spots
<1>2. PICK b : b = [a EXCEPT !.j = @ + 1]
  OBVIOUS
<1>3. b.part = a.part /\ b.i = a.i /\ b.j = a.j + 1
  BY <1>2 DEF Spots
<1>4. /\ Len(s) \in Nat /\ Len(t) = Len(s) + 1 /\ t[Len(t)] = c
      /\ \A i \in 1..Len(s) : t[i] = s[i]
  BY DEF Longer
<1> SUFFICES TextPlace(m, b, t)
  BY <1>2
<1>5. CASE a.part \notin HeadParts /\ BeforeHead(m, a, s)
  <2>1. /\ \A x \in 1..Len(s) : s[x] # LF
        /\ (a.part = "method" => Len(s) = a.j)
        /\ (a.part # "method" => Len(s) >= 4)
        /\ (a.part = "version" => a.j < 4 /\ (a.j = 3 => s[Len(s)] = CR))
    BY <1>5 DEF BeforeHead
  <2>2. ASSUME c # LF PROVE \A x \in 1..Len(t) : t[x] # LF
    <3> SUFFICES ASSUME NEW x \in 1..Len(t) PROVE t[x] # LF
      OBVIOUS
    <3>1. x \in 1..Len(s) \/ x = Len(t)
      BY <1>4
    <3> QED BY <1>4, <2>1, <2>2, <3>1
  <2>3. CASE a.part # "version"
    <3>1. c # LF
      <4>1. CASE a.part = "method"
        <5>1. /\ a.j \in 0..Len(m.method) /\ Len(m.method) \in Nat
              /\ (a.j = Len(m.method) => c = SPACE)
              /\ (a.j < Len(m.method) => c \notin {"/", SPACE, CR, LF})
          BY <4>1, MethodPiece
        <5>2. a.j = Len(m.method) \/ a.j < Len(m.method)
          BY ONLY <5>1
        <5>3. c = SPACE \/ c # LF
          BY ONLY <5>1, <5>2
        <5> QED BY <5>3, Characters
      <4>2. CASE a.part \in {"url", "mark", "key", "equals", "value"}
        <5>1. c \notin {SPACE, CR, LF}
          BY <4>2, PieceChar
        <5> QED BY <5>1
      <4> QED BY <1>5, <2>3, <4>1, <4>2 DEF LineSpot
    <3>2. BeforeHead(m, b, t)
      BY <1>3, <1>4, <2>1, <2>2, <2>3, <3>1 DEF BeforeHead
    <3> QED BY <1>3, <1>5, <3>2 DEF TextPlace
  <2>4. CASE a.part = "version"
    <3>1. Piece(m, a) = <<SPACE, "H", CR, LF>>
      BY <2>4 DEF Piece
    <3>2. a.j \in {0, 1, 2, 3}
      <4>1. a.j \in Nat /\ a.j < 4
        BY ONLY <1>0, <3>1
      <4> QED BY ONLY <4>1
    <3>3. CASE a.j # 3
      <4>1. c # LF /\ (a.j = 2 => c = CR)
        BY <3>1, <3>2, <3>3, Characters
      <4>2. b.j < 4 /\ (b.j = 3 => t[Len(t)] = CR)
        BY <1>3, <1>4, <3>2, <3>3, <4>1
      <4>3. BeforeHead(m, b, t)
        BY <1>3, <1>4, <2>1, <2>2, <2>4, <4>1, <4>2 DEF BeforeHead
      <4> QED BY <1>3, <1>5, <4>3 DEF TextPlace
    <3>4. CASE a.j = 3
      <4>1. c = LF /\ b.j = 4 /\ s[Len(s)] = CR /\ Len(s) >= 4
        BY <1>3, <2>1, <2>4, <3>1, <3>4
      <4>2. PICK e : e = Len(s)
        OBVIOUS
      <4>3. e \in 1..Len(t) /\ e \in 1..Len(t) - 1 /\ e >= 4 /\ Len(t) = e + 1
            /\ e \in 1..Len(s)
        BY <1>4, <4>1, <4>2
      <4>4. LineEnd(t, e)
        BY <1>4, <4>1, <4>2, <4>3 DEF LineEnd
      <4>5. ASSUME NEW r \in 1..e - 1 PROVE ~LineEnd(t, r)
        <5>1. r + 1 \in 1..Len(s)
          BY <1>4, <4>2
        <5>2. t[r + 1] # LF
          BY <1>4, <2>1, <5>1
        <5> QED BY <5>2 DEF LineEnd
      <4>6. FirstLineEnd(t, e)
        BY <4>4, <4>5 DEF FirstLineEnd
      <4>7. HeadPlace(m, b, t, e)
        BY <1>3, <2>4, <4>1, <4>3 DEF HeadPlace
      <4> QED BY <4>3, <4>6, <4>7 DEF TextPlace
    <3> QED BY <3>3, <3>4
  <2> QED BY <2>3, <2>4
<1>6. ASSUME NEW e \in 1..Len(s), e >= 4, FirstLineEnd(s, e),
          HeadPlace(m, a, s, e)
      PROVE  TextPlace(m, b, t)
  <2>1. FirstLineEnd(t, e)
    BY <1>6, FirstLineEndStays
  <2>2. HeadPlace(m, b, t, e)
    BY <1>2, <1>6, HeadArrives
  <2>3. e \in 1..Len(t)
    BY <1>4
  <2> QED BY <1>6, <2>1, <2>2, <2>3 DEF TextPlace
<1> QED BY <1>5, <1>6 DEF TextPlace

\* The next part of a request.
LEMMA TextTurns ==
  ASSUME NEW m \in Requests, NEW a \in Spots, NEW s \in Seq(Char),
         LineSpot(m, a), TextPlace(m, a, s),
         a.j = Len(Piece(m, a)), a.part # "done"
  PROVE  TextPlace(m, Following(m, a), s)
<1>0. /\ a.i \in Nat /\ a.j \in Nat /\ Len(s) \in Nat
      /\ a.j = Len(Piece(m, a))
  BY DEF Spots
<1>1. /\ MethodWord(m.method) /\ m.heads \in Seq(Heads) /\ Len(m.heads) \in Nat
      /\ \A i \in 1..Len(m.heads) : NameWord(m.heads[i][1])
                                    /\ FieldWord(m.heads[i][2])
      /\ m.body \in Seq(Char) /\ Len(m.body) \in Nat
  BY RequestWords
<1>2. PICK b : b = Following(m, a)
  OBVIOUS
<1> SUFFICES TextPlace(m, b, s)
  BY <1>2
<1>5. CASE a.part \notin HeadParts /\ BeforeHead(m, a, s)
  <2>1. \A x \in 1..Len(s) : s[x] # LF
    BY <1>5 DEF BeforeHead
  <2>2. a.part # "version"
    <3> SUFFICES ASSUME a.part = "version" PROVE FALSE
      OBVIOUS
    <3>1. Piece(m, a) = <<SPACE, "H", CR, LF>> /\ a.j < 4
      BY <1>5 DEF Piece, BeforeHead
    <3> QED BY <3>1
  <2>3. Len(s) >= 4
    <3>1. CASE a.part = "method"
      <4>1. Len(s) = a.j
        BY <1>5, <3>1 DEF BeforeHead
      <4>2. Piece(m, a) = Append(m.method, SPACE)
        BY <3>1 DEF Piece
      <4>3. /\ m.method \in Seq(Char) /\ Len(m.method) \in Nat
            /\ Len(m.method) >= 3 /\ SPACE \in Char
        BY <1>1, Characters DEF MethodWord, Word, Marks
      <4>4. Len(Append(m.method, SPACE)) = Len(m.method) + 1
        BY <4>3
      <4> QED BY ONLY <1>0, <4>1, <4>2, <4>3, <4>4
    <3>2. CASE a.part # "method"
      BY <1>5, <3>2 DEF BeforeHead
    <3> QED BY <3>1, <3>2
  <2>4. b \in {To("url", 0), To("mark", 1), To("key", a.i), To("equals", a.i),
               To("value", a.i), To("mark", a.i + 1), To("version", 0),
               To("version", a.i)}
    <3>1. a.part \in {"method", "url", "mark", "key", "equals", "value"}
      BY <1>5, <2>2 DEF LineSpot
    <3> QED BY <1>2, <3>1 DEF Following
  <2>5. b.j = 0 /\ b.part \in {"url", "mark", "key", "equals", "value",
            "version"}
    <3>1. PICK part \in {"url", "mark", "key", "equals", "value", "version"},
               i \in Nat : b = To(part, i)
      BY ONLY <1>0, <2>4
    <3>2. part \in Parts
      BY DEF Parts
    <3> QED BY <3>1, <3>2, ToSpot
  <2>6. BeforeHead(m, b, s)
    BY <2>1, <2>3, <2>5 DEF BeforeHead
  <2> QED BY <2>5, <2>6 DEF TextPlace, HeadParts
<1>6. ASSUME NEW e \in 1..Len(s), e >= 4, FirstLineEnd(s, e),
          HeadPlace(m, a, s, e)
      PROVE  TextPlace(m, b, s)
  <2> SUFFICES HeadPlace(m, b, s, e)
    BY <1>6 DEF TextPlace
  <2>1. CASE a.part = "version"
    <3>1. Len(s) = e + 1 /\ e \in Nat
      BY <1>0, <1>6, <2>1 DEF HeadPlace
    <3>2. NoBlankLine(s)
      <4> SUFFICES ASSUME NEW r \in 1..Len(s), BlankLine(s, r) PROVE FALSE
        BY DEF NoBlankLine
      <4>1. LineEnd(s, r) /\ r + 2 \in 1..Len(s) - 1
        BY DEF BlankLine, LineEnd
      <4>2. r \in 1..e - 1
        BY <3>1, <4>1
      <4> QED BY <1>6, <4>1, <4>2 DEF FirstLineEnd
    <3>3. b = IF m.heads = <<>> THEN To("blank", 0) ELSE To("name", 1)
      BY <1>2, <2>1 DEF Following
    <3>6. H(s, e + 2, Len(s)) = J("key", <<>>, <<>>, Fields(m, 0))
      <4>1. SubSeq(s, e + 2, Len(s)) = <<>>
        BY <3>1
      <4>2. Scan(<<"head">>, <<>>) = HeadStart
        BY ScanEmpty DEF Start
      <4>3. Fields(m, 0) = {}
        BY DEF Fields
      <4> QED BY <4>1, <4>2, <4>3 DEF H, HeadStart, J
    <3>7. HeadState(m, 0, H(s, e + 2, Len(s)),
                    J("key", <<>>, <<>>, Fields(m, 0)))
      BY <3>6 DEF HeadState, Unspoilt
    <3>4. CASE m.heads = <<>>
      <4>1. b.part = "blank" /\ b.i = 0 /\ b.j = 0 /\ Len(m.heads) = 0
        BY <3>3, <3>4, ToSpot DEF Parts
      <4>2. Len(s) - b.j - 1 = e
        BY <3>1, <4>1
      <4>3. LineEnd(s, e) /\ HeadDone(m, s, e, e)
        BY <1>6, <3>4 DEF FirstLineEnd, HeadDone
      <4> QED BY <3>2, <3>7, <4>1, <4>2, <4>3 DEF HeadPlace
    <3>5. CASE m.heads # <<>>
      <4>1. b.part = "name" /\ b.i = 1 /\ b.j = 0
        BY <3>3, <3>5, ToSpot DEF Parts
      <4>2. 1 \in 1..Len(m.heads) /\ b.i - 1 = 0
        BY <1>1, <3>5, <4>1
      <4>3. SubSeq(m.heads[1][1], 1, 0) = <<>> /\ 0 \in 0..Len(m.heads[1][1])
        BY <1>1, <4>2 DEF NameWord, Word
      <4> QED BY <3>2, <3>7, <4>1, <4>2, <4>3 DEF HeadPlace
    <3> QED BY <3>4, <3>5
  <2>2. CASE a.part = "name"
    <3>1. Piece(m, a) = m.heads[a.i][1] /\ b = To("colon", a.i)
      BY <1>2, <2>2 DEF Piece, Following
    <3>2. b.part = "colon" /\ b.i = a.i /\ b.j = 0
      BY <1>0, <3>1, ToSpot DEF Parts
    <3>3. /\ a.i \in 1..Len(m.heads) /\ NoBlankLine(s)
          /\ HeadState(m, a.i - 1, H(s, e + 2, Len(s)),
                       J("key", SubSeq(m.heads[a.i][1], 1, a.j), <<>>,
                         Fields(m, a.i - 1)))
      BY <1>6, <2>2 DEF HeadPlace
    <3>4. SubSeq(m.heads[a.i][1], 1, a.j) = m.heads[a.i][1]
      BY <1>1, <3>1, <3>3, PrefixEnds DEF NameWord, Word
    <3>5. HeadState(m, b.i - 1, H(s, e + 2, Len(s)),
                    J("key", m.heads[b.i][1], <<>>, Fields(m, b.i - 1)))
      BY <3>2, <3>3, <3>4
    <3> QED BY <3>2, <3>3, <3>5 DEF HeadPlace
  <2>3. CASE a.part = "colon"
    <3>1. Piece(m, a) = <<":">> /\ b = To("field", a.i)
      BY <1>2, <2>3 DEF Piece, Following
    <3>2. b.part = "field" /\ b.i = a.i /\ b.j = 0 /\ a.j = 1
      BY <1>0, <3>1, ToSpot DEF Parts
    <3>3. /\ a.i \in 1..Len(m.heads) /\ NoBlankLine(s)
          /\ s[Len(s)] = ":"
          /\ HeadState(m, a.i - 1, H(s, e + 2, Len(s)),
                       J("value", m.heads[a.i][1], <<>>,
                         Fields(m, a.i - 1)))
      BY <1>6, <2>3, <3>2 DEF HeadPlace
    <3>4. SubSeq(m.heads[a.i][2], 1, 0) = <<>> /\ 0 \in 0..Len(m.heads[a.i][2])
      BY <1>1, <3>3 DEF FieldWord, Word
    <3>5. /\ b.i \in 1..Len(m.heads) /\ b.j \in 0..Len(m.heads[b.i][2])
          /\ b.j = 0
      BY <3>2, <3>3, <3>4
    <3>6. HeadState(m, b.i - 1, H(s, e + 2, Len(s)),
                    J("value", m.heads[b.i][1],
                      SubSeq(m.heads[b.i][2], 1, b.j), Fields(m, b.i - 1)))
      BY <3>2, <3>3, <3>4
    <3> QED BY <3>2, <3>3, <3>5, <3>6 DEF HeadPlace
  <2>4. CASE a.part = "field"
    <3>1. Piece(m, a) = m.heads[a.i][2] /\ b = To("crlf", a.i)
      BY <1>2, <2>4 DEF Piece, Following
    <3>2. b.part = "crlf" /\ b.i = a.i /\ b.j = 0
      BY <1>0, <3>1, ToSpot DEF Parts
    <3>3. /\ a.i \in 1..Len(m.heads) /\ NoBlankLine(s)
          /\ s[Len(s)] = IF a.j = 0 THEN ":" ELSE m.heads[a.i][2][a.j]
          /\ HeadState(m, a.i - 1, H(s, e + 2, Len(s)),
                       J("value", m.heads[a.i][1],
                         SubSeq(m.heads[a.i][2], 1, a.j), Fields(m, a.i - 1)))
      BY <1>6, <2>4 DEF HeadPlace
    <3>4. PICK w : w = m.heads[a.i][2]
      OBVIOUS
    <3>5. FieldWord(w) /\ a.j = Len(w)
      BY <1>0, <1>1, <3>1, <3>3, <3>4
    <3>6. w \in Seq(Char) /\ Len(w) \in Nat
          /\ \A x \in 1..Len(w) : w[x] \notin {CR, LF}
      BY <3>5 DEF FieldWord, Word
    <3>7. SubSeq(w, 1, a.j) = w
      BY <3>5, <3>6, PrefixEnds
    <3>8. s[Len(s)] # LF
      <4>1. CASE a.j = 0
        BY <3>3, <4>1, Characters
      <4>2. CASE a.j # 0
        <5>1. a.j \in 1..Len(w)
          BY ONLY <3>5, <3>6, <4>2
        <5> QED BY <3>3, <3>4, <3>6, <4>2, <5>1
      <4> QED BY <4>1, <4>2
    <3>9. Len(s) - 0 > e + 1
      <4>1. e + 1 \in 1..Len(s) /\ s[e + 1] = LF
        BY <1>0, <1>6 DEF FirstLineEnd, LineEnd
      <4> QED BY <1>0, <3>8, <4>1
    <3>10. Len(s) - 0 = Len(s)
      BY <1>0
    <3>11. HeadState(m, b.i - 1, H(s, e + 2, Len(s)),
                     J("value", m.heads[b.i][1], m.heads[b.i][2],
                       Fields(m, b.i - 1)))
      BY <3>2, <3>3, <3>4, <3>7
    <3>12. /\ b.i \in 1..Len(m.heads) /\ b.j \in 0..2 /\ NoBlankLine(s)
           /\ Len(s) - b.j > e + 1 /\ s[Len(s) - b.j] # LF
           /\ ~(b.j > 0) /\ ~(b.j = 2)
      <4>1. b.j = 0 /\ ~(b.j > 0) /\ ~(b.j = 2) /\ b.j \in 0..2
        BY ONLY <3>2
      <4> QED BY ONLY <3>2, <3>3, <3>8, <3>9, <3>10, <4>1
    <3>13. HeadState(m, b.i - 1, H(s, e + 2, Len(s) - b.j),
                     J("value", m.heads[b.i][1], m.heads[b.i][2],
                       Fields(m, b.i - 1)))
      BY ONLY <3>2, <3>10, <3>11
    <3> QED BY ONLY <3>2, <3>12, <3>13 DEF HeadPlace
  <2>5. CASE a.part = "crlf"
    <3>1. Piece(m, a) = <<CR, LF>>
      BY <2>5 DEF Piece, CRLF
    <3>2. a.j = 2
      BY <3>1
    <3>3. /\ a.i \in 1..Len(m.heads) /\ NoBlankLine(s)
          /\ Len(s) - 2 > e + 1 /\ s[Len(s) - 2 + 1] = CR /\ s[Len(s)] = LF
          /\ HeadState(m, a.i - 1, H(s, e + 2, Len(s) - 2),
                       J("value", m.heads[a.i][1], m.heads[a.i][2],
                         Fields(m, a.i - 1)))
          /\ HeadState(m, a.i, H(s, e + 2, Len(s)),
                       J("key", <<>>, <<>>, Fields(m, a.i)))
      BY <1>6, <2>5, <3>2 DEF HeadPlace
    <3>4. b = IF a.i < Len(m.heads) THEN To("name", a.i + 1)
              ELSE To("blank", a.i)
      BY <1>2, <2>5 DEF Following
    <3>5. CASE a.i < Len(m.heads)
      <4>1. b.part = "name" /\ b.i = a.i + 1 /\ b.j = 0
        BY <1>0, <3>4, <3>5, ToSpot DEF Parts
      <4>2. b.i \in 1..Len(m.heads) /\ b.i - 1 = a.i
        <5>1. PICK l : l = Len(m.heads)
          OBVIOUS
        <5>2. l \in Nat /\ a.i \in 1..l /\ a.i < l /\ b.i = a.i + 1
          BY <1>1, <3>3, <3>5, <4>1, <5>1
        <5>3. b.i \in 1..l /\ b.i - 1 = a.i
          BY ONLY <5>2
        <5> QED BY <5>1, <5>3
      <4>3. SubSeq(m.heads[b.i][1], 1, 0) = <<>>
            /\ 0 \in 0..Len(m.heads[b.i][1])
        <5>1. PICK w : w = m.heads[b.i][1]
          OBVIOUS
        <5>2. NameWord(w)
          BY <1>1, <4>2, <5>1
        <5>3. w \in Seq(Char) /\ Len(w) \in Nat
          BY <5>2 DEF NameWord, Word
        <5>4. SubSeq(w, 1, 0) = <<>> /\ 0 \in 0..Len(w)
          BY ONLY <5>3
        <5> QED BY <5>1, <5>4
      <4> QED BY <3>3, <4>1, <4>2, <4>3 DEF HeadPlace
    <3>6. CASE ~(a.i < Len(m.heads))
      <4>1. b.part = "blank" /\ b.i = a.i /\ b.j = 0
        BY <1>0, <3>4, <3>6, ToSpot DEF Parts
      <4>2. a.i = Len(m.heads) /\ m.heads # <<>>
        BY <1>1, <3>3, <3>6
      <4>3. PICK n : n = Len(s) - 1
        OBVIOUS
      <4>4. /\ n = Len(s) - b.j - 1 /\ n = Len(s) - 2 + 1 /\ n - 1 = Len(s) - 2
            /\ n >= e + 2 /\ n \in 1..Len(s) - 1 /\ n + 1 = Len(s)
        <5>1. PICK y : y = Len(s)
          OBVIOUS
        <5>2. /\ y \in Nat /\ e \in Nat /\ y - 2 > e + 1 /\ n = y - 1
              /\ b.j = 0
          BY <1>0, <3>3, <4>1, <4>3, <5>1
        <5>3. /\ n = y - b.j - 1 /\ n = y - 2 + 1 /\ n - 1 = y - 2
              /\ n >= e + 2 /\ n \in 1..y - 1 /\ n + 1 = y
          BY ONLY <5>2
        <5> QED BY <5>1, <5>3
      <4>5. LineEnd(s, n)
        BY <3>3, <4>4 DEF LineEnd
      <4>6. HeadDone(m, s, e, n)
        BY <3>3, <4>2, <4>4 DEF HeadDone
      <4> QED BY <3>3, <4>1, <4>2, <4>4, <4>5, <4>6 DEF HeadPlace
    <3> QED BY <3>5, <3>6
  <2>6. CASE a.part = "blank"
    <3>1. Piece(m, a) = <<CR, LF>> /\ b = To("body", 0)
      BY <1>2, <2>6 DEF Piece, Following, CRLF
    <3>2. b.part = "body" /\ b.j = 0 /\ a.j = 2
      BY <3>1, ToSpot DEF Parts
    <3>3. HeadDone(m, s, e, Len(s) - 2 - 1) /\ FirstBlankLine(s, Len(s) - 3)
      BY <1>6, <2>6, <3>2 DEF HeadPlace
    <3>4. PICK n : n = Len(s) - 3
      OBVIOUS
    <3>5. Len(s) - 3 - b.j = n /\ Len(s) - 2 - 1 = n /\ n + 4 = Len(s) + 1
          /\ 0 \in 0..Len(m.body)
      BY <1>0, <1>1, <3>2, <3>4
    <3>6. SubSeq(s, n + 4, Len(s)) = <<>> /\ SubSeq(m.body, 1, 0) = <<>>
      BY <1>0, <1>1, <3>5
    <3> QED BY <3>2, <3>3, <3>4, <3>5, <3>6 DEF HeadPlace
  <2>7. CASE a.part = "body"
    <3>1. Piece(m, a) = m.body /\ b = To("done", 0)
      BY <1>2, <2>7 DEF Piece, Following
    <3>2. b.part = "done" /\ b.j = 0 /\ a.j = Len(m.body)
      BY <3>1, ToSpot DEF Parts
    <3>3. PICK n : n = Len(s) - 3 - Len(m.body)
      OBVIOUS
    <3>4. /\ FirstBlankLine(s, n) /\ HeadDone(m, s, e, n)
          /\ SubSeq(s, n + 4, Len(s)) = SubSeq(m.body, 1, Len(m.body))
      BY <1>6, <2>7, <3>2, <3>3 DEF HeadPlace
    <3>5. 0 \in 0..Len(m.body)
      BY <1>1
    <3> QED BY <3>2, <3>3, <3>4, <3>5 DEF HeadPlace
  <2> QED BY <1>6, <2>1, <2>2, <2>3, <2>4, <2>5, <2>6, <2>7 DEF HeadPlace
<1> QED BY <1>5, <1>6 DEF TextPlace
-----------------------------------------------------------------------------
(* handle_request_parse: what it answers.                                  *)

\* find gives the first line end and the first blank line.
LEMMA FindIsLeast ==
  ASSUME NEW s, NEW t, Len(s) \in Nat, Len(t) \in Nat, Len(t) > 0
  PROVE  /\ \A q \in 1..Len(s) - Len(t) + 1 :
              /\ SubSeq(s, q, q + Len(t) - 1) = t
              /\ \A r \in 1..q - 1 : SubSeq(s, r, r + Len(t) - 1) # t
              => Find(s, t) = q
         /\ (\A r \in 1..Len(s) - Len(t) + 1
              : SubSeq(s, r, r + Len(t) - 1) # t)
            => Find(s, t) = 0
<1> DEFINE found == {i \in 1..Len(s) - Len(t) + 1 :
                       SubSeq(s, i, i + Len(t) - 1) = t}
<1>1. Find(s, t) = IF found = {} THEN 0 ELSE Min(found)
  BY DEF Find
<1>2. found \in SUBSET Nat
  OBVIOUS
<1>3. ASSUME NEW q \in 1..Len(s) - Len(t) + 1,
             SubSeq(s, q, q + Len(t) - 1) = t,
             \A r \in 1..q - 1 : SubSeq(s, r, r + Len(t) - 1) # t
      PROVE  Find(s, t) = q
  <2>1. q \in found /\ found # {}
    BY <1>3
  <2>2. Min(found) \in found /\ Min(found) <= q
    BY <1>2, <2>1, MinIsLeast
  <2>3. PICK x : x = Min(found)
    OBVIOUS
  <2>4. x \in 1..Len(s) - Len(t) + 1 /\ SubSeq(s, x, x + Len(t) - 1) = t
        /\ x <= q
    BY <2>2, <2>3
  <2>5. x \notin 1..q - 1
    BY <1>3, <2>4
  <2>6. x = q
    BY <2>4, <2>5
  <2> QED BY <1>1, <2>1, <2>3, <2>6
<1>4. ASSUME \A r \in 1..Len(s) - Len(t) + 1 : SubSeq(s, r, r + Len(t) - 1) # t
      PROVE  Find(s, t) = 0
  BY <1>1, <1>4
<1> QED BY <1>3, <1>4

\* A part of a text equals another if their characters do.
LEMMA SubSeqIs ==
  ASSUME NEW s \in Seq(Char), NEW t \in Seq(Char), NEW q \in Nat, q > 0,
         q + Len(t) - 1 <= Len(s)
  PROVE  SubSeq(s, q, q + Len(t) - 1) = t
         <=> \A i \in 1..Len(t) : s[q + i - 1] = t[i]
<1>1. PICK u : u = SubSeq(s, q, q + Len(t) - 1)
  OBVIOUS
<1>2. /\ u \in Seq(Char) /\ Len(u) = Len(t)
      /\ \A i \in 1..Len(t) : u[i] = s[q + i - 1]
  <2>1. Len(t) \in Nat /\ Len(s) \in Nat
    OBVIOUS
  <2>2. PICK n : n = q + Len(t) - 1
    OBVIOUS
  <2>3. n \in Int /\ q \in Int /\ \A i \in q..n : i \in 1..Len(s)
    BY <2>1, <2>2
  <2>4. \A i \in q..n : s[i] \in Char
    BY <2>3
  <2>5. /\ SubSeq(s, q, n) \in Seq(Char)
        /\ Len(SubSeq(s, q, n)) = IF q <= n THEN n - q + 1 ELSE 0
        /\ \A i \in 1..n - q + 1 : SubSeq(s, q, n)[i] = s[q + i - 1]
    BY <2>3, <2>4, SubSeqProperties
  <2>6. n - q + 1 = Len(t) /\ (IF q <= n THEN n - q + 1 ELSE 0) = Len(t)
    BY <2>1, <2>2
  <2> QED BY <1>1, <2>2, <2>5, <2>6
<1>3. ASSUME \A i \in 1..Len(t) : u[i] = t[i] PROVE u = t
  BY <1>2, <1>3
<1> QED BY <1>1, <1>2, <1>3

\* CRLF and CRLF CRLF are found where a line ends and a blank line follows.
LEMMA LineEndText ==
  ASSUME NEW s \in Seq(Char), NEW q \in 1..Len(s)
  PROVE  /\ LineEnd(s, q) <=> q \in 1..Len(s) - Len(CRLF) + 1
                              /\ SubSeq(s, q, q + Len(CRLF) - 1) = CRLF
         /\ BlankLine(s, q) <=> q \in 1..Len(s) - Len(CRLF \o CRLF) + 1
              /\ SubSeq(s, q, q + Len(CRLF \o CRLF) - 1) = CRLF \o CRLF
<1>1. PICK t, u : t = CRLF /\ u = CRLF \o CRLF
  OBVIOUS
<1>2. t \in Seq(Char) /\ Len(t) = 2 /\ t[1] = CR /\ t[2] = LF
  BY <1>1, Characters DEF CRLF, Marks
<1>7. /\ u \in Seq(Char) /\ Len(u) = Len(t) + Len(t)
      /\ \A i \in 1..Len(t) + Len(t) :
           u[i] = IF i <= Len(t) THEN t[i] ELSE t[i - Len(t)]
  BY <1>1, <1>2, ConcatProperties
<1>3. u \in Seq(Char) /\ Len(u) = 4
  BY <1>2, <1>7
<1>4. u[1] = CR /\ u[2] = LF /\ u[3] = CR /\ u[4] = LF
  BY <1>2, <1>7
<1>5. LineEnd(s, q) <=> q \in 1..Len(s) - Len(t) + 1
                        /\ SubSeq(s, q, q + Len(t) - 1) = t
  <2>1. q \in 1..Len(s) - Len(t) + 1 <=> q \in 1..Len(s) - 1
    BY <1>2
  <2>2. ASSUME q \in 1..Len(s) - 1
        PROVE  SubSeq(s, q, q + Len(t) - 1) = t
               <=> \A i \in 1..Len(t) : s[q + i - 1] = t[i]
    <3>1. q \in Nat /\ q > 0 /\ q + Len(t) - 1 <= Len(s)
      BY <1>2, <2>2
    <3> QED BY <1>2, <3>1, SubSeqIs
  <2>3. (\A i \in 1..Len(t) : s[q + i - 1] = t[i])
        <=> s[q] = CR /\ s[q + 1] = LF
    <3>1. 1..Len(t) = {1, 2} /\ q + 1 - 1 = q /\ q + 2 - 1 = q + 1
      BY <1>2
    <3> QED BY <1>2, <3>1
  <2> QED BY <2>1, <2>2, <2>3 DEF LineEnd
<1>6. BlankLine(s, q) <=> q \in 1..Len(s) - Len(u) + 1
                          /\ SubSeq(s, q, q + Len(u) - 1) = u
  <2>1. q \in 1..Len(s) - Len(u) + 1 <=> q \in 1..Len(s) - 3
    BY <1>3
  <2>2. ASSUME q \in 1..Len(s) - 3
        PROVE  SubSeq(s, q, q + Len(u) - 1) = u
               <=> \A i \in 1..Len(u) : s[q + i - 1] = u[i]
    <3>1. q \in Nat /\ q > 0 /\ q + Len(u) - 1 <= Len(s)
      BY <1>3, <2>2
    <3> QED BY <1>3, <3>1, SubSeqIs
  <2>3. (\A i \in 1..Len(u) : s[q + i - 1] = u[i])
        <=> s[q] = CR /\ s[q + 1] = LF /\ s[q + 2] = CR /\ s[q + 3] = LF
    <3>1. /\ 1..Len(u) = {1, 2, 3, 4} /\ q + 1 - 1 = q /\ q + 2 - 1 = q + 1
          /\ q + 3 - 1 = q + 2 /\ q + 4 - 1 = q + 3
      BY <1>3
    <3> QED BY <1>4, <3>1
  <2>4. BlankLine(s, q) <=> q \in 1..Len(s) - 3 /\ s[q] = CR /\ s[q + 1] = LF
                            /\ s[q + 2] = CR /\ s[q + 3] = LF
    <3>1. (q + 2) + 1 = q + 3
          /\ (q + 2 \in 1..Len(s) - 1 <=> q \in 1..Len(s) - 3)
          /\ (q \in 1..Len(s) - 3 => q \in 1..Len(s) - 1)
      OBVIOUS
    <3> QED BY <3>1 DEF BlankLine, LineEnd
  <2> QED BY <2>1, <2>2, <2>3, <2>4
<1> QED BY <1>1, <1>5, <1>6

\* find gives the end of the first line.
LEMMA FindLineEnd ==
  ASSUME NEW s \in Seq(Char)
  PROVE  /\ \A e : FirstLineEnd(s, e) => Find(s, CRLF) = e
         /\ (\A r \in 1..Len(s) : ~LineEnd(s, r)) => Find(s, CRLF) = 0
<1>1. Len(s) \in Nat /\ Len(CRLF) = 2
  BY DEF CRLF
<1>4. PICK t : t = CRLF
  OBVIOUS
<1>5. Len(t) \in Nat /\ Len(t) > 0
  <2>1. Len(t) = 2
    BY <1>1, <1>4
  <2> QED BY <2>1
<1>2. ASSUME NEW e, FirstLineEnd(s, e) PROVE Find(s, CRLF) = e
  <2>1. e \in 1..Len(s) - 1 /\ LineEnd(s, e)
    BY <1>2 DEF FirstLineEnd, LineEnd
  <2>2. e \in 1..Len(s)
    BY <1>1, <2>1
  <2>3. e \in 1..Len(s) - Len(CRLF) + 1
        /\ SubSeq(s, e, e + Len(CRLF) - 1) = CRLF
    BY <2>1, <2>2, LineEndText
  <2>4. ASSUME NEW r \in 1..e - 1 PROVE SubSeq(s, r, r + Len(CRLF) - 1) # CRLF
    <3>1. ~LineEnd(s, r)
      BY <1>2 DEF FirstLineEnd
    <3>2. r \in 1..Len(s) /\ r \in 1..Len(s) - Len(CRLF) + 1
      BY <1>1, <2>1
    <3> QED BY <3>1, <3>2, LineEndText
  <2> QED BY <1>1, <1>4, <1>5, <2>3, <2>4, FindIsLeast
<1>3. ASSUME \A r \in 1..Len(s) : ~LineEnd(s, r) PROVE Find(s, CRLF) = 0
  <2>1. ASSUME NEW r \in 1..Len(s) - Len(CRLF) + 1
        PROVE  SubSeq(s, r, r + Len(CRLF) - 1) # CRLF
    <3>1. r \in 1..Len(s)
      BY <1>1
    <3> QED BY <1>3, <3>1, LineEndText
  <2> QED BY <1>1, <1>4, <1>5, <2>1, FindIsLeast
<1> QED BY <1>2, <1>3

\* find gives the first blank line.
LEMMA FindBlankLine ==
  ASSUME NEW s \in Seq(Char)
  PROVE  /\ \A b : FirstBlankLine(s, b) => Find(s, CRLF \o CRLF) = b
         /\ NoBlankLine(s) => Find(s, CRLF \o CRLF) = 0
<1>0. PICK t : t = CRLF \o CRLF
  OBVIOUS
<1>1. Len(s) \in Nat /\ Len(t) = 4
  BY <1>0 DEF CRLF
<1>5. Len(t) \in Nat /\ Len(t) > 0
  BY <1>1
<1>2. ASSUME NEW b, FirstBlankLine(s, b) PROVE Find(s, t) = b
  <2>1. b \in 1..Len(s) - 1 /\ BlankLine(s, b)
    BY <1>2 DEF FirstBlankLine, BlankLine, LineEnd
  <2>2. b \in 1..Len(s)
    BY <1>1, <2>1
  <2>3. b \in 1..Len(s) - Len(t) + 1 /\ SubSeq(s, b, b + Len(t) - 1) = t
    BY <1>0, <2>1, <2>2, LineEndText
  <2>4. ASSUME NEW r \in 1..b - 1 PROVE SubSeq(s, r, r + Len(t) - 1) # t
    <3>1. ~BlankLine(s, r)
      BY <1>2 DEF FirstBlankLine
    <3>2. r \in 1..Len(s) /\ r \in 1..Len(s) - Len(t) + 1
      BY <1>1, <2>1, <2>3
    <3> QED BY <1>0, <3>1, <3>2, LineEndText
  <2> QED BY <1>1, <1>5, <2>3, <2>4, FindIsLeast
<1>3. ASSUME NoBlankLine(s) PROVE Find(s, t) = 0
  <2>1. ASSUME NEW r \in 1..Len(s) - Len(t) + 1
        PROVE  SubSeq(s, r, r + Len(t) - 1) # t
    <3>1. r \in 1..Len(s)
      BY <1>1
    <3> QED BY <1>0, <1>3, <3>1, LineEndText DEF NoBlankLine
  <2> QED BY <1>1, <1>5, <2>1, FindIsLeast
<1> QED BY <1>0, <1>2, <1>3

\* A first blank line is a blank line.
LEMMA BlankSomewhere ==
  ASSUME NEW s \in Seq(Char), NEW b, FirstBlankLine(s, b)
  PROVE  b \in 1..Len(s) /\ ~NoBlankLine(s)
<1>1. Len(s) \in Nat /\ BlankLine(s, b)
  BY DEF FirstBlankLine
<1>2. b \in 1..Len(s)
  BY <1>1 DEF BlankLine, LineEnd
<1> QED BY <1>1, <1>2 DEF NoBlankLine

\* Where the blank line is, the head and what follows it.
LEMMA BlankFound ==
  ASSUME NEW m \in Requests, NEW a \in Spots, NEW s \in Seq(Char),
         NEW e \in 1..Len(s), FirstLineEnd(s, e), HeadPlace(m, a, s, e)
  PROVE  \/ NoBlankLine(s) /\ a.part # "done"
         \/ \E b \in 1..Len(s), n \in 0..Len(m.body) :
              /\ FirstBlankLine(s, b) /\ HeadDone(m, s, e, b)
              /\ SubSeq(s, b + 4, Len(s)) = SubSeq(m.body, 1, n)
              /\ a.part = "done" => n = Len(m.body)
              /\ a.part \in {"blank", "body", "done"}
<1>1. m.body \in Seq(Char) /\ Len(m.body) \in Nat /\ Len(s) \in Nat
  BY RequestWords
<1>2. ASSUME NEW b, FirstBlankLine(s, b) PROVE b \in 1..Len(s)
  BY <1>2, BlankSomewhere
<1>3. CASE a.part = "version"
  <2>1. Len(s) = e + 1
    BY <1>3 DEF HeadPlace
  <2> SUFFICES ASSUME NEW r \in 1..Len(s), BlankLine(s, r) PROVE FALSE
    BY <1>3 DEF NoBlankLine
  <2>2. LineEnd(s, r) /\ r + 2 \in 1..Len(s) - 1
    BY DEF BlankLine, LineEnd
  <2>3. r \in 1..e - 1
    BY <2>1, <2>2
  <2> QED BY <2>2, <2>3 DEF FirstLineEnd
<1>4. CASE a.part \in {"name", "colon", "field", "crlf"}
  BY <1>4 DEF HeadPlace
<1>5. CASE a.part = "blank"
  <2>1. a.j \in 0..2 /\ HeadDone(m, s, e, Len(s) - a.j - 1)
        /\ IF a.j = 2 THEN FirstBlankLine(s, Len(s) - 3) ELSE NoBlankLine(s)
    BY <1>5 DEF HeadPlace
  <2>2. CASE a.j = 2
    <3>1. PICK b : b = Len(s) - 3
      OBVIOUS
    <3>2. FirstBlankLine(s, b) /\ Len(s) - a.j - 1 = b /\ b + 4 = Len(s) + 1
      BY <1>1, <2>1, <2>2, <3>1
    <3>3. SubSeq(s, b + 4, Len(s)) = <<>> /\ SubSeq(m.body, 1, 0) = <<>>
      BY <1>1, <3>2
    <3>4. b \in 1..Len(s) /\ 0 \in 0..Len(m.body) /\ HeadDone(m, s, e, b)
      BY <1>1, <1>2, <2>1, <3>2
    <3> QED BY <1>5, <3>2, <3>3, <3>4
  <2>3. CASE a.j # 2
    BY <1>5, <2>1, <2>3
  <2> QED BY <2>2, <2>3
<1>6. CASE a.part \in {"body", "done"}
  <2>1. PICK n : n = IF a.part = "body" THEN a.j ELSE Len(m.body)
    OBVIOUS
  <2>2. PICK b : b = Len(s) - 3 - n
    OBVIOUS
  <2>3. a.j \in 0..Len(m.body)
    BY <1>6 DEF HeadPlace
  <2>4. n \in 0..Len(m.body) /\ (a.part = "done" => n = Len(m.body))
    BY <1>1, <2>1, <2>3
  <2>5. /\ FirstBlankLine(s, b) /\ HeadDone(m, s, e, b)
        /\ SubSeq(s, b + 4, Len(s)) = SubSeq(m.body, 1, n)
    BY <1>6, <2>1, <2>2 DEF HeadPlace
  <2> QED BY <1>2, <1>6, <2>4, <2>5
<1> QED BY <1>3, <1>4, <1>5, <1>6 DEF HeadPlace

\* The headers that are taken from a head, and those of which something was
\* read at a.
Taken(p) ==
  IF p.mode = "value" /\ HasPair(p) THEN TakeHeader(p).map ELSE p.map
Kept(name, v) == <<LowerCase(name), trim_whitespace(v)>>
ReadAt(m, a, i) ==
  IF a.part = "field" /\ a.i = i THEN SubSeq(m.heads[i][2], 1, a.j)
  ELSE m.heads[i][2]
CountAt(m, a) ==
  CASE a.part \in {"name", "colon"} -> a.i - 1
    [] a.part \in {"field", "crlf"} -> a.i
    [] a.part = "version" -> 0
    [] OTHER -> Len(m.heads)
HeadersOf(m, a, n) ==
  {Kept(m.heads[i][1], ReadAt(m, a, i)) :
     i \in {j \in 1..n : ReadAt(m, a, j) # <<>>}}

\* The headers that are taken from the state of the loop.
LEMMA TakenOf ==
  ASSUME NEW mode, NEW k, NEW v, NEW f, NEW p, p = J(mode, k, v, f),
         k # <<>> \/ mode # "value"
  PROVE  /\ p.mode = mode
         /\ Taken(p) = IF mode = "value" /\ v # <<>> THEN f \cup {Kept(k, v)}
                       ELSE f
<1>1. p.mode = mode /\ p.key = k /\ p.val = v /\ p.map = f
  BY DEF J
<1>2. TakeHeader(p).map = p.map \cup {Kept(p.key, p.val)}
  BY DEF TakeHeader, HeadStart, Kept
<1>3. HasPair(p) <=> k # <<>> /\ v # <<>>
  BY <1>1 DEF HasPair
<1> QED BY <1>1, <1>2, <1>3 DEF Taken

\* The same of a value being read.
LEMMA TakenValue ==
  ASSUME NEW k, NEW v, NEW f, NEW p, p = J("value", k, v, f), k # <<>>
  PROVE  /\ p.mode = "value"
         /\ Taken(p) = IF v # <<>> THEN f \cup {Kept(k, v)} ELSE f
<1>1. PICK mode : mode = "value"
  OBVIOUS
<1>2. p = J(mode, k, v, f) /\ (k # <<>> \/ mode # "value")
  BY <1>1
<1>3. /\ p.mode = mode
      /\ Taken(p) = IF mode = "value" /\ v # <<>> THEN f \cup {Kept(k, v)}
                    ELSE f
  BY <1>2, TakenOf
<1> QED BY ONLY <1>1, <1>3

\* The headers of which all was read, none of them empty.
LEMMA HeadersFull ==
  ASSUME NEW m, NEW a, NEW n \in Nat, Unspoilt(m, n),
         \A x \in 1..n : ReadAt(m, a, x) = m.heads[x][2]
  PROVE  HeadersOf(m, a, n) = Fields(m, n)
<1>1. {j \in 1..n : ReadAt(m, a, j) # <<>>} = 1..n
  BY DEF Unspoilt
<1>2. HeadersOf(m, a, n)
        = {Kept(m.heads[i][1], ReadAt(m, a, i)) : i \in 1..n}
  BY <1>1 DEF HeadersOf
<1>3. Fields(m, n) = {Kept(m.heads[i][1], m.heads[i][2]) : i \in 1..n}
  BY DEF Fields, Kept
<1> QED BY <1>2, <1>3

\* The last one may be cut short or empty.
LEMMA HeadersLast ==
  ASSUME NEW m, NEW a, NEW n \in Nat, n > 0, Unspoilt(m, n - 1),
         \A x \in 1..n - 1 : ReadAt(m, a, x) = m.heads[x][2],
         NEW v, v = ReadAt(m, a, n)
  PROVE  HeadersOf(m, a, n) = IF v # <<>>
           THEN Fields(m, n - 1) \cup {Kept(m.heads[n][1], v)}
           ELSE Fields(m, n - 1)
<1>1. n - 1 \in Nat /\ 1..n = 1..(n - 1) \cup {n} /\ n \notin 1..(n - 1)
  OBVIOUS
<1>2. HeadersOf(m, a, n - 1) = Fields(m, n - 1)
  BY <1>1, HeadersFull
<1>3. PICK T : T = {j \in 1..(n - 1) : ReadAt(m, a, j) # <<>>}
  OBVIOUS
<1>4. HeadersOf(m, a, n - 1)
        = {Kept(m.heads[i][1], ReadAt(m, a, i)) : i \in T}
  BY <1>3 DEF HeadersOf
<1>5. CASE v # <<>>
  <2>1. {j \in 1..n : ReadAt(m, a, j) # <<>>} = T \cup {n}
    BY <1>1, <1>3, <1>5
  <2>2. HeadersOf(m, a, n)
          = {Kept(m.heads[i][1], ReadAt(m, a, i)) : i \in T \cup {n}}
    BY <2>1 DEF HeadersOf
  <2> QED BY <1>2, <1>4, <1>5, <2>2
<1>6. CASE v = <<>>
  <2>1. {j \in 1..n : ReadAt(m, a, j) # <<>>} = T
    BY <1>1, <1>3, <1>6
  <2>2. HeadersOf(m, a, n) = HeadersOf(m, a, n - 1)
    BY <1>4, <2>1 DEF HeadersOf
  <2> QED BY <1>2, <1>6, <2>2
<1> QED BY <1>5, <1>6

\* Before the blank line, what is taken is what was read.
LEMMA HeadTorn ==
  ASSUME NEW m \in Requests, NEW a \in Spots, NEW s \in Seq(Char),
         NEW e \in 1..Len(s), HeadPlace(m, a, s, e), NoBlankLine(s), NEW p,
         p = H(s, e + 2, Len(s)), p.mode # "error"
  PROVE  Taken(p) = HeadersOf(m, a, CountAt(m, a))
<1>1. /\ Len(m.heads) \in Nat
      /\ \A i \in 1..Len(m.heads) : NameWord(m.heads[i][1])
                                    /\ FieldWord(m.heads[i][2])
  BY RequestWords
<1>2. a.i \in Nat /\ a.j \in Nat /\ Len(s) \in Nat
  BY DEF Spots
<1>3. a.part # "field" => \A x : ReadAt(m, a, x) = m.heads[x][2]
  BY DEF ReadAt
<1>4. ASSUME NEW n, NEW q, HeadState(m, n, p, q) PROVE Unspoilt(m, n) /\ p = q
  BY <1>4 DEF HeadState
<1>5. CASE a.part = "version"
  <2>1. Len(s) = e + 1
    BY <1>5 DEF HeadPlace
  <2>2. SubSeq(s, e + 2, Len(s)) = <<>>
    BY <1>2, <2>1
  <2>3. Scan(<<"head">>, <<>>) = HeadStart
    BY ScanEmpty DEF Start
  <2>4. p = J("key", <<>>, <<>>, {})
    BY <2>2, <2>3 DEF H, HeadStart, J
  <2>5. Taken(p) = {}
    BY <2>4, TakenOf
  <2>6. CountAt(m, a) = 0
    BY <1>5 DEF CountAt
  <2>7. HeadersOf(m, a, 0) = {}
    BY DEF HeadersOf
  <2> QED BY <2>5, <2>6, <2>7
<1>6. CASE a.part \in {"name", "colon"}
  <2>1. a.i \in 1..Len(m.heads) /\ \E mode, k :
          /\ HeadState(m, a.i - 1, p, J(mode, k, <<>>, Fields(m, a.i - 1)))
          /\ k # <<>> \/ mode # "value"
    <3>1. CASE a.part = "name"
      BY <3>1 DEF HeadPlace
    <3>2. CASE a.part = "colon"
      <4>1. a.i \in 1..Len(m.heads) /\ HeadState(m, a.i - 1, p,
              J(IF a.j = 0 THEN "key" ELSE "value", m.heads[a.i][1],
                    <<>>, Fields(m, a.i - 1)))
        BY <3>2 DEF HeadPlace
      <4>2. m.heads[a.i][1] # <<>>
        BY <1>1, <4>1 DEF NameWord
      <4> QED BY <4>1, <4>2
    <3> QED BY <1>6, <3>1, <3>2
  <2>2. PICK mode, k :
          /\ HeadState(m, a.i - 1, p, J(mode, k, <<>>, Fields(m, a.i - 1)))
          /\ k # <<>> \/ mode # "value"
    BY <2>1
  <2>3. PICK n, f : n = a.i - 1 /\ f = Fields(m, n)
    OBVIOUS
  <2>4. Unspoilt(m, n) /\ p = J(mode, k, <<>>, f)
    BY <1>4, <2>2, <2>3
  <2>5. Taken(p) = f
    BY <2>2, <2>4, TakenOf
  <2>6. n \in Nat
    BY ONLY <1>1, <2>1, <2>3
  <2>7. HeadersOf(m, a, n) = Fields(m, n)
    BY <1>3, <1>6, <2>4, <2>6, HeadersFull
  <2>8. CountAt(m, a) = n
    BY <1>6, <2>3 DEF CountAt
  <2> QED BY <2>3, <2>5, <2>7, <2>8
<1>7. CASE a.part = "field" \/ (a.part = "crlf" /\ a.j = 0)
  <2>1. PICK n, k, v, f : /\ n = a.i /\ k = m.heads[n][1]
                          /\ v = ReadAt(m, a, n) /\ f = Fields(m, n - 1)
    OBVIOUS
  <2>2. n \in 1..Len(m.heads) /\ HeadState(m, n - 1, p, J("value", k, v, f))
    <3>1. CASE a.part = "field"
      <4>1. v = SubSeq(m.heads[n][2], 1, a.j)
        BY <2>1, <3>1 DEF ReadAt
      <4> QED BY <2>1, <3>1, <4>1 DEF HeadPlace
    <3>2. CASE a.part = "crlf" /\ a.j = 0
      <4>1. v = m.heads[n][2]
        BY <1>3, <2>1, <3>2
      <4>2. Len(s) - a.j = Len(s)
        BY ONLY <1>2, <3>2
      <4>3. a.i \in 1..Len(m.heads)
            /\ HeadState(m, a.i - 1, H(s, e + 2, Len(s) - a.j),
                         J("value", m.heads[a.i][1], m.heads[a.i][2],
                           Fields(m, a.i - 1)))
        BY <3>2 DEF HeadPlace
      <4> QED BY <2>1, <4>1, <4>2, <4>3
    <3> QED BY <1>7, <3>1, <3>2
  <2>3. Unspoilt(m, n - 1) /\ p = J("value", k, v, f)
    BY <1>4, <2>2
  <2>4. k # <<>>
    BY <1>1, <2>1, <2>2 DEF NameWord
  <2>5. Taken(p) = IF v # <<>> THEN f \cup {Kept(k, v)} ELSE f
    BY <2>3, <2>4, TakenValue
  <2>6. n \in Nat /\ n > 0
    BY ONLY <1>1, <2>2
  <2>7. \A x \in 1..n - 1 : ReadAt(m, a, x) = m.heads[x][2]
    <3>1. \A x \in 1..n - 1 : x # a.i
      BY ONLY <2>1, <2>6
    <3> QED BY <3>1 DEF ReadAt
  <2>8. HeadersOf(m, a, n) = IF v # <<>> THEN f \cup {Kept(k, v)} ELSE f
    <3>1. HeadersOf(m, a, n) = IF v # <<>>
            THEN Fields(m, n - 1) \cup {Kept(m.heads[n][1], v)}
            ELSE Fields(m, n - 1)
      <4>1. n \in Nat
        BY <2>6
      <4>2. n > 0
        BY <2>6
      <4>3. Unspoilt(m, n - 1)
        BY <2>3
      <4>4. v = ReadAt(m, a, n)
        BY <2>1
      <4> QED BY ONLY <4>1, <4>2, <4>3, <4>4, <2>7, HeadersLast
    <3> QED BY ONLY <2>1, <3>1
  <2>9. CountAt(m, a) = n
    BY <1>7, <2>1 DEF CountAt
  <2> QED BY <2>5, <2>8, <2>9
<1>8. CASE (a.part = "crlf" /\ a.j # 0) \/ (a.part = "blank" /\ a.j = 0)
  <2>1. PICK n, f : n = a.i /\ f = Fields(m, n)
    OBVIOUS
  <2>2. n \in Nat /\ CountAt(m, a) = n /\ \E mode :
          mode # "value" /\ HeadState(m, n, p, J(mode, <<>>, <<>>, f))
    <3>1. CASE a.part = "crlf" /\ a.j # 0
      <4>1. a.j > 0
        BY ONLY <1>2, <3>1
      <4>2. HeadState(m, a.i, H(s, e + 2, Len(s)),
                      J(IF a.j = 1 THEN "cr" ELSE "key", <<>>, <<>>,
                        Fields(m, a.i)))
        BY <3>1, <4>1 DEF HeadPlace
      <4>3. CountAt(m, a) = n
        BY <2>1, <3>1 DEF CountAt
      <4> QED BY <1>2, <2>1, <4>2, <4>3
    <3>2. CASE a.part = "blank" /\ a.j = 0
      <4>1. a.i = Len(m.heads) /\ HeadState(m, a.i, H(s, e + 2, Len(s)),
                      J("key", <<>>, <<>>, Fields(m, a.i)))
        BY <3>2 DEF HeadPlace
      <4>2. CountAt(m, a) = n
        BY <2>1, <3>2, <4>1 DEF CountAt
      <4> QED BY <1>2, <2>1, <4>1, <4>2
    <3> QED BY <1>8, <3>1, <3>2
  <2>3. PICK mode :
          mode # "value" /\ HeadState(m, n, p, J(mode, <<>>, <<>>, f))
    BY <2>2
  <2>4. Unspoilt(m, n) /\ p = J(mode, <<>>, <<>>, f)
    BY <1>4, <2>3
  <2>5. Taken(p) = f
    BY <2>3, <2>4, TakenOf
  <2>6. HeadersOf(m, a, n) = f
    BY <1>3, <1>8, <2>1, <2>2, <2>4, HeadersFull
  <2> QED BY <2>2, <2>5, <2>6
<1>9. ~(a.part = "blank" /\ a.j # 0)
  <2> SUFFICES ASSUME a.part = "blank", a.j # 0 PROVE FALSE
    OBVIOUS
  <2>1. a.j \in 0..2 /\ a.j # 1
    BY DEF HeadPlace
  <2>2. a.j = 2
    BY ONLY <2>1, a.j # 0
  <2>3. FirstBlankLine(s, Len(s) - 3)
    BY <2>2 DEF HeadPlace
  <2> QED BY <2>3, BlankSomewhere
<1>10. a.part \notin {"body", "done"}
  <2> SUFFICES ASSUME a.part \in {"body", "done"} PROVE FALSE
    OBVIOUS
  <2>1. \E b : FirstBlankLine(s, b)
    BY DEF HeadPlace
  <2> QED BY <2>1, BlankSomewhere
<1> QED BY <1>5, <1>6, <1>7, <1>8, <1>9, <1>10 DEF HeadPlace

\* At the blank line: which headers are taken, and when the request is spoilt.
LEMMA HeadWhole ==
  ASSUME NEW m \in Requests, NEW a \in Spots, NEW s \in Seq(Char),
         NEW e \in 1..Len(s), NEW b \in 1..Len(s), HeadDone(m, s, e, b),
         a.part \in {"blank", "body", "done"}, NEW p,
         p = H(s, e + 2, b - 1)
  PROVE  /\ p.mode # "error" <=> Unspoilt(m, Len(m.heads) - 1)
         /\ p.mode # "error" => Taken(p) = HeadersOf(m, a, CountAt(m, a))
<1>1. /\ m.heads \in Seq(Heads) /\ Len(m.heads) \in Nat
      /\ \A i \in 1..Len(m.heads) : NameWord(m.heads[i][1])
                                    /\ FieldWord(m.heads[i][2])
  BY RequestWords
<1>2. PICK n : n = Len(m.heads)
  OBVIOUS
<1>3. CountAt(m, a) = n /\ \A x : ReadAt(m, a, x) = m.heads[x][2]
  BY <1>2 DEF CountAt, ReadAt
<1>5. CASE m.heads = <<>>
  <2>1. SubSeq(s, e + 2, b - 1) = <<>>
    <3>1. b = e
      BY <1>5 DEF HeadDone
    <3>2. e + 2 \in Int /\ b - 1 \in Int /\ b - 1 < e + 2
      BY <3>1
    <3> QED BY <3>2, SubSeqEmpty
  <2>2. p = J("key", <<>>, <<>>, {})
    <3>1. Scan(<<"head">>, <<>>) = HeadStart
      BY ScanEmpty DEF Start
    <3> QED BY <2>1, <3>1 DEF H, HeadStart, J
  <2>3. n = 0
    BY <1>2, <1>5
  <2>4. p.mode = "key" /\ Taken(p) = {}
    BY <2>2, TakenOf
  <2>5. HeadersOf(m, a, n) = {}
    BY <2>3 DEF HeadersOf
  <2>6. Unspoilt(m, n - 1)
    BY <2>3 DEF Unspoilt
  <2> QED BY <1>2, <1>3, <2>4, <2>5, <2>6
<1>6. CASE m.heads # <<>>
  <2>1. n \in Nat /\ n > 0 /\ n \in 1..Len(m.heads)
    BY <1>1, <1>2, <1>6
  <2>2. PICK k, v, f : /\ k = m.heads[n][1] /\ v = m.heads[n][2]
                       /\ f = Fields(m, n - 1)
    OBVIOUS
  <2>3. HeadState(m, n - 1, p, J("value", k, v, f))
    BY <1>2, <1>6, <2>2 DEF HeadDone
  <2>4. k # <<>>
    BY <1>1, <2>1, <2>2 DEF NameWord
  <2>5. CASE ~Unspoilt(m, n - 1)
    <3>1. p.mode = "error"
      BY <2>3, <2>5 DEF HeadState
    <3> QED BY <1>2, <2>5, <3>1
  <2>6. CASE Unspoilt(m, n - 1)
    <3>1. p = J("value", k, v, f)
      BY <2>3, <2>6 DEF HeadState
    <3>2. p.mode = "value"
          /\ Taken(p) = IF v # <<>> THEN f \cup {Kept(k, v)} ELSE f
      BY ONLY <2>4, <3>1, TakenValue
    <3>3. HeadersOf(m, a, n) = IF v # <<>> THEN f \cup {Kept(k, v)} ELSE f
      BY <1>3, <2>1, <2>2, <2>6, HeadersLast
    <3> QED BY <1>2, <1>3, <2>6, <3>2, <3>3
  <2> QED BY <2>5, <2>6
<1> QED BY <1>5, <1>6

\* The line is read when its end was.
LEMMA LineIsRead ==
  ASSUME NEW m \in Requests, NEW a \in Spots, NEW s \in Seq(Char),
         NEW e \in 1..Len(s), FirstLineEnd(s, e), HeadPlace(m, a, s, e),
         NEW line, LineKnows(m, a, line),
         PlainLine(m) => LinePlace(m, a, line),
         NEW full, FullPlace(m, a, s, full)
  PROVE  /\ line.mode # "start" /\ line.url = m.url
         /\ PlainLine(m) => LineQuery(line) = FirstWins(m.pairs)
         /\ MethodRead(m, s) /\ full.full = FullOf(m, s, e - 3)
<1>1. (a.part = "version" /\ a.j = 4) \/ a.part \in HeadParts
  BY DEF HeadPlace, HeadParts
<1>2. line.mode # "start" /\ line.url = m.url
  BY <1>1 DEF LineKnows
<1>3. ASSUME PlainLine(m) PROVE LineQuery(line) = FirstWins(m.pairs)
  <2>1. line = Closed(m)
    BY <1>1, <1>3 DEF LinePlace, HeadParts
  <2> QED BY <2>1, LineIsTrue
<1>4. MethodRead(m, s)
  BY <1>1 DEF FullPlace, HeadParts
<1>5. full.full = FullOf(m, s, e - 3)
  <2>1. CASE a.part = "version" /\ a.j = 4
    <3>1. Len(s) = e + 1
      BY <2>1 DEF HeadPlace
    <3>2. full.full = FullOf(m, s, Len(s) - a.j)
      BY <2>1 DEF FullPlace
    <3>3. Len(s) - a.j = e - 3
      BY ONLY <2>1, <3>1, e \in 1..Len(s)
    <3> QED BY <3>2, <3>3
  <2>2. CASE a.part \in HeadParts
    <3>1. PICK r \in 1..Len(s) :
            FirstLineEnd(s, r) /\ full.full = FullOf(m, s, r - 3)
      BY <2>2 DEF FullPlace
    <3>2. Find(s, CRLF) = e /\ Find(s, CRLF) = r
      BY <3>1, FindLineEnd
    <3> QED BY <3>1, <3>2
  <2> QED BY <1>1, <2>1, <2>2
<1> QED BY <1>2, <1>3, <1>4, <1>5

\* What handle_request_parse answers, of what the request says.
LEMMA TextIsTrue ==
  ASSUME NEW m \in Requests, NEW a \in Spots, NEW s \in Seq(Char),
         NEW line, line = Scan(<<"line">>, SubSeq(s, 5, Len(s))),
         LineKnows(m, a, line), PlainLine(m) => LinePlace(m, a, line),
         NEW full, full = Scan(<<"full">>, SubSeq(s, 5, Len(s))),
         FullPlace(m, a, s, full),
         TextPlace(m, a, s), NEW p, p = handle_request_parse(s),
         NEW blank, blank = Find(s, CRLF \o CRLF)
  PROVE  /\ p.st = "ok" =>
              /\ p.val.method = m.method /\ p.val.url = CheckUrl(m.url)
              /\ p.val.full_url = FullOf(m, s, Find(s, CRLF) - 3)
              /\ PlainLine(m) => p.val.queries = FirstWins(m.pairs)
              /\ p.val.headers = HeadersOf(m, a, CountAt(m, a))
              /\ blank = 0 => p.val.body = SubSeq(s, 4, Len(s))
              /\ blank # 0 => IsPrefix(p.val.body, m.body)
              /\ a.part = "done" => p.val.body = m.body
         /\ blank # 0 => (p.st = "ok" <=> Unspoilt(m, Len(m.heads) - 1))
<1>1. PICK from : from = HeaderPlace(s)
  OBVIOUS
<1>2. PICK head, body :
        /\ head = Scan(<<"head">>,
                       SubSeq(s, from, IF blank = 0 THEN Len(s)
                           ELSE blank - 1))
        /\ body = SubSeq(s, IF blank = 0 THEN 4 ELSE blank + 4, Len(s))
  OBVIOUS
<1>3. PICK me, qu, ur, fu, he :
        /\ me = Method(s) /\ qu = LineQuery(line) /\ ur = CheckUrl(line.url)
        /\ fu = full.full /\ he = Taken(head)
  OBVIOUS
<1>4. p = IF line.mode = "start" \/ from = 0 \/ head.mode = "error" THEN Error
          ELSE Ok([method |-> me, queries |-> qu, url |-> ur, full_url |-> fu,
                   headers |-> he, body |-> body])
  BY <1>1, <1>2, <1>3 DEF handle_request_parse, Taken
<1>7. ASSUME line.mode # "start", from # 0, head.mode # "error"
      PROVE  /\ p.st = "ok" /\ p.val.method = me /\ p.val.queries = qu
             /\ p.val.url = ur /\ p.val.full_url = fu
             /\ p.val.headers = he /\ p.val.body = body
  BY <1>4, <1>7 DEF Ok
<1>8. ASSUME line.mode = "start" \/ from = 0 \/ head.mode = "error"
      PROVE  p.st = "error"
  BY <1>4, <1>8 DEF Error
<1>5. CASE a.part \notin HeadParts /\ BeforeHead(m, a, s)
  <2>1. \A r \in 1..Len(s) : ~LineEnd(s, r)
    <3> SUFFICES ASSUME NEW r \in 1..Len(s), LineEnd(s, r) PROVE FALSE
      OBVIOUS
    <3>1. r + 1 \in 1..Len(s) /\ s[r + 1] = LF
      BY DEF LineEnd
    <3> QED BY <1>5, <3>1 DEF BeforeHead
  <2>2. NoBlankLine(s)
    BY <2>1 DEF NoBlankLine, BlankLine
  <2>3. from = 0 /\ blank = 0
    BY <1>1, <2>1, <2>2, FindLineEnd, FindBlankLine DEF HeaderPlace
  <2>4. p.st = "error"
    BY <1>8, <2>3
  <2> QED BY <2>3, <2>4
<1>6. ASSUME NEW e \in 1..Len(s), e >= 4, FirstLineEnd(s, e),
          HeadPlace(m, a, s, e)
      PROVE  /\ p.st = "ok" =>
                  /\ p.val.method = m.method /\ p.val.url = CheckUrl(m.url)
                  /\ p.val.full_url = FullOf(m, s, Find(s, CRLF) - 3)
                  /\ PlainLine(m) => p.val.queries = FirstWins(m.pairs)
                  /\ p.val.headers = HeadersOf(m, a, CountAt(m, a))
                  /\ blank = 0 => p.val.body = SubSeq(s, 4, Len(s))
                  /\ blank # 0 => IsPrefix(p.val.body, m.body)
                  /\ a.part = "done" => p.val.body = m.body
             /\ blank # 0 => (p.st = "ok" <=> Unspoilt(m, Len(m.heads) - 1))
  <2>1. from = e + 2 /\ from # 0 /\ Find(s, CRLF) = e
    BY <1>1, <1>6, FindLineEnd DEF HeaderPlace
  <2>2. /\ line.mode # "start" /\ line.url = m.url
        /\ (PlainLine(m) => LineQuery(line) = FirstWins(m.pairs))
        /\ MethodRead(m, s) /\ full.full = FullOf(m, s, e - 3)
    BY <1>6, LineIsRead
  <2>3. /\ me = m.method /\ ur = CheckUrl(m.url)
        /\ fu = FullOf(m, s, Find(s, CRLF) - 3)
        /\ (PlainLine(m) => qu = FirstWins(m.pairs))
    <3>1. Method(s) = m.method
      BY <2>2, MethodIs
    <3> QED BY <1>3, <2>1, <2>2, <3>1
  <2>4. /\ p.st = "ok" => head.mode # "error"
        /\ head.mode # "error" =>
             /\ p.st = "ok" /\ p.val.method = me /\ p.val.queries = qu
             /\ p.val.url = ur /\ p.val.full_url = fu
             /\ p.val.headers = he /\ p.val.body = body
    BY <1>7, <1>8, <2>1, <2>2
  <2>5. CASE NoBlankLine(s) /\ a.part # "done"
    <3>1. blank = 0
      BY <2>5, FindBlankLine
    <3>2. head = H(s, e + 2, Len(s)) /\ body = SubSeq(s, 4, Len(s))
      BY <1>2, <2>1, <3>1 DEF H
    <3>3. head.mode # "error" => he = HeadersOf(m, a, CountAt(m, a))
      BY <1>3, <1>6, <2>5, <3>2, HeadTorn
    <3> QED BY <2>3, <2>4, <2>5, <3>1, <3>2, <3>3
  <2>6. ASSUME NEW b \in 1..Len(s), NEW n \in 0..Len(m.body),
               FirstBlankLine(s, b), HeadDone(m, s, e, b),
               SubSeq(s, b + 4, Len(s)) = SubSeq(m.body, 1, n),
               a.part = "done" => n = Len(m.body),
               a.part \in {"blank", "body", "done"}
        PROVE  /\ blank # 0 /\ IsPrefix(body, m.body)
               /\ a.part = "done" => body = m.body
               /\ head.mode # "error" <=> Unspoilt(m, Len(m.heads) - 1)
               /\ head.mode # "error" => he = HeadersOf(m, a, CountAt(m, a))
    <3>1. blank = b /\ blank # 0
      BY <2>6, FindBlankLine
    <3>2. head = H(s, e + 2, b - 1) /\ body = SubSeq(m.body, 1, n)
      BY <1>2, <2>1, <2>6, <3>1 DEF H
    <3>3. /\ head.mode # "error" <=> Unspoilt(m, Len(m.heads) - 1)
          /\ head.mode # "error" => he = HeadersOf(m, a, CountAt(m, a))
      BY <1>3, <2>6, <3>2, HeadWhole
    <3>6. m.body \in Seq(Char) /\ Len(m.body) \in Nat
      BY RequestWords
    <3>7. IsPrefix(body, m.body)
      <4>1. Len(body) = n /\ Len(body) <= Len(m.body)
        BY <3>2, <3>6
      <4> QED BY <3>2, <4>1 DEF IsPrefix
    <3>8. a.part = "done" => body = m.body
      BY <2>6, <3>2, <3>6
    <3> QED BY <3>1, <3>3, <3>7, <3>8
  <2>7. ASSUME blank # 0, IsPrefix(body, m.body), a.part = "done" => body = m.body,
               head.mode # "error" <=> Unspoilt(m, Len(m.heads) - 1),
               head.mode # "error" => he = HeadersOf(m, a, CountAt(m, a))
        PROVE  /\ p.st = "ok" =>
                    /\ p.val.method = m.method /\ p.val.url = CheckUrl(m.url)
                    /\ p.val.full_url = FullOf(m, s, Find(s, CRLF) - 3)
                    /\ PlainLine(m) => p.val.queries = FirstWins(m.pairs)
                    /\ p.val.headers = HeadersOf(m, a, CountAt(m, a))
                    /\ blank = 0 => p.val.body = SubSeq(s, 4, Len(s))
                    /\ blank # 0 => IsPrefix(p.val.body, m.body)
                    /\ a.part = "done" => p.val.body = m.body
               /\ blank # 0 =>
                    (p.st = "ok" <=> Unspoilt(m, Len(m.heads) - 1))
    BY <2>3, <2>4, <2>7
  <2>8. \/ NoBlankLine(s) /\ a.part # "done"
        \/ \E b \in 1..Len(s), n \in 0..Len(m.body) :
              /\ FirstBlankLine(s, b) /\ HeadDone(m, s, e, b)
              /\ SubSeq(s, b + 4, Len(s)) = SubSeq(m.body, 1, n)
              /\ a.part = "done" => n = Len(m.body)
              /\ a.part \in {"blank", "body", "done"}
    BY <1>6, BlankFound
  <2>9. CASE \E b \in 1..Len(s), n \in 0..Len(m.body) :
              /\ FirstBlankLine(s, b) /\ HeadDone(m, s, e, b)
              /\ SubSeq(s, b + 4, Len(s)) = SubSeq(m.body, 1, n)
              /\ a.part = "done" => n = Len(m.body)
              /\ a.part \in {"blank", "body", "done"}
    <3>1. /\ blank # 0 /\ IsPrefix(body, m.body)
          /\ a.part = "done" => body = m.body
          /\ head.mode # "error" <=> Unspoilt(m, Len(m.heads) - 1)
          /\ head.mode # "error" => he = HeadersOf(m, a, CountAt(m, a))
      BY <2>6, <2>9
    <3> QED BY <2>7, <3>1
  <2> QED BY <2>5, <2>8, <2>9
<1> QED BY <1>5, <1>6 DEF TextPlace

-----------------------------------------------------------------------------
(* Every step of the sender keeps the invariant.                           *)

\* The parts of an object are characters.
LEMMA JsonPiece ==
  ASSUME NEW m \in Pairs, NEW a \in Spots, JsonSpot(m, a),
         a.j < Len(Piece(m, a))
  PROVE  Piece(m, a)[a.j + 1] \in Char
<1>1. \A i \in 1..Len(m) : KeyWord(m[i][1]) /\ ValueWord(m[i][2])
  BY PairsAreWords
<1>2. a.j \in Nat
  BY DEF Spots
<1>3. CASE a.part \in {"member", "string"}
  <2>1. a.i \in 1..Len(m)
    BY <1>3 DEF JsonSpot
  <2>2. Piece(m, a) = m[a.i][1] \/ Piece(m, a) = m[a.i][2]
    BY <1>3 DEF Piece
  <2>3. PICK w : w = Piece(m, a)
    OBVIOUS
  <2>4. Len(w) \in Nat /\ \A i \in 1..Len(w) : w[i] \in Char
    BY <1>1, <2>1, <2>2, <2>3 DEF KeyWord, ValueWord, Word
  <2>5. a.j + 1 \in 1..Len(w)
    BY <1>2, <2>3, <2>4
  <2> QED BY <2>3, <2>4, <2>5
<1>4. CASE a.part = "is"
  <2>1. Piece(m, a) = <<QUOTE, ":", QUOTE>>
    BY <1>4 DEF Piece
  <2>2. a.j + 1 \in 1..3
    BY <1>2, <2>1
  <2>3. \A i \in 1..3 : <<QUOTE, ":", QUOTE>>[i] \in Marks
    BY DEF Marks
  <2> QED BY <2>1, <2>2, <2>3, Characters
<1>5. CASE a.part \in {"brace", "open", "shut", "comma", "end"}
  <2>1. \E c \in Marks : Piece(m, a) = <<c>>
    <3>1. CASE a.part = "brace"
      <4>1. Piece(m, a) = <<LBRACE>>
        BY <3>1 DEF Piece
      <4> QED BY <4>1 DEF Marks
    <3>2. CASE a.part \in {"open", "shut"}
      <4>1. Piece(m, a) = <<QUOTE>>
        BY <3>2 DEF Piece
      <4> QED BY <4>1 DEF Marks
    <3>3. CASE a.part = "comma"
      <4>1. Piece(m, a) = <<COMMA>>
        BY <3>3 DEF Piece
      <4> QED BY <4>1 DEF Marks
    <3>4. CASE a.part = "end"
      <4>1. Piece(m, a) = <<RBRACE>>
        BY <3>4 DEF Piece
      <4> QED BY <4>1 DEF Marks
    <3> QED BY <1>5, <3>1, <3>2, <3>3, <3>4
  <2>2. PICK c \in Marks : Piece(m, a) = <<c>>
    BY <2>1
  <2>3. a.j + 1 = 1
    BY <1>2, <2>2
  <2> QED BY <2>2, <2>3, Characters
<1>6. a.part # "done"
  <2>1. a.part = "done" => Piece(m, a) = <<>>
    BY DEF Piece
  <2> QED BY <1>2, <2>1
<1> QED BY <1>3, <1>4, <1>5, <1>6 DEF JsonSpot

\* The parts of a request are characters.
LEMMA RequestPiece ==
  ASSUME NEW m \in Requests, NEW a \in Spots, LineSpot(m, a),
         NEW s, TextPlace(m, a, s), a.j < Len(Piece(m, a))
  PROVE  Piece(m, a)[a.j + 1] \in Char
<1>1. /\ \A i \in 1..Len(m.pairs) : KeyWord(m.pairs[i][1])
                                    /\ ValueWord(m.pairs[i][2])
      /\ UrlWord(m.url) /\ MethodWord(m.method)
      /\ \A i \in 1..Len(m.heads) : NameWord(m.heads[i][1])
                                    /\ FieldWord(m.heads[i][2])
      /\ m.body \in Seq(Char)
  BY RequestWords, PairsAreWords
<1>2. a.j \in Nat
  BY DEF Spots
<1>3. PICK w : w = Piece(m, a)
  OBVIOUS
<1>4. ASSUME Len(w) \in Nat, \A i \in 1..Len(w) : w[i] \in Char
      PROVE  Piece(m, a)[a.j + 1] \in Char
  <2>1. a.j + 1 \in 1..Len(w)
    BY <1>2, <1>3, <1>4
  <2> QED BY <1>3, <1>4, <2>1
<1>5. CASE a.part \in {"key", "value"}
  <2>1. a.i \in 1..Len(m.pairs)
    BY <1>5 DEF LineSpot, HeadParts
  <2>2. w = m.pairs[a.i][1] \/ w = m.pairs[a.i][2]
    BY <1>3, <1>5 DEF Piece
  <2>3. Len(w) \in Nat /\ \A i \in 1..Len(w) : w[i] \in Char
    BY <1>1, <2>1, <2>2 DEF KeyWord, ValueWord, Word
  <2> QED BY <1>4, <2>3
<1>6. CASE a.part \in {"name", "field"}
  <2>1. a.i \in 1..Len(m.heads)
    BY <1>6 DEF TextPlace, HeadPlace, HeadParts
  <2>2. w = m.heads[a.i][1] \/ w = m.heads[a.i][2]
    BY <1>3, <1>6 DEF Piece
  <2>3. Len(w) \in Nat /\ \A i \in 1..Len(w) : w[i] \in Char
    BY <1>1, <2>1, <2>2 DEF NameWord, FieldWord, Word
  <2> QED BY <1>4, <2>3
<1>7. CASE a.part \in {"url", "body"}
  <2>1. w = m.url \/ w = m.body
    BY <1>3, <1>7 DEF Piece
  <2>2. Len(w) \in Nat /\ \A i \in 1..Len(w) : w[i] \in Char
    BY <1>1, <2>1 DEF UrlWord, Word
  <2> QED BY <1>4, <2>2
<1>8. CASE a.part = "method"
  <2>1. w = Append(m.method, SPACE)
    BY <1>3, <1>8 DEF Piece
  <2>2. m.method \in Seq(Char) /\ SPACE \in Char
    BY <1>1, Characters DEF MethodWord, Word, Marks
  <2>3. Len(w) \in Nat /\ \A i \in 1..Len(w) : w[i] \in Char
    BY <2>1, <2>2
  <2> QED BY <1>4, <2>3
<1>9. CASE a.part \in {"mark", "equals", "colon"}
  <2>1. \E c \in Marks : w = <<c>>
    <3>1. CASE a.part = "mark"
      <4>1. w = <<"?">> \/ w = <<"&">>
        BY <1>3, <3>1 DEF Piece
      <4> QED BY ONLY <4>1 DEF Marks
    <3>2. CASE a.part = "equals"
      <4>1. w = <<"=">>
        BY <1>3, <3>2 DEF Piece
      <4> QED BY ONLY <4>1 DEF Marks
    <3>3. CASE a.part = "colon"
      <4>1. w = <<":">>
        BY <1>3, <3>3 DEF Piece
      <4> QED BY ONLY <4>1 DEF Marks
    <3> QED BY <1>9, <3>1, <3>2, <3>3
  <2>2. PICK c \in Marks : w = <<c>>
    BY <2>1
  <2>3. Len(w) \in Nat /\ \A i \in 1..Len(w) : w[i] \in Char
    BY <2>2, Characters
  <2> QED BY <1>4, <2>3
<1>10. CASE a.part \in {"crlf", "blank"}
  <2>1. w = <<CR, LF>> /\ CR \in Char /\ LF \in Char
    BY <1>3, <1>10, Characters DEF Piece, CRLF, Marks
  <2>2. Len(w) \in Nat /\ \A i \in 1..Len(w) : w[i] \in Char
    BY <2>1
  <2> QED BY <1>4, <2>2
<1>11. CASE a.part = "version"
  <2>1. w = <<SPACE, "H", CR, LF>>
    BY <1>3, <1>11 DEF Piece
  <2>2. SPACE \in Char /\ "H" \in Char /\ CR \in Char /\ LF \in Char
    BY Characters DEF Marks
  <2>3. Len(w) \in Nat /\ \A i \in 1..Len(w) : w[i] \in Char
    BY <2>1, <2>2
  <2> QED BY <1>4, <2>3
<1>12. a.part # "done"
  <2>1. a.part = "done" => Piece(m, a) = <<>>
    BY DEF Piece
  <2> QED BY <1>2, <2>1
<1> QED BY <1>5, <1>6, <1>7, <1>8, <1>9, <1>10, <1>11, <1>12
     DEF LineSpot, HeadParts

\* The loop over a plain request line begins at the fifth character, which is
\* the space after the method or the first character of the url.
LEMMA LineScan ==
  ASSUME NEW m \in Requests, PlainLine(m), NEW a \in Spots,
         a.j < Len(Piece(m, a)),
         NEW s, NEW c, NEW t, Longer(s, c, t), c = Piece(m, a)[a.j + 1],
         LinePlace(m, a, Scan(<<"line">>, SubSeq(s, 5, Len(s)))),
         TextPlace(m, a, s)
  PROVE  LinePlace(m, [a EXCEPT !.j = @ + 1],
                   Scan(<<"line">>, SubSeq(t, 5, Len(t))))
<1>1. PICK p : p = Scan(<<"line">>, SubSeq(s, 5, Len(s)))
  OBVIOUS
<1>2. Len(s) \in Nat
  BY DEF Longer
<1>3. /\ Len(s) >= 4 =>
           Scan(<<"line">>, SubSeq(t, 5, Len(t))) = LineChar(p, c)
      /\ Len(s) < 4 => Scan(<<"line">>, SubSeq(t, 5, Len(t))) = LineStart
  <2>1. \A q, d : Step(<<"line">>, q, d) = LineChar(q, d)
    BY DEF Step
  <2>2. Start(<<"line">>) = LineStart
    BY DEF Start
  <2> QED BY <1>1, <2>1, <2>2, FifthStep
<1>6. PlainPairs(m) /\ Len(m.method) <= 4
  <2>1. m.pairs \in Seq(Keys \X Values)
    BY RequestWords, PairsAreWords
  <2>2. DOMAIN m.pairs = 1..Len(m.pairs)
    BY <2>1
  <2> QED BY <2>2 DEF PlainLine, PlainPairs
<1>4. CASE a.part # "method"
  <2>1. Len(s) >= 4
    BY <1>2, <1>4, FourRead
  <2>2. LinePlace(m, [a EXCEPT !.j = @ + 1], LineChar(p, c))
    BY <1>1, <1>4, <1>6, LineArrives
  <2> QED BY <1>3, <2>1, <2>2
<1>5. CASE a.part = "method"
  <2>0. /\ Len(m.method) \in Nat /\ a.j \in 0..Len(m.method)
        /\ (a.j = Len(m.method) => c = SPACE)
    BY <1>5, MethodPiece
  <2>1. Len(s) = a.j /\ a.i = 0 /\ a.j \in Nat /\ p = LineStart
    <3>1. a.i = 0 /\ p = LineStart
      BY <1>1, <1>5 DEF LinePlace, HeadParts
    <3>2. Len(s) = a.j
      BY <1>5 DEF TextPlace, BeforeHead, HeadPlace
    <3> QED BY <3>1, <3>2 DEF Spots
  <2>4. Scan(<<"line">>, SubSeq(t, 5, Len(t))) = LineStart
    <3>1. CASE Len(s) < 4
      BY <1>3, <3>1
    <3>2. CASE Len(s) >= 4
      <4>1. a.j = Len(m.method)
        BY ONLY <1>6, <2>0, <2>1, <3>2
      <4>2. c = SPACE
        BY <2>0, <4>1
      <4>3. LineChar(LineStart, SPACE) = LineStart
        <5>1. PICK q : q = LineStart
          OBVIOUS
        <5>2. q.mode = "start" /\ q.loop = "runs"
          BY <5>1 DEF LineStart
        <5>3. LineChar(q, SPACE) = q
          BY <5>2, Characters DEF LineChar
        <5> QED BY <5>1, <5>3
      <4> QED BY <1>3, <2>1, <3>2, <4>2, <4>3
    <3>3. Len(s) < 4 \/ Len(s) >= 4
      BY ONLY <1>2
    <3> QED BY <3>1, <3>2, <3>3
  <2>5. PICK b : b = [a EXCEPT !.j = @ + 1]
    OBVIOUS
  <2>6. b.part = "method" /\ b.i = 0 /\ b.j = a.j + 1
    BY <1>5, <2>1, <2>5 DEF Spots
  <2>7. b.j \in 0..Len(m.method) + 1
    BY ONLY <2>0, <2>6
  <2>8. LinePlace(m, b, LineStart)
    BY <2>6, <2>7 DEF LinePlace
  <2> QED BY <2>4, <2>5, <2>8
<1> QED BY <1>4, <1>5

\* The first state.
LEMMA TornInit == Init => TornInv
<1> SUFFICES ASSUME Init PROVE TornInv
  OBVIOUS
<1>1. text = <<>> /\ text \in Seq(Char) /\ Len(text) = 0
  BY DEF Init
<1>2. CASE kind \in {"ipv6", "ipv4"} /\ at = To("done", 0)
  <2>1. at \in Spots
    BY <1>2, ToSpot DEF Parts
  <2> QED BY <1>1, <1>2, <2>1 DEF TornInv
<1>3. CASE kind = "json" /\ msg \in Pairs /\ at = To("brace", 0)
  <2>1. at \in Spots /\ at.part = "brace" /\ at.i = 0 /\ at.j = 0
    BY <1>3, ToSpot DEF Parts
  <2>2. Scan(<<"json">>, text) = JsonStart
    BY <1>1, ScanEmpty DEF Start
  <2>3. JsonStart = J("pre_key", <<>>, <<>>, First(msg, 0))
    BY FirstEmpty DEF JsonStart, J
  <2>4. JsonPlace(msg, at, Scan(<<"json">>, text))
    BY <2>1, <2>2, <2>3 DEF JsonPlace
  <2>5. JsonSpot(msg, at)
    BY <2>1 DEF JsonSpot
  <2> QED BY <1>1, <1>3, <2>1, <2>4, <2>5 DEF TornInv
<1>4. CASE kind = "request" /\ msg \in Requests /\ at = To("method", 0)
  <2>1. at \in Spots /\ at.part = "method" /\ at.i = 0 /\ at.j = 0
    BY <1>4, ToSpot DEF Parts
  <2>2. /\ Scan(<<"line">>, SubSeq(text, 5, Len(text))) = LineStart
        /\ Scan(<<"full">>, SubSeq(text, 5, Len(text))) = FullStart
    <3>1. SubSeq(text, 5, Len(text)) = <<>>
      BY <1>1
    <3>2. Scan(<<"line">>, <<>>) = LineStart
      BY ScanEmpty DEF Start
    <3>3. Scan(<<"full">>, <<>>) = FullStart
      BY ScanEmpty DEF Start
    <3> QED BY <3>1, <3>2, <3>3
  <2>3. LinePlace(msg, at, LineStart) /\ LineSpot(msg, at)
    <3>1. Len(msg.method) \in Nat
      BY <1>4, RequestWords DEF MethodWord, Word
    <3>2. 0 \in 0..Len(msg.method) + 1
      BY <3>1
    <3> QED BY <2>1, <3>2 DEF LinePlace, LineSpot
  <2>5. LineKnows(msg, at, LineStart)
    BY <2>1 DEF LineKnows, LineStart, IsLine, L, HeadParts
  <2>6. FullPlace(msg, at, text, FullStart)
    <3>1. PICK w : w = msg.method
      OBVIOUS
    <3>2. w \in Seq(Char) /\ Len(w) \in Nat
      BY <1>4, <3>1, RequestWords DEF MethodWord, Word
    <3>3. SubSeq(w, 5, 0) = <<>> /\ 0 <= Len(w) /\ 0 # Len(w) + 1
          /\ 0 <= Len(w) + 1
      BY <3>2
    <3>4. FullStart.mode = "start" /\ FullStart.full = <<>>
          /\ FullStart = [mode |-> FullStart.mode, full |-> FullStart.full]
      BY DEF FullStart
    <3>5. \A x \in 1..0 : FALSE
      OBVIOUS
    <3> QED BY <1>1, <2>1, <3>1, <3>3, <3>4, <3>5 DEF FullPlace, HeadParts
  <2>7. LinesOk(msg, at, text)
    BY <2>2, <2>3, <2>5, <2>6 DEF LinesOk
  <2>4. TextPlace(msg, at, text)
    BY <1>1, <2>1 DEF TextPlace, BeforeHead, HeadParts
  <2> QED BY <1>1, <1>4, <2>1, <2>3, <2>4, <2>7 DEF TornInv
<1> QED BY <1>2, <1>3, <1>4 DEF Init

\* A character arrives.
LEMMA TornArrives == TornInv /\ Arrives /\ UNCHANGED <<kind, msg>> => TornInv'
<1> SUFFICES ASSUME TornInv, Arrives, UNCHANGED <<kind, msg>> PROVE TornInv'
  OBVIOUS
<1>1. PICK c : c = Piece(msg, at)[at.j + 1]
  OBVIOUS
<1>2. text' = Append(text, c) /\ at' = [at EXCEPT !.j = @ + 1]
      /\ at.j < Len(Piece(msg, at))
  BY <1>1 DEF Arrives
<1>3. at \in Spots /\ text \in Seq(Char)
  BY DEF TornInv
<1>4. at' \in Spots
  BY <1>2, <1>3 DEF Spots
<1>5. CASE kind = "json"
  <2>1. /\ msg \in Pairs /\ JsonSpot(msg, at)
        /\ \/ JsonPlace(msg, at, Scan(<<"json">>, text))
           \/ Refused(msg, Scan(<<"json">>, text))
    BY <1>5 DEF TornInv
  <2>2. c \in Char
    BY <1>1, <1>2, <1>3, <2>1, JsonPiece
  <2>3. Scan(<<"json">>, Append(text, c))
            = Step(<<"json">>, Scan(<<"json">>, text), c)
    BY <1>3, <2>2, ScanAppend
  <2>4. \A q, d : Step(<<"json">>, q, d) = JsonChar(q, d)
    BY DEF Step
  <2>5. PICK p, q : p = Scan(<<"json">>, text) /\ q = JsonChar(p, c)
    OBVIOUS
  <2>6. Scan(<<"json">>, text') = q
    BY <1>2, <2>3, <2>4, <2>5
  <2>7. text' \in Seq(Char)
    BY <1>2, <1>3, <2>2
  <2>8. JsonPlace(msg, at', q) \/ Refused(msg, q)
    <3>1. CASE JsonPlace(msg, at, p)
      BY <1>1, <1>2, <1>3, <2>1, <2>5, <3>1, JsonArrives
    <3>2. CASE Refused(msg, p)
      BY <2>5, <3>2, RefusedStays
    <3> QED BY <2>1, <2>5, <3>1, <3>2
  <2>9. JsonSpot(msg, at')
    <3>1. at'.part = at.part /\ at'.i = at.i
      BY <1>2, <1>3 DEF Spots
    <3> QED BY <2>1, <3>1 DEF JsonSpot
  <2> QED BY <1>4, <1>5, <2>1, <2>6, <2>7, <2>8, <2>9 DEF TornInv
<1>6. CASE kind = "request"
  <2>1. /\ msg \in Requests /\ LineSpot(msg, at) /\ TextPlace(msg, at, text)
        /\ LinesOk(msg, at, text)
    BY <1>6 DEF TornInv
  <2>2. c \in Char
    BY <1>1, <1>2, <1>3, <2>1, RequestPiece
  <2>3. Longer(text, c, text')
    BY <1>2, <1>3, <2>2, AppendIsLonger
  <2>4. TextPlace(msg, at', text')
    BY <1>1, <1>2, <1>3, <2>1, <2>3, TextArrives
  <2>5. LinesOk(msg, at', text')
    <3>1. ASSUME PlainLine(msg)
          PROVE  LinePlace(msg, at',
                           Scan(<<"line">>, SubSeq(text', 5, Len(text'))))
      <4>1. LinePlace(msg, at, Scan(<<"line">>, SubSeq(text, 5, Len(text))))
        BY <2>1, <3>1 DEF LinesOk
      <4> QED BY <1>1, <1>2, <1>3, <2>1, <2>3, <3>1, <4>1, LineScan
    <3>2. LineKnows(msg, at', Scan(<<"line">>, SubSeq(text', 5, Len(text'))))
      <4>1. LineKnows(msg, at, Scan(<<"line">>, SubSeq(text, 5, Len(text))))
        BY <2>1 DEF LinesOk
      <4> QED BY <1>1, <1>2, <1>3, <2>1, <2>3, <4>1, LineKnowsScan
    <3>3. FullPlace(msg, at', text',
                    Scan(<<"full">>, SubSeq(text', 5, Len(text'))))
      <4>1. FullPlace(msg, at, text,
                      Scan(<<"full">>, SubSeq(text, 5, Len(text))))
        BY <2>1 DEF LinesOk
      <4> QED BY <1>1, <1>2, <1>3, <2>1, <2>3, <4>1, FullScan
    <3> QED BY <3>1, <3>2, <3>3 DEF LinesOk
  <2>6. text' \in Seq(Char)
    BY <2>3 DEF Longer
  <2>7. LineSpot(msg, at')
    <3>1. at'.part = at.part /\ at'.i = at.i
      BY <1>2, <1>3 DEF Spots
    <3> QED BY <2>1, <3>1 DEF LineSpot
  <2> QED BY <1>4, <1>6, <2>1, <2>4, <2>5, <2>6, <2>7 DEF TornInv
<1>7. CASE kind \notin {"json", "request"}
  <2>1. at = To("done", 0)
    BY <1>7 DEF TornInv
  <2>2. at.part = "done" /\ at.j = 0
    BY <2>1, ToSpot DEF Parts
  <2>3. Piece(msg, at) = <<>>
    BY <2>2 DEF Piece
  <2> QED BY <1>2, <2>2, <2>3
<1> QED BY <1>5, <1>6, <1>7

\* The next part.
LEMMA TornTurn == TornInv /\ Turn /\ UNCHANGED <<kind, msg>> => TornInv'
<1> SUFFICES ASSUME TornInv, Turn, UNCHANGED <<kind, msg>> PROVE TornInv'
  OBVIOUS
<1>1. at.j = Len(Piece(msg, at)) /\ at.part # "done"
      /\ at' = Following(msg, at) /\ text' = text
  BY DEF Turn
<1>2. at \in Spots /\ text \in Seq(Char)
  BY DEF TornInv
<1>3. CASE kind = "json"
  <2>1. /\ msg \in Pairs /\ JsonSpot(msg, at)
        /\ \/ JsonPlace(msg, at, Scan(<<"json">>, text))
           \/ Refused(msg, Scan(<<"json">>, text))
    BY <1>3 DEF TornInv
  <2>2. at' \in Spots /\ JsonSpot(msg, at')
    BY <1>1, <1>2, <2>1, JsonSpotTurns
  <2>3. ASSUME JsonPlace(msg, at, Scan(<<"json">>, text))
        PROVE  JsonPlace(msg, at', Scan(<<"json">>, text))
    BY <1>1, <1>2, <2>1, <2>3, JsonTurns
  <2> QED BY <1>1, <1>2, <1>3, <2>1, <2>2, <2>3 DEF TornInv
<1>4. CASE kind = "request"
  <2>1. /\ msg \in Requests /\ LineSpot(msg, at) /\ TextPlace(msg, at, text)
        /\ LinesOk(msg, at, text)
    BY <1>4 DEF TornInv
  <2>2. at' \in Spots /\ LineSpot(msg, at')
    BY <1>1, <1>2, <2>1, LineSpotTurns
  <2>3. TextPlace(msg, at', text)
    BY <1>1, <1>2, <2>1, TextTurns
  <2>4. LinesOk(msg, at', text)
    <3>1. PICK p, q : /\ p = Scan(<<"line">>, SubSeq(text, 5, Len(text)))
                      /\ q = Scan(<<"full">>, SubSeq(text, 5, Len(text)))
      OBVIOUS
    <3>2. /\ PlainLine(msg) => LinePlace(msg, at, p)
          /\ LineKnows(msg, at, p) /\ FullPlace(msg, at, text, q)
      BY <2>1, <3>1 DEF LinesOk
    <3>3. PlainLine(msg) => LinePlace(msg, at', p)
      BY <1>1, <1>2, <2>1, <3>2, LineTurns
    <3>4. LineKnows(msg, at', p)
      BY <1>1, <1>2, <2>1, <3>2, LineKnowsTurns
    <3>5. FullPlace(msg, at', text, q)
      BY <1>1, <1>2, <2>1, <3>2, FullTurns
    <3> QED BY <3>1, <3>3, <3>4, <3>5 DEF LinesOk
  <2> QED BY <1>1, <1>2, <1>4, <2>1, <2>2, <2>3, <2>4 DEF TornInv
<1>5. CASE kind \notin {"json", "request"}
  <2>1. at.part = "done"
    BY <1>5, ToSpot DEF TornInv, Parts
  <2> QED BY <1>1, <2>1
<1> QED BY <1>3, <1>4, <1>5

\* A character of an address: neither a request nor an object arrives.
LEMMA TornAddress ==
  ASSUME NEW k \in {"ipv6", "ipv4"}, NEW chars \in SUBSET STRING
  PROVE  TornInv /\ Address(k, chars) /\ UNCHANGED <<kind, msg>> => TornInv'
<1> SUFFICES ASSUME TornInv, Address(k, chars), UNCHANGED <<kind, msg>>
             PROVE  TornInv'
  OBVIOUS
<1>1. kind = k /\ at' = at /\ kind' = kind
  BY DEF Address
<1>2. text' \in Seq(Char)
  <2>1. PICK c \in chars : text' = Append(text, c)
    BY DEF Address
  <2>2. c \in Char /\ text \in Seq(Char)
    BY DEF Char, TornInv
  <2> QED BY <2>1, <2>2
<1>3. kind' \notin {"json", "request"}
  BY <1>1
<1>4. at' = To("done", 0) /\ at' \in Spots
  BY <1>1, <1>3 DEF TornInv
<1> QED BY <1>2, <1>3, <1>4 DEF TornInv

\* Every step keeps the invariant.
LEMMA TornNext == TornInv /\ [Next]_vars => TornInv'
<1> SUFFICES ASSUME TornInv, [Next]_vars PROVE TornInv'
  OBVIOUS
<1>1. Alphabet6 \in SUBSET STRING /\ Alphabet4 \in SUBSET STRING
  BY TextAssumption
<1>2. CASE Address("ipv6", Alphabet6) /\ UNCHANGED <<kind, msg>>
  BY <1>1, <1>2, TornAddress
<1>3. CASE Address("ipv4", Alphabet4) /\ UNCHANGED <<kind, msg>>
  BY <1>1, <1>3, TornAddress
<1>4. CASE Arrives /\ UNCHANGED <<kind, msg>>
  BY <1>4, TornArrives
<1>5. CASE Turn /\ UNCHANGED <<kind, msg>>
  BY <1>5, TornTurn
<1>6. CASE UNCHANGED vars
  BY <1>6 DEF vars, TornInv
<1> QED BY <1>2, <1>3, <1>4, <1>5, <1>6 DEF Next

\* The invariant says what the parsers answer.
LEMMA TornInvIsEnough == TornInv => TornTextIsOwn
<1> SUFFICES ASSUME TornInv PROVE TornTextIsOwn
  OBVIOUS
<1>1. at \in Spots /\ text \in Seq(Char)
  BY DEF TornInv
<1>2. ASSUME kind = "json", NEW p, p = parse_simple_json(text)
      PROVE  /\ p.st = "ok" =>
                  /\ DOMAIN p.val \subseteq DOMAIN FirstWins(msg)
                  /\ \A k \in DOMAIN p.val : p.val[k] = FirstWins(msg)[k]
                  /\ at.part = "done" => p.val = FirstWins(msg)
             /\ p.st # "ok" => \E i \in DOMAIN msg : msg[i][2] = <<>>
  <2>1. /\ msg \in Pairs
        /\ \/ JsonPlace(msg, at, Scan(<<"json">>, text))
           \/ Refused(msg, Scan(<<"json">>, text))
    BY <1>2 DEF TornInv
  <2>2. CASE JsonPlace(msg, at, Scan(<<"json">>, text))
    BY <1>1, <1>2, <2>1, <2>2, JsonIsTrue
  <2>3. CASE Refused(msg, Scan(<<"json">>, text))
    BY <1>2, <2>1, <2>3, RefusedForEmpty
  <2> QED BY <2>1, <2>2, <2>3
<1>3. ASSUME kind = "request", NEW p, p = handle_request_parse(text),
             NEW blank, blank = Find(text, CRLF \o CRLF)
      PROVE  /\ p.st = "ok" =>
                  /\ p.val.method = msg.method /\ p.val.url = CheckUrl(msg.url)
                  /\ p.val.full_url = FullOf(msg, text, Find(text, CRLF) - 3)
                  /\ PlainLine(msg) => p.val.queries = FirstWins(msg.pairs)
                  /\ p.val.headers = HeadersRead
                  /\ blank = 0 => p.val.body = SubSeq(text, 4, Len(text))
                  /\ blank # 0 => IsPrefix(p.val.body, msg.body)
                  /\ at.part = "done" => p.val.body = msg.body
             /\ blank # 0 => (p.st = "ok" <=>
                  \A i \in 1..Len(msg.heads) - 1 : msg.heads[i][2] # <<>>)
  <2>1. /\ msg \in Requests /\ TextPlace(msg, at, text)
        /\ LinesOk(msg, at, text)
    BY <1>3 DEF TornInv
  <2>2. HeadersRead = HeadersOf(msg, at, CountAt(msg, at))
    BY DEF HeadersRead, ReadOf, HeadersOf, CountAt, ReadAt, Kept
  <2>3. PICK line, full :
          /\ line = Scan(<<"line">>, SubSeq(text, 5, Len(text)))
          /\ full = Scan(<<"full">>, SubSeq(text, 5, Len(text)))
    OBVIOUS
  <2>4. /\ PlainLine(msg) => LinePlace(msg, at, line)
        /\ LineKnows(msg, at, line) /\ FullPlace(msg, at, text, full)
    BY <2>1, <2>3 DEF LinesOk
  <2>5. /\ p.st = "ok" =>
             /\ p.val.method = msg.method /\ p.val.url = CheckUrl(msg.url)
             /\ p.val.full_url = FullOf(msg, text, Find(text, CRLF) - 3)
             /\ PlainLine(msg) => p.val.queries = FirstWins(msg.pairs)
             /\ p.val.headers = HeadersOf(msg, at, CountAt(msg, at))
             /\ blank = 0 => p.val.body = SubSeq(text, 4, Len(text))
             /\ blank # 0 => IsPrefix(p.val.body, msg.body)
             /\ at.part = "done" => p.val.body = msg.body
        /\ blank # 0 =>
             (p.st = "ok" <=> Unspoilt(msg, Len(msg.heads) - 1))
    BY <1>1, <1>3, <2>1, <2>3, <2>4, TextIsTrue
  <2>6. Unspoilt(msg, Len(msg.heads) - 1) <=>
          \A i \in 1..Len(msg.heads) - 1 : msg.heads[i][2] # <<>>
    BY DEF Unspoilt
  <2> QED BY <2>2, <2>5, <2>6
<1> QED BY <1>2, <1>3 DEF TornTextIsOwn, FullOf

\* What parse_simple_json and handle_request_parse (http.cc:1138-1305 and
\* 1307-1363) read from the beginning of an object or of a request, wherever
\* read() stopped and however many pairs and headers there are: TornTextIsOwn,
\* with the values that may be cut short or empty and the methods that may be
\* long.
THEOREM TornText == Spec => []TornTextIsOwn
<1>1. Init => TornInv
  BY TornInit
<1>2. TornInv /\ [Next]_vars => TornInv'
  BY TornNext
<1>3. TornInv => TornTextIsOwn
  BY TornInvIsEnough
<1> QED BY <1>1, <1>2, <1>3, PTL DEF Spec

-----------------------------------------------------------------------------
(* Induction over a sequence.                                              *)

\* What holds of the empty sequence, and of one more element, holds of every
\* sequence.
LEMMA SeqInduction ==
  ASSUME NEW S, NEW T, <<>> \in T,
         \A s \in Seq(S), c \in S : s \in T => Append(s, c) \in T
  PROVE  Seq(S) \subseteq T
<1> DEFINE N == {n \in Nat : \A s \in Seq(S) : Len(s) = n => s \in T}
<1>1. 0 \in N
  <2>1. \A s \in Seq(S) : Len(s) = 0 => s = <<>>
    OBVIOUS
  <2> QED BY <2>1
<1>2. ASSUME NEW n \in Nat, n \in N PROVE n + 1 \in N
  <2> SUFFICES ASSUME NEW s \in Seq(S), Len(s) = n + 1 PROVE s \in T
    OBVIOUS
  <2>1. PICK f : f = SubSeq(s, 1, n)
    OBVIOUS
  <2>2. f \in Seq(S) /\ Len(f) = n
    BY <2>1
  <2>3. s[n + 1] \in S
    OBVIOUS
  <2>4. s = Append(f, s[n + 1])
    <3>1. PICK g : g = Append(f, s[n + 1])
      OBVIOUS
    <3>2. /\ g \in Seq(S) /\ Len(g) = n + 1 /\ g[n + 1] = s[n + 1]
          /\ \A i \in 1..n : g[i] = f[i]
      BY <2>2, <2>3, <3>1
    <3>3. \A i \in 1..n : f[i] = s[i]
      BY <2>1
    <3>4. ASSUME NEW i \in 1..n + 1 PROVE g[i] = s[i]
      <4>1. CASE i \in 1..n
        BY <3>2, <3>3, <4>1
      <4>2. CASE i = n + 1
        BY <3>2, <4>2
      <4> QED BY <4>1, <4>2
    <3> QED BY <3>1, <3>2, <3>4
  <2>5. f \in T
    BY <1>2, <2>2
  <2> QED BY <2>2, <2>3, <2>4, <2>5
<1>3. Nat \subseteq N
  <2> HIDE DEF N
  <2> QED BY <1>1, <1>2, Induction
<1>4. \A s \in Seq(S) : Len(s) \in N
  BY <1>3
<1> QED BY <1>4

-----------------------------------------------------------------------------
(* Split and JoinSeqs.                                                     *)

\* Split over one more character.
LEMMA SplitSteps ==
  ASSUME NEW S, NEW sep, NEW s \in Seq(S), NEW c \in S
  PROVE  /\ Split(<<>>, sep) = <<(<<>>)>>
         /\ Split(Append(s, c), sep) = SplitChar(Split(s, sep), c, sep)
<1>1. Scan(<<"split", sep>>, <<>>) = Start(<<"split", sep>>)
  BY ScanEmpty
<1>2. Start(<<"split", sep>>) = <<(<<>>)>>
  BY DEF Start
<1>3. Scan(<<"split", sep>>, Append(s, c))
        = Step(<<"split", sep>>, Scan(<<"split", sep>>, s), c)
  BY ScanAppend
<1>4. \A p, d : Step(<<"split", sep>>, p, d) = SplitChar(p, d, sep)
  BY DEF Step
<1> QED BY <1>1, <1>2, <1>3, <1>4 DEF Split

\* The segments of a text do not hold the separator; together with it they
\* hold the characters of the text.
LEMMA SplitTyped ==
  ASSUME NEW S, NEW sep, NEW s \in Seq(S)
  PROVE  /\ Split(s, sep) \in Seq(Seq(S \ {sep})) /\ Len(Split(s, sep)) > 0
<1> DEFINE T == {x \in Seq(S) : /\ Split(x, sep) \in Seq(Seq(S \ {sep}))
                                /\ Len(Split(x, sep)) > 0}
<1>1. <<>> \in T
  <2>1. Split(<<>>, sep) = <<(<<>>)>>
    BY ScanEmpty DEF Split, Start
  <2>2. PICK p : p = <<(<<>>)>>
    OBVIOUS
  <2>3. p \in Seq(Seq(S \ {sep})) /\ Len(p) > 0
    <3>1. <<>> \in Seq(S \ {sep})
      OBVIOUS
    <3> QED BY <2>2, <3>1
  <2>4. <<>> \in Seq(S)
    OBVIOUS
  <2> QED BY <2>1, <2>2, <2>3, <2>4
<1>2. ASSUME NEW x \in Seq(S), NEW c \in S, x \in T PROVE Append(x, c) \in T
  <2>1. PICK p : p = Split(x, sep)
    OBVIOUS
  <2>2. p \in Seq(Seq(S \ {sep})) /\ Len(p) > 0
    BY <1>2, <2>1
  <2>3. Split(Append(x, c), sep) = SplitChar(p, c, sep)
    BY <2>1, SplitSteps
  <2>4. SplitChar(p, c, sep) \in Seq(Seq(S \ {sep}))
        /\ Len(SplitChar(p, c, sep)) > 0
    <3>1. CASE c = sep
      <4>1. SplitChar(p, c, sep) = Append(p, <<>>) /\ <<>> \in Seq(S \ {sep})
        BY <3>1 DEF SplitChar
      <4> QED BY <2>2, <4>1
    <3>2. CASE c # sep
      <4>1. p[Len(p)] \in Seq(S \ {sep}) /\ c \in S \ {sep}
        BY <2>2, <3>2
      <4>2. Append(p[Len(p)], c) \in Seq(S \ {sep})
        BY <4>1
      <4>3. SplitChar(p, c, sep) = [p EXCEPT ![Len(p)] = Append(p[Len(p)], c)]
        BY <3>2 DEF SplitChar
      <4> QED BY <2>2, <4>2, <4>3
    <3> QED BY <3>1, <3>2
  <2>5. Append(x, c) \in Seq(S)
    OBVIOUS
  <2> QED BY <2>3, <2>4, <2>5
<1>3. Seq(S) \subseteq T
  <2> HIDE DEF T
  <2> QED BY <1>1, <1>2, SeqInduction
<1> QED BY <1>3

\* One more character: a new segment, or a longer last one.
MoreSegments(S, p, q, c, sep) ==
  /\ p \in Seq(Seq(S)) /\ q \in Seq(Seq(S))
  /\ Len(p) \in Nat /\ Len(p) > 0
  /\ c = sep => /\ Len(q) = Len(p) + 1 /\ q[Len(p) + 1] = <<>>
                /\ \A i \in 1..Len(p) : q[i] = p[i]
  /\ c # sep => /\ Len(q) = Len(p) /\ q[Len(p)] = Append(p[Len(p)], c)
                /\ \A i \in 1..Len(p) - 1 : q[i] = p[i]

\* The segments of a text with one more character.
LEMMA SplitMore ==
  ASSUME NEW S, NEW sep, NEW s \in Seq(S), NEW c \in S,
         NEW p, p = Split(s, sep), NEW q, q = Split(Append(s, c), sep)
  PROVE  MoreSegments(S, p, q, c, sep)
<1>1. /\ p \in Seq(Seq(S \ {sep})) /\ Len(p) > 0
      /\ Append(s, c) \in Seq(S)
  BY SplitTyped
<1>2. q \in Seq(Seq(S \ {sep}))
  BY <1>1, SplitTyped
<1>3. \A x : x \in Seq(S \ {sep}) => x \in Seq(S)
  OBVIOUS
<1>4. p \in Seq(Seq(S)) /\ Len(p) \in Nat
  BY <1>1, <1>3
<1>5. q \in Seq(Seq(S))
  BY <1>2, <1>3
<1>6. q = SplitChar(p, c, sep)
  BY SplitSteps
<1>7. ASSUME c = sep
      PROVE  /\ Len(q) = Len(p) + 1 /\ q[Len(p) + 1] = <<>>
             /\ \A i \in 1..Len(p) : q[i] = p[i]
  <2>1. q = Append(p, <<>>) /\ <<>> \in Seq(S)
    BY <1>6, <1>7 DEF SplitChar
  <2> QED BY <1>4, <2>1
<1>8. ASSUME c # sep
      PROVE  /\ Len(q) = Len(p) /\ q[Len(p)] = Append(p[Len(p)], c)
             /\ \A i \in 1..Len(p) - 1 : q[i] = p[i]
  <2>1. q = [p EXCEPT ![Len(p)] = Append(p[Len(p)], c)]
    BY <1>6, <1>8 DEF SplitChar
  <2>2. Len(p) \in DOMAIN p /\ DOMAIN p = 1..Len(p)
    BY <1>1, <1>4
  <2>3. DOMAIN q = 1..Len(p)
    BY <2>1, <2>2
  <2>4. Len(q) = Len(p)
    BY <1>4, <1>5, <2>3
  <2>5. q[Len(p)] = Append(p[Len(p)], c)
    BY <2>1, <2>2
  <2>6. ASSUME NEW i \in 1..Len(p) - 1 PROVE q[i] = p[i]
    <3>0. i \in 1..Len(p) /\ i # Len(p)
      BY <1>4
    <3>1. i \in DOMAIN p /\ i # Len(p)
      BY <2>2, <3>0
    <3> QED BY <2>1, <3>1
  <2> QED BY <2>4, <2>5, <2>6
<1> QED BY ONLY <1>1, <1>4, <1>5, <1>7, <1>8 DEF MoreSegments

\* If the segments hold characters of D, the text holds these and the
\* separator.
LEMMA SplitHolds ==
  ASSUME NEW S, NEW D, NEW sep, NEW s \in Seq(S),
         \A i \in 1..Len(Split(s, sep)) : Split(s, sep)[i] \in Seq(D)
  PROVE  s \in Seq(D \cup {sep})
<1> DEFINE T == {x \in Seq(S) :
                   (\A i \in 1..Len(Split(x, sep)) :
                      Split(x, sep)[i] \in Seq(D))
                   => x \in Seq(D \cup {sep})}
<1>1. <<>> \in T
  OBVIOUS
<1>2. ASSUME NEW x \in Seq(S), NEW c \in S, x \in T PROVE Append(x, c) \in T
  <2>1. PICK p, q : p = Split(x, sep) /\ q = Split(Append(x, c), sep)
    OBVIOUS
  <2>2. Append(x, c) \in Seq(S)
    OBVIOUS
  <2> SUFFICES ASSUME \A i \in 1..Len(q) : q[i] \in Seq(D)
               PROVE  Append(x, c) \in Seq(D \cup {sep})
    BY <2>1, <2>2
  <2>3. /\ p \in Seq(Seq(S)) /\ Len(p) \in Nat /\ Len(p) > 0
        /\ c = sep => /\ Len(q) = Len(p) + 1
                      /\ \A i \in 1..Len(p) : q[i] = p[i]
        /\ c # sep => /\ Len(q) = Len(p) /\ q[Len(p)] = Append(p[Len(p)], c)
                      /\ \A i \in 1..Len(p) - 1 : q[i] = p[i]
    <3>1. MoreSegments(S, p, q, c, sep)
      BY ONLY <2>1, SplitMore, x \in Seq(S), c \in S
    <3> QED BY ONLY <3>1 DEF MoreSegments
  <2>4. CASE c = sep
    <3>1. \A i \in 1..Len(p) : p[i] \in Seq(D)
      BY <2>3, <2>4
    <3>2. x \in Seq(D \cup {sep})
      BY <1>2, <2>1, <3>1
    <3> QED BY <2>4, <3>2
  <2>5. CASE c # sep
    <3>1. PICK g : g = p[Len(p)]
      OBVIOUS
    <3>2. g \in Seq(S) /\ Append(g, c) \in Seq(D)
      <4>1. Len(p) \in 1..Len(p) /\ Len(q) = Len(p)
        BY <2>3, <2>5
      <4>2. q[Len(p)] \in Seq(D) /\ p[Len(p)] \in Seq(S)
        BY <2>3, <4>1
      <4> QED BY <2>3, <2>5, <3>1, <4>2
    <3>3. PICK h : h = Append(g, c)
      OBVIOUS
    <3>4. /\ Len(h) = Len(g) + 1 /\ Len(g) \in Nat /\ h[Len(g) + 1] = c
          /\ \A i \in 1..Len(g) : h[i] = g[i]
      BY <3>2, <3>3
    <3>5. \A i \in 1..Len(g) + 1 : h[i] \in D
      BY <3>2, <3>3, <3>4
    <3>6. c \in D
      BY <3>4, <3>5
    <3>7. g \in Seq(D)
      BY <3>2, <3>4, <3>5
    <3>8. ASSUME NEW i \in 1..Len(p) PROVE p[i] \in Seq(D)
      <4>1. CASE i = Len(p)
        BY <3>1, <3>7, <4>1
      <4>2. CASE i # Len(p)
        <5>1. i \in 1..Len(p) - 1 /\ i \in 1..Len(q)
          BY <2>3, <2>5, <4>2
        <5> QED BY <2>3, <2>5, <5>1
      <4> QED BY <4>1, <4>2
    <3>9. x \in Seq(D \cup {sep})
      BY <1>2, <2>1, <3>8
    <3> QED BY <3>6, <3>9
  <2> QED BY <2>4, <2>5
<1>3. Seq(S) \subseteq T
  <2> HIDE DEF T
  <2> QED BY <1>1, <1>2, SeqInduction
<1> QED BY <1>3

\* The places of the separator.
Seps(s, sep) == {i \in 1..Len(s) : s[i] = sep}

\* A text has one segment more than separators.
LEMMA SplitCount ==
  ASSUME NEW S, NEW sep, NEW s \in Seq(S)
  PROVE  IsFiniteSet(Seps(s, sep))
         /\ Len(Split(s, sep)) = Cardinality(Seps(s, sep)) + 1
<1> DEFINE T == {x \in Seq(S) :
                   IsFiniteSet(Seps(x, sep))
                   /\ Len(Split(x, sep)) = Cardinality(Seps(x, sep)) + 1}
<1>1. <<>> \in T
  <2>1. Split(<<>>, sep) = <<(<<>>)>>
    BY ScanEmpty DEF Split, Start
  <2>2. Seps(<<>>, sep) = {}
    BY DEF Seps
  <2>3. IsFiniteSet({}) /\ Cardinality({}) = 0
    BY FS_EmptySet
  <2>4. PICK p, q : p = Split(<<>>, sep) /\ q = Seps(<<>>, sep)
    OBVIOUS
  <2>5. Len(p) = 1 /\ IsFiniteSet(q) /\ Cardinality(q) = 0 /\ <<>> \in Seq(S)
    <3>1. p = <<(<<>>)>>
      BY <2>1, <2>4
    <3>2. Len(p) = 1
      BY <3>1
    <3>3. IsFiniteSet(q) /\ Cardinality(q) = 0
      BY <2>2, <2>3, <2>4
    <3> QED BY <3>2, <3>3
  <2>6. Len(p) = Cardinality(q) + 1
    BY <2>5
  <2> QED BY <2>4, <2>5, <2>6
<1>2. ASSUME NEW x \in Seq(S), NEW c \in S, x \in T PROVE Append(x, c) \in T
  <2>1. PICK p, q, y, n : p = Split(x, sep) /\ q = Split(y, sep)
                          /\ y = Append(x, c) /\ n = Len(x) + 1
    OBVIOUS
  <2>2. /\ y \in Seq(S) /\ Len(y) = n /\ n \in Nat /\ y[n] = c
        /\ \A i \in 1..n - 1 : y[i] = x[i]
    BY <2>1
  <2>3. /\ Len(p) \in Nat
        /\ c = sep => Len(q) = Len(p) + 1
        /\ c # sep => Len(q) = Len(p)
    <3>1. MoreSegments(S, p, q, c, sep)
      BY ONLY <2>1, SplitMore, x \in Seq(S), c \in S
    <3> QED BY ONLY <3>1 DEF MoreSegments
  <2>4. IsFiniteSet(Seps(x, sep)) /\ Len(p) = Cardinality(Seps(x, sep)) + 1
    BY <1>2, <2>1
  <2>5. Seps(x, sep) = {i \in 1..n - 1 : y[i] = sep}
    BY <2>1, <2>2 DEF Seps
  <2>6. CASE c = sep
    <3>1. Seps(y, sep) = Seps(x, sep) \cup {n} /\ n \notin Seps(x, sep)
      <4>1. n \in 1..n /\ n \notin 1..n - 1 /\ 1..n = 1..n - 1 \cup {n}
        BY <2>1, <2>2
      <4>2. Seps(y, sep) = {i \in 1..n : y[i] = sep}
        BY <2>2 DEF Seps
      <4> QED BY <2>2, <2>5, <2>6, <4>1, <4>2
    <3>2. IsFiniteSet(Seps(y, sep))
          /\ Cardinality(Seps(y, sep)) = Cardinality(Seps(x, sep)) + 1
      BY <2>4, <3>1, FS_AddElement
    <3>3. Cardinality(Seps(x, sep)) \in Nat
      BY <2>4, FS_CardinalityType
    <3>4. Len(q) = Cardinality(Seps(y, sep)) + 1
      BY <2>3, <2>4, <2>6, <3>2, <3>3
    <3> QED BY <2>1, <2>2, <3>2, <3>4
  <2>7. CASE c # sep
    <3>1. Seps(y, sep) = Seps(x, sep)
      BY <2>2, <2>5, <2>7 DEF Seps
    <3> QED BY <2>1, <2>2, <2>3, <2>4, <2>7, <3>1
  <2> QED BY <2>6, <2>7
<1>3. Seq(S) \subseteq T
  <2> HIDE DEF T
  <2> QED BY <1>1, <1>2, SeqInduction
<1> QED BY <1>3

\* A text that no separator begins or ends, and without two in a row.
NoGap(s, sep) ==
  /\ s # <<>> => s[1] # sep
  /\ \A i \in 1..Len(s) - 1 : s[i] = sep => s[i + 1] # sep
Sound(s, sep) == s # <<>> /\ s[Len(s)] # sep /\ NoGap(s, sep)

\* The segments of a text are not empty if and only if it is such a text.
LEMMA SplitSound ==
  ASSUME NEW S, NEW sep, NEW s \in Seq(S)
  PROVE  (\A i \in 1..Len(Split(s, sep)) : Split(s, sep)[i] # <<>>)
         <=> Sound(s, sep)
<1> DEFINE Fit(x, p) ==
      /\ p[Len(p)] = <<>> <=> (x = <<>> \/ x[Len(x)] = sep)
      /\ (\A i \in 1..Len(p) - 1 : p[i] # <<>>) <=> NoGap(x, sep)
    T == {x \in Seq(S) : Fit(x, Split(x, sep))}
<1>1. <<>> \in T
  <2>1. PICK p : p = Split(<<>>, sep)
    OBVIOUS
  <2>2. p = <<(<<>>)>>
    BY <2>1, ScanEmpty DEF Split, Start
  <2>3. Len(p) = 1 /\ p[1] = <<>>
    BY <2>2
  <2>4. NoGap(<<>>, sep)
    BY DEF NoGap
  <2>5. Fit(<<>>, p)
    BY <2>3, <2>4
  <2> QED BY <2>1, <2>5
<1>2. ASSUME NEW x \in Seq(S), NEW c \in S, x \in T PROVE Append(x, c) \in T
  <2>1. PICK p, q, y, n : p = Split(x, sep) /\ q = Split(y, sep)
                          /\ y = Append(x, c) /\ n = Len(x)
    OBVIOUS
  <2>2. /\ y \in Seq(S) /\ Len(y) = n + 1 /\ n \in Nat /\ y[n + 1] = c
        /\ \A i \in 1..n : y[i] = x[i]
    BY <2>1
  <2>3. /\ p \in Seq(Seq(S)) /\ q \in Seq(Seq(S))
        /\ Len(p) \in Nat /\ Len(p) > 0
        /\ c = sep => /\ Len(q) = Len(p) + 1 /\ q[Len(p) + 1] = <<>>
                      /\ \A i \in 1..Len(p) : q[i] = p[i]
        /\ c # sep => /\ Len(q) = Len(p) /\ q[Len(p)] = Append(p[Len(p)], c)
                      /\ \A i \in 1..Len(p) - 1 : q[i] = p[i]
    <3>1. MoreSegments(S, p, q, c, sep)
      BY ONLY <2>1, SplitMore, x \in Seq(S), c \in S
    <3> QED BY ONLY <3>1 DEF MoreSegments
  <2>4. Fit(x, p)
    BY <1>2, <2>1
  <2>5. y # <<>>
    BY <2>2
  <2>6. x = <<>> <=> n = 0
    BY <2>1
  <2>7. NoGap(y, sep) <=> /\ NoGap(x, sep)
                          /\ n = 0 => c # sep
                          /\ n > 0 /\ x[n] = sep => c # sep
    <3>1. y[1] = IF n = 0 THEN c ELSE x[1]
      BY <2>2
    <3>2. (\A i \in 1..Len(y) - 1 : y[i] = sep => y[i + 1] # sep)
          <=> /\ \A i \in 1..n - 1 : x[i] = sep => x[i + 1] # sep
              /\ n > 0 /\ x[n] = sep => c # sep
      <4>1. Len(y) - 1 = n
        BY <2>2
      <4>2. ASSUME \A i \in 1..n : y[i] = sep => y[i + 1] # sep
            PROVE  /\ \A i \in 1..n - 1 : x[i] = sep => x[i + 1] # sep
                   /\ n > 0 /\ x[n] = sep => c # sep
        <5>1. ASSUME NEW i \in 1..n - 1, x[i] = sep PROVE x[i + 1] # sep
          <6>1. i \in 1..n /\ i + 1 \in 1..n
            BY <2>2
          <6> QED BY <2>2, <4>2, <5>1, <6>1
        <5>2. ASSUME n > 0, x[n] = sep PROVE c # sep
          <6>1. n \in 1..n
            BY <2>2, <5>2
          <6> QED BY <2>2, <4>2, <5>2, <6>1
        <5> QED BY <5>1, <5>2
      <4>3. ASSUME \A i \in 1..n - 1 : x[i] = sep => x[i + 1] # sep,
                   n > 0 /\ x[n] = sep => c # sep,
                   NEW i \in 1..n, y[i] = sep
            PROVE  y[i + 1] # sep
        <5>1. x[i] = sep
          BY <2>2, <4>3
        <5>2. CASE i = n
          BY <2>2, <4>3, <5>1, <5>2
        <5>3. CASE i # n
          <6>1. i \in 1..n - 1 /\ i + 1 \in 1..n
            BY <2>2, <5>3
          <6> QED BY <2>2, <4>3, <5>1, <6>1
        <5> QED BY <5>2, <5>3
      <4> QED BY <4>1, <4>2, <4>3
    <3> QED BY <2>1, <2>2, <2>5, <2>6, <3>1, <3>2 DEF NoGap
  <2>8. Fit(y, q)
    <3>1. CASE c = sep
      <4>1. q[Len(q)] = <<>> /\ Len(q) - 1 = Len(p)
        BY <2>3, <3>1
      <4>2. y[Len(y)] = sep
        BY <2>2, <3>1
      <4>3. (\A i \in 1..Len(q) - 1 : q[i] # <<>>)
            <=> (\A i \in 1..Len(p) : p[i] # <<>>)
        BY <2>3, <3>1, <4>1
      <4>4. (\A i \in 1..Len(p) : p[i] # <<>>)
            <=> (\A i \in 1..Len(p) - 1 : p[i] # <<>>) /\ p[Len(p)] # <<>>
        <5>1. 1..Len(p) = 1..Len(p) - 1 \cup {Len(p)}
          <6>1. PICK k : k = Len(p)
            OBVIOUS
          <6>2. k \in Nat /\ k > 0
            BY <2>3, <6>1
          <6>3. 1..k = 1..k - 1 \cup {k}
            BY ONLY <6>2
          <6> QED BY <6>1, <6>3
        <5> QED BY <5>1
      <4>5. NoGap(y, sep) <=> NoGap(x, sep) /\ ~(x = <<>> \/ x[Len(x)] = sep)
        BY <2>1, <2>2, <2>6, <2>7, <3>1
      <4> QED BY <2>4, <4>1, <4>2, <4>3, <4>4, <4>5
    <3>2. CASE c # sep
      <4>1. q[Len(q)] # <<>> /\ Len(q) = Len(p)
        <5>1. p[Len(p)] \in Seq(S)
          BY <2>3
        <5>2. Append(p[Len(p)], c) # <<>>
          BY <5>1
        <5> QED BY <2>3, <3>2, <5>2
      <4>2. y[Len(y)] # sep
        BY <2>2, <3>2
      <4>3. (\A i \in 1..Len(q) - 1 : q[i] # <<>>)
            <=> (\A i \in 1..Len(p) - 1 : p[i] # <<>>)
        BY <2>3, <3>2, <4>1
      <4>4. NoGap(y, sep) <=> NoGap(x, sep)
        BY <2>7, <3>2
      <4> QED BY <2>4, <2>5, <4>1, <4>2, <4>3, <4>4
    <3> QED BY <3>1, <3>2
  <2> QED BY <2>1, <2>2, <2>8
<1>3. Seq(S) \subseteq T
  <2> HIDE DEF T
  <2> QED BY <1>1, <1>2, SeqInduction
<1>4. PICK p : p = Split(s, sep)
  OBVIOUS
<1>5. Fit(s, p) /\ Len(p) \in Nat /\ Len(p) > 0
  <2>1. Fit(s, p)
    BY <1>3, <1>4
  <2>2. p \in Seq(Seq(S \ {sep})) /\ Len(p) > 0
    BY <1>4, SplitTyped
  <2> QED BY <2>1, <2>2
<1>6. 1..Len(p) = 1..Len(p) - 1 \cup {Len(p)}
  BY <1>5
<1> QED BY <1>4, <1>5, <1>6 DEF Sound

\* Two texts with a separator between them: the segments of both.
LEMMA SplitConcat ==
  ASSUME NEW S, NEW sep \in S, NEW s \in Seq(S), NEW t \in Seq(S)
  PROVE  Split(Append(s, sep) \o t, sep) = Split(s, sep) \o Split(t, sep)
<1>4. PICK u, A : u = Append(s, sep) /\ A = Split(s, sep)
  OBVIOUS
<1> DEFINE T == {x \in Seq(S) : Split(u \o x, sep) = A \o Split(x, sep)}
<1>0. /\ u \in Seq(S) /\ A \in Seq(Seq(S)) /\ <<>> \in Seq(S)
      /\ \A x \in Seq(S) : Split(x, sep) \in Seq(Seq(S)) /\ u \o x \in Seq(S)
                           /\ Len(Split(x, sep)) > 0
  <2>1. u \in Seq(S)
    BY <1>4
  <2>2. ASSUME NEW x \in Seq(S)
        PROVE  Split(x, sep) \in Seq(Seq(S)) /\ Len(Split(x, sep)) > 0
    <3>1. Split(x, sep) \in Seq(Seq(S \ {sep})) /\ Len(Split(x, sep)) > 0
      BY SplitTyped
    <3>2. \A y : y \in Seq(S \ {sep}) => y \in Seq(S)
      OBVIOUS
    <3> QED BY <3>1, <3>2
  <2>3. ASSUME NEW x \in Seq(S) PROVE u \o x \in Seq(S)
    BY <2>1, ConcatProperties
  <2>4. A \in Seq(Seq(S)) /\ <<>> \in Seq(S)
    BY <1>4, <2>2
  <2> QED BY <2>1, <2>2, <2>3, <2>4
<1>1. <<>> \in T
  <2>1. Split(<<>>, sep) = <<(<<>>)>>
    BY ScanEmpty DEF Split, Start
  <2>2. u \o <<>> = u
    BY <1>0, ConcatEmptySeq
  <2>3. Split(u, sep) = SplitChar(A, sep, sep)
    BY <1>4, SplitSteps
  <2>4. SplitChar(A, sep, sep) = Append(A, <<>>)
    BY DEF SplitChar
  <2>5. Append(A, <<>>) = A \o <<(<<>>)>>
    BY <1>0, AppendIsConcat
  <2> QED BY <1>0, <2>1, <2>2, <2>3, <2>4, <2>5
<1>2. ASSUME NEW x \in Seq(S), NEW c \in S, x \in T PROVE Append(x, c) \in T
  <2>1. PICK B, C : B = Split(x, sep) /\ C = Split(Append(x, c), sep)
    OBVIOUS
  <2>2. B \in Seq(Seq(S)) /\ C \in Seq(Seq(S)) /\ Len(B) > 0
        /\ u \o x \in Seq(S) /\ Append(x, c) \in Seq(S)
    <3>1. Append(x, c) \in Seq(S)
      OBVIOUS
    <3> QED BY <1>0, <2>1, <3>1
  <2>0. u \in Seq(S) /\ A \in Seq(Seq(S)) /\ <<>> \in Seq(S)
    BY <1>0
  <2>3. u \o Append(x, c) = Append(u \o x, c)
    BY <2>0, ConcatAppend
  <2>4. Split(u \o Append(x, c), sep) = SplitChar(A \o B, c, sep)
    BY <1>2, <2>1, <2>2, <2>3, SplitSteps
  <2>5. C = SplitChar(B, c, sep)
    BY <2>1, SplitSteps
  <2>6. SplitChar(A \o B, c, sep) = A \o SplitChar(B, c, sep)
    <3>1. CASE c = sep
      <4>1. A \o Append(B, <<>>) = Append(A \o B, <<>>)
        <5>1. PICK e, W : e = <<>> /\ W = Seq(S)
          OBVIOUS
        <5>2. A \in Seq(W) /\ B \in Seq(W) /\ e \in W
          BY ONLY <2>0, <2>2, <5>1
        <5>3. A \o Append(B, e) = Append(A \o B, e)
          BY ONLY <5>2, ConcatAppend
        <5> QED BY ONLY <5>1, <5>3
      <4> QED BY <3>1, <4>1 DEF SplitChar
    <3>2. CASE c # sep
      <4>1. PICK AB, m, n : AB = A \o B /\ m = Len(A) /\ n = Len(B)
        OBVIOUS
      <4>2. /\ AB \in Seq(Seq(S)) /\ Len(AB) = m + n /\ m \in Nat /\ n \in Nat
            /\ n > 0
            /\ \A i \in 1..m + n : AB[i] = IF i <= m THEN A[i] ELSE B[i - m]
        <5>1. Len(A) \in Nat /\ Len(B) \in Nat
          BY <2>0, <2>2
        <5> QED BY <2>0, <2>2, <4>1, <5>1, ConcatProperties
      <4>3. C = [B EXCEPT ![n] = Append(B[n], c)]
        BY <2>5, <3>2, <4>1 DEF SplitChar
      <4>4. PICK D : D = [AB EXCEPT ![m + n] = Append(AB[m + n], c)]
        OBVIOUS
      <4>5. SplitChar(AB, c, sep) = D
        BY <3>2, <4>2, <4>4 DEF SplitChar
      <4>6. /\ n \in 1..n /\ m + n \in 1..m + n
            /\ ~(m + n <= m) /\ (m + n) - m = n
        BY <4>2
      <4>7. AB[m + n] = B[n]
        BY <4>2, <4>6
      <4>8. Append(B[n], c) \in Seq(S)
        <5>1. B[n] \in Seq(S)
          BY <2>2, <4>1, <4>6
        <5> QED BY <5>1
      <4>9. D \in Seq(Seq(S)) /\ Len(D) = m + n
        BY <4>2, <4>4, <4>7, <4>8
      <4>10. Len(C) = n
        BY <2>2, <4>1, <4>3
      <4>11. PICK AC : AC = A \o C
        OBVIOUS
      <4>12. /\ AC \in Seq(Seq(S)) /\ Len(AC) = m + n
             /\ \A i \in 1..m + n : AC[i] = IF i <= m THEN A[i] ELSE C[i - m]
        <5>1. C \in Seq(Seq(S)) /\ A \in Seq(Seq(S))
          BY <2>0, <2>2
        <5>2. /\ A \o C \in Seq(Seq(S)) /\ Len(A \o C) = Len(A) + Len(C)
              /\ \A i \in 1..Len(A) + Len(C) :
                   (A \o C)[i] = IF i <= Len(A) THEN A[i] ELSE C[i - Len(A)]
          BY <5>1, ConcatProperties
        <5>3. Len(A) = m /\ Len(C) = n
          BY <4>1, <4>10
        <5> QED BY <4>11, <5>2, <5>3
      <4>13. ASSUME NEW i \in 1..m + n PROVE D[i] = AC[i]
        <5>1. CASE i = m + n
          <6>1. D[i] = Append(B[n], c)
            BY <4>2, <4>4, <4>7, <5>1
          <6>2. C[n] = Append(B[n], c)
            BY <2>2, <4>1, <4>3, <4>6
          <6>3. AC[i] = C[n]
            BY <4>6, <4>12, <5>1
          <6> QED BY <6>1, <6>2, <6>3
        <5>2. CASE i # m + n
          <6>1. D[i] = AB[i]
            BY <4>2, <4>4, <5>2
          <6>2. CASE i <= m
            BY <4>2, <4>12, <6>1, <6>2
          <6>3. CASE ~(i <= m)
            <7>1. i - m \in 1..n /\ i - m # n
              BY <4>2, <5>2, <6>3
            <7>2. C[i - m] = B[i - m]
              BY <2>2, <4>1, <4>3, <7>1
            <7>3. AB[i] = B[i - m] /\ AC[i] = C[i - m]
              BY <4>2, <4>12, <6>3
            <7> QED BY <6>1, <7>2, <7>3
          <6> QED BY <6>2, <6>3
        <5> QED BY <5>1, <5>2
      <4>14. D = AC
        BY <4>9, <4>12, <4>13, SeqEqual
      <4> QED BY <2>5, <4>1, <4>5, <4>11, <4>14
    <3> QED BY <3>1, <3>2
  <2> QED BY <2>1, <2>2, <2>4, <2>5, <2>6
<1>3. Seq(S) \subseteq T
  <2> HIDE DEF T
  <2> QED BY <1>1, <1>2, SeqInduction
<1> QED BY <1>3, <1>4

\* A text without separator is its only segment.
LEMMA SplitWord ==
  ASSUME NEW S, NEW sep, NEW w \in Seq(S \ {sep})
  PROVE  Split(w, sep) = <<w>>
<1> DEFINE T == {x \in Seq(S \ {sep}) : Split(x, sep) = <<x>>}
<1>1. <<>> \in T
  <2>1. Split(<<>>, sep) = <<(<<>>)>>
    BY ScanEmpty DEF Split, Start
  <2> QED BY <2>1
<1>2. ASSUME NEW x \in Seq(S \ {sep}), NEW c \in S \ {sep}, x \in T
      PROVE  Append(x, c) \in T
  <2>1. Split(Append(x, c), sep) = SplitChar(<<x>>, c, sep)
    BY <1>2, SplitSteps
  <2>2. PICK y, p : y = Append(x, c) /\ p = <<x>>
    OBVIOUS
  <2>3. p \in Seq(Seq(S)) /\ Len(p) = 1 /\ p[1] = x /\ y \in Seq(S \ {sep})
    BY <2>2
  <2>4. SplitChar(p, c, sep) = [p EXCEPT ![1] = y]
    BY <1>2, <2>2, <2>3 DEF SplitChar
  <2>5. [p EXCEPT ![1] = y] = <<y>>
    BY <2>2
  <2> QED BY <2>1, <2>2, <2>3, <2>4, <2>5
<1>3. Seq(S \ {sep}) \subseteq T
  <2> HIDE DEF T
  <2> QED BY <1>1, <1>2, SeqInduction
<1> QED BY <1>3

\* Segments that are not empty, joined and split again.
LEMMA JoinSplit ==
  ASSUME NEW S, NEW sep \in S, NEW segs \in Seq(Seq(S \ {sep}) \ {<<>>})
  PROVE  /\ JoinSeqs(segs, sep) \in Seq(S)
         /\ segs = <<>> => JoinSeqs(segs, sep) = <<>>
         /\ segs # <<>> => /\ JoinSeqs(segs, sep) # <<>>
                           /\ Split(JoinSeqs(segs, sep), sep) = segs
<1>0. PICK W : W = Seq(S \ {sep}) \ {<<>>}
  OBVIOUS
<1> DEFINE Fit(x, j) == /\ j \in Seq(S)
                        /\ x = <<>> => j = <<>>
                        /\ x # <<>> => j # <<>> /\ Split(j, sep) = x
           T == {x \in Seq(W) : Fit(x, JoinSeqs(x, sep))}
<1>1. <<>> \in T
  <2>1. JoinSeqs(<<>>, sep) = <<>>
    BY ScanEmpty DEF JoinSeqs, Start
  <2>2. <<>> \in Seq(W) /\ <<>> \in Seq(S)
    OBVIOUS
  <2> QED BY <2>1, <2>2
<1>2. ASSUME NEW x \in Seq(W), NEW w \in W, x \in T PROVE Append(x, w) \in T
  <2>1. PICK j, k, y : j = JoinSeqs(x, sep) /\ y = Append(x, w)
                       /\ k = JoinSeqs(y, sep)
    OBVIOUS
  <2>2. Fit(x, j)
    BY <1>2, <2>1
  <2>3. w \in Seq(S \ {sep}) /\ w \in Seq(S) /\ w # <<>> /\ j \in Seq(S)
    BY <1>0, <2>2
  <2>4. y \in Seq(W) /\ y # <<>>
    BY <2>1
  <2>5. k = IF j = <<>> THEN w ELSE j \o <<sep>> \o w
    <3>1. Scan(<<"join", sep>>, Append(x, w))
            = Step(<<"join", sep>>, Scan(<<"join", sep>>, x), w)
      BY ScanAppend
    <3>2. \A p, d : Step(<<"join", sep>>, p, d)
                      = IF p = <<>> THEN d ELSE p \o <<sep>> \o d
      BY DEF Step
    <3> QED BY <2>1, <3>1, <3>2 DEF JoinSeqs
  <2>6. CASE x = <<>>
    <3>1. k = w
      BY <2>2, <2>5, <2>6
    <3>2. Split(w, sep) = <<w>>
      BY <2>3, SplitWord
    <3>3. y = <<w>>
      BY <2>1, <2>6
    <3>4. Fit(y, k)
      BY <2>3, <2>4, <3>1, <3>2, <3>3
    <3> QED BY <2>1, <2>4, <3>4
  <2>7. CASE x # <<>>
    <3>1. j # <<>> /\ Split(j, sep) = x
      BY <2>2, <2>7
    <3>2. j \o <<sep>> = Append(j, sep)
      BY <2>3, AppendIsConcat
    <3>3. k = Append(j, sep) \o w
      BY <2>5, <3>1, <3>2
    <3>4. Split(k, sep) = x \o <<w>>
      <4>1. Split(Append(j, sep) \o w, sep) = Split(j, sep) \o Split(w, sep)
        BY <2>3, SplitConcat
      <4>2. Split(w, sep) = <<w>>
        BY <2>3, SplitWord
      <4> QED BY <3>1, <3>3, <4>1, <4>2
    <3>5. x \o <<w>> = y
      BY <2>1, AppendIsConcat
    <3>6. k \in Seq(S) /\ Len(k) = Len(j) + 1 + Len(w)
      <4>1. Append(j, sep) \in Seq(S) /\ Len(Append(j, sep)) = Len(j) + 1
        BY <2>3
      <4> QED BY <2>3, <3>3, <4>1, ConcatProperties
    <3>7. k # <<>>
      <4>1. Len(j) \in Nat /\ Len(w) \in Nat
        BY <2>3
      <4>2. Len(k) > 0
        BY <3>6, <4>1
      <4> QED BY <4>2
    <3>8. Fit(y, k)
      BY <2>4, <3>4, <3>5, <3>6, <3>7
    <3> QED BY <2>1, <2>4, <3>8
  <2> QED BY <2>6, <2>7
<1>3. Seq(W) \subseteq T
  <2> HIDE DEF T
  <2> QED BY <1>1, <1>2, SeqInduction
<1> QED BY <1>0, <1>3

-----------------------------------------------------------------------------
(* Numerals.                                                               *)

\* The set of the digits.
Of(Chars) == {Chars[i] : i \in 1..Len(Chars)}

\* Digits that are different from each other.
Digits(Chars) ==
  /\ Chars \in Seq(Of(Chars)) /\ Len(Chars) \in Nat /\ Len(Chars) > 1
  /\ \A i, j \in 1..Len(Chars) : Chars[i] = Chars[j] => i = j

\* The value of a digit is its place.
LEMMA DigitValue ==
  ASSUME NEW Chars, Digits(Chars)
  PROVE  /\ \A i \in 1..Len(Chars) : Digit(Chars[i], Chars) = i - 1
         /\ \A c \in Of(Chars) : Digit(c, Chars) \in 0..Len(Chars) - 1
<1>1. DOMAIN Chars = 1..Len(Chars) /\ Len(Chars) \in Nat
  BY DEF Digits
<1>2. ASSUME NEW i \in 1..Len(Chars) PROVE Digit(Chars[i], Chars) = i - 1
  <2>1. PICK k : k = CHOOSE x \in DOMAIN Chars : Chars[x] = Chars[i]
    OBVIOUS
  <2>2. k \in DOMAIN Chars /\ Chars[k] = Chars[i]
    BY <1>1, <2>1
  <2>3. k = i
    BY <1>1, <2>2 DEF Digits
  <2> QED BY <2>1, <2>3 DEF Digit
<1>3. ASSUME NEW c \in Of(Chars) PROVE Digit(c, Chars) \in 0..Len(Chars) - 1
  <2>1. PICK i \in 1..Len(Chars) : c = Chars[i]
    BY DEF Of
  <2>2. Digit(c, Chars) = i - 1
    BY <1>2, <2>1
  <2> QED BY <1>1, <2>2
<1> QED BY <1>2, <1>3

\* One more digit.
LEMMA NumberSteps ==
  ASSUME NEW Chars, NEW S, NEW s \in Seq(S), NEW c \in S
  PROVE  /\ Number(<<>>, Chars) = 0
         /\ Number(Append(s, c), Chars)
              = Number(s, Chars) * Len(Chars) + Digit(c, Chars)
<1>1. Scan(<<"number", Chars>>, <<>>) = 0
  <2>1. Start(<<"number", Chars>>) = 0
    BY DEF Start
  <2> QED BY <2>1, ScanEmpty
<1>2. Scan(<<"number", Chars>>, Append(s, c))
        = Step(<<"number", Chars>>, Scan(<<"number", Chars>>, s), c)
  BY ScanAppend
<1>3. \A p, d : Step(<<"number", Chars>>, p, d)
                  = p * Len(Chars) + Digit(d, Chars)
  BY DEF Step
<1> QED BY <1>1, <1>2, <1>3 DEF Number

\* A text of digits is a number.
LEMMA NumberIsNat ==
  ASSUME NEW Chars, Digits(Chars), NEW s \in Seq(Of(Chars))
  PROVE  Number(s, Chars) \in Nat
<1> DEFINE T == {x \in Seq(Of(Chars)) : Number(x, Chars) \in Nat}
<1>1. <<>> \in T
  <2>1. Number(<<>>, Chars) = 0
    <3>1. Start(<<"number", Chars>>) = 0
      BY DEF Start
    <3> QED BY <3>1, ScanEmpty DEF Number
  <2> QED BY <2>1
<1>2. ASSUME NEW x \in Seq(Of(Chars)), NEW c \in Of(Chars), x \in T
      PROVE  Append(x, c) \in T
  <2>1. Number(Append(x, c), Chars)
          = Number(x, Chars) * Len(Chars) + Digit(c, Chars)
    BY NumberSteps
  <2>2. PICK n, b, d : n = Number(x, Chars) /\ b = Len(Chars)
                       /\ d = Digit(c, Chars)
    OBVIOUS
  <2>3. b \in Nat
    BY <2>2 DEF Digits
  <2>4. d \in 0..b - 1
    BY <2>2, DigitValue
  <2>5. n \in Nat
    BY <1>2, <2>2
  <2>6. n * b + d \in Nat
    BY ONLY <2>3, <2>4, <2>5
  <2>7. Append(x, c) \in Seq(Of(Chars))
    OBVIOUS
  <2> QED BY <2>1, <2>2, <2>6, <2>7
<1>3. Seq(Of(Chars)) \subseteq T
  <2> HIDE DEF T
  <2> QED BY <1>1, <1>2, SeqInduction
<1> QED BY <1>3

\* Multiplication by a natural number keeps the order.
LEMMA MulMono ==
  ASSUME NEW x \in Nat, NEW y \in Nat, NEW b \in Nat, x <= y
  PROVE  x * b <= y * b
OBVIOUS

\* Multiplication of natural numbers.
LEMMA MulRules ==
  ASSUME NEW x \in Nat, NEW y \in Nat, NEW b \in Nat
  PROVE  /\ (x * y) * b = x * (y * b)
         /\ (x + y) * b = x * b + y * b
         /\ x * b \in Nat /\ x * b = b * x
OBVIOUS

\* Quotient and remainder of a product with a rest.
LEMMA DivModUnique ==
  ASSUME NEW q \in Nat, NEW r \in Nat, NEW b \in Nat, r < b
  PROVE  (q * b + r) \div b = q /\ (q * b + r) % b = r
OBVIOUS

\* Quotient and remainder.
LEMMA DivModExist ==
  ASSUME NEW v \in Nat, NEW b \in Nat, b > 0
  PROVE  \E q, r \in Nat : r < b /\ v = q * b + r
<1> DEFINE T == {n \in Nat : \E q, r \in Nat : r < b /\ n = q * b + r}
<1>1. 0 \in T
  <2>1. 0 = 0 * b + 0 /\ 0 < b
    OBVIOUS
  <2> QED BY <2>1
<1>2. ASSUME NEW n \in Nat, n \in T PROVE n + 1 \in T
  <2>1. PICK q \in Nat, r \in Nat : r < b /\ n = q * b + r
    BY <1>2
  <2>2. CASE r + 1 < b
    <3>1. n + 1 = q * b + (r + 1) /\ r + 1 \in Nat
      BY <2>1
    <3> QED BY <2>2, <3>1
  <2>3. CASE r + 1 = b
    <3>1. (q + 1) * b = q * b + b
      OBVIOUS
    <3>2. q * b \in Nat
      OBVIOUS
    <3>3. n + 1 = (q + 1) * b + 0
      BY <2>1, <2>3, <3>1, <3>2
    <3>4. q + 1 \in Nat /\ 0 \in Nat /\ 0 < b /\ n + 1 \in Nat
      OBVIOUS
    <3> QED BY <3>3, <3>4
  <2>4. r + 1 < b \/ r + 1 = b
    BY <2>1
  <2> QED BY <2>2, <2>3, <2>4
<1>3. Nat \subseteq T
  <2> HIDE DEF T
  <2> QED BY <1>1, <1>2, Induction
<1> QED BY <1>3

\* The digits of a number below b * b, and below b * b * b.
LEMMA TwoDigits ==
  ASSUME NEW v \in Nat, NEW b \in Nat, b > 0, v < b * b
  PROVE  \E x, y \in 0..b - 1 : v = x * b + y /\ v \div b = x /\ v % b = y
<1>1. PICK x \in Nat, y \in Nat : y < b /\ v = x * b + y
  BY DivModExist
<1>2. x < b
  <2> SUFFICES ASSUME b <= x PROVE FALSE
    BY <1>1
  <2>1. b * b <= x * b
    BY MulMono
  <2>2. x * b \in Nat /\ b * b \in Nat
    BY MulRules
  <2> QED BY <1>1, <2>1, <2>2
<1>3. v \div b = x /\ v % b = y
  BY <1>1, DivModUnique
<1> QED BY <1>1, <1>2, <1>3

\* A number below the third power of the base has three digits.
LEMMA ThreeDigits ==
  ASSUME NEW v \in Nat, NEW b \in Nat, b > 0, v < b * b * b
  PROVE  \E x, y, z \in 0..b - 1 :
           /\ v = (x * b + y) * b + z
           /\ v \div (b * b) = x /\ (v \div b) % b = y /\ v % b = z
<1>1. PICK n \in Nat, z \in Nat : z < b /\ v = n * b + z
  BY DivModExist
<1>2. n < b * b
  <2>0. b * b \in Nat
    OBVIOUS
  <2> SUFFICES ASSUME b * b <= n PROVE FALSE
    BY <1>1, <2>0
  <2>1. (b * b) * b <= n * b
    BY <2>0, MulMono
  <2>2. n * b \in Nat /\ b * b * b \in Nat
    BY <2>0, MulRules
  <2> QED BY <1>1, <2>1, <2>2
<1>3. PICK x \in 0..b - 1, y \in 0..b - 1 : n = x * b + y /\ n % b = y
  BY <1>2, TwoDigits
<1>4. v \div b = n /\ v % b = z
  BY <1>1, DivModUnique
<1>5. v \div (b * b) = x
  <2>1. PICK m, r : m = b * b /\ r = y * b + z
    OBVIOUS
  <2>2. m \in Nat /\ y * b \in Nat /\ r \in Nat /\ x \in Nat /\ y \in Nat
    BY <1>1, <2>1, MulRules
  <2>3. r < m
    <3>1. y + 1 <= b /\ y + 1 \in Nat
      BY <1>3
    <3>2. (y + 1) * b <= b * b
      BY <3>1, MulMono
    <3>3. (y + 1) * b = y * b + b
      BY <2>2
    <3> QED BY <1>1, <2>1, <2>2, <3>2, <3>3
  <2>4. v = x * m + r
    <3>1. (x * b + y) * b = (x * b) * b + y * b
      BY <2>2, MulRules
    <3>2. (x * b) * b = x * (b * b)
      BY <2>2, MulRules
    <3>3. x * m \in Nat
      BY <2>2, MulRules
    <3> QED BY <1>1, <1>3, <2>1, <2>2, <3>1, <3>2, <3>3
  <2> QED BY <2>1, <2>2, <2>3, <2>4, DivModUnique
<1>6. z \in 0..b - 1
  BY <1>1
<1> QED BY <1>1, <1>3, <1>4, <1>5, <1>6

\* The number that up to three digits are.
LEMMA NumberOfDigits ==
  ASSUME NEW Chars, Digits(Chars),
         NEW c \in Of(Chars), NEW d \in Of(Chars), NEW e \in Of(Chars)
  PROVE  /\ Number(<<c>>, Chars) = Digit(c, Chars)
         /\ Number(<<c, d>>, Chars)
              = Digit(c, Chars) * Len(Chars) + Digit(d, Chars)
         /\ Number(<<c, d, e>>, Chars)
              = (Digit(c, Chars) * Len(Chars) + Digit(d, Chars)) * Len(Chars)
                + Digit(e, Chars)
<1>1. Number(Append(<<>>, c), Chars)
        = Number(<<>>, Chars) * Len(Chars) + Digit(c, Chars)
      /\ Number(<<>>, Chars) = 0
  <2>1. <<>> \in Seq(Of(Chars))
    OBVIOUS
  <2> QED BY <2>1, NumberSteps
<1>2. Number(Append(<<c>>, d), Chars)
        = Number(<<c>>, Chars) * Len(Chars) + Digit(d, Chars)
  <2>1. <<c>> \in Seq(Of(Chars))
    OBVIOUS
  <2> QED BY <2>1, NumberSteps
<1>3. Number(Append(<<c, d>>, e), Chars)
        = Number(<<c, d>>, Chars) * Len(Chars) + Digit(e, Chars)
  <2>1. <<c, d>> \in Seq(Of(Chars))
    OBVIOUS
  <2> QED BY <2>1, NumberSteps
<1>4. /\ Append(<<>>, c) = <<c>>
      /\ Append(<<c>>, d) = <<c, d>>
      /\ Append(<<c, d>>, e) = <<c, d, e>>
  <2>0. <<c>> \in Seq(Of(Chars)) /\ <<c, d>> \in Seq(Of(Chars))
    OBVIOUS
  <2>1. Append(<<>>, c) = <<c>>
    OBVIOUS
  <2>2. Append(<<c>>, d) = <<c, d>>
    <3>1. PICK g, h : g = Append(<<c>>, d) /\ h = <<c, d>>
      OBVIOUS
    <3>2. g \in Seq(Of(Chars)) /\ Len(g) = 2 /\ g[1] = c /\ g[2] = d
      BY <2>0, <3>1
    <3>3. h \in Seq(Of(Chars)) /\ Len(h) = 2 /\ h[1] = c /\ h[2] = d
      BY <2>0, <3>1
    <3>4. \A i \in 1..2 : i = 1 \/ i = 2
      OBVIOUS
    <3>5. g = h
      BY ONLY <3>2, <3>3, <3>4, SeqEqual
    <3> QED BY <3>1, <3>5
  <2>3. Append(<<c, d>>, e) = <<c, d, e>>
    <3>1. PICK g, h : g = Append(<<c, d>>, e) /\ h = <<c, d, e>>
      OBVIOUS
    <3>2. /\ g \in Seq(Of(Chars)) /\ Len(g) = 3
          /\ g[1] = c /\ g[2] = d /\ g[3] = e
      BY <2>0, <3>1
    <3>3. /\ h \in Seq(Of(Chars)) /\ Len(h) = 3
          /\ h[1] = c /\ h[2] = d /\ h[3] = e
      BY <3>1
    <3>4. \A i \in 1..3 : i = 1 \/ i = 2 \/ i = 3
      OBVIOUS
    <3>5. g = h
      BY ONLY <3>2, <3>3, <3>4, SeqEqual
    <3> QED BY <3>1, <3>5
  <2> QED BY <2>1, <2>2, <2>3
<1>5. PICK b, x : b = Len(Chars) /\ x = Digit(c, Chars)
  OBVIOUS
<1>6. b \in Nat /\ x \in Nat
  BY <1>5, DigitValue DEF Digits
<1>7. 0 * b + x = x
  BY <1>6
<1>8. Number(<<c>>, Chars) = Digit(c, Chars)
  BY <1>1, <1>4, <1>5, <1>7
<1> QED BY <1>2, <1>3, <1>4, <1>8

\* The numeral of a number reads back as the number.
LEMMA NumeralReads ==
  ASSUME NEW Chars, Digits(Chars), NEW b, b = Len(Chars), NEW v \in Nat,
         v < b * b * b
  PROVE  /\ Numeral(v, Chars) \in Seq(Of(Chars))
         /\ Number(Numeral(v, Chars), Chars) = v
         /\ Len(Numeral(v, Chars)) \in 1..3
         /\ v < b * b => Len(Numeral(v, Chars)) \in 1..2
<1>0. b \in Nat /\ b > 1 /\ b > 0
  BY DEF Digits
<1>1. \A i \in 0..b - 1 : /\ Chars[i + 1] \in Of(Chars)
                          /\ Digit(Chars[i + 1], Chars) = i
  <2> TAKE i \in 0..b - 1
  <2>1. i + 1 \in 1..Len(Chars) /\ (i + 1) - 1 = i
    BY <1>0
  <2> QED BY <2>1, DigitValue DEF Of
<1>2. \A i \in 0..b - 1 : i % b = i
  BY <1>0
<1>3. CASE v < b
  <2>1. v \in 0..b - 1
    BY <1>0, <1>3
  <2>2. Numeral(v, Chars) = <<Chars[v + 1]>>
    BY <1>2, <1>3, <2>1 DEF Numeral
  <2>3. PICK c : c = Chars[v + 1]
    OBVIOUS
  <2>4. c \in Of(Chars) /\ Digit(c, Chars) = v
    BY <1>1, <2>1, <2>3
  <2>5. Number(<<c>>, Chars) = v
    BY <2>4, NumberOfDigits
  <2>6. <<c>> \in Seq(Of(Chars)) /\ Len(<<c>>) = 1
    BY <2>4
  <2> QED BY <2>2, <2>3, <2>5, <2>6
<1>4. CASE v >= b /\ v < b * b
  <2>1. PICK x \in 0..b - 1, y \in 0..b - 1 :
          v = x * b + y /\ v \div b = x /\ v % b = y
    BY <1>0, <1>4, TwoDigits
  <2>2. Numeral(v, Chars) = <<Chars[x + 1], Chars[y + 1]>>
    <3>1. ~(v < b) /\ (v \div b) % b = x
      BY <1>0, <1>2, <1>4, <2>1
    <3> QED BY <1>4, <2>1, <3>1 DEF Numeral
  <2>3. PICK c, d : c = Chars[x + 1] /\ d = Chars[y + 1]
    OBVIOUS
  <2>4. /\ c \in Of(Chars) /\ Digit(c, Chars) = x
        /\ d \in Of(Chars) /\ Digit(d, Chars) = y
    BY <1>1, <2>3
  <2>5. Number(<<c, d>>, Chars) = x * b + y
    BY <2>4, NumberOfDigits
  <2>6. <<c, d>> \in Seq(Of(Chars)) /\ Len(<<c, d>>) = 2
    BY <2>4
  <2>7. PICK w : w = <<c, d>>
    OBVIOUS
  <2>8. w \in Seq(Of(Chars)) /\ Len(w) = 2 /\ Number(w, Chars) = v
    BY <2>1, <2>5, <2>6, <2>7
  <2>9. w = Numeral(v, Chars)
    BY <2>2, <2>3, <2>7
  <2> QED BY ONLY <2>8, <2>9
<1>5. CASE ~(v < b) /\ ~(v < b * b)
  <2>1. PICK x \in 0..b - 1, y \in 0..b - 1, z \in 0..b - 1 :
          /\ v = (x * b + y) * b + z
          /\ v \div (b * b) = x /\ (v \div b) % b = y /\ v % b = z
    BY <1>0, ThreeDigits
  <2>2. Numeral(v, Chars) = <<Chars[x + 1], Chars[y + 1], Chars[z + 1]>>
    <3>1. (v \div (b * b)) % b = x
      BY <1>2, <2>1
    <3> QED BY <1>5, <2>1, <3>1 DEF Numeral
  <2>3. PICK c, d, e : c = Chars[x + 1] /\ d = Chars[y + 1]
                       /\ e = Chars[z + 1]
    OBVIOUS
  <2>4. /\ c \in Of(Chars) /\ Digit(c, Chars) = x
        /\ d \in Of(Chars) /\ Digit(d, Chars) = y
        /\ e \in Of(Chars) /\ Digit(e, Chars) = z
    BY <1>1, <2>3
  <2>5. Number(<<c, d, e>>, Chars) = (x * b + y) * b + z
    BY <2>4, NumberOfDigits
  <2>6. <<c, d, e>> \in Seq(Of(Chars)) /\ Len(<<c, d, e>>) = 3
    BY <2>4
  <2>7. PICK w : w = <<c, d, e>>
    OBVIOUS
  <2>8. w \in Seq(Of(Chars)) /\ Len(w) = 3 /\ Number(w, Chars) = v
    BY <2>1, <2>5, <2>6, <2>7
  <2>9. w = Numeral(v, Chars)
    BY <2>2, <2>3, <2>7
  <2> QED BY ONLY <1>5, <2>8, <2>9
<1>6. b * b \in Nat
  BY <1>0
<1> QED BY <1>0, <1>3, <1>4, <1>5, <1>6

-----------------------------------------------------------------------------
(* IPv4 addresses.                                                         *)

\* A sequence over D is one whose elements are in D.
LEMMA ElementsOf ==
  ASSUME NEW S, NEW D, NEW s \in Seq(S)
  PROVE  ToSet(s) \subseteq D <=> s \in Seq(D)
<1>1. ToSet(s) = {s[i] : i \in 1..Len(s)}
  BY DEF ToSet
<1>2. ASSUME ToSet(s) \subseteq D PROVE s \in Seq(D)
  <2>1. \A i \in 1..Len(s) : s[i] \in D
    BY <1>1, <1>2
  <2> QED BY <2>1
<1>3. ASSUME s \in Seq(D) PROVE ToSet(s) \subseteq D
  BY <1>1, <1>3
<1> QED BY <1>2, <1>3

\* The elements of a sequence.
LEMMA ElementIn ==
  ASSUME NEW S, NEW v \in Seq(S)
  PROVE  \A i \in 1..Len(v) : v[i] \in S
OBVIOUS

\* The decimal digits.
LEMMA DecDigits == Digits(Dec) /\ Len(Dec) = 10 /\ "." \notin Of(Dec)
<1> DEFINE d == Dec
<1>1. d \in Seq(Of(d)) /\ Len(d) = 10 /\ Len(d) \in Nat
  <2>1. Dec \in Seq({"0", "1", "2", "3", "4", "5", "6", "7", "8", "9"})
        /\ Len(Dec) = 10
    BY DEF Dec
  <2>2. PICK e : e = Dec
    OBVIOUS
  <2>3. \A i \in 1..Len(e) : e[i] \in Of(e)
    BY DEF Of
  <2>4. e \in Seq(Of(e))
    <3> DEFINE S == Of(e)
    <3>0. PICK W : e \in Seq(W)
      BY <2>1, <2>2
    <3>1. e = [i \in 1..Len(e) |-> e[i]] /\ Len(e) \in Nat
      BY ONLY <3>0
    <3>2. \A i \in 1..Len(e) : e[i] \in S
      BY <2>3
    <3> HIDE DEF S
    <3>3. [i \in 1..Len(e) |-> e[i]] \in Seq(S)
      BY <3>1, <3>2
    <3> QED BY <3>1, <3>3 DEF S
  <2> QED BY <2>1, <2>2, <2>4
<1>2. /\ d[1] = "0" /\ d[2] = "1" /\ d[3] = "2" /\ d[4] = "3" /\ d[5] = "4"
      /\ d[6] = "5" /\ d[7] = "6" /\ d[8] = "7" /\ d[9] = "8" /\ d[10] = "9"
  BY DEF Dec
<1>3. \A i \in 1..10 : i = 1 \/ i = 2 \/ i = 3 \/ i = 4 \/ i = 5 \/ i = 6
                       \/ i = 7 \/ i = 8 \/ i = 9 \/ i = 10
  OBVIOUS
<1> HIDE DEF d
<1>4. \A i, j \in 1..10 : d[i] = d[j] => i = j
  BY <1>2, <1>3
<1>5. \A i \in 1..10 : d[i] # "."
  BY <1>2, <1>3
<1>6. "." \notin Of(d)
  BY <1>1, <1>5 DEF Of
<1>7. Digits(d)
  BY <1>1, <1>4 DEF Digits
<1> QED BY <1>1, <1>6, <1>7 DEF d

\* The bytes of an address.
Octets == 0..255

\* An address that was read has four bytes.
LEMMA Ipv4Value ==
  ASSUME NEW s \in Seq(Char), NEW p, p = str_to_ipv4_addr(s), p.st = "ok"
  PROVE  p = Ok(p.val) /\ p.val \in Seq(Octets) /\ Len(p.val) = 4
<1> DEFINE D == Of(Dec)
           segs == Split(s, ".")
           num == [i \in 1..Len(segs) |-> Number(segs[i], Dec)]
<1>1. /\ ToSet(s) \subseteq ToSet(Dec) \cup {"."}
      /\ Len(segs) <= 4
      /\ \A i \in DOMAIN segs : ~(Number(segs[i], Dec) > 255)
      /\ p = Ok(num \o Zeros(4 - Len(segs)))
  BY DEF str_to_ipv4_addr, Error, Ok
<1>2. s \in Seq(D \cup {"."})
  <2>1. ToSet(Dec) = D
    BY DecDigits DEF ToSet, Of, Digits
  <2> QED BY <1>1, <2>1, ElementsOf
<1>3. segs \in Seq(Seq(D)) /\ Len(segs) > 0 /\ Len(segs) \in Nat
  <2>1. (D \cup {"."}) \ {"."} = D
    BY DecDigits
  <2>2. segs \in Seq(Seq(D)) /\ Len(segs) > 0
    BY <1>2, <2>1, SplitTyped
  <2> HIDE DEF segs
  <2> QED BY <2>2
<1> HIDE DEF segs
<1>4. \A i \in 1..Len(segs) : Number(segs[i], Dec) \in Octets
  <2> TAKE i \in 1..Len(segs)
  <2>1. segs[i] \in Seq(D) /\ i \in DOMAIN segs
    BY <1>3
  <2>2. Number(segs[i], Dec) \in Nat
    BY <2>1, DecDigits, NumberIsNat
  <2>3. ~(Number(segs[i], Dec) > 255)
    BY <1>1, <2>1
  <2>4. PICK n : n = Number(segs[i], Dec)
    OBVIOUS
  <2>5. n \in Octets
    <3>1. n \in Nat /\ ~(n > 255)
      BY <2>2, <2>3, <2>4
    <3> QED BY ONLY <3>1 DEF Octets
  <2> QED BY <2>4, <2>5
<1>5. num \in Seq(Octets) /\ Len(num) = Len(segs)
  BY <1>3, <1>4
<1>6. Zeros(4 - Len(segs)) \in Seq(Octets)
      /\ Len(Zeros(4 - Len(segs))) = 4 - Len(segs)
  <2>1. PICK n : n = 4 - Len(segs)
    OBVIOUS
  <2>2. n \in Nat
    BY <1>1, <1>3, <2>1
  <2>3. 0 \in Octets
    BY DEF Octets
  <2>4. Zeros(n) \in Seq(Octets) /\ Len(Zeros(n)) = n
    BY <2>2, <2>3 DEF Zeros
  <2> QED BY <2>1, <2>4
<1> HIDE DEF num
<1>7. PICK v : v = num \o Zeros(4 - Len(segs))
  OBVIOUS
<1>8. v \in Seq(Octets) /\ Len(v) = 4
  <2>1. Len(v) = Len(num) + (4 - Len(segs)) /\ v \in Seq(Octets)
    BY <1>5, <1>6, <1>7, ConcatProperties
  <2> QED BY <1>3, <1>5, <2>1
<1>9. p = Ok(v) /\ p.val = v
  BY <1>1, <1>7 DEF Ok
<1> QED BY <1>8, <1>9

\* Four bytes are printed so that they read back.
LEMMA Ipv4ReadsBack ==
  ASSUME NEW v, v \in Seq(Octets), Len(v) = 4
  PROVE  str_to_ipv4_addr(ipv4_addr_to_str(v)) = Ok(v)
<1> DEFINE D == Of(Dec)
           segs == [i \in 1..4 |-> Numeral(v[i], Dec)]
           t == JoinSeqs(segs, ".")
<1>0. \A i \in 1..4 : v[i] \in Octets
  BY ElementIn
<1>1. \A i \in 1..4 : /\ Numeral(v[i], Dec) \in Seq(D) \ {<<>>}
                      /\ Number(Numeral(v[i], Dec), Dec) = v[i]
  <2> TAKE i \in 1..4
  <2>1. v[i] \in Nat /\ v[i] < 10 * 10 * 10
    <3>1. PICK x : x = v[i]
      OBVIOUS
    <3>2. x \in Octets
      BY <3>1
    <3>3. x \in Nat /\ x < 10 * 10 * 10
      BY ONLY <3>2 DEF Octets
    <3> QED BY <3>1, <3>3
  <2>2. PICK w : w = Numeral(v[i], Dec)
    OBVIOUS
  <2>3. w \in Seq(D) /\ Number(w, Dec) = v[i] /\ Len(w) \in 1..3
    BY <2>1, <2>2, DecDigits, NumeralReads
  <2>4. w # <<>>
    <3>1. PICK n : n = Len(w)
      OBVIOUS
    <3>2. n # 0
      BY <2>3, <3>1
    <3> QED BY <3>1, <3>2
  <2> QED BY <2>2, <2>3, <2>4
<1>2. segs \in Seq(Seq(D) \ {<<>>}) /\ Len(segs) = 4
  BY <1>1
<1>3. \A i \in 1..4 : Number(segs[i], Dec) = v[i]
  BY <1>1
<1>4. (D \cup {"."}) \ {"."} = D
  BY DecDigits
<1> HIDE DEF segs
<1>5. t \in Seq(D \cup {"."}) /\ Split(t, ".") = segs
  <2>1. segs # <<>>
    <3>1. Len(segs) # 0
      BY <1>2
    <3> QED BY <3>1
  <2>2. "." \in D \cup {"."}
    OBVIOUS
  <2>3. segs \in Seq(Seq((D \cup {"."}) \ {"."}) \ {<<>>})
    BY <1>2, <1>4
  <2>4. /\ JoinSeqs(segs, ".") \in Seq(D \cup {"."})
        /\ Split(JoinSeqs(segs, "."), ".") = segs
    <3>1. PICK S, sep, g : S = D \cup {"."} /\ g = segs /\ sep = "."
      OBVIOUS
    <3>2. g \in Seq(Seq(S \ {sep}) \ {<<>>})
      BY <2>3, <3>1
    <3>3. g # <<>>
      BY <2>1, <3>1
    <3>4. sep \in S
      BY <3>1
    <3>5. JoinSeqs(g, sep) \in Seq(S) /\ Split(JoinSeqs(g, sep), sep) = g
      BY ONLY <3>2, <3>3, <3>4, JoinSplit
    <3> QED BY <3>1, <3>5
  <2> QED BY <2>4
<1>6. t = ipv4_addr_to_str(v)
  BY DEF ipv4_addr_to_str, segs
<1> HIDE DEF t
<1>7. ToSet(t) \subseteq ToSet(Dec) \cup {"."}
  <2>1. ToSet(Dec) = D
    BY DecDigits DEF ToSet, Of, Digits
  <2> QED BY <1>5, <2>1, ElementsOf
<1>8. DOMAIN segs = 1..4 /\ \A i \in 1..4 : ~(Number(segs[i], Dec) > 255)
  <2>2. \A x \in Octets : ~(x > 255)
    BY DEF Octets
  <2> QED BY <1>0, <1>2, <1>3, <2>2
<1>9. [i \in 1..4 |-> Number(segs[i], Dec)] = v
  <2>1. [i \in 1..4 |-> Number(segs[i], Dec)] = [i \in 1..4 |-> v[i]]
    BY <1>3
  <2>2. v = [i \in 1..4 |-> v[i]]
    OBVIOUS
  <2> QED BY <2>1, <2>2
<1>10. v \o Zeros(4 - 4) = v
  <2>1. Zeros(4 - 4) = <<>>
    BY DEF Zeros
  <2> QED BY <2>1, ConcatEmptySeq
<1>11. str_to_ipv4_addr(t)
        = Ok([i \in 1..Len(segs) |-> Number(segs[i], Dec)]
             \o Zeros(4 - Len(segs)))
  <2>1. ~(Len(segs) > 4)
    BY <1>2
  <2>2. \A i \in DOMAIN Split(t, ".") :
          ~(Number(Split(t, ".")[i], Dec) > 255)
    BY <1>5, <1>8
  <2> QED BY <1>5, <1>7, <2>1, <2>2 DEF str_to_ipv4_addr
<1> QED BY <1>2, <1>6, <1>9, <1>10, <1>11

-----------------------------------------------------------------------------
(* The two sides of a "::".                                                *)

\* What is before the "::" at k, and what is after it.
Before(s, k) == SubSeq(s, 1, k - 1)
After(s, k) == SubSeq(s, k + 2, Len(s))

\* What is before and after a "::".
LEMMA AroundDouble ==
  ASSUME NEW S, NEW s \in Seq(S), NEW k \in DoubleColons(s),
         NEW l, l = Before(s, k), NEW r, r = After(s, k)
  PROVE  /\ k \in Nat /\ k > 0 /\ k + 1 <= Len(s) /\ Len(s) \in Nat
         /\ s[k] = ":" /\ s[k + 1] = ":"
         /\ l \in Seq(S) /\ Len(l) = k - 1
         /\ r \in Seq(S) /\ Len(r) = Len(s) - k - 1
         /\ \A i \in 1..k - 1 : l[i] = s[i]
         /\ \A i \in 1..Len(s) - k - 1 : r[i] = s[k + 1 + i]
<1>1. /\ k \in 1..Len(s) /\ k + 1 \in 1..Len(s) /\ Len(s) \in Nat
      /\ s[k] = ":" /\ s[k + 1] = ":"
  BY DEF DoubleColons, Colons
<1>2. k \in Nat /\ k > 0 /\ k + 1 <= Len(s)
  BY <1>1
<1>3. /\ l \in Seq(S) /\ Len(l) = k - 1
      /\ \A i \in 1..k - 1 : l[i] = s[i]
  <2>1. k - 1 \in 0..Len(s) /\ 1 \in 1..Len(s) + 1
    BY <1>1, <1>2
  <2> QED BY <1>2, <2>1 DEF Before
<1>4. /\ r \in Seq(S) /\ Len(r) = Len(s) - k - 1
      /\ \A i \in 1..Len(s) - k - 1 : r[i] = s[k + 1 + i]
  <2>1. PICK n, m : n = Len(s) /\ m = k + 2
    OBVIOUS
  <2>2. /\ m \in Nat /\ m \in 1..n + 1 /\ n \in 0..n
        /\ n - m + 1 = n - k - 1 /\ m <= n + 1
    BY <1>1, <1>2, <2>1
  <2>3. r = SubSeq(s, m, n) /\ Len(r) = n - m + 1 /\ r \in Seq(S)
    BY <1>1, <2>1, <2>2, SubSeqProperties DEF After
  <2>4. \A i \in 1..n - m + 1 : r[i] = s[m + i - 1]
    BY <1>1, <2>1, <2>2, <2>3, SubSeqProperties
  <2>5. \A i \in 1..n - k - 1 : m + i - 1 = k + 1 + i
    BY <1>2, <2>1
  <2> QED BY <2>1, <2>2, <2>3, <2>4, <2>5
<1> QED BY <1>1, <1>2, <1>3, <1>4

\* The text is made of its sides.
LEMMA DoubleApart ==
  ASSUME NEW S, NEW s \in Seq(S), NEW k \in DoubleColons(s),
         NEW l, l = Before(s, k), NEW r, r = After(s, k)
  PROVE  /\ ":" \in S
         /\ s = Append(l, ":") \o (Append(<<>>, ":") \o r)
<1>1. /\ k \in Nat /\ k > 0 /\ k + 1 <= Len(s) /\ Len(s) \in Nat
      /\ s[k] = ":" /\ s[k + 1] = ":"
      /\ l \in Seq(S) /\ Len(l) = k - 1
      /\ r \in Seq(S) /\ Len(r) = Len(s) - k - 1
      /\ \A i \in 1..k - 1 : l[i] = s[i]
      /\ \A i \in 1..Len(s) - k - 1 : r[i] = s[k + 1 + i]
  BY AroundDouble
<1>2. ":" \in S
  BY <1>1
<1>3. PICK x, y : x = Append(l, ":") /\ y = Append(<<>>, ":") \o r
  OBVIOUS
<1>4. /\ x \in Seq(S) /\ Len(x) = k
      /\ x[k] = ":" /\ \A i \in 1..k - 1 : x[i] = s[i]
  BY <1>1, <1>2, <1>3
<1>5. /\ y \in Seq(S) /\ Len(y) = Len(s) - k
      /\ y[1] = ":" /\ \A i \in 2..Len(s) - k : y[i] = s[k + i]
  <2>1. PICK c : c = Append(<<>>, ":")
    OBVIOUS
  <2>2. c \in Seq(S) /\ Len(c) = 1 /\ c[1] = ":"
    BY <1>2, <2>1
  <2>3. y \in Seq(S) /\ Len(y) = 1 + Len(r)
    BY <1>1, <1>3, <2>1, <2>2, ConcatProperties
  <2>4. y[1] = c[1] /\ \A i \in 1..Len(r) : y[i + 1] = r[i]
    <3>1. \A i \in 1..Len(c) + Len(r) :
            y[i] = IF i <= Len(c) THEN c[i] ELSE r[i - Len(c)]
      BY <1>1, <1>3, <2>1, <2>2, ConcatProperties
    <3>2. Len(r) \in Nat
      BY <1>1
    <3>3. \A i \in 1..Len(r) : i + 1 \in 1..1 + Len(r) /\ ~(i + 1 <= 1)
                               /\ i + 1 - 1 = i
      BY <3>2
    <3>4. 1 \in 1..1 + Len(r)
      BY <3>2
    <3> QED BY <2>2, <3>1, <3>3, <3>4
  <2>5. \A i \in 2..Len(s) - k : /\ i - 1 \in 1..Len(s) - k - 1
                                 /\ (i - 1) + 1 = i
                                 /\ k + 1 + (i - 1) = k + i
    BY <1>1
  <2>6. Len(y) = Len(s) - k
    BY <1>1, <2>3
  <2>7. ASSUME NEW i \in 2..Len(s) - k PROVE y[i] = s[k + i]
    <3>1. r[i - 1] = s[k + 1 + (i - 1)]
      BY <1>1, <2>5
    <3>2. y[(i - 1) + 1] = r[i - 1]
      BY <1>1, <2>4, <2>5
    <3> QED BY <2>5, <3>1, <3>2
  <2> QED BY <2>2, <2>3, <2>4, <2>6, <2>7
<1>6. PICK z : z = x \o y
  OBVIOUS
<1>7. /\ z \in Seq(S) /\ Len(z) = k + (Len(s) - k)
      /\ \A i \in 1..k + (Len(s) - k) :
           z[i] = IF i <= k THEN x[i] ELSE y[i - k]
  <2>1. /\ z \in Seq(S) /\ Len(z) = Len(x) + Len(y)
        /\ \A i \in 1..Len(x) + Len(y) :
             z[i] = IF i <= Len(x) THEN x[i] ELSE y[i - Len(x)]
    BY <1>4, <1>5, <1>6, ConcatProperties
  <2> QED BY <1>4, <1>5, <2>1
<1>8. Len(z) = Len(s)
  BY <1>1, <1>7
<1>9. ASSUME NEW i \in 1..Len(s) PROVE z[i] = s[i]
  <2>0. i \in Nat /\ k + (Len(s) - k) = Len(s)
    BY <1>1
  <2>1. CASE i <= k - 1
    <3>1. i \in 1..k - 1 /\ i <= k
      BY <1>1, <2>0, <2>1
    <3> QED BY <1>4, <1>7, <2>0, <3>1
  <2>2. CASE i = k
    <3>1. i <= k
      BY <1>1, <2>2
    <3> QED BY <1>1, <1>4, <1>7, <2>0, <2>2, <3>1
  <2>3. CASE i = k + 1
    <3>1. ~(i <= k) /\ i - k = 1
      BY <1>1, <2>3
    <3> QED BY <1>1, <1>5, <1>7, <2>0, <2>3, <3>1
  <2>4. CASE i > k + 1
    <3>1. ~(i <= k) /\ i - k \in 2..Len(s) - k /\ k + (i - k) = i
      BY <1>1, <2>0, <2>4
    <3> QED BY <1>5, <1>7, <2>0, <3>1
  <2>5. i <= k - 1 \/ i = k \/ i = k + 1 \/ i > k + 1
    BY <1>1, <2>0
  <2> QED BY <2>1, <2>2, <2>3, <2>4, <2>5
<1>10. z = s
  BY <1>7, <1>8, <1>9, SeqEqual
<1> QED BY <1>2, <1>3, <1>6, <1>10

\* A side that is empty or has no empty segment.
SoundSide(t) == t = <<>> \/ Sound(t, ":")

\* Between sound sides there is the only "::" of the text, without a third
\* colon, and the text ends in "::" if nothing follows.
LEMMA OnlyDouble ==
  ASSUME NEW S, NEW s \in Seq(S), NEW k \in DoubleColons(s),
         NEW l, l = Before(s, k), NEW r, r = After(s, k),
         SoundSide(l), SoundSide(r)
  PROVE  /\ DoubleColons(s) = {k}
         /\ \A i \in Colons(s) : ~({i + 1, i + 2} \subseteq Colons(s))
         /\ s[Len(s)] = ":" <=> r = <<>>
<1>1. /\ k \in Nat /\ k > 0 /\ k + 1 <= Len(s) /\ Len(s) \in Nat
      /\ s[k] = ":" /\ s[k + 1] = ":"
      /\ l \in Seq(S) /\ Len(l) = k - 1
      /\ r \in Seq(S) /\ Len(r) = Len(s) - k - 1
      /\ \A i \in 1..k - 1 : l[i] = s[i]
      /\ \A i \in 1..Len(s) - k - 1 : r[i] = s[k + 1 + i]
  BY AroundDouble
<1>2. Colons(s) = {i \in 1..Len(s) : s[i] = ":"}
  BY DEF Colons
<1>3. l # <<>> => /\ l[k - 1] # ":" /\ k - 1 > 0
                  /\ \A i \in 1..k - 2 : l[i] = ":" => l[i + 1] # ":"
  <2> SUFFICES ASSUME l # <<>>
               PROVE  /\ l[k - 1] # ":" /\ k - 1 > 0
                      /\ \A i \in 1..k - 2 : l[i] = ":" => l[i + 1] # ":"
    OBVIOUS
  <2>1. Sound(l, ":")
    BY DEF SoundSide
  <2>2. /\ l[Len(l)] # ":"
        /\ \A i \in 1..Len(l) - 1 : l[i] = ":" => l[i + 1] # ":"
    BY <2>1 DEF Sound, NoGap
  <2>3. k - 1 > 0
    BY <1>1
  <2>4. (k - 1) - 1 = k - 2
    BY <1>1
  <2> QED BY <1>1, <2>2, <2>3, <2>4
<1>4. l = <<>> => k = 1
  BY <1>1
<1>5. r # <<>> =>
        /\ r[1] # ":" /\ r[Len(r)] # ":" /\ Len(r) > 0
        /\ \A i \in 1..Len(r) - 1 : r[i] = ":" => r[i + 1] # ":"
  <2> SUFFICES ASSUME r # <<>>
               PROVE  /\ r[1] # ":" /\ r[Len(r)] # ":" /\ Len(r) > 0
                      /\ \A i \in 1..Len(r) - 1 :
                           r[i] = ":" => r[i + 1] # ":"
    OBVIOUS
  <2>1. Sound(r, ":")
    BY DEF SoundSide
  <2>2. Len(r) > 0
    BY <1>1
  <2> QED BY <2>1, <2>2 DEF Sound, NoGap
<1>6. r = <<>> => Len(s) = k + 1
  BY <1>1
<1>7. ASSUME NEW i \in DoubleColons(s) PROVE i = k
  <2>0. i \in Nat /\ i > 0 /\ i + 1 <= Len(s) /\ s[i] = ":" /\ s[i + 1] = ":"
    BY <1>1, <1>2 DEF DoubleColons
  <2>1. CASE i = k - 1
    <3>1. l # <<>> /\ i \in 1..k - 1
      BY <1>1, <1>4, <2>0, <2>1
    <3> QED BY <1>1, <1>3, <2>0, <2>1, <3>1
  <2>2. CASE i < k - 1
    <3>1. l # <<>>
      BY <1>1, <1>4, <2>0, <2>2
    <3>2. i \in 1..k - 1 /\ i + 1 \in 1..k - 1 /\ i \in 1..k - 2
      BY <1>1, <2>0, <2>2
    <3> QED BY <1>1, <1>3, <2>0, <3>1, <3>2
  <2>3. CASE i = k + 1
    <3>1. r # <<>> /\ 1 \in 1..Len(s) - k - 1 /\ k + 1 + 1 = i + 1
      BY <1>1, <1>6, <2>0, <2>3
    <3> QED BY <1>1, <1>5, <2>0, <2>3, <3>1
  <2>4. CASE i > k + 1
    <3>1. PICK j : j = i - k - 1
      OBVIOUS
    <3>2. /\ j \in 1..Len(s) - k - 1 /\ k + 1 + j = i
          /\ j + 1 \in 1..Len(s) - k - 1 /\ k + 1 + (j + 1) = i + 1
          /\ j \in 1..(Len(s) - k - 1) - 1
      BY <1>1, <2>0, <2>4, <3>1
    <3>3. r[j] = ":" /\ r[j + 1] = ":"
      BY <1>1, <2>0, <3>2
    <3>4. r # <<>>
      BY <1>1, <1>6, <2>0, <2>4
    <3> QED BY <1>1, <1>5, <3>2, <3>3, <3>4
  <2>5. i < k - 1 \/ i = k - 1 \/ i = k \/ i = k + 1 \/ i > k + 1
    BY <1>1, <2>0
  <2> QED BY <2>1, <2>2, <2>3, <2>4, <2>5
<1>8. ASSUME NEW i \in Colons(s), {i + 1, i + 2} \subseteq Colons(s)
      PROVE  FALSE
  <2>1. i \in Nat /\ i + 1 + 1 = i + 2
    BY <1>1, <1>2
  <2>2. i \in DoubleColons(s) /\ i + 1 \in DoubleColons(s)
    BY <1>8, <2>1 DEF DoubleColons
  <2>3. i = k /\ i + 1 = k
    BY <1>7, <2>2
  <2> QED BY <2>1, <2>3
<1>9. s[Len(s)] = ":" <=> r = <<>>
  <2>1. CASE r = <<>>
    BY <1>1, <1>6, <2>1
  <2>2. CASE r # <<>>
    <3>1. Len(r) \in 1..Len(s) - k - 1 /\ k + 1 + Len(r) = Len(s)
      BY <1>1, <1>5, <2>2
    <3> QED BY <1>1, <1>5, <2>2, <3>1
  <2> QED BY <2>1, <2>2
<1> QED BY <1>7, <1>8, <1>9

\* The colons after something else than a colon.
Firsts(s) == {i \in Colons(s) : i > 1 /\ s[i - 1] # ":"}

\* The segments of the two sides, counted by the colons.
LEMMA CountSides ==
  ASSUME NEW S, NEW s \in Seq(S), NEW k \in DoubleColons(s),
         NEW l, l = Before(s, k), NEW r, r = After(s, k),
         SoundSide(l), SoundSide(r)
  PROVE  /\ Cardinality(Firsts(s)) \in Nat
         /\ Len(Side(l)) \in Nat /\ Len(Side(r)) \in Nat
         /\ Cardinality(Firsts(s)) + 1
              = Len(Side(l)) + Len(Side(r)) + (IF r = <<>> THEN 1 ELSE 0)
         /\ Len(Split(s, ":")) = Len(Split(l, ":")) + 1 + Len(Split(r, ":"))
<1>1. /\ k \in Nat /\ k > 0 /\ k + 1 <= Len(s) /\ Len(s) \in Nat
      /\ s[k] = ":" /\ s[k + 1] = ":"
      /\ l \in Seq(S) /\ Len(l) = k - 1 /\ r \in Seq(S)
      /\ \A i \in 1..k - 1 : l[i] = s[i]
  BY AroundDouble
<1>2. DoubleColons(s) = {k}
  BY OnlyDouble
<1>3. Colons(s) = Seps(s, ":")
  BY DEF Colons, Seps
<1>4. PICK n : n = Cardinality(Seps(s, ":"))
  OBVIOUS
<1>5. IsFiniteSet(Seps(s, ":")) /\ n \in Nat /\ Len(Split(s, ":")) = n + 1
  <2>1. IsFiniteSet(Seps(s, ":"))
    BY SplitCount
  <2>2. Len(Split(s, ":")) = Cardinality(Seps(s, ":")) + 1
    BY SplitCount
  <2> QED BY <1>4, <2>1, <2>2, FS_CardinalityType
<1>6. PICK p, q : p = Len(Split(l, ":")) /\ q = Len(Split(r, ":"))
  OBVIOUS
<1>7. p \in Nat /\ q \in Nat
  BY <1>1, <1>6, SplitTyped
<1>8. Len(Split(s, ":")) = p + 1 + q
  <2>1. ":" \in S /\ s = Append(l, ":") \o (Append(<<>>, ":") \o r)
    BY DoubleApart
  <2>2. PICK y, e : y = Append(<<>>, ":") \o r /\ e = Split(<<>>, ":")
    OBVIOUS
  <2>3. Split(y, ":") = Split(<<>>, ":") \o Split(r, ":")
    <3>1. <<>> \in Seq(S)
      OBVIOUS
    <3> QED BY <1>1, <2>1, <2>2, <3>1, SplitConcat
  <2>4. y \in Seq(S)
    <3>1. Append(<<>>, ":") \in Seq(S)
      BY <2>1
    <3> QED BY <1>1, <2>2, <3>1, ConcatProperties
  <2>5. Split(s, ":") = Split(l, ":") \o Split(y, ":")
    <3>1. l \in Seq(S)
      BY <1>1
    <3>2. s = Append(l, ":") \o y
      BY <2>1, <2>2
    <3>3. Split(Append(l, ":") \o y, ":") = Split(l, ":") \o Split(y, ":")
      BY ONLY <2>1, <2>4, <3>1, SplitConcat
    <3> QED BY <3>2, <3>3
  <2>6. e = <<(<<>>)>>
    <3>1. Start(<<"split", ":">>) = <<(<<>>)>>
      BY DEF Start
    <3> QED BY <2>2, <3>1, ScanEmpty DEF Split
  <2>7. PICK sl, sr, sy : sl = Split(l, ":") /\ sr = Split(r, ":")
                          /\ sy = Split(y, ":")
    OBVIOUS
  <2>8. sl \in Seq(Seq(S \ {":"})) /\ sr \in Seq(Seq(S \ {":"}))
    BY <1>1, <2>7, SplitTyped
  <2>9. PICK Z : Z = Seq(S \ {":"})
    OBVIOUS
  <2>10. sl \in Seq(Z) /\ sr \in Seq(Z)
    BY <2>8, <2>9
  <2>11. e \in Seq(Z) /\ Len(e) = 1
    BY <2>6, <2>9
  <2>12. sy \in Seq(Z) /\ Len(sy) = 1 + Len(sr)
    <3>1. sy = e \o sr
      BY <2>2, <2>3, <2>7
    <3> QED BY ONLY <2>10, <2>11, <3>1, ConcatProperties
  <2>13. Len(sl \o sy) = Len(sl) + Len(sy)
    BY <2>10, <2>12, ConcatProperties
  <2>14. Len(Split(s, ":")) = Len(sl) + (1 + Len(sr))
    BY <2>5, <2>7, <2>12, <2>13
  <2> QED BY <1>6, <1>7, <2>7, <2>14
<1>9. PICK e : e = IF l = <<>> THEN 1 ELSE 0
  OBVIOUS
<1>10. Cardinality(Firsts(s)) = n - 1 - e
  <2> DEFINE C == Colons(s) \ {k + 1}
  <2>1. \A i \in Colons(s) : /\ i \in Nat /\ i > 0 /\ i <= Len(s)
                             /\ s[i] = ":"
    BY <1>1 DEF Colons
  <2>2. k \in Colons(s) /\ k + 1 \in Colons(s)
    BY <1>1 DEF Colons
  <2>3. IsFiniteSet(C) /\ Cardinality(C) = n - 1
    BY <1>3, <1>4, <1>5, <2>2, FS_RemoveElement
  <2>4. \A i \in Colons(s) : i > 1 /\ s[i - 1] = ":" => i = k + 1
    <3> TAKE i \in Colons(s)
    <3> HAVE i > 1 /\ s[i - 1] = ":"
    <3>1. i - 1 \in Colons(s) /\ (i - 1) + 1 \in Colons(s)
      <4>1. i - 1 \in 1..Len(s) /\ (i - 1) + 1 = i
        BY <1>1, <2>1
      <4> QED BY <4>1 DEF Colons
    <3>2. i - 1 = k
      BY <1>2, <3>1 DEF DoubleColons
    <3> QED BY <1>1, <2>1, <3>2
  <2>5. CASE l = <<>>
    <3>1. k = 1 /\ e = 1
      BY <1>1, <1>9, <2>5
    <3>2. k \in C
      BY <1>1, <2>2
    <3>3. Cardinality(C \ {k}) = n - 1 - 1
      BY <2>3, <3>2, FS_RemoveElement
    <3>4. Firsts(s) = C \ {k}
      <4>1. ASSUME NEW i \in Firsts(s) PROVE i \in C \ {k}
        <5>1. i \in Colons(s) /\ i > 1 /\ s[i - 1] # ":"
          BY DEF Firsts
        <5>2. i # k + 1
          BY <1>1, <5>1
        <5>3. i # k
          BY <2>1, <3>1, <5>1
        <5> QED BY <5>1, <5>2, <5>3
      <4>2. ASSUME NEW i \in C \ {k} PROVE i \in Firsts(s)
        <5>1. i \in Colons(s) /\ i # k /\ i # k + 1
          OBVIOUS
        <5>2. i > 1
          BY <2>1, <3>1, <5>1
        <5>3. s[i - 1] # ":"
          BY <2>4, <5>1, <5>2
        <5> QED BY <5>1, <5>2, <5>3 DEF Firsts
      <4> QED BY <4>1, <4>2
    <3> QED BY <3>1, <3>3, <3>4
  <2>6. CASE l # <<>>
    <3>1. e = 0 /\ k > 1
      BY <1>1, <1>9, <2>6
    <3>2. Sound(l, ":")
      BY <2>6 DEF SoundSide
    <3>3. s[1] # ":"
      <4>1. l[1] # ":"
        BY <2>6, <3>2 DEF Sound, NoGap
      <4>2. 1 \in 1..k - 1
        BY <1>1, <3>1
      <4> QED BY <1>1, <4>1, <4>2
    <3>4. Firsts(s) = C
      <4>1. ASSUME NEW i \in Firsts(s) PROVE i \in C
        <5>1. i \in Colons(s) /\ i > 1 /\ s[i - 1] # ":"
          BY DEF Firsts
        <5>2. i # k + 1
          BY <1>1, <5>1
        <5> QED BY <5>1, <5>2
      <4>2. ASSUME NEW i \in C PROVE i \in Firsts(s)
        <5>1. i \in Colons(s) /\ i # k + 1
          OBVIOUS
        <5>2. i > 1
          <6>1. i # 1
            BY <2>1, <3>3, <5>1
          <6> QED BY <2>1, <5>1, <6>1
        <5>3. s[i - 1] # ":"
          BY <2>4, <5>1, <5>2
        <5> QED BY <5>1, <5>2, <5>3 DEF Firsts
      <4> QED BY <4>1, <4>2
    <3>5. n - 1 = n - 1 - e
      BY <1>5, <3>1
    <3> QED BY <2>3, <3>4, <3>5
  <2> QED BY <2>5, <2>6
<1>11. ASSUME NEW t \in Seq(S)
       PROVE  /\ t = <<>> => Len(Side(t)) = 0 /\ Len(Split(t, ":")) = 1
              /\ t # <<>> => Side(t) = Split(t, ":")
  <2>1. t = <<>> => Split(t, ":") = <<(<<>>)>>
    <3>1. Start(<<"split", ":">>) = <<(<<>>)>>
      BY DEF Start
    <3> QED BY <3>1, ScanEmpty DEF Split
  <2>2. Len(<<(<<>>)>>) = 1 /\ Len(<<>>) = 0
    OBVIOUS
  <2> QED BY <2>1, <2>2 DEF Side
<1>12. PICK a, b : a = Len(Side(l)) /\ b = Len(Side(r))
  OBVIOUS
<1>13. PICK f : f = IF r = <<>> THEN 1 ELSE 0
  OBVIOUS
<1>14. a + e = p /\ a \in Nat /\ e \in Nat
  <2>1. l \in Seq(S)
    BY <1>1
  <2>2. CASE l = <<>>
    <3>1. a = 0 /\ p = 1 /\ e = 1
      BY <1>6, <1>9, <1>11, <1>12, <2>1, <2>2
    <3> QED BY <3>1
  <2>3. CASE l # <<>>
    <3>1. a = p /\ e = 0
      BY <1>6, <1>9, <1>11, <1>12, <2>1, <2>3
    <3> QED BY <1>7, <3>1
  <2> QED BY <2>2, <2>3
<1>15. b + f = q /\ b \in Nat /\ f \in Nat
  <2>1. r \in Seq(S)
    BY <1>1
  <2>2. CASE r = <<>>
    <3>1. b = 0 /\ q = 1 /\ f = 1
      BY <1>6, <1>13, <1>11, <1>12, <2>1, <2>2
    <3> QED BY <3>1
  <2>3. CASE r # <<>>
    <3>1. b = q /\ f = 0
      BY <1>6, <1>13, <1>11, <1>12, <2>1, <2>3
    <3> QED BY <1>7, <3>1
  <2> QED BY <2>2, <2>3
<1>16. n + 1 = p + 1 + q
  BY <1>5, <1>8
<1>17. n - 1 - e + 1 = a + b + f
  BY ONLY <1>5, <1>7, <1>14, <1>15, <1>16
<1>18. n - 1 - e \in Nat
  <2>1. Cardinality(Firsts(s)) \in Nat
    <3>1. Firsts(s) \subseteq Seps(s, ":")
      BY <1>3 DEF Firsts
    <3> QED BY <1>5, <3>1, FS_Subset, FS_CardinalityType
  <2> QED BY <1>10, <2>1
<1> QED BY <1>6, <1>8, <1>10, <1>12, <1>13, <1>14, <1>15, <1>17, <1>18

-----------------------------------------------------------------------------
(* The groups of an IPv6 address.                                          *)

\* The hexadecimal digits, the values of a byte and of a group.
HexSet == Of(Hex)
Byte == Len(Hex) * Len(Hex)
GroupValues == {n \in Nat : n < Byte * Byte}

\* The hexadecimal digits are digits, and no colon or bracket.
LEMMA HexDigits ==
  /\ Digits(Hex) /\ ToSet(Hex) = HexSet
  /\ ":" \notin HexSet /\ "[" \notin HexSet /\ "]" \notin HexSet
  /\ Len(Hex) \in Nat /\ Len(Hex) > 1 /\ Byte \in Nat
<1>1. Hex \in Seq(STRING) /\ Len(Hex) > 1
  BY HexAssumption
<1>2. DOMAIN Hex = 1..Len(Hex) /\ Len(Hex) \in Nat
  BY <1>1
<1>3. ToSet(Hex) = HexSet
  BY <1>2 DEF ToSet, HexSet, Of
<1>4. \A i \in 1..Len(Hex) : Hex[i] \in HexSet
  BY DEF HexSet, Of
<1>5. Hex \in Seq(HexSet)
  BY <1>1, <1>2, <1>4, ElementsOf DEF ToSet
<1>6. Digits(Hex)
  BY <1>1, <1>2, <1>5, HexAssumption DEF Digits, HexSet
<1>7. ":" \notin HexSet /\ "[" \notin HexSet /\ "]" \notin HexSet
  <2>1. ToSet(Hex) \cap {":", "[", "]"} = {}
    BY HexAssumption
  <2>2. \A c \in HexSet : c \notin {":", "[", "]"}
    BY <1>3, <2>1
  <2> QED BY <2>2
<1>8. Byte \in Nat
  BY <1>2 DEF Byte
<1> QED BY <1>1, <1>2, <1>3, <1>6, <1>7, <1>8

\* Texts of at most n digits are numbers below m.
Below(n, m) ==
  \A w \in Seq(HexSet) :
    Len(w) <= n => Number(w, Hex) \in Nat /\ Number(w, Hex) < m

\* A digit more multiplies the bound by the base.
LEMMA OneMoreDigit ==
  ASSUME NEW n \in Nat, NEW m \in Nat, m > 0, Below(n, m)
  PROVE  Below(n + 1, m * Len(Hex)) /\ m * Len(Hex) \in Nat
         /\ m * Len(Hex) > 0
<1>1. PICK b : b = Len(Hex)
  OBVIOUS
<1>2. b \in Nat /\ b > 1 /\ m * b \in Nat
  BY <1>1, HexDigits
<1>3. m <= m * b
  <2>1. 1 <= b
    BY <1>2
  <2>2. 1 * m <= b * m
    BY <1>2, <2>1, MulMono
  <2> QED BY <1>2, <2>2
<1>4. ASSUME NEW w \in Seq(HexSet), Len(w) <= n + 1
      PROVE  Number(w, Hex) \in Nat /\ Number(w, Hex) < m * b
  <2>0. Number(w, Hex) \in Nat
    BY HexDigits, NumberIsNat DEF HexSet
  <2>1. CASE Len(w) <= n
    <3>1. Number(w, Hex) < m
      BY <2>1 DEF Below
    <3> QED BY <1>2, <1>3, <2>0, <3>1
  <2>2. CASE Len(w) = n + 1
    <3>1. PICK f, c : f = SubSeq(w, 1, n) /\ c = w[n + 1]
      OBVIOUS
    <3>2. f \in Seq(HexSet) /\ Len(f) = n /\ c \in HexSet /\ w = Append(f, c)
      <4>1. f \in Seq(HexSet) /\ Len(f) = n /\ \A i \in 1..n : f[i] = w[i]
        BY <2>2, <3>1
      <4>2. c \in HexSet
        BY <2>2, <3>1
      <4>3. PICK g : g = Append(f, c)
        OBVIOUS
      <4>4. /\ g \in Seq(HexSet) /\ Len(g) = n + 1 /\ g[n + 1] = c
            /\ \A i \in 1..n : g[i] = f[i]
        BY <4>1, <4>2, <4>3
      <4>5. ASSUME NEW i \in 1..n + 1 PROVE g[i] = w[i]
        <5>1. i \in 1..n \/ i = n + 1
          OBVIOUS
        <5> QED BY <3>1, <4>1, <4>4, <5>1
      <4>6. g = w
        BY <2>2, <4>4, <4>5, SeqEqual
      <4> QED BY <4>1, <4>2, <4>3, <4>6
    <3>3. Number(w, Hex) = Number(f, Hex) * Len(Hex) + Digit(c, Hex)
      BY <3>2, NumberSteps
    <3>4. PICK x, d : x = Number(f, Hex) /\ d = Digit(c, Hex)
      OBVIOUS
    <3>5. x \in Nat /\ x < m
      BY <3>2, <3>4 DEF Below
    <3>6. d \in 0..b - 1
      BY <1>1, <3>2, <3>4, HexDigits, DigitValue DEF HexSet
    <3>7. (x + 1) * b <= m * b
      BY <1>2, <3>5, MulMono
    <3>8. (x + 1) * b = x * b + b /\ x * b \in Nat
      BY <1>2, <3>5
    <3>9. x * b + d < m * b
      BY <1>2, <3>6, <3>7, <3>8
    <3> QED BY <1>1, <2>0, <3>3, <3>4, <3>9
  <2>3. Len(w) <= n \/ Len(w) = n + 1
    BY <1>4
  <2> QED BY <2>1, <2>2, <2>3
<1>5. m * b > 0
  BY <1>2, <1>3
<1> QED BY <1>1, <1>2, <1>4, <1>5 DEF Below

\* Up to four digits are a value of a group.
LEMMA GroupBound ==
  ASSUME NEW g \in Seq(HexSet), GoodGroup(g)
  PROVE  Number(g, Hex) \in GroupValues
<1>1. PICK b : b = Len(Hex)
  OBVIOUS
<1>2. b \in Nat
  BY <1>1, HexDigits
<1>3. Below(0, 1)
  <2>1. \A w \in Seq(HexSet) : Len(w) <= 0 => w = <<>>
    OBVIOUS
  <2>2. Number(<<>>, Hex) = 0
    <3>1. Start(<<"number", Hex>>) = 0
      BY DEF Start
    <3> QED BY <3>1, ScanEmpty DEF Number
  <2> QED BY <2>1, <2>2 DEF Below
<1>4. Below(1, 1 * b) /\ 1 * b \in Nat /\ 1 * b > 0
  <2>1. Below(0 + 1, 1 * b) /\ 1 * b \in Nat /\ 1 * b > 0
    BY <1>1, <1>3, OneMoreDigit
  <2> QED BY <2>1
<1>5. Below(2, 1 * b * b) /\ 1 * b * b \in Nat /\ 1 * b * b > 0
  <2>1. /\ Below(1 + 1, (1 * b) * b)
        /\ (1 * b) * b \in Nat /\ (1 * b) * b > 0
    BY <1>1, <1>4, OneMoreDigit
  <2> QED BY <2>1
<1>6. Below(3, 1 * b * b * b) /\ 1 * b * b * b \in Nat /\ 1 * b * b * b > 0
  <2>1. /\ Below(2 + 1, (1 * b * b) * b)
        /\ (1 * b * b) * b \in Nat /\ (1 * b * b) * b > 0
    BY <1>1, <1>5, OneMoreDigit
  <2> QED BY <2>1
<1>7. Below(4, 1 * b * b * b * b)
  <2>1. Below(3 + 1, (1 * b * b * b) * b)
    BY <1>1, <1>6, OneMoreDigit
  <2> QED BY <2>1
<1>8. 1 * b * b * b * b = (b * b) * (b * b)
  <2>1. 1 * b = b
    BY <1>2
  <2>2. b * b \in Nat
    BY <1>2
  <2>3. (b * b) * b * b = (b * b) * (b * b)
    BY <1>2, <2>2, MulRules
  <2> QED BY <2>1, <2>3
<1>9. Len(g) <= 4
  <2>1. Len(g) \in 1..4
    BY DEF GoodGroup
  <2>2. PICK n : n = Len(g)
    OBVIOUS
  <2> QED BY <2>1, <2>2
<1> QED BY <1>1, <1>7, <1>8, <1>9 DEF Below, GroupValues, Byte

\* A group is printed with one to four digits that read back.
LEMMA PrintGroupReads ==
  ASSUME NEW g \in GroupValues
  PROVE  /\ PrintGroup(g) \in Seq(HexSet) /\ GoodGroup(PrintGroup(g))
         /\ Number(PrintGroup(g), Hex) = g
<1>1. PICK b, m : b = Len(Hex) /\ m = b * b
  OBVIOUS
<1>2. b \in Nat /\ b > 1 /\ m \in Nat /\ m > 0 /\ Digits(Hex) /\ m = Byte
  <2>1. b \in Nat /\ b > 1 /\ m \in Nat /\ Digits(Hex) /\ m = Byte
    BY <1>1, HexDigits DEF Byte
  <2>2. 1 * b <= b * b
    BY <2>1, MulMono
  <2> QED BY <1>1, <2>1, <2>2
<1>3. g \in Nat /\ g < m * m
  BY <1>2 DEF GroupValues
<1>4. PICK x, y : /\ x \in 0..m - 1 /\ y \in 0..m - 1
                  /\ g = x * m + y /\ g \div m = x /\ g % m = y
  BY <1>2, <1>3, TwoDigits
<1>5. m <= m * b
  <2>1. 1 * m <= b * m
    BY <1>2, MulMono
  <2> QED BY <1>2, <2>1
<1>6. PICK low, u : low = Numeral(y, Hex) /\ u = Numeral(x, Hex)
  OBVIOUS
<1>7. /\ low \in Seq(HexSet) /\ Number(low, Hex) = y /\ Len(low) \in 1..2
      /\ u \in Seq(HexSet) /\ Number(u, Hex) = x /\ Len(u) \in 1..2
  <2>1. /\ x \in Nat /\ y \in Nat /\ x < b * b /\ y < b * b
        /\ x < b * b * b /\ y < b * b * b
    <3>1. /\ x \in Nat /\ y \in Nat /\ x < m /\ y < m
          /\ x < m * b /\ y < m * b
      <4>1. m * b \in Nat
        BY <1>2
      <4>2. x \in 0..m - 1 /\ y \in 0..m - 1
        BY ONLY <1>4
      <4> QED BY ONLY <1>2, <1>5, <4>1, <4>2
    <3> QED BY <1>1, <3>1
  <2>2. low \in Seq(HexSet) /\ Number(low, Hex) = y /\ Len(low) \in 1..2
    BY <1>1, <1>2, <1>6, <2>1, NumeralReads DEF HexSet
  <2>3. u \in Seq(HexSet) /\ Number(u, Hex) = x /\ Len(u) \in 1..2
    BY <1>1, <1>2, <1>6, <2>1, NumeralReads DEF HexSet
  <2> QED BY <2>2, <2>3
<1>8. CASE x = 0
  <2>1. PrintGroup(g) = low
    BY <1>1, <1>4, <1>6, <1>8 DEF PrintGroup
  <2>2. g = y
    BY <1>2, <1>4, <1>8
  <2>3. Len(low) \in 1..4
    <3>1. PICK n : n = Len(low)
      OBVIOUS
    <3> QED BY <1>7, <3>1
  <2> QED BY <1>7, <2>1, <2>2, <2>3 DEF GoodGroup
<1>9. CASE x # 0
  <2>0. Hex[1] \in HexSet /\ Digit(Hex[1], Hex) = 0
    <3>1. 1 \in 1..Len(Hex)
      BY <1>1, <1>2
    <3> QED BY <1>2, <3>1, DigitValue DEF HexSet, Of
  <2>1. PrintGroup(g)
          = u \o (IF Len(low) = 1 THEN <<Hex[1]>> ELSE <<>>) \o low
    BY <1>1, <1>4, <1>6, <1>9 DEF PrintGroup
  <2>2. \E c, d \in HexSet : /\ PrintGroup(g) = Append(Append(u, c), d)
                             /\ Digit(c, Hex) * b + Digit(d, Hex) = y
    <3>1. CASE Len(low) = 1
      <4>1. PICK c : c = low[1]
        OBVIOUS
      <4>2. c \in HexSet /\ low = <<c>>
        BY <1>7, <3>1, <4>1
      <4>3. Digit(c, Hex) = y
        <5>1. Number(<<c>>, Hex) = Digit(c, Hex)
          BY <1>2, <4>2, NumberOfDigits DEF HexSet
        <5> QED BY <1>7, <4>2, <5>1
      <4>4. PICK z : z = Hex[1]
        OBVIOUS
      <4>5. z \in HexSet
        BY <2>0, <4>4
      <4>6. u \o <<z>> = Append(u, z)
        BY <1>7, <4>5, AppendIsConcat
      <4>7. Append(u, z) \o <<c>> = Append(Append(u, z), c)
        <5>1. Append(u, z) \in Seq(HexSet)
          BY <1>7, <4>5
        <5> QED BY <4>2, <5>1, AppendIsConcat
      <4>8. PrintGroup(g) = Append(Append(u, z), c)
        BY <2>1, <3>1, <4>2, <4>4, <4>6, <4>7
      <4>9. Digit(z, Hex) * b + Digit(c, Hex) = y
        <5>1. 0 * b + y = y
          BY ONLY <1>2, <1>4
        <5> QED BY <2>0, <4>3, <4>4, <5>1
      <4> QED BY <4>2, <4>5, <4>8, <4>9
    <3>2. CASE Len(low) = 2
      <4>1. PICK c, d : c = low[1] /\ d = low[2]
        OBVIOUS
      <4>2. c \in HexSet /\ d \in HexSet /\ low = <<c, d>>
        <5>1. PICK S, e : S = HexSet /\ e = <<c, d>>
          OBVIOUS
        <5>2. low \in Seq(S) /\ Len(low) = 2
          BY ONLY <1>7, <3>2, <5>1
        <5>3. c \in S /\ d \in S
          BY ONLY <4>1, <5>2
        <5>4. e \in Seq(S) /\ Len(e) = 2 /\ e[1] = c /\ e[2] = d
          BY ONLY <5>1, <5>3
        <5>5. \A i \in 1..2 : i = 1 \/ i = 2
          OBVIOUS
        <5>6. low = e
          BY ONLY <4>1, <5>2, <5>4, <5>5, SeqEqual
        <5> QED BY ONLY <5>1, <5>3, <5>6
      <4>3. Digit(c, Hex) * b + Digit(d, Hex) = y
        <5>1. Number(<<c, d>>, Hex)
                = Digit(c, Hex) * Len(Hex) + Digit(d, Hex)
          BY <1>2, <4>2, NumberOfDigits DEF HexSet
        <5> QED BY <1>1, <1>7, <4>2, <5>1
      <4>4. PICK w : w = <<c>>
        OBVIOUS
      <4>5. w \in Seq(HexSet) /\ Len(w) = 1 /\ w[1] = c
        BY <4>2, <4>4
      <4>6. low = Append(w, d)
        <5>1. PICK a : a = Append(w, d)
          OBVIOUS
        <5>2. a \in Seq(HexSet) /\ Len(a) = 2 /\ a[1] = c /\ a[2] = d
          <6>1. PICK S : S = HexSet
            OBVIOUS
          <6>2. d \in S /\ w \in Seq(S) /\ Len(w) = 1 /\ w[1] = c
            BY ONLY <4>2, <4>5, <6>1
          <6>3. a \in Seq(S) /\ Len(a) = 2 /\ a[1] = c /\ a[2] = d
            BY ONLY <5>1, <6>2
          <6> QED BY ONLY <6>1, <6>3
        <5>3. \A i \in 1..2 : i = 1 \/ i = 2
          OBVIOUS
        <5>4. a = low
          BY <1>7, <3>2, <4>1, <5>2, <5>3, SeqEqual
        <5> QED BY <5>1, <5>4
      <4>7. u \o low = Append(u \o w, d)
        <5>1. u \in Seq(HexSet) /\ w \in Seq(HexSet) /\ d \in HexSet
          BY <1>7, <4>2, <4>5
        <5>2. u \o Append(w, d) = Append(u \o w, d)
          BY ONLY <5>1, ConcatAppend
        <5> QED BY <4>6, <5>2
      <4>8. u \o w = Append(u, c)
        BY <1>7, <4>2, <4>4, AppendIsConcat
      <4>9. u \o <<>> = u
        BY <1>7, ConcatEmptySeq
      <4>10. PrintGroup(g) = u \o low
        BY <2>1, <3>2, <4>9
      <4> QED BY <4>2, <4>3, <4>7, <4>8, <4>10
    <3>3. Len(low) = 1 \/ Len(low) = 2
      <4>1. PICK n : n = Len(low)
        OBVIOUS
      <4> QED BY <1>7, <4>1
    <3> QED BY <3>1, <3>2, <3>3
  <2>3. PICK c \in HexSet, d \in HexSet :
          /\ PrintGroup(g) = Append(Append(u, c), d)
          /\ Digit(c, Hex) * b + Digit(d, Hex) = y
    BY <2>2
  <2>4. PICK v : v = Append(u, c)
    OBVIOUS
  <2>5. v \in Seq(HexSet) /\ Len(v) = Len(u) + 1
    BY <1>7, <2>4
  <2>6. Number(v, Hex) = x * b + Digit(c, Hex)
    BY <1>1, <1>7, <2>4, NumberSteps
  <2>7. Number(Append(v, d), Hex)
          = (x * b + Digit(c, Hex)) * b + Digit(d, Hex)
    BY <1>1, <2>5, <2>6, NumberSteps
  <2>8. PICK i, j : i = Digit(c, Hex) /\ j = Digit(d, Hex)
    OBVIOUS
  <2>9. i \in Nat /\ j \in Nat /\ x \in Nat
    <3>1. i \in 0..b - 1 /\ j \in 0..b - 1
      BY <1>1, <1>2, <2>8, DigitValue DEF HexSet
    <3> QED BY ONLY <1>4, <3>1
  <2>10. (x * b + i) * b + j = x * m + (i * b + j)
    <3>1. (x * b + i) * b = (x * b) * b + i * b
      BY <1>2, <2>9, MulRules
    <3>2. (x * b) * b = x * (b * b)
      BY <1>2, <2>9, MulRules
    <3>3. i * b \in Nat /\ x * m \in Nat
      BY <1>2, <2>9
    <3> QED BY <1>1, <2>9, <3>1, <3>2, <3>3
  <2>11. Number(PrintGroup(g), Hex) = g
    BY <1>4, <2>3, <2>4, <2>7, <2>8, <2>10
  <2>12. PrintGroup(g) \in Seq(HexSet) /\ Len(PrintGroup(g)) = Len(u) + 2
    <3>1. PICK w, n : w = Append(v, d) /\ n = Len(u)
      OBVIOUS
    <3>2. w \in Seq(HexSet) /\ Len(w) = n + 1 + 1 /\ n \in Nat
      BY <1>7, <2>5, <3>1
    <3> QED BY <2>3, <2>4, <3>1, <3>2
  <2>13. Len(u) + 2 \in 1..4
    <3>1. PICK n : n = Len(u)
      OBVIOUS
    <3> QED BY <1>7, <3>1
  <2> QED BY <2>11, <2>12, <2>13 DEF GoodGroup
<1> QED BY <1>8, <1>9

-----------------------------------------------------------------------------
(* What the two forms of an address are read as.                           *)

\* Segments that Populate accepts, and what it makes of them.
GoodSegs(segs) == \A i \in DOMAIN segs : GoodGroup(segs[i])
Value(segs) == [i \in DOMAIN segs |-> Number(segs[i], Hex)]

\* The groups of two sides, n of them, with zeros between.
Filled(x, n, z) == x \o Zeros(Groups - n) \o z

\* The segments of a side; good ones are not empty.
LEMMA SideFacts ==
  ASSUME NEW S, NEW t \in Seq(S)
  PROVE  /\ Side(t) \in Seq(Seq(S \ {":"}))
         /\ Len(Side(t)) \in Nat /\ DOMAIN Side(t) = 1..Len(Side(t))
         /\ GoodSegs(Side(t)) => SoundSide(t)
<1>1. Side(t) \in Seq(Seq(S \ {":"}))
  <2>1. Split(t, ":") \in Seq(Seq(S \ {":"}))
    BY SplitTyped
  <2>2. CASE t = <<>>
    <3>1. Side(t) = <<>>
      BY <2>2 DEF Side
    <3> QED BY <3>1
  <2>3. CASE t # <<>>
    <3>1. Side(t) = Split(t, ":")
      BY <2>3 DEF Side
    <3> QED BY <2>1, <3>1
  <2> QED BY <2>2, <2>3
<1>2. PICK x, Z : x = Side(t) /\ Z = Seq(S \ {":"})
  OBVIOUS
<1>3. Len(x) \in Nat /\ DOMAIN x = 1..Len(x)
  <2>1. x \in Seq(Z)
    BY <1>1, <1>2
  <2> QED BY <2>1
<1>4. ASSUME GoodSegs(Side(t)), t # <<>> PROVE Sound(t, ":")
  <2>1. x = Split(t, ":")
    BY <1>2, <1>4 DEF Side
  <2>2. \A i \in 1..Len(x) : x[i] # <<>>
    <3> TAKE i \in 1..Len(x)
    <3>1. GoodGroup(x[i])
      BY <1>2, <1>3, <1>4 DEF GoodSegs
    <3>2. PICK g, n : g = x[i] /\ n = Len(g)
      OBVIOUS
    <3>3. n \in 1..4
      BY <3>1, <3>2 DEF GoodGroup
    <3>4. n # 0
      BY <3>3
    <3> QED BY <3>2, <3>4
  <2> QED BY <2>1, <2>2, SplitSound
<1> QED BY <1>1, <1>2, <1>3, <1>4 DEF SoundSide

\* Between sound sides, the text ends in "::" if nothing follows.
LEMMA EndsDouble ==
  ASSUME NEW S, NEW s \in Seq(S), NEW k \in DoubleColons(s),
         NEW l, l = Before(s, k), NEW r, r = After(s, k),
         SoundSide(l), SoundSide(r)
  PROVE  Ends(s, <<":", ":">>) <=> r = <<>>
<1>1. /\ k \in Nat /\ k > 0 /\ k + 1 <= Len(s) /\ Len(s) \in Nat
      /\ s[k] = ":" /\ s[k + 1] = ":"
      /\ r \in Seq(S) /\ Len(r) = Len(s) - k - 1
  BY AroundDouble
<1>2. s[Len(s)] = ":" <=> r = <<>>
  BY OnlyDouble
<1>3. PICK n, e : n = Len(s) /\ e = SubSeq(s, n - 1, n)
  OBVIOUS
<1>4. n - 1 \in Nat /\ n - 1 > 0 /\ n \in Nat /\ n >= 2
  BY <1>1, <1>3
<1>5. e \in Seq(S) /\ Len(e) = 2 /\ e[1] = s[n - 1] /\ e[2] = s[n]
  <2>1. Len(e) = n - (n - 1) + 1 /\ e \in Seq(S)
    BY <1>3, <1>4, SubSeqProperties
  <2>2. \A i \in 1..n - (n - 1) + 1 : e[i] = s[(n - 1) + i - 1]
    BY <1>3, <1>4, SubSeqProperties
  <2>3. /\ n - (n - 1) + 1 = 2 /\ (n - 1) + 1 - 1 = n - 1
        /\ (n - 1) + 2 - 1 = n
    BY <1>4
  <2>4. 1 \in 1..2 /\ 2 \in 1..2
    OBVIOUS
  <2> QED BY <2>1, <2>2, <2>3, <2>4
<1>6. PICK d : d = <<":", ":">>
  OBVIOUS
<1>7. Len(d) = 2 /\ d[1] = ":" /\ d[2] = ":" /\ d \in Seq({":"})
  BY <1>6
<1>8. Ends(s, d) <=> e = d
  <2>1. n - 2 + 1 = n - 1 /\ 2 <= n
    BY <1>4
  <2> QED BY <1>3, <1>7, <2>1 DEF Ends
<1>9. ASSUME e = d PROVE r = <<>>
  BY <1>2, <1>3, <1>5, <1>7, <1>9
<1>10. ASSUME r = <<>> PROVE e = d
  <2>1. n = k + 1 /\ n - 1 = k
    BY <1>1, <1>3, <1>10
  <2>2. e[1] = ":" /\ e[2] = ":"
    BY <1>1, <1>5, <2>1
  <2>3. \A i \in 1..2 : i = 1 \/ i = 2
    OBVIOUS
  <2>4. \A i \in 1..Len(e) : e[i] = d[i]
    BY <1>5, <1>7, <2>2, <2>3
  <2> QED BY <1>5, <1>7, <2>4, SeqEqual
<1> QED BY <1>6, <1>8, <1>9, <1>10

\* There is a last "::".
LEMMA LastDouble ==
  ASSUME NEW S, NEW s \in Seq(S), DoubleColons(s) # {},
         NEW k, k = CHOOSE i \in DoubleColons(s) :
                      \A j \in DoubleColons(s) : j <= i
  PROVE  k \in DoubleColons(s) /\ \A j \in DoubleColons(s) : j <= k
<1> DEFINE U == {n \in Nat : \A j \in DoubleColons(s) : j <= n}
<1>1. \A j \in DoubleColons(s) : j \in Nat /\ j > 0 /\ j <= Len(s)
  <2> TAKE j \in DoubleColons(s)
  <2>1. j \in 1..Len(s) /\ Len(s) \in Nat
    BY ONLY DEF DoubleColons, Colons
  <2> QED BY <2>1
<1>2. Len(s) \in U
  BY <1>1
<1>3. PICK u \in U : \A n \in U : u <= n
  BY <1>2, LeastNumber
<1>4. u \in DoubleColons(s)
  <2> SUFFICES ASSUME u \notin DoubleColons(s) PROVE FALSE
    OBVIOUS
  <2>1. \A j \in DoubleColons(s) : j <= u /\ j # u
    OBVIOUS
  <2>2. PICK j : j \in DoubleColons(s)
    OBVIOUS
  <2>3. u > 0
    BY <1>1, <2>1, <2>2
  <2>4. u - 1 \in Nat /\ \A i \in DoubleColons(s) : i <= u - 1
    BY <1>1, <2>1, <2>3
  <2>5. u - 1 \in U
    BY <2>4
  <2> QED BY <1>3, <2>5
<1>5. \E i \in DoubleColons(s) : \A j \in DoubleColons(s) : j <= i
  BY <1>3, <1>4
<1> QED BY <1>5

\* The form with "::" is read from its sides.
LEMMA SidesParse ==
  ASSUME NEW S, NEW s \in Seq(S), NEW k \in DoubleColons(s), NEW addr,
         NEW l, l = Before(s, k), NEW r, r = After(s, k),
         GoodSegs(Side(l)), GoodSegs(Side(r)),
         NEW n, n = Len(Side(l)) + Len(Side(r))
  PROVE  /\ n \in Nat
         /\ SegmentCount(addr, s)
              = n + (IF r = <<>> THEN 1 ELSE 0)
                - (IF Ends(addr, <<":", ":">>) THEN 1 ELSE 0)
         /\ TooManySegments(addr, s) => PopulateSides(addr, s) = Error
         /\ ~TooManySegments(addr, s) =>
              PopulateSides(addr, s)
                = Ok(Filled(Value(Side(l)), n, Value(Side(r))))
<1>1. l \in Seq(S) /\ r \in Seq(S)
  BY AroundDouble
<1>2. SoundSide(l) /\ SoundSide(r)
  BY <1>1, SideFacts
<1>3. DoubleColons(s) = {k}
  BY <1>2, OnlyDouble
<1>4. /\ Cardinality(Firsts(s)) \in Nat
      /\ Len(Side(l)) \in Nat /\ Len(Side(r)) \in Nat
      /\ Cardinality(Firsts(s)) + 1
           = Len(Side(l)) + Len(Side(r)) + (IF r = <<>> THEN 1 ELSE 0)
  BY <1>2, CountSides
<1>5. n \in Nat
  BY <1>4
<1>6. SegmentCount(addr, s)
        = n + (IF r = <<>> THEN 1 ELSE 0)
          - (IF Ends(addr, <<":", ":">>) THEN 1 ELSE 0)
  <2>1. PICK c, e, f : /\ c = Cardinality(Firsts(s))
                       /\ e = IF Ends(addr, <<":", ":">>) THEN 1 ELSE 0
                       /\ f = IF r = <<>> THEN 1 ELSE 0
    OBVIOUS
  <2>2. SegmentCount(addr, s) = 1 + c - e
    BY <2>1 DEF SegmentCount, Firsts
  <2>3. c \in Nat /\ e \in Nat /\ f \in Nat /\ c + 1 = n + f
    BY <1>4, <2>1
  <2>4. 1 + c - e = n + f - e
    BY ONLY <1>5, <2>3
  <2> QED BY <2>1, <2>2, <2>4
<1>7. ASSUME NEW t, t = l \/ t = r
      PROVE  (IF t = <<>> THEN Ok(<<>>) ELSE Populate(Split(t, ":")))
               = Ok(Value(Side(t)))
  <2>1. CASE t = <<>>
    <3>1. Side(t) = <<>>
      BY <2>1 DEF Side
    <3>2. Value(<<>>) = <<>>
      BY DEF Value
    <3> QED BY <2>1, <3>1, <3>2
  <2>2. CASE t # <<>>
    <3>1. Side(t) = Split(t, ":") /\ GoodSegs(Side(t))
      BY <1>7, <2>2 DEF Side
    <3> QED BY <2>2, <3>1 DEF Populate, Value, GoodSegs
  <2> QED BY <2>1, <2>2
<1>8. PICK left, right : /\ left = Ok(Value(Side(l)))
                         /\ right = Ok(Value(Side(r)))
  OBVIOUS
<1>9. /\ left.st = "ok" /\ right.st = "ok"
      /\ left.val = Value(Side(l)) /\ right.val = Value(Side(r))
  BY <1>8 DEF Ok
<1>10. PICK kk : kk = CHOOSE i \in DoubleColons(s) :
                        \A j \in DoubleColons(s) : j <= i
  OBVIOUS
<1>11. /\ left = IF Before(s, kk) = <<>> THEN Ok(<<>>)
                 ELSE Populate(Split(Before(s, kk), ":"))
       /\ right = IF After(s, kk) = <<>> THEN Ok(<<>>)
                  ELSE Populate(Split(After(s, kk), ":"))
  <2>1. kk = k
    BY <1>3, <1>10, LastDouble
  <2> QED BY <1>7, <1>8, <2>1
<1>12. PopulateSides(addr, s)
         = IF \/ TooManySegments(addr, s)
              \/ left.st # "ok" \/ right.st # "ok"
           THEN Error
           ELSE Ok(left.val
                   \o Zeros(Groups - Len(left.val) - Len(right.val))
                   \o right.val)
  BY ONLY <1>10, <1>11 DEF PopulateSides, Before, After
<1>13. Len(left.val) = Len(Side(l)) /\ Len(right.val) = Len(Side(r))
  <2>1. \A t \in Seq(S) : Len(Value(Side(t))) = Len(Side(t))
    <3> TAKE t \in Seq(S)
    <3>1. PICK x : x = Side(t)
      OBVIOUS
    <3>2. Len(x) \in Nat /\ DOMAIN x = 1..Len(x)
      BY <3>1, SideFacts
    <3>3. Len(Value(x)) = Len(x)
      BY <3>2 DEF Value
    <3> QED BY <3>1, <3>3
  <2> QED BY <1>1, <1>9, <2>1
<1>14. Groups - Len(left.val) - Len(right.val) = Groups - n
  <2>1. PICK a, b : a = Len(Side(l)) /\ b = Len(Side(r))
    OBVIOUS
  <2>2. Groups - a - b = Groups - (a + b)
    BY <1>4, <2>1, TextAssumption
  <2> QED BY <1>13, <2>1, <2>2
<1>15. TooManySegments(addr, s) => PopulateSides(addr, s) = Error
  BY <1>12
<1>16. ~TooManySegments(addr, s) =>
         PopulateSides(addr, s)
           = Ok(Filled(Value(Side(l)), n, Value(Side(r))))
  BY <1>9, <1>12, <1>14 DEF Filled
<1> QED BY <1>5, <1>6, <1>15, <1>16

\* If it is accepted its sides are good.
LEMMA SidesOk ==
  ASSUME NEW S, NEW s \in Seq(S), DoubleColons(s) # {}, NEW addr,
         PopulateSides(addr, s).st = "ok"
  PROVE  \E k \in DoubleColons(s) : /\ GoodSegs(Side(Before(s, k)))
                                    /\ GoodSegs(Side(After(s, k)))
                                    /\ ~TooManySegments(addr, s)
<1>1. PICK k : k = CHOOSE i \in DoubleColons(s) :
                     \A j \in DoubleColons(s) : j <= i
  OBVIOUS
<1>2. k \in DoubleColons(s)
  BY <1>1, LastDouble
<1>3. PICK left, right :
        /\ left = IF Before(s, k) = <<>> THEN Ok(<<>>)
                  ELSE Populate(Split(Before(s, k), ":"))
        /\ right = IF After(s, k) = <<>> THEN Ok(<<>>)
                   ELSE Populate(Split(After(s, k), ":"))
  OBVIOUS
<1>4. PopulateSides(addr, s)
         = IF \/ TooManySegments(addr, s)
              \/ left.st # "ok" \/ right.st # "ok"
           THEN Error
           ELSE Ok(left.val
                   \o Zeros(Groups - Len(left.val) - Len(right.val))
                   \o right.val)
  BY ONLY <1>1, <1>3 DEF PopulateSides, Before, After
<1>5. Error.st # "ok"
  BY DEF Error
<1>6. ~TooManySegments(addr, s) /\ left.st = "ok" /\ right.st = "ok"
  BY <1>4, <1>5
<1>7. ASSUME NEW t, (IF t = <<>> THEN Ok(<<>>)
                     ELSE Populate(Split(t, ":"))).st = "ok"
      PROVE  GoodSegs(Side(t))
  <2>1. CASE t = <<>>
    <3>1. Side(t) = <<>> /\ DOMAIN <<>> = {}
      BY <2>1 DEF Side
    <3> QED BY <3>1 DEF GoodSegs
  <2>2. CASE t # <<>>
    <3>1. Side(t) = Split(t, ":") /\ Populate(Split(t, ":")).st = "ok"
      BY <1>7, <2>2 DEF Side
    <3> QED BY <1>5, <3>1 DEF Populate, GoodSegs
  <2> QED BY <2>1, <2>2
<1> QED BY <1>2, <1>3, <1>6, <1>7

\* The texts of an address, and the tests that come before its groups.
HexText == Seq(HexSet \cup {":"})
NoTriple(s) == \A i \in Colons(s) : ~({i + 1, i + 2} \subseteq Colons(s))
AllZero == {<<":", ":">>, <<"[", ":", ":", "]">>}
Form(addr, s) ==
  IF DoubleColons(s) # {} THEN PopulateSides(addr, s) ELSE PopulateFull(s)

\* What is between the brackets.
LEMMA UnbracketedTyped ==
  ASSUME NEW S, NEW t \in Seq(S), NEW s, s = Unbracketed(t)
  PROVE  /\ s \in Seq(S)
         /\ s # t => /\ Len(t) > 1 /\ Head(t) = "[" /\ Last(t) = "]"
                     /\ s = SubSeq(t, 2, Len(t) - 1)
<1>1. CASE Len(t) > 1 /\ Head(t) = "[" /\ Last(t) = "]"
  <2>1. s = SubSeq(t, 2, Len(t) - 1)
    BY <1>1 DEF Unbracketed
  <2>2. PICK n : n = Len(t)
    OBVIOUS
  <2>3. n \in Nat /\ n > 1
    BY <1>1, <2>2
  <2>4. SubSeq(t, 2, n - 1) \in Seq(S)
    <3>1. \A i \in 2..n - 1 : i \in 1..n
      BY <2>3
    <3>2. \A i \in 2..n - 1 : t[i] \in S
      BY <2>2, <3>1
    <3>3. n - 1 \in Int /\ 2 \in Int
      BY <2>3
    <3> QED BY <2>2, <2>3, <3>2, <3>3
  <2> QED BY <1>1, <2>1, <2>2, <2>4
<1>2. CASE ~(Len(t) > 1 /\ Head(t) = "[" /\ Last(t) = "]")
  BY <1>2 DEF Unbracketed
<1> QED BY <1>1, <1>2

\* A text of digits and colons that is not empty is read as its form.
LEMMA ParseOf ==
  ASSUME NEW t \in Seq(Char), NEW s, s = Unbracketed(t), t \notin AllZero,
         s \in HexText, s # <<>>, NoTriple(s)
  PROVE  str_to_ipv6_addr(t) = Form(t, s)
<1>1. ToSet(s) \subseteq ToSet(Hex) \cup {":"}
  BY HexDigits, ElementsOf DEF HexText
<1>2. ~\E i \in Colons(s) : {i + 1, i + 2} \subseteq Colons(s)
  BY DEF NoTriple
<1>3. \A c \in HexSet \cup {":"} : c # "[" /\ c # "]"
  BY HexDigits
<1>4. CASE Len(t) > 1 /\ Head(t) = "[" /\ Last(t) = "]"
  <2>1. t # <<>>
    BY <1>4
  <2>2. s = SubSeq(t, 2, Len(t) - 1)
    BY <1>4 DEF Unbracketed
  <2> QED BY <1>1, <1>2, <1>4, <2>1, <2>2
          DEF str_to_ipv6_addr, AllZero, Form
<1>5. CASE ~(Len(t) > 1 /\ Head(t) = "[" /\ Last(t) = "]")
  <2>1. s = t
    BY <1>5 DEF Unbracketed
  <2>2. t # <<>>
    BY <2>1
  <2>3. t \in Seq(HexSet \cup {":"})
    BY <2>1 DEF HexText
  <2>4. Head(t) # "[" /\ Last(t) # "]"
    <3>1. 1 \in 1..Len(t) /\ Len(t) \in 1..Len(t)
      BY <2>2, <2>3
    <3>2. t[1] \in HexSet \cup {":"} /\ t[Len(t)] \in HexSet \cup {":"}
      BY <2>3, <3>1, ElementIn
    <3>3. Head(t) = t[1] /\ Last(t) = t[Len(t)]
      BY <2>2, <2>3 DEF Last
    <3> QED BY <1>3, <3>2, <3>3
  <2> QED BY <1>1, <1>2, <2>1, <2>2, <2>4
          DEF str_to_ipv6_addr, AllZero, Form
<1> QED BY <1>4, <1>5

\* What is not refused is a text of digits and colons.
LEMMA ParseOnly ==
  ASSUME NEW t \in Seq(Char), NEW s, s = Unbracketed(t), t \notin AllZero,
         str_to_ipv6_addr(t).st # "error"
  PROVE  /\ s \in HexText /\ NoTriple(s)
         /\ str_to_ipv6_addr(t) = Form(t, s)
<1> DEFINE open == t # <<>> /\ Head(t) = "["
           shut == t # <<>> /\ Last(t) = "]"
           x == IF open THEN SubSeq(t, 2, Len(t) - 1) ELSE t
<1>1. Error.st = "error"
  BY DEF Error
<1>2. /\ t # <<>> /\ open = shut
      /\ ToSet(x) \subseteq ToSet(Hex) \cup {":"}
      /\ ~\E i \in Colons(x) : {i + 1, i + 2} \subseteq Colons(x)
      /\ str_to_ipv6_addr(t) = Form(t, x)
  BY <1>1 DEF str_to_ipv6_addr, AllZero, Form
<1>3. x = s
  <2>1. CASE open
    <3>1. Head(t) = "[" /\ Last(t) = "]"
      BY <1>2, <2>1
    <3>2. Len(t) > 1
      <4>1. Head(t) = t[1] /\ Last(t) = t[Len(t)]
        BY <1>2 DEF Last
      <4>2. Len(t) # 1
        BY <3>1, <4>1
      <4>3. Len(t) \in Nat /\ Len(t) # 0
        BY <1>2
      <4>4. PICK n : n = Len(t)
        OBVIOUS
      <4>5. n > 1
        BY <4>2, <4>3, <4>4
      <4> QED BY <4>4, <4>5
    <3> QED BY <2>1, <3>1, <3>2 DEF Unbracketed
  <2>2. CASE ~open
    <3>1. Head(t) # "["
      BY <1>2, <2>2
    <3> QED BY <2>2, <3>1 DEF Unbracketed
  <2> QED BY <2>1, <2>2
<1>4. s \in HexText
  <2>1. s \in Seq(Char)
    BY UnbracketedTyped
  <2>2. ToSet(s) \subseteq HexSet \cup {":"}
    BY <1>2, <1>3, HexDigits
  <2> QED BY <2>1, <2>2, ElementsOf DEF HexText
<1> QED BY <1>2, <1>3, <1>4 DEF NoTriple

\* The value of good segments.
LEMMA ValueTyped ==
  ASSUME NEW segs \in Seq(Seq(HexSet)), GoodSegs(segs)
  PROVE  Value(segs) \in Seq(GroupValues) /\ Len(Value(segs)) = Len(segs)
<1>1. Len(segs) \in Nat /\ DOMAIN segs = 1..Len(segs)
  OBVIOUS
<1>2. \A i \in 1..Len(segs) : Number(segs[i], Hex) \in GroupValues
  <2> TAKE i \in 1..Len(segs)
  <2>1. segs[i] \in Seq(HexSet)
    OBVIOUS
  <2>2. GoodGroup(segs[i])
    BY <1>1 DEF GoodSegs
  <2> QED BY <2>1, <2>2, GroupBound
<1>3. Value(segs) = [i \in 1..Len(segs) |-> Number(segs[i], Hex)]
  BY <1>1 DEF Value
<1> QED BY <1>1, <1>2, <1>3

\* The sides of a text of digits and colons have segments of digits.
LEMMA SidesTyped ==
  ASSUME NEW s, s \in HexText, NEW k \in DoubleColons(s)
  PROVE  /\ Before(s, k) \in HexText /\ After(s, k) \in HexText
         /\ Side(Before(s, k)) \in Seq(Seq(HexSet))
         /\ Side(After(s, k)) \in Seq(Seq(HexSet))
<1>1. (HexSet \cup {":"}) \ {":"} = HexSet
  BY HexDigits
<1>2. /\ Before(s, k) \in Seq(HexSet \cup {":"})
      /\ After(s, k) \in Seq(HexSet \cup {":"})
  BY AroundDouble DEF HexText
<1> QED BY <1>1, <1>2, SideFacts DEF HexText

\* Zero groups.
LEMMA ZerosTyped ==
  ASSUME NEW n \in Nat
  PROVE  /\ Zeros(n) \in Seq(GroupValues) /\ Len(Zeros(n)) = n
         /\ \A i \in 1..n : Zeros(n)[i] = 0
<1>1. 0 \in GroupValues
  <2>1. PICK b : b = Len(Hex)
    OBVIOUS
  <2>2. b \in Nat /\ b > 1
    BY <2>1, HexDigits
  <2>3. 1 * b <= b * b /\ b * b \in Nat
    BY <2>2, MulMono
  <2>4. Byte \in Nat /\ 1 <= Byte
    BY <2>1, <2>2, <2>3 DEF Byte
  <2>5. 1 * Byte <= Byte * Byte /\ Byte * Byte \in Nat
    BY <2>4, MulMono
  <2>6. 0 < Byte * Byte
    BY <2>4, <2>5
  <2> QED BY <2>6 DEF GroupValues
<1> QED BY <1>1 DEF Zeros

\* An address that was read has all its groups.
LEMMA Ipv6Value ==
  ASSUME NEW t \in Seq(Char), NEW p, p = str_to_ipv6_addr(t), p.st = "ok"
  PROVE  p = Ok(p.val) /\ p.val \in Seq(GroupValues) /\ Len(p.val) = Groups
<1>0. Groups \in Nat
  BY TextAssumption
<1>1. CASE t \in AllZero
  <2>1. p = Ok(Zeros(Groups))
    BY <1>1 DEF str_to_ipv6_addr, AllZero
  <2>2. p.val = Zeros(Groups)
    BY <2>1 DEF Ok
  <2> QED BY <1>0, <2>1, <2>2, ZerosTyped
<1>2. CASE t \notin AllZero
  <2>1. PICK s : s = Unbracketed(t)
    OBVIOUS
  <2>2. s \in HexText /\ p = Form(t, s)
    BY <1>2, <2>1, ParseOnly
  <2>3. s \in Seq(HexSet \cup {":"})
    BY <2>2 DEF HexText
  <2>4. CASE DoubleColons(s) # {}
    <3>1. p = PopulateSides(t, s)
      BY <2>2, <2>4 DEF Form
    <3>2. PICK k \in DoubleColons(s) : /\ GoodSegs(Side(Before(s, k)))
                                       /\ GoodSegs(Side(After(s, k)))
                                       /\ ~TooManySegments(t, s)
      BY <2>3, <2>4, <3>1, SidesOk
    <3>3. PICK l, r, n : /\ l = Before(s, k) /\ r = After(s, k)
                         /\ n = Len(Side(l)) + Len(Side(r))
      OBVIOUS
    <3>4. /\ n \in Nat
          /\ SegmentCount(t, s) = n + (IF r = <<>> THEN 1 ELSE 0)
                - (IF Ends(t, <<":", ":">>) THEN 1 ELSE 0)
          /\ p = Ok(Filled(Value(Side(l)), n, Value(Side(r))))
      BY <2>3, <3>1, <3>2, <3>3, SidesParse
    <3>5. n <= Groups
      <4>1. PICK e, f : /\ e = IF r = <<>> THEN 1 ELSE 0
                        /\ f = IF Ends(t, <<":", ":">>) THEN 1 ELSE 0
        OBVIOUS
      <4>2. e \in {0, 1} /\ f \in {0, 1} /\ SegmentCount(t, s) = n + e - f
        BY <3>4, <4>1
      <4>3. ~(n + e - f > Groups - 1)
        BY <3>2, <4>2 DEF TooManySegments
      <4> QED BY <1>0, <3>4, <4>2, <4>3
    <3>6. /\ Value(Side(l)) \in Seq(GroupValues)
          /\ Len(Value(Side(l))) = Len(Side(l)) /\ Len(Side(l)) \in Nat
          /\ Value(Side(r)) \in Seq(GroupValues)
          /\ Len(Value(Side(r))) = Len(Side(r)) /\ Len(Side(r)) \in Nat
      <4>1. Side(l) \in Seq(Seq(HexSet)) /\ Side(r) \in Seq(Seq(HexSet))
        BY <2>2, <3>3, SidesTyped
      <4>2. GoodSegs(Side(l)) /\ GoodSegs(Side(r))
        BY <3>2, <3>3
      <4>3. /\ Value(Side(l)) \in Seq(GroupValues)
            /\ Len(Value(Side(l))) = Len(Side(l))
        BY <4>1, <4>2, ValueTyped
      <4>4. /\ Value(Side(r)) \in Seq(GroupValues)
            /\ Len(Value(Side(r))) = Len(Side(r))
        BY <4>1, <4>2, ValueTyped
      <4> QED BY <4>1, <4>3, <4>4
    <3>7. PICK x, y, z : /\ x = Value(Side(l)) /\ y = Zeros(Groups - n)
                         /\ z = Value(Side(r))
      OBVIOUS
    <3>8. /\ x \in Seq(GroupValues) /\ y \in Seq(GroupValues)
          /\ z \in Seq(GroupValues) /\ Len(y) = Groups - n
      <4>1. PICK m : m = Groups - n
        OBVIOUS
      <4>2. m \in Nat
        BY <1>0, <3>4, <3>5, <4>1
      <4>3. Zeros(m) \in Seq(GroupValues) /\ Len(Zeros(m)) = m
        BY <4>2, ZerosTyped
      <4> QED BY <3>6, <3>7, <4>1, <4>3
    <3>9. x \o y \in Seq(GroupValues) /\ Len(x \o y) = Len(x) + Len(y)
      BY <3>8, ConcatProperties
    <3>10. PICK xy : xy = x \o y
      OBVIOUS
    <3>11. /\ xy \o z \in Seq(GroupValues)
           /\ Len(xy \o z) = Len(x) + Len(y) + Len(z)
      BY <3>8, <3>9, <3>10, ConcatProperties
    <3>12. Len(x) + Len(y) + Len(z) = Groups
      <4>1. PICK a, b, c : a = Len(x) /\ b = Len(y) /\ c = Len(z)
        OBVIOUS
      <4>2. a \in Nat /\ c \in Nat /\ n = a + c /\ b = Groups - n
        BY <3>3, <3>6, <3>7, <3>8, <4>1
      <4>3. a + b + c = Groups
        BY ONLY <1>0, <4>2
      <4> QED BY <4>1, <4>3
    <3>13. p = Ok(xy \o z)
      BY <3>4, <3>7, <3>10 DEF Filled
    <3>14. p.val = xy \o z
      BY <3>13 DEF Ok
    <3> QED BY <3>11, <3>12, <3>13, <3>14
  <2>5. CASE DoubleColons(s) = {}
    <3>1. p = PopulateFull(s)
      BY <2>2, <2>5 DEF Form
    <3>2. PICK segs : segs = Split(s, ":")
      OBVIOUS
    <3>3. Len(segs) = Groups /\ p = Populate(segs)
      BY <3>1, <3>2 DEF PopulateFull, Error, Loops
    <3>4. GoodSegs(segs) /\ p = Ok(Value(segs))
      BY <3>3 DEF Populate, GoodSegs, Value, Error
    <3>5. segs \in Seq(Seq(HexSet))
      <4>1. (HexSet \cup {":"}) \ {":"} = HexSet
        BY HexDigits
      <4> QED BY <2>3, <3>2, <4>1, SplitTyped
    <3>6. Value(segs) \in Seq(GroupValues) /\ Len(Value(segs)) = Groups
      BY <3>3, <3>4, <3>5, ValueTyped
    <3>7. p.val = Value(segs)
      BY <3>4 DEF Ok
    <3> QED BY <3>4, <3>6, <3>7
  <2> QED BY <2>4, <2>5
<1> QED BY <1>1, <1>2

-----------------------------------------------------------------------------
(* A printed IPv6 address reads back.                                      *)

\* A text of digits and colons has no brackets.
LEMMA PlainText ==
  ASSUME NEW t, t \in HexText, t # <<>>
  PROVE  /\ t \in Seq(Char) /\ Unbracketed(t) = t
         /\ t # <<"[", ":", ":", "]">>
<1>1. t \in Seq(HexSet \cup {":"})
  BY DEF HexText
<1>2. t[1] # "["
  <2>1. 1 \in 1..Len(t)
    BY <1>1
  <2>2. t[1] \in HexSet \cup {":"}
    BY <1>1, <2>1, ElementIn
  <2> QED BY <2>2, HexDigits
<1>3. Head(t) # "["
  BY <1>1, <1>2
<1>4. HexSet \cup {":"} \subseteq Char
  <2>1. \A i \in 1..Len(Hex) : Hex[i] \in STRING
    BY HexAssumption, ElementIn
  <2>2. HexSet \subseteq STRING
    BY <2>1 DEF HexSet, Of
  <2> QED BY <2>2 DEF Char, Marks
<1>5. t \in Seq(Char)
  <2>1. \A i \in 1..Len(t) : t[i] \in HexSet \cup {":"}
    BY <1>1, ElementIn
  <2>2. \A i \in 1..Len(t) : t[i] \in Char
    BY <1>4, <2>1
  <2>3. ToSet(t) \subseteq Char
    BY <1>1, <2>2 DEF ToSet
  <2> QED BY <1>1, <2>3, ElementsOf
<1> QED BY <1>2, <1>3, <1>5 DEF Unbracketed

\* Two sides with "::" between them.
Doubled(l, r) == l \o <<":", ":">> \o r

\* Two sides that were joined are found again.
LEMMA SidesJoined ==
  ASSUME NEW l, l \in HexText, NEW r, r \in HexText,
         NEW t, t = Doubled(l, r), NEW k, k = Len(l) + 1
  PROVE  /\ t \in HexText /\ k \in DoubleColons(t)
         /\ Before(t, k) = l /\ After(t, k) = r
         /\ Len(t) = Len(l) + 2 + Len(r)
<1>1. PICK S : S = HexSet \cup {":"}
  OBVIOUS
<1>2. l \in Seq(S) /\ r \in Seq(S) /\ ":" \in S
  BY <1>1 DEF HexText
<1>3. PICK d, x : d = <<":", ":">> /\ x = l \o d
  OBVIOUS
<1>4. d \in Seq(S) /\ Len(d) = 2 /\ d[1] = ":" /\ d[2] = ":"
  BY <1>2, <1>3
<1>5. PICK a, b : a = Len(l) /\ b = Len(r)
  OBVIOUS
<1>6. a \in Nat /\ b \in Nat
  BY <1>2, <1>5
<1>7. /\ x \in Seq(S) /\ Len(x) = a + 2
      /\ \A i \in 1..a : x[i] = l[i]
      /\ x[a + 1] = ":" /\ x[a + 2] = ":"
  <2>1. /\ x \in Seq(S) /\ Len(x) = a + 2
        /\ \A i \in 1..a + 2 : x[i] = IF i <= a THEN l[i] ELSE d[i - a]
    BY <1>2, <1>3, <1>4, <1>5, ConcatProperties
  <2>2. \A i \in 1..a : i \in 1..a + 2 /\ i <= a
    BY <1>6
  <2>4. \A i \in 1..a : x[i] = l[i]
    BY ONLY <2>1, <2>2
  <2>5. x[a + 1] = d[1] /\ x[a + 2] = d[2]
    <3>1. PICK p, q : p = a + 1 /\ q = a + 2
      OBVIOUS
    <3>2. /\ p \in 1..a + 2 /\ ~(p <= a) /\ p - a = 1
          /\ q \in 1..a + 2 /\ ~(q <= a) /\ q - a = 2
      BY ONLY <1>6, <3>1
    <3>3. x[p] = d[1] /\ x[q] = d[2]
      BY ONLY <2>1, <3>2
    <3> QED BY ONLY <3>1, <3>3
  <2> QED BY ONLY <1>4, <2>1, <2>4, <2>5
<1>8. /\ t \in Seq(S) /\ Len(t) = a + 2 + b
      /\ \A i \in 1..a + 2 : t[i] = x[i]
      /\ \A i \in 1..b : t[a + 2 + i] = r[i]
  <2>0. t = x \o r
    BY <1>3 DEF Doubled
  <2>1. /\ t \in Seq(S) /\ Len(t) = (a + 2) + b
        /\ \A i \in 1..(a + 2) + b :
             t[i] = IF i <= a + 2 THEN x[i] ELSE r[i - (a + 2)]
    <3>1. x \in Seq(S) /\ Len(x) = a + 2 /\ r \in Seq(S) /\ Len(r) = b
      BY ONLY <1>2, <1>5, <1>7
    <3>2. /\ t \in Seq(S) /\ Len(t) = Len(x) + Len(r)
          /\ \A i \in 1..Len(x) + Len(r) :
               t[i] = IF i <= Len(x) THEN x[i] ELSE r[i - Len(x)]
      BY ONLY <2>0, <3>1, ConcatProperties
    <3> QED BY ONLY <3>1, <3>2
  <2>2. \A i \in 1..a + 2 : i \in 1..(a + 2) + b /\ i <= a + 2
    BY <1>6
  <2>3. \A i \in 1..b : /\ a + 2 + i \in 1..(a + 2) + b
                        /\ ~(a + 2 + i <= a + 2) /\ a + 2 + i - (a + 2) = i
    BY <1>6
  <2>4. \A i \in 1..a + 2 : t[i] = x[i]
    BY ONLY <2>1, <2>2
  <2>5. \A i \in 1..b : t[a + 2 + i] = r[i]
    <3> TAKE i \in 1..b
    <3>1. PICK q, e : q = a + 2 + i /\ e = a + 2
      OBVIOUS
    <3>2. q \in 1..e + b /\ ~(q <= e) /\ q - e = i
      BY ONLY <2>3, <3>1
    <3>3. \A h \in 1..e + b : t[h] = IF h <= e THEN x[h] ELSE r[h - e]
      BY ONLY <2>1, <3>1
    <3>4. t[q] = r[q - e]
      BY ONLY <3>2, <3>3
    <3> QED BY ONLY <3>1, <3>2, <3>4
  <2> QED BY ONLY <2>1, <2>4, <2>5
<1>9. k = a + 1 /\ k \in Nat
  BY <1>5, <1>6
<1>10. t[k] = ":" /\ t[k + 1] = ":" /\ k \in 1..Len(t) /\ k + 1 \in 1..Len(t)
  <2>1. /\ a + 1 \in 1..a + 2 /\ a + 2 \in 1..a + 2 /\ k + 1 = a + 2
        /\ a + 1 \in 1..a + 2 + b /\ a + 2 \in 1..a + 2 + b
    BY <1>6, <1>9
  <2> QED BY <1>7, <1>8, <1>9, <2>1
<1>11. k \in DoubleColons(t)
  BY <1>8, <1>10 DEF DoubleColons, Colons
<1>12. PICK u, w : u = Before(t, k) /\ w = After(t, k)
  OBVIOUS
<1>13. /\ u \in Seq(S) /\ Len(u) = k - 1
       /\ w \in Seq(S) /\ Len(w) = Len(t) - k - 1
       /\ \A i \in 1..k - 1 : u[i] = t[i]
       /\ \A i \in 1..Len(t) - k - 1 : w[i] = t[k + 1 + i]
  <2>1. t \in Seq(S)
    BY ONLY <1>8
  <2> QED BY ONLY <1>11, <1>12, <2>1, AroundDouble
<1>14. u = l
  <2>1. k - 1 = a /\ \A i \in 1..a : i \in 1..a + 2
    BY <1>6, <1>9
  <2>2. Len(u) = a /\ \A i \in 1..a : u[i] = l[i]
    BY <1>7, <1>8, <1>13, <2>1
  <2> QED BY <1>2, <1>5, <1>13, <2>2, SeqEqual
<1>15. w = r
  <2>1. Len(t) - k - 1 = b /\ \A i \in 1..b : k + 1 + i = a + 2 + i
    <3>1. Len(t) = a + 2 + b
      BY ONLY <1>8
    <3> QED BY ONLY <1>6, <1>9, <3>1
  <2>2. Len(w) = b /\ \A i \in 1..b : w[i] = r[i]
    BY ONLY <1>8, <1>13, <2>1
  <2> QED BY <1>2, <1>5, <1>13, <2>2, SeqEqual
<1> QED BY <1>1, <1>5, <1>8, <1>11, <1>12, <1>14, <1>15 DEF HexText

\* The groups m to n of an address, printed.
PrintedGroups(v, m, n) == [i \in 1..n - m + 1 |-> PrintGroup(v[m + i - 1])]
Part(v, m, n) == [i \in 1..n - m + 1 |-> v[m + i - 1]]

\* Text j of segments g reads as the groups of w.
ReadsAs(j, g, w) ==
  /\ GoodSegs(g) /\ g \in Seq(Seq(HexSet)) /\ Value(g) = w
  /\ j \in HexText /\ Side(j) = g
  /\ g # <<>> => j # <<>> /\ Split(j, ":") = g

\* Groups that were printed read as themselves.
LEMMA PrintedReads ==
  ASSUME NEW v, v \in Seq(GroupValues), Len(v) = Groups,
         NEW m \in Nat, m > 0, NEW n \in Nat, n <= Groups, m <= n + 1,
         NEW g, g = PrintedGroups(v, m, n),
         NEW j, j = JoinSeqs(g, ":")
  PROVE  Len(g) = n - m + 1 /\ ReadsAs(j, g, Part(v, m, n))
<1>1. PICK d : d = n - m + 1
  OBVIOUS
<1>2. d \in Nat
  BY <1>1
<1>3. \A i \in 1..d : v[m + i - 1] \in GroupValues
  <2>1. \A i \in 1..d : m + i - 1 \in 1..Groups
    BY <1>1, TextAssumption
  <2>2. \A i \in 1..Groups : v[i] \in GroupValues
    BY ElementIn
  <2> QED BY <2>1, <2>2
<1>4. g = [i \in 1..d |-> PrintGroup(v[m + i - 1])]
  BY <1>1 DEF PrintedGroups
<1>5. \A i \in 1..d : /\ g[i] \in Seq(HexSet) /\ GoodGroup(g[i])
                      /\ Number(g[i], Hex) = v[m + i - 1]
  <2> TAKE i \in 1..d
  <2>1. g[i] = PrintGroup(v[m + i - 1])
    BY <1>4
  <2>2. v[m + i - 1] \in GroupValues
    BY <1>3
  <2> QED BY <2>1, <2>2, PrintGroupReads
<1>6. DOMAIN g = 1..d
  BY <1>4
<1>7. \A i \in 1..d : g[i] \in Seq(HexSet) \ {<<>>}
  <2> TAKE i \in 1..d
  <2>1. PICK w, e : w = g[i] /\ e = Len(w)
    OBVIOUS
  <2>2. e \in 1..4
    BY <1>5, <2>1 DEF GoodGroup
  <2>3. e # 0
    BY <2>2
  <2>4. w # <<>>
    BY <2>1, <2>3
  <2> QED BY <1>5, <2>1, <2>4
<1>8. PICK Z : Z = Seq(HexSet) \ {<<>>}
  OBVIOUS
<1>9. g \in Seq(Z) /\ Len(g) = d
  <2>1. \A i \in 1..d : PrintGroup(v[m + i - 1]) \in Z
    BY <1>4, <1>7, <1>8
  <2> QED BY <1>2, <1>4, <2>1
<1>10. g \in Seq(Seq(HexSet))
  <2>1. PICK Y : Y = Seq(HexSet)
    OBVIOUS
  <2>2. \A i \in 1..d : PrintGroup(v[m + i - 1]) \in Y
    BY <1>4, <1>5, <2>1
  <2>3. g \in Seq(Y)
    BY <1>2, <1>4, <2>2
  <2> QED BY <2>1, <2>3
<1>11. GoodSegs(g)
  BY <1>5, <1>6 DEF GoodSegs
<1>12. Value(g) = Part(v, m, n)
  <2>1. Value(g) = [i \in 1..d |-> v[m + i - 1]]
    BY <1>5, <1>6 DEF Value
  <2> QED BY <1>1, <2>1 DEF Part
<1>13. PICK S, sep : S = HexSet \cup {":"} /\ sep = ":"
  OBVIOUS
<1>14. /\ j \in Seq(S) /\ (g = <<>> => j = <<>>)
       /\ (g # <<>> => j # <<>> /\ Split(j, sep) = g)
  <2>1. S \ {sep} = HexSet /\ sep \in S
    BY <1>13, HexDigits
  <2>2. g \in Seq(Seq(S \ {sep}) \ {<<>>})
    BY <1>8, <1>9, <2>1
  <2>3. j = JoinSeqs(g, sep)
    BY <1>13
  <2>4. /\ JoinSeqs(g, sep) \in Seq(S)
        /\ (g = <<>> => JoinSeqs(g, sep) = <<>>)
        /\ (g # <<>> => /\ JoinSeqs(g, sep) # <<>>
                        /\ Split(JoinSeqs(g, sep), sep) = g)
    <3>1. sep \in S
      BY ONLY <2>1
    <3>2. JoinSeqs(g, sep) \in Seq(S)
      BY ONLY <2>2, <3>1, JoinSplit
    <3>3. g = <<>> => JoinSeqs(g, sep) = <<>>
      BY ONLY <2>2, <3>1, JoinSplit
    <3>4. ASSUME g # <<>>
          PROVE  /\ JoinSeqs(g, sep) # <<>>
                 /\ Split(JoinSeqs(g, sep), sep) = g
      BY ONLY <2>2, <3>1, <3>4, JoinSplit
    <3> QED BY ONLY <3>2, <3>3, <3>4
  <2> QED BY ONLY <2>3, <2>4
<1>15. Side(j) = g
  BY <1>13, <1>14 DEF Side
<1> QED BY ONLY <1>1, <1>9, <1>10, <1>11, <1>12, <1>13, <1>14, <1>15
           DEF HexText, ReadsAs

\* The first run of zeros.
FirstOf(zero) == CHOOSE i \in zero : \A j \in zero : i <= j
RunEnd(zero) ==
  CHOOSE j \in zero : FirstOf(zero)..j \subseteq zero /\ j + 1 \notin zero
                      /\ FirstOf(zero) <= j

\* Both ends are there, and all between them is zero.
LEMMA ZeroRun ==
  ASSUME NEW n \in Nat, NEW zero \in SUBSET (1..n), zero # {},
         NEW a, a = FirstOf(zero), NEW b, b = RunEnd(zero)
  PROVE  /\ a \in Nat /\ b \in Nat /\ 0 < a /\ a <= b /\ b <= n
         /\ a..b \subseteq zero
<1>1. PICK c \in zero : \A j \in zero : c <= j
  BY LeastNumber
<1>2. a \in zero /\ \A j \in zero : a <= j
  <2>1. \E i \in zero : \A j \in zero : i <= j
    BY <1>1
  <2>2. a = CHOOSE i \in zero : \A j \in zero : i <= j
    BY DEF FirstOf
  <2> QED BY ONLY <2>1, <2>2
<1>3. a \in Nat /\ 0 < a /\ a <= n
  <2>1. a \in 1..n
    BY ONLY <1>2, zero \in SUBSET (1..n)
  <2> QED BY ONLY <2>1, n \in Nat
<1> DEFINE U == {j \in Nat : a <= j /\ j + 1 \notin zero}
<1>4. n \in U
  <2>1. n + 1 \notin zero
    BY ONLY n \in Nat, zero \in SUBSET (1..n)
  <2> QED BY ONLY <1>3, <2>1, n \in Nat
<1>5. PICK e \in U : \A j \in U : e <= j
  BY ONLY <1>4, LeastNumber
<1>6. e \in Nat /\ a <= e /\ e + 1 \notin zero
  BY ONLY <1>5
<1>7. ASSUME NEW i \in a..e PROVE i \in zero
  <2>1. CASE i = a
    BY ONLY <1>2, <2>1
  <2>2. CASE i > a
    <3>1. i - 1 \in Nat /\ a <= i - 1 /\ ~(e <= i - 1) /\ (i - 1) + 1 = i
      BY ONLY <1>3, <1>6, <2>2, i \in a..e
    <3>2. i - 1 \notin U
      BY ONLY <1>5, <3>1
    <3> QED BY ONLY <3>1, <3>2
  <2>3. i = a \/ i > a
    BY ONLY <1>3, <1>6, i \in a..e
  <2> QED BY ONLY <2>1, <2>2, <2>3
<1>8. e \in zero
  <2>1. e \in a..e
    BY ONLY <1>3, <1>6
  <2> QED BY ONLY <1>7, <2>1
<1>9. a..e \subseteq zero
  BY ONLY <1>7
<1>10. b \in zero /\ a..b \subseteq zero /\ a <= b
  <2>1. \E j \in zero : a..j \subseteq zero /\ j + 1 \notin zero /\ a <= j
    BY ONLY <1>6, <1>8, <1>9
  <2>2. b = CHOOSE j \in zero : a..j \subseteq zero /\ j + 1 \notin zero
                                /\ a <= j
    BY DEF RunEnd
  <2> QED BY ONLY <2>1, <2>2
<1>11. b \in Nat /\ b <= n
  <2>1. b \in 1..n
    BY ONLY <1>10, zero \in SUBSET (1..n)
  <2> QED BY ONLY <2>1, n \in Nat
<1> QED BY ONLY <1>3, <1>10, <1>11

\* An address in three parts, the middle one zero.
LEMMA ThreeParts ==
  ASSUME NEW v, v \in Seq(GroupValues), Len(v) = Groups,
         NEW a \in Nat, NEW b \in Nat, 0 < a, a <= b, b <= Groups,
         \A i \in a..b : v[i] = 0,
         NEW n, n = (a - 1) + (Groups - b)
  PROVE  Filled(Part(v, 1, a - 1), n, Part(v, b + 1, Groups)) = v
<1>0. Groups \in Nat
  BY TextAssumption
<1>1. PICK x, y, z : /\ x = Part(v, 1, a - 1) /\ y = Zeros(Groups - n)
                     /\ z = Part(v, b + 1, Groups)
  OBVIOUS
<1>2. PICK p, q, d : p = a - 1 /\ q = b - a + 1 /\ d = Groups - b
  OBVIOUS
<1>3. /\ p \in Nat /\ q \in Nat /\ d \in Nat /\ Groups - n = q
      /\ p + q = b /\ p + q + d = Groups /\ p + 1 = a
  BY <1>0, <1>2
<1>4. \A i \in 1..Groups : v[i] \in GroupValues
  BY ElementIn
<1>5. /\ x \in Seq(GroupValues) /\ Len(x) = p
      /\ \A i \in 1..p : x[i] = v[i]
  <2>1. \A i \in 1..p : i \in 1..Groups
    BY <1>3
  <2>2. \A i \in 1..p : v[i] \in GroupValues
    BY <1>4, <2>1
  <2>3. x = [i \in 1..p |-> v[i]]
    <3>1. x = [i \in 1..p - 1 + 1 |-> v[1 + i - 1]]
      BY ONLY <1>1, <1>2 DEF Part
    <3>2. p - 1 + 1 = p /\ \A i \in 1..p : 1 + i - 1 = i
      BY ONLY <1>3
    <3> QED BY ONLY <3>1, <3>2
  <2> QED BY ONLY <1>3, <2>2, <2>3
<1>6. /\ y \in Seq(GroupValues) /\ Len(y) = q
      /\ \A i \in 1..q : y[i] = 0
  BY <1>1, <1>3, ZerosTyped
<1>7. /\ z \in Seq(GroupValues) /\ Len(z) = d
      /\ \A i \in 1..d : z[i] = v[b + i]
  <2>1. \A i \in 1..d : b + i \in 1..Groups
    BY <1>0, <1>2
  <2>2. \A i \in 1..d : v[b + i] \in GroupValues
    BY <1>4, <2>1
  <2>3. z = [i \in 1..d |-> v[b + i]]
    <3>1. z = [i \in 1..Groups - (b + 1) + 1 |-> v[(b + 1) + i - 1]]
      BY ONLY <1>1 DEF Part
    <3>2. /\ Groups - (b + 1) + 1 = d
          /\ \A i \in 1..d : (b + 1) + i - 1 = b + i
      BY ONLY <1>0, <1>2, b \in Nat
    <3> QED BY ONLY <3>1, <3>2
  <2> QED BY ONLY <1>3, <2>2, <2>3
<1>8. PICK xy, w : xy = x \o y /\ w = xy \o z
  OBVIOUS
<1>9. /\ xy \in Seq(GroupValues) /\ Len(xy) = p + q
      /\ \A i \in 1..p + q : xy[i] = IF i <= p THEN x[i] ELSE y[i - p]
  BY ONLY <1>5, <1>6, <1>8, ConcatProperties
<1>10. /\ w \in Seq(GroupValues) /\ Len(w) = (p + q) + d
       /\ \A i \in 1..(p + q) + d :
            w[i] = IF i <= p + q THEN xy[i] ELSE z[i - (p + q)]
  <2>1. /\ z \in Seq(GroupValues) /\ Len(z) = d
        /\ xy \in Seq(GroupValues) /\ Len(xy) = p + q
    BY ONLY <1>7, <1>9
  <2>2. w = xy \o z
    BY ONLY <1>8
  <2>3. /\ w \in Seq(GroupValues) /\ Len(w) = Len(xy) + Len(z)
        /\ \A i \in 1..Len(xy) + Len(z) :
             w[i] = IF i <= Len(xy) THEN xy[i] ELSE z[i - Len(xy)]
    BY ONLY <2>1, <2>2, ConcatProperties
  <2> QED BY ONLY <2>1, <2>3
<1>11. ASSUME NEW i \in 1..Groups PROVE w[i] = v[i]
  <2>1. i \in Nat /\ i \in 1..(p + q) + d /\ i > 0
    BY <1>0, <1>3
  <2>2. CASE i <= p
    <3>1. i <= p + q /\ i \in 1..p + q /\ i \in 1..p
      BY ONLY <1>3, <2>1, <2>2
    <3> QED BY ONLY <1>5, <1>9, <1>10, <2>1, <2>2, <3>1
  <2>3. CASE ~(i <= p) /\ i <= p + q
    <3>1. i \in 1..p + q /\ i - p \in 1..q /\ i \in a..b
      BY ONLY <1>3, <2>1, <2>3
    <3>2. v[i] = 0
      BY <3>1
    <3>3. PICK h : h = i - p
      OBVIOUS
    <3>4. w[i] = xy[i]
      BY ONLY <1>10, <2>1, <2>3
    <3>5. xy[i] = y[h]
      BY ONLY <1>9, <2>3, <3>1, <3>3
    <3>6. y[h] = 0
      BY ONLY <1>6, <3>1, <3>3
    <3> QED BY ONLY <3>2, <3>4, <3>5, <3>6
  <2>4. CASE ~(i <= p + q)
    <3>1. PICK m, h : h = i - m /\ m = p + q
      OBVIOUS
    <3>2. h \in 1..d /\ b + h = i
      BY ONLY <1>3, <2>1, <2>4, <3>1
    <3>3. w[i] = z[h]
      BY ONLY <1>10, <2>1, <2>4, <3>1
    <3> QED BY ONLY <1>7, <3>2, <3>3
  <2> QED BY ONLY <2>2, <2>3, <2>4
<1>12. Len(w) = Groups
  BY ONLY <1>3, <1>10
<1>13. w = v
  BY ONLY <1>10, <1>11, <1>12, v \in Seq(GroupValues), Len(v) = Groups,
          SeqEqual
<1> QED BY ONLY <1>1, <1>8, <1>13 DEF Filled

\* ipv6_addr_to_str, with names for its parts.
ZeroGroups(v) == {i \in DOMAIN v : v[i] = 0}

\* What ipv6_addr_to_str prints.
LEMMA PrintForm ==
  ASSUME NEW v
  PROVE  ipv6_addr_to_str(v) =
           IF ZeroGroups(v) = {}
           THEN JoinSeqs(PrintedGroups(v, 1, Groups), ":")
           ELSE Doubled(
                  JoinSeqs(PrintedGroups(v, 1, FirstOf(ZeroGroups(v)) - 1),
                           ":"),
                  JoinSeqs(PrintedGroups(v, RunEnd(ZeroGroups(v)) + 1, Groups),
                           ":"))
BY DEF Doubled, ipv6_addr_to_str, PrintedGroups, ZeroGroups, FirstOf, RunEnd

\* An address is printed so that it reads back.
LEMMA Ipv6ReadsBack ==
  ASSUME NEW v, v \in Seq(GroupValues), Len(v) = Groups
  PROVE  str_to_ipv6_addr(ipv6_addr_to_str(v)) = Ok(v)
<1>0. Groups \in Nat /\ Groups > 1
  BY TextAssumption
<1>1. PICK zero : zero = ZeroGroups(v)
  OBVIOUS
<1>2. DOMAIN v = 1..Groups
  <2>1. DOMAIN v = 1..Len(v)
    BY ONLY v \in Seq(GroupValues)
  <2> QED BY <2>1
<1>3. PICK t : t = ipv6_addr_to_str(v)
  OBVIOUS
<1>4. CASE zero = {}
  <2>1. PICK g : g = PrintedGroups(v, 1, Groups)
    OBVIOUS
  <2>2. t = JoinSeqs(g, ":")
    BY ONLY <1>1, <1>3, <1>4, <2>1, PrintForm
  <2>3. Groups - 1 + 1 = Groups /\ \A i \in 1..Groups : 1 + i - 1 = i
    BY ONLY <1>0
  <2>4. /\ Len(g) = Groups - 1 + 1 /\ GoodSegs(g) /\ g \in Seq(Seq(HexSet))
        /\ Value(g) = Part(v, 1, Groups)
        /\ t \in HexText
        /\ g # <<>> => t # <<>> /\ Split(t, ":") = g
    <3>1. 1 \in Nat /\ 1 > 0 /\ Groups <= Groups /\ 1 <= Groups + 1
      BY ONLY <1>0
    <3>2. Len(g) = Groups - 1 + 1 /\ ReadsAs(t, g, Part(v, 1, Groups))
      BY <1>0, <2>1, <2>2, <3>1, PrintedReads
    <3> QED BY ONLY <3>2 DEF ReadsAs
  <2>5. Len(g) = Groups /\ Value(g) = v
    <3>1. Value(g) = [i \in 1..Groups |-> v[i]]
      <4>1. Value(g) = [i \in 1..Groups - 1 + 1 |-> v[1 + i - 1]]
        BY ONLY <2>4 DEF Part
      <4> QED BY ONLY <2>3, <4>1
    <3>2. v = [i \in DOMAIN v |-> v[i]]
      BY ONLY v \in Seq(GroupValues)
    <3> QED BY ONLY <1>2, <2>3, <2>4, <3>1, <3>2
  <2>6. g # <<>>
    <3>1. Len(g) # 0
      BY ONLY <1>0, <2>5
    <3> QED BY ONLY <3>1
  <2>7. t # <<>> /\ Split(t, ":") = g /\ t \in Seq(HexSet \cup {":"})
    BY ONLY <2>4, <2>6 DEF HexText
  <2>8. Side(t) = g /\ SoundSide(t) /\ Sound(t, ":")
    <3>1. Side(t) = g
      BY ONLY <2>7 DEF Side
    <3>2. SoundSide(t)
      BY ONLY <2>4, <2>7, <3>1, SideFacts
    <3> QED BY ONLY <2>7, <3>1, <3>2 DEF SoundSide
  <2>9. DoubleColons(t) = {}
    <3> SUFFICES ASSUME NEW i \in DoubleColons(t) PROVE FALSE
      OBVIOUS
    <3>1. /\ i \in 1..Len(t) /\ i + 1 \in 1..Len(t)
          /\ t[i] = ":" /\ t[i + 1] = ":"
      BY ONLY <2>7 DEF DoubleColons, Colons
    <3>2. Len(t) \in Nat
      BY ONLY <2>7
    <3>3. i \in 1..Len(t) - 1
      BY ONLY <3>1, <3>2
    <3> QED BY ONLY <2>8, <3>1, <3>3 DEF Sound, NoGap
  <2>10. NoTriple(t)
    BY ONLY <2>9 DEF NoTriple, DoubleColons
  <2>11. t \in Seq(Char) /\ Unbracketed(t) = t /\ t \notin AllZero
    <3>1. t # <<":", ":">>
      <4> SUFFICES ASSUME t = <<":", ":">> PROVE FALSE
        OBVIOUS
      <4>1. Len(t) = 2 /\ t[1] = ":" /\ t[2] = ":"
        OBVIOUS
      <4>2. 1 \in Colons(t) /\ 1 + 1 \in Colons(t)
        BY ONLY <2>7, <4>1 DEF Colons
      <4> QED BY ONLY <2>9, <4>2 DEF DoubleColons
    <3> QED BY ONLY <2>4, <2>7, <3>1, PlainText DEF AllZero
  <2>12. str_to_ipv6_addr(t) = PopulateFull(t)
    <3>1. str_to_ipv6_addr(t) = Form(t, t)
      BY ONLY <2>4, <2>7, <2>10, <2>11, ParseOf
    <3> QED BY ONLY <2>9, <3>1 DEF Form
  <2>13. Last(g) # <<>>
    <3>1. Len(g) \in DOMAIN g
      BY ONLY <1>0, <2>4, <2>5
    <3>2. GoodGroup(g[Len(g)])
      BY ONLY <2>4, <3>1 DEF GoodSegs
    <3>3. PICK w, e : w = g[Len(g)] /\ e = Len(w)
      OBVIOUS
    <3>4. e \in 1..4
      BY ONLY <3>2, <3>3 DEF GoodGroup
    <3>5. e # 0
      BY ONLY <3>4
    <3>6. w # <<>>
      BY ONLY <3>3, <3>5
    <3> QED BY ONLY <3>3, <3>6 DEF Last
  <2>14. PopulateFull(t) = Populate(g)
    BY ONLY <2>5, <2>7, <2>13 DEF PopulateFull
  <2>15. Populate(g) = Ok(Value(g))
    BY ONLY <2>4 DEF Populate, GoodSegs, Value
  <2> QED BY ONLY <1>3, <2>5, <2>12, <2>14, <2>15
<1>5. CASE zero # {}
  <2>1. PICK a : a = FirstOf(zero)
    OBVIOUS
  <2>2. PICK b : b = RunEnd(zero)
    OBVIOUS
  <2>3. PICK lg, rg : /\ lg = PrintedGroups(v, 1, a - 1)
                      /\ rg = PrintedGroups(v, b + 1, Groups)
    OBVIOUS
  <2>4. PICK l, r : l = JoinSeqs(lg, ":") /\ r = JoinSeqs(rg, ":")
    OBVIOUS
  <2>5. t = Doubled(l, r)
    BY ONLY <1>1, <1>3, <1>5, <2>1, <2>2, <2>3, <2>4, PrintForm
  <2>6. /\ a \in Nat /\ b \in Nat /\ 0 < a /\ a <= b /\ b <= Groups
        /\ a..b \subseteq zero
    <3>1. zero \in SUBSET (1..Groups)
      BY ONLY <1>1, <1>2 DEF ZeroGroups
    <3>2. Groups \in Nat
      BY ONLY <1>0
    <3> QED BY ONLY <1>5, <2>1, <2>2, <3>1, <3>2, ZeroRun
  <2>7. \A i \in a..b : v[i] = 0
    BY ONLY <1>1, <2>6 DEF ZeroGroups
  <2>8. /\ Len(lg) = a - 1 /\ GoodSegs(lg)
        /\ Value(lg) = Part(v, 1, a - 1) /\ l \in HexText /\ Side(l) = lg
    <3>1. PICK m : m = a - 1
      OBVIOUS
    <3>2. /\ m \in Nat /\ m <= Groups /\ 1 \in Nat /\ 1 > 0 /\ 1 <= m + 1
          /\ m - 1 + 1 = m
      BY ONLY <1>0, <2>6, <3>1
    <3>3. lg = PrintedGroups(v, 1, m)
      BY ONLY <2>3, <3>1
    <3>4. Len(lg) = m - 1 + 1 /\ ReadsAs(l, lg, Part(v, 1, m))
      BY <2>4, <3>2, <3>3, PrintedReads
    <3> QED BY ONLY <3>1, <3>2, <3>4 DEF ReadsAs
  <2>9. /\ Len(rg) = Groups - b /\ GoodSegs(rg)
        /\ Value(rg) = Part(v, b + 1, Groups) /\ r \in HexText
        /\ Side(r) = rg
    <3>1. PICK m : m = b + 1
      OBVIOUS
    <3>2. /\ m \in Nat /\ m > 0 /\ Groups <= Groups /\ m <= Groups + 1
          /\ Groups - m + 1 = Groups - b
      BY ONLY <1>0, <2>6, <3>1
    <3>3. rg = PrintedGroups(v, m, Groups)
      BY ONLY <2>3, <3>1
    <3>4. Len(rg) = Groups - m + 1 /\ ReadsAs(r, rg, Part(v, m, Groups))
      BY <1>0, <2>4, <3>2, <3>3, PrintedReads
    <3> QED BY ONLY <3>1, <3>2, <3>4 DEF ReadsAs
  <2>10. PICK k, n : k = Len(l) + 1 /\ n = (a - 1) + (Groups - b)
    OBVIOUS
  <2>11. Filled(Value(lg), n, Value(rg)) = v
    <3>1. Filled(Part(v, 1, a - 1), n, Part(v, b + 1, Groups)) = v
      BY <2>6, <2>7, <2>10, ThreeParts
    <3> QED BY ONLY <2>8, <2>9, <3>1
  <2>12. /\ t \in HexText /\ k \in DoubleColons(t)
         /\ Before(t, k) = l /\ After(t, k) = r
         /\ Len(t) = Len(l) + 2 + Len(r)
    <3>1. l \in HexText /\ r \in HexText
      BY ONLY <2>8, <2>9
    <3>2. k = Len(l) + 1
      BY ONLY <2>10
    <3> QED BY ONLY <2>5, <3>1, <3>2, SidesJoined
  <2>13. t \in Seq(HexSet \cup {":"}) /\ t # <<>>
    <3>1. Len(l) \in Nat /\ Len(r) \in Nat
      BY ONLY <2>8, <2>9 DEF HexText
    <3>2. PICK d, e, f : d = Len(l) /\ e = Len(r) /\ f = Len(t)
      OBVIOUS
    <3>3. f # 0
      BY ONLY <2>12, <3>1, <3>2
    <3>4. t # <<>>
      BY ONLY <3>2, <3>3
    <3> QED BY ONLY <2>12, <3>4 DEF HexText
  <2>14. CASE t = <<":", ":">>
    <3>1. str_to_ipv6_addr(t) = Ok(Zeros(Groups))
      BY ONLY <2>14 DEF str_to_ipv6_addr
    <3>2. n = 0
      <4>1. Len(l) \in Nat /\ Len(r) \in Nat /\ Len(t) = 2
        BY ONLY <2>8, <2>9, <2>14 DEF HexText
      <4>2. Len(l) = 0 /\ Len(r) = 0
        <5>1. PICK d, e : d = Len(l) /\ e = Len(r)
          OBVIOUS
        <5>2. d \in Nat /\ e \in Nat /\ 2 = d + 2 + e
          BY ONLY <2>12, <4>1, <5>1
        <5>3. d = 0 /\ e = 0
          BY ONLY <5>2
        <5> QED BY ONLY <5>1, <5>3
      <4>3. l = <<>> /\ r = <<>>
        BY ONLY <2>8, <2>9, <4>2 DEF HexText
      <4>4. lg = <<>> /\ rg = <<>>
        BY ONLY <2>8, <2>9, <4>3 DEF Side
      <4>5. Len(<<>>) = 0
        OBVIOUS
      <4>6. a - 1 = 0 /\ Groups - b = 0
        BY ONLY <2>8, <2>9, <4>4, <4>5
      <4> QED BY ONLY <2>10, <4>6
    <3>3. Value(lg) = <<>> /\ Value(rg) = <<>>
      <4>1. a - 1 = 0 /\ Groups - b = 0
        BY ONLY <1>0, <2>6, <2>10, <3>2
      <4>2. a - 1 - 1 + 1 = 0 /\ Groups - (b + 1) + 1 = 0
        BY ONLY <1>0, <2>6, <4>1
      <4>3. Part(v, 1, a - 1) = <<>> /\ Part(v, b + 1, Groups) = <<>>
        BY ONLY <4>2 DEF Part
      <4> QED BY ONLY <2>8, <2>9, <4>3
    <3>4. Zeros(Groups) = v
      <4>1. PICK z : z = Zeros(Groups)
        OBVIOUS
      <4>2. z \in Seq(GroupValues)
        BY ONLY <1>0, <4>1, ZerosTyped
      <4>3. <<>> \o z = z /\ z \o <<>> = z
        BY ONLY <4>2, ConcatEmptySeq
      <4>4. Groups - n = Groups
        BY ONLY <1>0, <3>2
      <4> QED BY ONLY <2>11, <3>3, <4>1, <4>3, <4>4 DEF Filled
    <3> QED BY ONLY <1>3, <3>1, <3>4
  <2>15. CASE t # <<":", ":">>
    <3>1. t \in Seq(Char) /\ Unbracketed(t) = t /\ t \notin AllZero
      BY ONLY <2>12, <2>13, <2>15, PlainText DEF AllZero
    <3>2. GoodSegs(Side(l)) /\ GoodSegs(Side(r))
      BY ONLY <2>8, <2>9
    <3>3. SoundSide(l) /\ SoundSide(r)
      BY ONLY <2>8, <2>9, <3>2, SideFacts DEF HexText
    <3>4. NoTriple(t)
      BY ONLY <2>12, <2>13, <3>3, OnlyDouble DEF NoTriple
    <3>5. str_to_ipv6_addr(t) = PopulateSides(t, t)
      <4>1. str_to_ipv6_addr(t) = Form(t, t)
        BY ONLY <2>12, <2>13, <3>1, <3>4, ParseOf
      <4>2. DoubleColons(t) # {}
        BY ONLY <2>12
      <4> QED BY ONLY <4>1, <4>2 DEF Form
    <3>6. n = Len(Side(l)) + Len(Side(r))
      BY ONLY <2>8, <2>9, <2>10
    <3>7. /\ SegmentCount(t, t) = n + (IF r = <<>> THEN 1 ELSE 0)
               - (IF Ends(t, <<":", ":">>) THEN 1 ELSE 0)
          /\ ~TooManySegments(t, t) =>
               PopulateSides(t, t)
                 = Ok(Filled(Value(Side(l)), n, Value(Side(r))))
      BY ONLY <2>12, <2>13, <3>2, <3>6, SidesParse
    <3>8. Ends(t, <<":", ":">>) <=> r = <<>>
      BY ONLY <2>12, <2>13, <3>3, EndsDouble
    <3>9. ~TooManySegments(t, t)
      <4>1. n \in Nat /\ n <= Groups - 1
        BY ONLY <1>0, <2>6, <2>10
      <4>2. PICK e : e = IF r = <<>> THEN 1 ELSE 0
        OBVIOUS
      <4>3. e \in {0, 1} /\ SegmentCount(t, t) = n + e - e
        BY ONLY <3>7, <3>8, <4>2
      <4>4. SegmentCount(t, t) = n
        BY ONLY <4>1, <4>3
      <4> QED BY ONLY <1>0, <4>1, <4>4 DEF TooManySegments
    <3>10. PopulateSides(t, t) = Ok(v)
      BY ONLY <2>8, <2>9, <2>11, <3>7, <3>9
    <3> QED BY ONLY <1>3, <3>5, <3>10
  <2> QED BY ONLY <2>14, <2>15
<1> QED BY ONLY <1>4, <1>5

-----------------------------------------------------------------------------
(* The meanings of a text.                                                 *)

\* Segments of one to four hexadecimal digits; the zeros of "::".
GoodHex(segs) ==
  \A i \in DOMAIN segs : GoodGroup(segs[i])
                         /\ ToSet(segs[i]) \subseteq ToSet(Hex)
ZeroSegs(n) == [j \in 1..n |-> <<Hex[1]>>]

\* A meaning is the value of an expansion of good segments.
LEMMA MeaningOf ==
  ASSUME NEW s, NEW m
  PROVE  m \in Meanings(s) <=> \E e \in Expansions(s) :
                                 Len(e) = Groups /\ GoodHex(e) /\ m = Value(e)
<1>1. PICK X : X = Expansions(s)
  OBVIOUS
<1>2. Meanings(s)
        = {Value(e) : e \in {f \in X : Len(f) = Groups /\ GoodHex(f)}}
  BY ONLY <1>1 DEF Meanings, Value, GoodHex
<1>3. m \in {Value(e) : e \in {f \in X : Len(f) = Groups /\ GoodHex(f)}}
        <=> \E e \in X : Len(e) = Groups /\ GoodHex(e) /\ m = Value(e)
  OBVIOUS
<1> QED BY ONLY <1>1, <1>2, <1>3

\* The expansions of the two forms.
LEMMA ExpansionForms ==
  ASSUME NEW s
  PROVE  /\ DoubleColons(s) = {} => Expansions(s) = {Split(s, ":")}
         /\ DoubleColons(s) # {} =>
              \A e : e \in Expansions(s) <=>
                       \E k \in DoubleColons(s), n \in 1..Groups :
                         e = Expand(s, k, n)
<1>1. DoubleColons(s) = {} => Expansions(s) = {Split(s, ":")}
  BY DEF Expansions
<1>2. DoubleColons(s) # {} =>
        Expansions(s) = {Expand(s, k, n) : k \in DoubleColons(s),
                                           n \in 1..Groups}
  BY DEF Expansions
<1> QED BY ONLY <1>1, <1>2

\* An expansion, with names for its parts.
LEMMA ExpandIs ==
  ASSUME NEW s, NEW k, NEW n
  PROVE  Expand(s, k, n)
           = Side(Before(s, k)) \o ZeroSegs(n) \o Side(After(s, k))
BY DEF Expand, Before, After, ZeroSegs

\* Good segments are good and made of digits.
LEMMA GoodHexIs ==
  ASSUME NEW S, NEW segs \in Seq(Seq(S))
  PROVE  GoodHex(segs) <=> GoodSegs(segs) /\ segs \in Seq(Seq(HexSet))
<1>1. DOMAIN segs = 1..Len(segs) /\ Len(segs) \in Nat
  OBVIOUS
<1>2. \A i \in 1..Len(segs) : segs[i] \in Seq(S)
  OBVIOUS
<1>3. ToSet(Hex) = HexSet
  BY HexDigits
<1>4. \A i \in 1..Len(segs) :
        ToSet(segs[i]) \subseteq ToSet(Hex) <=> segs[i] \in Seq(HexSet)
  <2> TAKE i \in 1..Len(segs)
  <2>1. segs[i] \in Seq(S)
    BY ONLY <1>2
  <2> QED BY ONLY <1>3, <2>1, ElementsOf
<1>5. segs \in Seq(Seq(HexSet))
        <=> \A i \in 1..Len(segs) : segs[i] \in Seq(HexSet)
  <2>1. PICK Z : Z = Seq(HexSet)
    OBVIOUS
  <2>2. segs \in Seq(Z) => \A i \in 1..Len(segs) : segs[i] \in Z
    BY ElementIn
  <2>3. (\A i \in 1..Len(segs) : segs[i] \in Z) => segs \in Seq(Z)
    <3> HAVE \A i \in 1..Len(segs) : segs[i] \in Z
    <3>1. ToSet(segs) \subseteq Z
      BY <1>1 DEF ToSet
    <3> QED BY <3>1, ElementsOf
  <2> QED BY ONLY <2>1, <2>2, <2>3
<1>6. GoodHex(segs) <=> GoodSegs(segs)
                        /\ \A i \in 1..Len(segs) : segs[i] \in Seq(HexSet)
  BY ONLY <1>1, <1>4 DEF GoodHex, GoodSegs
<1> QED BY ONLY <1>5, <1>6

\* The parts of a concatenation.
Together(w, x, y) ==
  /\ Len(w) = Len(x) + Len(y)
  /\ GoodHex(w) <=> GoodHex(x) /\ GoodHex(y)
  /\ Value(w) = Value(x) \o Value(y)

\* Segments put together.
LEMMA ConcatGood ==
  ASSUME NEW Z, NEW x \in Seq(Z), NEW y \in Seq(Z), NEW w, w = x \o y
  PROVE  w \in Seq(Z) /\ Together(w, x, y)
<1>1. PICK a, b : a = Len(x) /\ b = Len(y)
  OBVIOUS
<1>2. a \in Nat /\ b \in Nat /\ DOMAIN x = 1..a /\ DOMAIN y = 1..b
  BY <1>1
<1>3. /\ w \in Seq(Z) /\ Len(w) = a + b
      /\ \A i \in 1..a + b : w[i] = IF i <= a THEN x[i] ELSE y[i - a]
  BY <1>1, ConcatProperties
<1>4. DOMAIN w = 1..a + b
  <2>1. w \in Seq(Z) /\ Len(w) = a + b
    BY ONLY <1>3
  <2> QED BY ONLY <2>1
<1>5. \A i \in 1..a : w[i] = x[i] /\ i \in 1..a + b
  <2> TAKE i \in 1..a
  <2>1. i \in 1..a + b /\ i <= a
    BY ONLY <1>2, i \in 1..a
  <2> QED BY ONLY <1>3, <2>1
<1>6. \A i \in 1..b : w[a + i] = y[i] /\ a + i \in 1..a + b
  <2> TAKE i \in 1..b
  <2>1. PICK h : h = a + i
    OBVIOUS
  <2>2. h \in 1..a + b /\ ~(h <= a) /\ h - a = i
    BY ONLY <1>2, <2>1, i \in 1..b
  <2>3. w[h] = y[h - a]
    BY ONLY <1>3, <2>2
  <2> QED BY ONLY <2>1, <2>2, <2>3
<1>7. \A i \in 1..a + b : ~(i <= a) => i - a \in 1..b
  BY ONLY <1>2
<1>8. \A i \in 1..a + b : i <= a => i \in 1..a
  BY ONLY <1>2
<1>9. GoodHex(w) <=> GoodHex(x) /\ GoodHex(y)
  <2>1. ASSUME GoodHex(w) PROVE GoodHex(x) /\ GoodHex(y)
    BY ONLY <1>2, <1>4, <1>5, <1>6, <2>1 DEF GoodHex
  <2>2. ASSUME GoodHex(x), GoodHex(y) PROVE GoodHex(w)
    <3> SUFFICES ASSUME NEW i \in 1..a + b
                 PROVE  GoodGroup(w[i]) /\ ToSet(w[i]) \subseteq ToSet(Hex)
      <4>1. PICK D : D = 1..a + b
        OBVIOUS
      <4>2. DOMAIN w = D
        BY ONLY <1>4, <4>1
      <4> QED BY <4>1, <4>2 DEF GoodHex
    <3>1. CASE i <= a
      <4>1. w[i] = x[i] /\ i \in DOMAIN x
        BY ONLY <1>2, <1>3, <1>8, <3>1, i \in 1..a + b
      <4> QED BY ONLY <2>2, <4>1 DEF GoodHex
    <3>2. CASE ~(i <= a)
      <4>1. w[i] = y[i - a] /\ i - a \in DOMAIN y
        BY ONLY <1>2, <1>3, <1>7, <3>2, i \in 1..a + b
      <4> QED BY ONLY <2>2, <4>1 DEF GoodHex
    <3> QED BY ONLY <3>1, <3>2
  <2> QED BY ONLY <2>1, <2>2
<1>10. Value(w) = Value(x) \o Value(y)
  <2>0. PICK V : /\ \A i \in 1..a : Number(x[i], Hex) \in V
                 /\ \A i \in 1..b : Number(y[i], Hex) \in V
    <3>1. WITNESS {Number(x[i], Hex) : i \in 1..a}
                  \cup {Number(y[i], Hex) : i \in 1..b}
    <3> QED OBVIOUS
  <2>1. PICK p, q, o : p = Value(x) /\ q = Value(y) /\ o = Value(w)
    OBVIOUS
  <2>2. /\ p = [i \in 1..a |-> Number(x[i], Hex)]
        /\ q = [i \in 1..b |-> Number(y[i], Hex)]
        /\ o = [i \in 1..a + b |-> Number(w[i], Hex)]
    BY ONLY <1>2, <1>4, <2>1 DEF Value
  <2>3. /\ p \in Seq(V) /\ Len(p) = a
        /\ \A i \in 1..a : p[i] = Number(x[i], Hex)
    BY ONLY <1>2, <2>0, <2>2
  <2>4. /\ q \in Seq(V) /\ Len(q) = b
        /\ \A i \in 1..b : q[i] = Number(y[i], Hex)
    BY ONLY <1>2, <2>0, <2>2
  <2>5. \A i \in 1..a + b : Number(w[i], Hex)
                              = IF i <= a THEN p[i] ELSE q[i - a]
    BY ONLY <1>3, <1>7, <1>8, <2>3, <2>4
  <2>6. \A i \in 1..a + b : Number(w[i], Hex) \in V
    BY ONLY <1>3, <1>7, <1>8, <2>0
  <2>7. /\ o \in Seq(V) /\ Len(o) = a + b
        /\ \A i \in 1..a + b : o[i] = Number(w[i], Hex)
    <3>1. a + b \in Nat
      BY ONLY <1>2
    <3>2. PICK c : c = a + b
      OBVIOUS
    <3> QED BY ONLY <2>2, <2>6, <3>1, <3>2
  <2>8. PICK pq : pq = p \o q
    OBVIOUS
  <2>9. /\ pq \in Seq(V) /\ Len(pq) = a + b
        /\ \A i \in 1..a + b : pq[i] = IF i <= a THEN p[i] ELSE q[i - a]
    <3>1. p \in Seq(V) /\ Len(p) = a /\ q \in Seq(V) /\ Len(q) = b
      BY ONLY <2>3, <2>4
    <3>2. /\ pq \in Seq(V) /\ Len(pq) = Len(p) + Len(q)
          /\ \A i \in 1..Len(p) + Len(q) :
               pq[i] = IF i <= Len(p) THEN p[i] ELSE q[i - Len(p)]
      BY ONLY <2>8, <3>1, ConcatProperties
    <3> QED BY ONLY <3>1, <3>2
  <2>10. o = pq
    <3>1. \A i \in 1..a + b : o[i] = pq[i]
      BY ONLY <2>5, <2>7, <2>9
    <3>2. Len(o) = Len(pq) /\ \A i \in 1..Len(o) : o[i] = pq[i]
      BY ONLY <2>7, <2>9, <3>1
    <3>3. o \in Seq(V) /\ pq \in Seq(V)
      BY ONLY <2>7, <2>9
    <3> QED BY ONLY <3>2, <3>3, SeqEqual
  <2> QED BY ONLY <2>1, <2>8, <2>10
<1> QED BY ONLY <1>1, <1>3, <1>9, <1>10 DEF Together

\* The digits are characters; zero groups are good segments.
LEMMA HexChars ==
  HexSet \subseteq Char \ {":"} /\ ":" \in Char /\ Hex[1] \in HexSet
<1>1. \A i \in 1..Len(Hex) : Hex[i] \in STRING
  BY HexAssumption, ElementIn
<1>2. HexSet \subseteq STRING
  BY <1>1 DEF HexSet, Of
<1>3. HexSet \subseteq Char /\ ":" \in Char
  BY <1>2 DEF Char, Marks
<1>4. 1 \in 1..Len(Hex)
  BY HexDigits
<1>5. Hex[1] \in HexSet
  BY <1>4 DEF HexSet, Of
<1> QED BY ONLY <1>3, <1>5, HexDigits

\* The zeros of "::" are good segments of value zero.
LEMMA ZeroSegsFacts ==
  ASSUME NEW n \in Nat
  PROVE  /\ ZeroSegs(n) \in Seq(Seq(Char \ {":"})) /\ Len(ZeroSegs(n)) = n
         /\ GoodHex(ZeroSegs(n)) /\ Value(ZeroSegs(n)) = Zeros(n)
<1>1. PICK z, g : z = ZeroSegs(n) /\ g = <<Hex[1]>>
  OBVIOUS
<1>2. z = [j \in 1..n |-> g]
  BY <1>1 DEF ZeroSegs
<1>3. g \in Seq(HexSet) /\ Len(g) = 1 /\ g \in Seq(Char \ {":"})
  <2>1. Hex[1] \in HexSet /\ Hex[1] \in Char \ {":"}
    BY HexChars
  <2> QED BY ONLY <1>1, <2>1
<1>4. Number(g, Hex) = 0
  <2>1. 1 \in 1..Len(Hex) /\ Digits(Hex)
    BY HexDigits
  <2>2. Digit(Hex[1], Hex) = 1 - 1
    BY ONLY <2>1, DigitValue
  <2>3. Hex[1] \in Of(Hex)
    BY HexChars DEF HexSet
  <2>4. Number(<<Hex[1]>>, Hex) = Digit(Hex[1], Hex)
    BY ONLY <2>1, <2>3, NumberOfDigits
  <2> QED BY <1>1, <2>2, <2>4
<1>5. PICK Z : Z = Seq(Char \ {":"})
  OBVIOUS
<1>6. z \in Seq(Z) /\ Len(z) = n /\ DOMAIN z = 1..n
  <2>1. g \in Z
    BY ONLY <1>3, <1>5
  <2> QED BY <1>2, <2>1
<1>7. GoodGroup(g) /\ ToSet(g) \subseteq ToSet(Hex)
  <2>1. ToSet(g) \subseteq HexSet
    BY ONLY <1>3, ElementsOf
  <2>2. Len(g) \in 1..4
    BY ONLY <1>3
  <2> QED BY ONLY <2>1, <2>2, HexDigits DEF GoodGroup
<1>8. GoodHex(z)
  <2>1. \A i \in 1..n : z[i] = g
    BY ONLY <1>2
  <2> QED BY ONLY <1>6, <1>7, <2>1 DEF GoodHex
<1>9. Value(z) = Zeros(n)
  <2>1. \A i \in 1..n : z[i] = g
    BY ONLY <1>2
  <2>2. \A i \in 1..n : Number(z[i], Hex) = 0
    BY ONLY <1>4, <2>1
  <2> QED BY ONLY <1>6, <2>2 DEF Value, Zeros
<1> QED BY ONLY <1>1, <1>5, <1>6, <1>8, <1>9

\* What an expansion of a "::" is.
LEMMA ExpandFacts ==
  ASSUME NEW s \in Seq(Char), NEW k \in DoubleColons(s),
         NEW n \in Nat, n <= Groups,
         NEW l, l = Before(s, k), NEW r, r = After(s, k),
         NEW e, e = Expand(s, k, n), NEW m, m = Groups - n
  PROVE  /\ Len(Side(l)) \in Nat /\ Len(Side(r)) \in Nat
         /\ Len(e) = Len(Side(l)) + n + Len(Side(r))
         /\ GoodHex(e) <=> GoodHex(Side(l)) /\ GoodHex(Side(r))
         /\ Value(e) = Filled(Value(Side(l)), m, Value(Side(r)))
<1>1. l \in Seq(Char) /\ r \in Seq(Char)
  BY AroundDouble
<1>2. PICK x, y, z, Z : /\ x = Side(l) /\ y = ZeroSegs(n) /\ z = Side(r)
                        /\ Z = Seq(Char \ {":"})
  OBVIOUS
<1>3. x \in Seq(Z) /\ z \in Seq(Z) /\ Len(x) \in Nat /\ Len(z) \in Nat
  BY ONLY <1>1, <1>2, SideFacts
<1>4. y \in Seq(Z) /\ Len(y) = n /\ GoodHex(y) /\ Value(y) = Zeros(n)
  BY ONLY <1>2, ZeroSegsFacts, n \in Nat
<1>5. PICK xy : xy = x \o y
  OBVIOUS
<1>6. /\ xy \in Seq(Z) /\ Len(xy) = Len(x) + Len(y)
      /\ GoodHex(xy) <=> GoodHex(x) /\ GoodHex(y)
      /\ Value(xy) = Value(x) \o Value(y)
  <2>1. x \in Seq(Z) /\ y \in Seq(Z)
    BY ONLY <1>3, <1>4
  <2>2. xy \in Seq(Z) /\ Together(xy, x, y)
    BY ONLY <1>5, <2>1, ConcatGood
  <2> QED BY ONLY <2>2 DEF Together
<1>7. e = xy \o z
  BY ONLY <1>2, <1>5, ExpandIs, l = Before(s, k), r = After(s, k),
          e = Expand(s, k, n)
<1>8. /\ Len(e) = Len(xy) + Len(z)
      /\ GoodHex(e) <=> GoodHex(xy) /\ GoodHex(z)
      /\ Value(e) = Value(xy) \o Value(z)
  <2>1. xy \in Seq(Z) /\ z \in Seq(Z)
    BY ONLY <1>3, <1>6
  <2>2. Together(e, xy, z)
    BY ONLY <1>7, <2>1, ConcatGood
  <2> QED BY ONLY <2>2 DEF Together
<1>9. Value(e) = Filled(Value(x), m, Value(z))
  <2>1. Groups - m = n
    BY TextAssumption
  <2> QED BY ONLY <1>4, <1>6, <1>8, <2>1 DEF Filled
<1>10. Len(e) = Len(x) + n + Len(z)
  BY ONLY <1>3, <1>4, <1>6, <1>8
<1>11. GoodHex(e) <=> GoodHex(x) /\ GoodHex(z)
  BY ONLY <1>4, <1>6, <1>8
<1> QED BY ONLY <1>2, <1>3, <1>9, <1>10, <1>11

\* The meaning of a text without "::".
LEMMA FullMeaning ==
  ASSUME NEW s \in Seq(Char), DoubleColons(s) = {},
         NEW g, g = Split(s, ":")
  PROVE  /\ Len(g) = Groups /\ GoodHex(g) => Meanings(s) = {Value(g)}
         /\ Meanings(s) # {} => Len(g) = Groups /\ GoodHex(g)
<1>1. Expansions(s) = {g}
  BY ExpansionForms
<1>2. \A m : m \in Meanings(s)
               <=> Len(g) = Groups /\ GoodHex(g) /\ m = Value(g)
  BY ONLY <1>1, MeaningOf
<1>3. ASSUME Len(g) = Groups, GoodHex(g) PROVE Meanings(s) = {Value(g)}
  BY ONLY <1>2, <1>3
<1>4. ASSUME Meanings(s) # {} PROVE Len(g) = Groups /\ GoodHex(g)
  <2>1. PICK m : m \in Meanings(s)
    BY ONLY <1>4
  <2> QED BY ONLY <1>2, <2>1
<1> QED BY ONLY <1>3, <1>4

\* Good sides around a "::", with room for a zero group.
GoodAround(s, k) ==
  /\ k \in DoubleColons(s)
  /\ GoodHex(Side(Before(s, k))) /\ GoodHex(Side(After(s, k)))
  /\ Len(Side(Before(s, k))) + Len(Side(After(s, k))) < Groups

\* The meaning of a text with "::".
LEMMA SidesMeaning ==
  ASSUME NEW s \in Seq(Char), DoubleColons(s) # {}
  PROVE  Meanings(s) # {} => \E k : GoodAround(s, k)
<1> HAVE Meanings(s) # {}
<1>0. Groups \in Nat
  BY TextAssumption
<1>1. PICK m : m \in Meanings(s)
  OBVIOUS
<1>2. PICK e \in Expansions(s) : Len(e) = Groups /\ GoodHex(e)
  BY ONLY <1>1, MeaningOf
<1>3. PICK k \in DoubleColons(s), n \in 1..Groups : e = Expand(s, k, n)
  BY <1>2, ExpansionForms
<1>4. PICK l, r, d : l = Before(s, k) /\ r = After(s, k) /\ d = Groups - n
  OBVIOUS
<1>5. n \in Nat /\ n > 0 /\ n <= Groups
  BY ONLY <1>0, n \in 1..Groups
<1>6. /\ Len(Side(l)) \in Nat /\ Len(Side(r)) \in Nat
      /\ Len(e) = Len(Side(l)) + n + Len(Side(r))
      /\ GoodHex(e) <=> GoodHex(Side(l)) /\ GoodHex(Side(r))
  BY <1>3, <1>4, <1>5, ExpandFacts
<1>7. Len(Side(l)) + Len(Side(r)) < Groups
  <2>1. PICK a, b : a = Len(Side(l)) /\ b = Len(Side(r))
    OBVIOUS
  <2>2. a \in Nat /\ b \in Nat /\ Groups = a + n + b
    BY ONLY <1>2, <1>6, <2>1
  <2>3. a + b < Groups
    BY ONLY <1>5, <2>2
  <2> QED BY ONLY <2>1, <2>3
<1>8. GoodAround(s, k)
  BY ONLY <1>2, <1>3, <1>4, <1>6, <1>7 DEF GoodAround
<1> QED BY ONLY <1>8

\* A text with good sides has one meaning.
LEMMA MeaningSides ==
  ASSUME NEW s \in Seq(Char), NEW k, GoodAround(s, k),
         NEW l, l = Before(s, k), NEW r, r = After(s, k),
         NEW n, n = Len(Side(l)) + Len(Side(r))
  PROVE  Meanings(s) = {Filled(Value(Side(l)), n, Value(Side(r)))}
<1>0. Groups \in Nat
  BY TextAssumption
<1>1. /\ k \in DoubleColons(s) /\ GoodHex(Side(l)) /\ GoodHex(Side(r))
      /\ n < Groups
  BY DEF GoodAround
<1>2. l \in Seq(Char) /\ r \in Seq(Char)
  BY <1>1, AroundDouble
<1>3. SoundSide(l) /\ SoundSide(r)
  <2>1. GoodSegs(Side(l)) /\ GoodSegs(Side(r))
    BY ONLY <1>1 DEF GoodHex, GoodSegs
  <2> QED BY ONLY <1>2, <2>1, SideFacts
<1>4. DoubleColons(s) = {k}
  BY <1>1, <1>3, OnlyDouble
<1>5. Len(Side(l)) \in Nat /\ Len(Side(r)) \in Nat /\ n \in Nat
  <2>1. Len(Side(l)) \in Nat /\ Len(Side(r)) \in Nat
    BY ONLY <1>2, SideFacts
  <2> QED BY <2>1
<1>6. PICK w : w = Filled(Value(Side(l)), n, Value(Side(r)))
  OBVIOUS
<1>7. ASSUME NEW m \in Meanings(s) PROVE m = w
  <2>1. PICK e \in Expansions(s) : Len(e) = Groups /\ m = Value(e)
    BY ONLY <1>7, MeaningOf
  <2>2. PICK d \in 1..Groups : e = Expand(s, k, d)
    BY <1>4, <2>1, ExpansionForms
  <2>3. PICK c : c = Groups - d
    OBVIOUS
  <2>4. d \in Nat /\ d <= Groups
    BY ONLY <1>0, d \in 1..Groups
  <2>5. /\ Len(e) = Len(Side(l)) + d + Len(Side(r))
        /\ Value(e) = Filled(Value(Side(l)), c, Value(Side(r)))
    BY <1>1, <2>2, <2>3, <2>4, ExpandFacts
  <2>6. c = n
    <3>1. PICK a, b : a = Len(Side(l)) /\ b = Len(Side(r))
      OBVIOUS
    <3>2. a \in Nat /\ b \in Nat /\ Groups = a + d + b /\ n = a + b
      BY <1>5, <2>1, <2>5, <3>1
    <3> QED BY ONLY <2>3, <2>4, <3>2
  <2> QED BY ONLY <1>6, <2>1, <2>5, <2>6
<1>8. w \in Meanings(s)
  <2>1. PICK d, e : d = Groups - n /\ e = Expand(s, k, d)
    OBVIOUS
  <2>2. d \in Nat /\ d <= Groups /\ d \in 1..Groups /\ n = Groups - d
    BY ONLY <1>0, <1>1, <1>5, <2>1
  <2>3. /\ Len(e) = Len(Side(l)) + d + Len(Side(r))
        /\ GoodHex(e) <=> GoodHex(Side(l)) /\ GoodHex(Side(r))
        /\ Value(e) = Filled(Value(Side(l)), n, Value(Side(r)))
    BY <1>1, <2>1, <2>2, ExpandFacts
  <2>4. Len(e) = Groups
    <3>1. PICK a, b : a = Len(Side(l)) /\ b = Len(Side(r))
      OBVIOUS
    <3>2. a \in Nat /\ b \in Nat /\ Len(e) = a + d + b /\ n = a + b
      BY <1>5, <2>3, <3>1
    <3>3. a + d + b = Groups
      BY ONLY <1>0, <2>1, <3>2
    <3> QED BY ONLY <3>2, <3>3
  <2>5. e \in Expansions(s)
    BY <1>4, <2>1, <2>2, ExpansionForms
  <2> QED BY ONLY <1>1, <1>6, <2>3, <2>4, <2>5, MeaningOf
<1> QED BY ONLY <1>6, <1>7, <1>8

\* The last character of a text.
LEMMA LastApart ==
  ASSUME NEW S, NEW s \in Seq(S), s # <<>>
  PROVE  \E f \in Seq(S), c \in S : s = Append(f, c) /\ c = s[Len(s)]
<1>1. PICK n, m : m = Len(s) /\ n = m - 1
  OBVIOUS
<1>2. m \in Nat /\ m # 0
  BY <1>1
<1>3. n \in Nat /\ m = n + 1 /\ n <= m
  BY ONLY <1>1, <1>2
<1>4. PICK f, c : f = SubSeq(s, 1, n) /\ c = s[m]
  OBVIOUS
<1>5. c \in S
  <2>1. m \in 1..Len(s)
    BY ONLY <1>1, <1>2
  <2> QED BY <1>4, <2>1, ElementIn
<1>6. f \in Seq(S) /\ Len(f) = n /\ \A i \in 1..n : f[i] = s[i]
  BY <1>1, <1>3, <1>4
<1>7. PICK g : g = Append(f, c)
  OBVIOUS
<1>8. /\ g \in Seq(S) /\ Len(g) = n + 1 /\ g[n + 1] = c
      /\ \A i \in 1..n : g[i] = f[i]
  BY ONLY <1>3, <1>5, <1>6, <1>7
<1>9. ASSUME NEW i \in 1..n + 1 PROVE g[i] = s[i]
  <2>1. i \in 1..n \/ i = n + 1
    BY ONLY <1>3, i \in 1..n + 1
  <2> QED BY ONLY <1>3, <1>4, <1>6, <1>8, <2>1
<1>10. g = s
  BY ONLY <1>1, <1>3, <1>8, <1>9, s \in Seq(S), SeqEqual
<1> QED BY ONLY <1>1, <1>4, <1>5, <1>6, <1>7, <1>10

\* The last segment is empty if the text ends in a separator.
LEMMA LastSegment ==
  ASSUME NEW S, NEW s \in Seq(S), NEW sep, NEW g, g = Split(s, sep)
  PROVE  /\ g[Len(g)] = <<>> <=> s = <<>> \/ s[Len(s)] = sep
         /\ s = <<>> => Len(g) = 1
<1>1. CASE s = <<>>
  <2>1. g = <<(<<>>)>>
    <3>1. Start(<<"split", sep>>) = <<(<<>>)>>
      BY DEF Start
    <3> QED BY <1>1, <3>1, ScanEmpty DEF Split
  <2> QED BY <1>1, <2>1
<1>2. CASE s # <<>>
  <2>1. PICK f \in Seq(S), c \in S : s = Append(f, c) /\ c = s[Len(s)]
    BY <1>2, LastApart
  <2>2. PICK p : p = Split(f, sep)
    OBVIOUS
  <2>3. g = Split(Append(f, c), sep)
    BY <2>1
  <2>4. /\ p \in Seq(Seq(S)) /\ Len(p) \in Nat /\ Len(p) > 0
        /\ c = sep => Len(g) = Len(p) + 1 /\ g[Len(p) + 1] = <<>>
        /\ c # sep => Len(g) = Len(p) /\ g[Len(p)] = Append(p[Len(p)], c)
    <3>1. MoreSegments(S, p, g, c, sep)
      BY ONLY <2>2, <2>3, SplitMore, f \in Seq(S), c \in S
    <3> QED BY ONLY <3>1 DEF MoreSegments
  <2>5. Append(p[Len(p)], c) # <<>>
    <3>1. PICK w : w = p[Len(p)]
      OBVIOUS
    <3>2. w \in Seq(S)
      <4>1. Len(p) \in 1..Len(p)
        BY ONLY <2>4
      <4>2. p \in Seq(Seq(S))
        BY ONLY <2>4
      <4> QED BY ONLY <3>1, <4>1, <4>2, ElementIn
    <3>3. Len(Append(w, c)) = Len(w) + 1 /\ Len(w) \in Nat
      BY ONLY <3>2, c \in S
    <3>4. PICK x : x = Append(w, c)
      OBVIOUS
    <3>5. Len(x) # 0
      BY ONLY <3>3, <3>4
    <3>6. x # <<>>
      BY ONLY <3>5
    <3> QED BY ONLY <3>1, <3>4, <3>6
  <2>6. CASE c = sep
    BY ONLY <1>2, <2>1, <2>4, <2>6
  <2>7. CASE c # sep
    BY ONLY <1>2, <2>1, <2>4, <2>5, <2>7
  <2> QED BY ONLY <2>6, <2>7
<1> QED BY ONLY <1>1, <1>2

\* The end of a text that ends in a colon.
LEMMA EndsColon ==
  ASSUME NEW S, NEW s \in Seq(S)
  PROVE  Ends(s, <<":">>) <=> s # <<>> /\ s[Len(s)] = ":"
<1>1. PICK n, e, d : n = Len(s) /\ e = SubSeq(s, n, n) /\ d = <<":">>
  OBVIOUS
<1>2. n \in Nat
  BY <1>1
<1>3. Len(d) = 1 /\ d[1] = ":" /\ d \in Seq({":"})
  BY ONLY <1>1
<1>4. Ends(s, d) <=> 1 <= n /\ e = d
  <2>1. n - 1 + 1 = n
    BY ONLY <1>2
  <2> QED BY <1>1, <1>3, <2>1 DEF Ends
<1>5. ASSUME 1 <= n PROVE e = d <=> s[n] = ":"
  <2>1. e \in Seq(S) /\ Len(e) = n - n + 1
        /\ \A i \in 1..n - n + 1 : e[i] = s[n + i - 1]
    <3>1. /\ n \in 1..Len(s) + 1 /\ n \in 0..Len(s) /\ n <= n + 1
      BY ONLY <1>1, <1>2, <1>5
    <3> QED BY <1>1, <1>2, <1>5, <3>1, SubSeqProperties
  <2>2. n - n + 1 = 1 /\ n + 1 - 1 = n /\ 1 \in 1..1
    BY ONLY <1>2
  <2>3. e[1] = s[n] /\ Len(e) = 1
    BY ONLY <2>1, <2>2
  <2>4. ASSUME s[n] = ":" PROVE e = d
    <3>1. \A i \in 1..Len(e) : e[i] = d[i]
      <4>1. \A i \in 1..1 : i = 1
        OBVIOUS
      <4> QED BY ONLY <1>3, <2>3, <2>4, <4>1
    <3> QED BY ONLY <1>3, <2>1, <2>3, <3>1, SeqEqual
  <2> QED BY ONLY <1>3, <2>3, <2>4
<1>6. s # <<>> <=> 1 <= n
  <2>1. s = <<>> <=> n = 0
    BY <1>1
  <2> QED BY ONLY <1>2, <2>1
<1> QED BY ONLY <1>1, <1>4, <1>5, <1>6

\* An address in brackets does not end in "::".
LEMMA BracketEnds ==
  ASSUME NEW S, NEW t \in Seq(S), Last(t) = "]"
  PROVE  ~Ends(t, <<":", ":">>)
<1> SUFFICES ASSUME Ends(t, <<":", ":">>) PROVE FALSE
  OBVIOUS
<1>1. PICK n, e, d : n = Len(t) /\ e = SubSeq(t, n - 1, n) /\ d = <<":", ":">>
  OBVIOUS
<1>2. Len(d) = 2 /\ d[2] = ":"
  BY ONLY <1>1
<1>3. n \in Nat
  BY <1>1
<1>4. 2 <= n /\ SubSeq(t, n - 2 + 1, n) = d
  BY <1>1, <1>2 DEF Ends
<1>5. n - 2 + 1 = n - 1 /\ n - 1 \in Nat /\ n - 1 > 0
  BY ONLY <1>3, <1>4
<1>6. e[2] = t[n]
  <2>1. \A i \in 1..n - (n - 1) + 1 : e[i] = t[(n - 1) + i - 1]
    <3>1. n - 1 \in 1..Len(t) + 1 /\ n \in 0..Len(t) /\ n - 1 <= n + 1
      BY ONLY <1>1, <1>3, <1>5
    <3> QED BY <1>1, <1>3, <1>5, <3>1, SubSeqProperties
  <2>2. n - (n - 1) + 1 = 2 /\ (n - 1) + 2 - 1 = n /\ 2 \in 1..2
    BY ONLY <1>3
  <2> QED BY ONLY <2>1, <2>2
<1>7. t[n] = "]"
  BY <1>1 DEF Last
<1> QED BY ONLY <1>1, <1>2, <1>4, <1>5, <1>6, <1>7

\* u and its segments q are s and its segments g with a digit more.
DigitLonger(s, u, g, q) ==
  /\ u \in Seq(Char) /\ Len(q) = Len(g) /\ Len(g) \in Nat /\ Len(g) > 0
  /\ q \in Seq(Seq(Char)) /\ g \in Seq(Seq(Char))
  /\ q[Len(g)] = Append(g[Len(g)], Hex[1])
  /\ \A i \in 1..Len(g) - 1 : q[i] = g[i]
  /\ DoubleColons(s) = {} => DoubleColons(u) = {}
  /\ s # <<>> => u # <<>>
  /\ u \in HexText <=> s \in HexText


\* The last segment takes one more digit.
LEMMA OneMoreChar ==
  ASSUME NEW s \in Seq(Char), NEW u, u = Append(s, Hex[1]),
         NEW g, g = Split(s, ":"), NEW q, q = Split(u, ":")
  PROVE  DigitLonger(s, u, g, q)
<1>1. PICK c : c = Hex[1]
  OBVIOUS
<1>2. c \in HexSet /\ c \in Char /\ c # ":"
  BY <1>1, HexChars
<1>3. u = Append(s, c)
  BY <1>1
<1>4. /\ q \in Seq(Seq(Char)) /\ g \in Seq(Seq(Char))
      /\ Len(q) = Len(g) /\ Len(g) \in Nat /\ Len(g) > 0
      /\ q[Len(g)] = Append(g[Len(g)], c)
      /\ \A i \in 1..Len(g) - 1 : q[i] = g[i]
  <2>1. q = Split(Append(s, c), ":") /\ c # ":" /\ c \in Char
    BY <1>2, <1>3
  <2>2. MoreSegments(Char, g, q, c, ":")
    BY ONLY <2>1, SplitMore, s \in Seq(Char), g = Split(s, ":")
  <2> QED BY ONLY <2>1, <2>2 DEF MoreSegments
<1>5. PICK n : n = Len(s)
  OBVIOUS
<1>6. /\ u \in Seq(Char) /\ Len(u) = n + 1 /\ n \in Nat /\ u[n + 1] = c
      /\ \A i \in 1..n : u[i] = s[i]
  BY <1>2, <1>3, <1>5
<1>7. ASSUME NEW i \in DoubleColons(u) PROVE i \in DoubleColons(s)
  <2>1. i \in 1..n + 1 /\ i + 1 \in 1..n + 1 /\ u[i] = ":" /\ u[i + 1] = ":"
    <3>1. DOMAIN u = 1..n + 1
      <4>1. u \in Seq(Char) /\ Len(u) = n + 1
        BY ONLY <1>6
      <4> QED BY ONLY <4>1
    <3> QED BY ONLY <3>1, i \in DoubleColons(u) DEF DoubleColons, Colons
  <2>2. i + 1 # n + 1
    BY ONLY <1>2, <1>6, <2>1
  <2>3. i \in 1..n /\ i + 1 \in 1..n
    BY ONLY <1>6, <2>1, <2>2
  <2>4. s[i] = ":" /\ s[i + 1] = ":"
    BY ONLY <1>6, <2>1, <2>3
  <2>5. DOMAIN s = 1..n
    BY <1>5
  <2> QED BY ONLY <2>3, <2>4, <2>5 DEF DoubleColons, Colons
<1>8. u # <<>>
  <2>1. Len(u) # 0
    BY ONLY <1>6
  <2> QED BY ONLY <2>1
<1>9. u \in HexText <=> s \in HexText
  <2>1. ASSUME s \in HexText PROVE u \in HexText
    <3>1. PICK D : D = HexSet \cup {":"}
      OBVIOUS
    <3>2. s \in Seq(D) /\ c \in D
      BY ONLY <1>2, <2>1, <3>1 DEF HexText
    <3>3. Append(s, c) \in Seq(D)
      BY ONLY <3>2
    <3> QED BY ONLY <1>3, <3>1, <3>3 DEF HexText
  <2>2. ASSUME u \in HexText PROVE s \in HexText
    <3>1. PICK D : D = HexSet \cup {":"}
      OBVIOUS
    <3>2. \A i \in 1..n + 1 : u[i] \in D
      BY ONLY <1>6, <2>2, <3>1, ElementIn DEF HexText
    <3>3. \A i \in 1..n : s[i] \in D
      <4>1. \A i \in 1..n : i \in 1..n + 1
        BY ONLY <1>6
      <4> QED BY ONLY <1>6, <3>2, <4>1
    <3>4. ToSet(s) \subseteq D
      <4>1. DOMAIN s = 1..n
        BY <1>5
      <4> QED BY ONLY <3>3, <4>1 DEF ToSet
    <3>5. s \in Seq(D)
      BY <3>4, ElementsOf
    <3> QED BY ONLY <3>1, <3>5 DEF HexText
  <2> QED BY ONLY <2>1, <2>2
<1> QED BY ONLY <1>1, <1>4, <1>6, <1>7, <1>8, <1>9 DEF DigitLonger

\* A good group is not empty.
LEMMA GoodNotEmpty ==
  ASSUME NEW g, GoodGroup(g)
  PROVE  g # <<>>
<1>1. PICK n : n = Len(g)
  OBVIOUS
<1>2. n \in 1..4
  BY <1>1 DEF GoodGroup
<1>3. n # 0
  BY ONLY <1>2
<1> QED BY ONLY <1>1, <1>3

\* A text with good sides passes the tests that come before its groups.
LEMMA AroundPasses ==
  ASSUME NEW s \in Seq(Char), NEW k, GoodAround(s, k),
         NEW l, l = Before(s, k), NEW r, r = After(s, k)
  PROVE  /\ s \in HexText /\ s # <<>> /\ NoTriple(s)
         /\ k \in DoubleColons(s)
         /\ GoodSegs(Side(l)) /\ GoodSegs(Side(r))
         /\ SoundSide(l) /\ SoundSide(r)
<1>1. k \in DoubleColons(s) /\ GoodHex(Side(l)) /\ GoodHex(Side(r))
  BY DEF GoodAround
<1>2. /\ l \in Seq(Char) /\ r \in Seq(Char)
      /\ k \in Nat /\ k > 0 /\ k + 1 <= Len(s) /\ Len(s) \in Nat
  BY <1>1, AroundDouble
<1>3. GoodSegs(Side(l)) /\ GoodSegs(Side(r))
  BY ONLY <1>1 DEF GoodHex, GoodSegs
<1>4. SoundSide(l) /\ SoundSide(r)
  BY ONLY <1>2, <1>3, SideFacts
<1>5. NoTriple(s)
  BY <1>1, <1>4, OnlyDouble DEF NoTriple
<1>6. s # <<>>
  <2>1. Len(s) # 0
    BY ONLY <1>2
  <2> QED BY ONLY <2>1
<1>7. PICK D : D = HexSet \cup {":"}
  OBVIOUS
<1>8. ASSUME NEW t \in Seq(Char), GoodHex(Side(t)) PROVE t \in Seq(D)
  <2>1. CASE t = <<>>
    BY ONLY <2>1
  <2>2. CASE t # <<>>
    <3>1. Side(t) = Split(t, ":")
      BY ONLY <2>2 DEF Side
    <3>2. Side(t) \in Seq(Seq(Char \ {":"}))
      BY ONLY <1>8, SideFacts
    <3>3. Split(t, ":") \in Seq(Seq(HexSet))
      BY ONLY <1>8, <3>1, <3>2, GoodHexIs
    <3>4. \A i \in 1..Len(Split(t, ":")) : Split(t, ":")[i] \in Seq(HexSet)
      BY ONLY <3>3, ElementIn
    <3>5. t \in Seq(HexSet \cup {":"})
      BY ONLY <1>8, <3>4, SplitHolds
    <3> QED BY ONLY <1>7, <3>5
  <2> QED BY ONLY <2>1, <2>2
<1>9. l \in Seq(D) /\ r \in Seq(D)
  BY ONLY <1>1, <1>2, <1>8
<1>10. s = Append(l, ":") \o (Append(<<>>, ":") \o r)
  BY <1>1, DoubleApart
<1>11. s \in Seq(D)
  <2>1. PICK x, y : x = Append(l, ":") /\ y = Append(<<>>, ":")
    OBVIOUS
  <2>2. x \in Seq(D) /\ y \in Seq(D)
    BY ONLY <1>7, <1>9, <2>1
  <2>3. y \o r \in Seq(D)
    BY ONLY <1>9, <2>2, ConcatProperties
  <2>4. PICK z : z = y \o r
    OBVIOUS
  <2>5. x \o z \in Seq(D)
    BY ONLY <2>2, <2>3, <2>4, ConcatProperties
  <2> QED BY ONLY <1>10, <2>1, <2>4, <2>5
<1> QED BY ONLY <1>1, <1>3, <1>4, <1>5, <1>6, <1>7, <1>11 DEF HexText

\* So does a text of good segments.
LEMMA FullPasses ==
  ASSUME NEW s \in Seq(Char), DoubleColons(s) = {}, NEW g, g = Split(s, ":"),
         Len(g) = Groups, GoodHex(g)
  PROVE  /\ s \in HexText /\ s # <<>> /\ NoTriple(s)
         /\ GoodSegs(g) /\ g[Len(g)] # <<>> /\ Len(g) \in DOMAIN g
<1>1. g \in Seq(Seq(Char \ {":"}))
  BY SplitTyped
<1>2. g \in Seq(Seq(HexSet)) /\ GoodSegs(g)
  BY ONLY <1>1, GoodHexIs, GoodHex(g)
<1>3. \A i \in 1..Len(Split(s, ":")) : Split(s, ":")[i] \in Seq(HexSet)
  BY ONLY <1>2, ElementIn, g = Split(s, ":")
<1>4. s \in HexText
  BY ONLY <1>3, SplitHolds, s \in Seq(Char) DEF HexText
<1>5. NoTriple(s)
  BY DEF NoTriple, DoubleColons
<1>6. Len(g) \in DOMAIN g
  <2>1. DOMAIN g = 1..Len(g)
    BY ONLY <1>2
  <2>2. Len(g) \in 1..Len(g)
    BY ONLY TextAssumption, Len(g) = Groups
  <2> QED BY ONLY <2>1, <2>2
<1>7. g[Len(g)] # <<>>
  <2>1. GoodGroup(g[Len(g)])
    BY ONLY <1>2, <1>6 DEF GoodSegs
  <2> QED BY ONLY <2>1, GoodNotEmpty
<1>8. s # <<>>
  <2>1. s = <<>> => g[Len(g)] = <<>>
    BY ONLY LastSegment, s \in Seq(Char), g = Split(s, ":")
  <2> QED BY ONLY <1>7, <2>1
<1> QED BY ONLY <1>2, <1>4, <1>5, <1>6, <1>7, <1>8

\* "::" and "[::]".
LEMMA AllZeroMeans ==
  ASSUME NEW t \in AllZero, NEW s, s = Unbracketed(t)
  PROVE  /\ s = <<":", ":">> /\ DoubleColons(s) # {}
         /\ str_to_ipv6_addr(t) = Ok(Zeros(Groups))
         /\ Meanings(s) = {Zeros(Groups)}
<1>0. Groups \in Nat /\ Groups > 1
  BY TextAssumption
<1>1. s = <<":", ":">>
  <2>1. CASE t = <<":", ":">>
    <3>1. Head(t) # "["
      BY ONLY <2>1
    <3> QED BY <2>1, <3>1 DEF Unbracketed
  <2>2. CASE t = <<"[", ":", ":", "]">>
    <3>1. Len(t) = 4 /\ Head(t) = "[" /\ Last(t) = "]"
      BY ONLY <2>2 DEF Last
    <3>2. s = SubSeq(t, 2, 3)
      BY <3>1 DEF Unbracketed
    <3>3. SubSeq(t, 2, 3) = <<":", ":">>
      <4>1. PICK x, d : x = SubSeq(t, 2, 3) /\ d = <<":", ":">>
        OBVIOUS
      <4>2. PICK W : W = {"[", ":", "]"}
        OBVIOUS
      <4>3. t \in Seq(W) /\ t[2] = ":" /\ t[3] = ":"
        BY ONLY <2>2, <4>2
      <4>4. x \in Seq(W) /\ Len(x) = 2 /\ x[1] = t[2] /\ x[2] = t[3]
        BY ONLY <3>1, <4>1, <4>3
      <4>5. d \in Seq(W) /\ Len(d) = 2 /\ d[1] = ":" /\ d[2] = ":"
        BY ONLY <4>1, <4>2
      <4>6. \A i \in 1..2 : i = 1 \/ i = 2
        OBVIOUS
      <4>7. x = d
        BY ONLY <4>3, <4>4, <4>5, <4>6, SeqEqual
      <4> QED BY ONLY <4>1, <4>7
    <3> QED BY ONLY <3>2, <3>3
  <2> QED BY <2>1, <2>2 DEF AllZero
<1>2. str_to_ipv6_addr(t) = Ok(Zeros(Groups))
  BY DEF str_to_ipv6_addr, AllZero
<1>3. PICK e, k : e = <<>> /\ k = Len(e) + 1
  OBVIOUS
<1>4. e \in HexText
  BY ONLY <1>3 DEF HexText
<1>5. s = Doubled(e, e)
  <2>1. PICK d : d = <<":", ":">>
    OBVIOUS
  <2>2. d \in Seq({":"})
    BY ONLY <2>1
  <2>3. <<>> \o d = d /\ d \o <<>> = d
    BY ONLY <2>2, ConcatEmptySeq
  <2> QED BY ONLY <1>1, <1>3, <2>1, <2>3 DEF Doubled
<1>6. /\ s \in HexText /\ k \in DoubleColons(s)
      /\ Before(s, k) = e /\ After(s, k) = e
  BY ONLY <1>3, <1>4, <1>5, SidesJoined
<1>7. Side(e) = <<>> /\ Len(Side(e)) = 0 /\ GoodHex(Side(e))
      /\ Value(Side(e)) = <<>>
  BY ONLY <1>3 DEF Side, GoodHex, Value
<1>8. GoodAround(s, k)
  <2>1. 0 + 0 < Groups
    BY ONLY <1>0
  <2> QED BY ONLY <1>6, <1>7, <2>1 DEF GoodAround
<1>9. s \in Seq(Char)
  <2>1. s # <<>>
    BY ONLY <1>1
  <2> QED BY ONLY <1>6, <2>1, PlainText
<1>10. PICK n : n = Len(Side(e)) + Len(Side(e))
  OBVIOUS
<1>11. Meanings(s) = {Filled(Value(Side(e)), n, Value(Side(e)))}
  BY ONLY <1>6, <1>8, <1>9, <1>10, MeaningSides
<1>12. Filled(<<>>, n, <<>>) = Zeros(Groups)
  <2>1. n = 0 /\ Groups - n = Groups
    BY ONLY <1>0, <1>7, <1>10
  <2>2. PICK z : z = Zeros(Groups)
    OBVIOUS
  <2>3. z \in Seq(GroupValues)
    BY ONLY <1>0, <2>2, ZerosTyped
  <2>4. <<>> \o z = z /\ z \o <<>> = z
    BY ONLY <2>3, ConcatEmptySeq
  <2> QED BY ONLY <2>1, <2>2, <2>4 DEF Filled
<1> QED BY ONLY <1>1, <1>2, <1>6, <1>7, <1>11, <1>12

\* The segments that are counted are those of the sides, and one more in an
\* address in brackets that ends in "::".
LEMMA CountedSegments ==
  ASSUME NEW t \in Seq(Char), NEW s, s = Unbracketed(t),
         NEW k \in DoubleColons(s),
         NEW l, l = Before(s, k), NEW r, r = After(s, k),
         GoodSegs(Side(l)), GoodSegs(Side(r)),
         NEW n, n = Len(Side(l)) + Len(Side(r))
  PROVE  /\ n \in Nat
         /\ s = t \/ r # <<>> => SegmentCount(t, s) = n
         /\ s # t /\ r = <<>> => SegmentCount(t, s) = n + 1
<1>1. s \in Seq(Char)
  BY UnbracketedTyped
<1>2. l \in Seq(Char) /\ r \in Seq(Char)
  BY <1>1, AroundDouble
<1>3. SoundSide(l) /\ SoundSide(r)
  BY <1>2, SideFacts
<1>4. /\ n \in Nat
      /\ SegmentCount(t, s) = n + (IF r = <<>> THEN 1 ELSE 0)
           - (IF Ends(t, <<":", ":">>) THEN 1 ELSE 0)
  BY <1>1, SidesParse
<1>5. Ends(s, <<":", ":">>) <=> r = <<>>
  BY <1>1, <1>3, EndsDouble
<1>6. s # t => ~Ends(t, <<":", ":">>)
  <2>1. s # t => Last(t) = "]"
    BY UnbracketedTyped
  <2> QED BY <2>1, BracketEnds
<1>7. PICK e, f : /\ e = IF r = <<>> THEN 1 ELSE 0
                  /\ f = IF Ends(t, <<":", ":">>) THEN 1 ELSE 0
  OBVIOUS
<1>8. SegmentCount(t, s) = n + e - f
  BY ONLY <1>4, <1>7
<1>9. CASE s = t
  <2>1. e = f /\ e \in {0, 1}
    BY ONLY <1>5, <1>7, <1>9
  <2>2. n + e - f = n
    BY ONLY <1>4, <2>1
  <2> QED BY ONLY <1>4, <1>8, <1>9, <2>2
<1>10. CASE s # t
  <2>1. f = 0
    BY ONLY <1>6, <1>7, <1>10
  <2>2. CASE r = <<>>
    <3>1. e = 1
      BY ONLY <1>7, <2>2
    <3>2. n + e - f = n + 1
      BY ONLY <1>4, <2>1, <3>1
    <3> QED BY ONLY <1>4, <1>8, <1>10, <2>2, <3>2
  <2>3. CASE r # <<>>
    <3>1. e = 0
      BY ONLY <1>7, <2>3
    <3>2. n + e - f = n
      BY ONLY <1>4, <2>1, <3>1
    <3> QED BY ONLY <1>4, <1>8, <2>3, <3>2
  <2> QED BY ONLY <2>2, <2>3
<1> QED BY ONLY <1>9, <1>10

\* What an address that is accepted means is its value.
LEMMA AcceptedMeans ==
  ASSUME NEW t \in Seq(Char), NEW s, s = Unbracketed(t),
         NEW p, p = str_to_ipv6_addr(t), p.st = "ok"
  PROVE  Meanings(s) = {p.val}
<1>0. Groups \in Nat /\ Groups > 1
  BY TextAssumption
<1>1. s \in Seq(Char)
  BY UnbracketedTyped
<1>2. CASE t \in AllZero
  <2>1. p = Ok(Zeros(Groups)) /\ Meanings(s) = {Zeros(Groups)}
    BY <1>2, AllZeroMeans
  <2>2. p.val = Zeros(Groups)
    BY <2>1 DEF Ok
  <2> QED BY ONLY <2>1, <2>2
<1>3. CASE t \notin AllZero
  <2>2. s \in HexText /\ p = Form(t, s)
    BY <1>3, ParseOnly
  <2>4. CASE DoubleColons(s) # {}
    <3>1. p = PopulateSides(t, s)
      BY <2>2, <2>4 DEF Form
    <3>2. PICK k \in DoubleColons(s) : /\ GoodSegs(Side(Before(s, k)))
                                       /\ GoodSegs(Side(After(s, k)))
                                       /\ ~TooManySegments(t, s)
      BY <1>1, <2>4, <3>1, SidesOk
    <3>3. PICK l, r, n : /\ l = Before(s, k) /\ r = After(s, k)
                         /\ n = Len(Side(l)) + Len(Side(r))
      OBVIOUS
    <3>4. GoodSegs(Side(l)) /\ GoodSegs(Side(r))
      BY ONLY <3>2, <3>3
    <3>5. p = Ok(Filled(Value(Side(l)), n, Value(Side(r))))
      BY <1>1, <3>1, <3>2, <3>3, <3>4, SidesParse
    <3>6. n < Groups
      <4>1. /\ n \in Nat
            /\ s = t \/ r # <<>> => SegmentCount(t, s) = n
            /\ s # t /\ r = <<>> => SegmentCount(t, s) = n + 1
        BY <3>2, <3>3, <3>4, CountedSegments
      <4>2. PICK c : c = SegmentCount(t, s)
        OBVIOUS
      <4>3. ~(c > Groups - 1)
        BY ONLY <3>2, <4>2 DEF TooManySegments
      <4>4. c = n \/ c = n + 1
        BY ONLY <4>1, <4>2
      <4> QED BY ONLY <1>0, <4>1, <4>3, <4>4
    <3>7. GoodHex(Side(l)) /\ GoodHex(Side(r))
      <4>1. Side(l) \in Seq(Seq(HexSet)) /\ Side(r) \in Seq(Seq(HexSet))
        BY ONLY <2>2, <3>2, <3>3, SidesTyped
      <4>2. GoodHex(Side(l))
        BY ONLY <3>4, <4>1, GoodHexIs
      <4>3. GoodHex(Side(r))
        BY ONLY <3>4, <4>1, GoodHexIs
      <4> QED BY ONLY <4>2, <4>3
    <3>8. GoodAround(s, k)
      BY ONLY <3>2, <3>3, <3>6, <3>7 DEF GoodAround
    <3>9. Meanings(s) = {Filled(Value(Side(l)), n, Value(Side(r)))}
      BY ONLY <1>1, <3>3, <3>8, MeaningSides
    <3>10. PICK v : v = Filled(Value(Side(l)), n, Value(Side(r)))
      OBVIOUS
    <3>11. p.val = v
      BY ONLY <3>5, <3>10 DEF Ok
    <3> QED BY ONLY <3>9, <3>10, <3>11
  <2>5. CASE DoubleColons(s) = {}
    <3>1. p = PopulateFull(s)
      BY <2>2, <2>5 DEF Form
    <3>2. PICK g : g = Split(s, ":")
      OBVIOUS
    <3>3. Len(g) = Groups /\ p = Populate(g)
      BY <3>1, <3>2 DEF PopulateFull, Error, Loops
    <3>4. GoodSegs(g) /\ p = Ok(Value(g))
      BY <3>3 DEF Populate, GoodSegs, Value, Error
    <3>5. GoodHex(g)
      <4>1. (HexSet \cup {":"}) \ {":"} = HexSet
        BY HexDigits
      <4>2. g \in Seq(Seq(HexSet))
        BY <2>2, <3>2, <4>1, SplitTyped DEF HexText
      <4> QED BY ONLY <3>4, <4>2, GoodHexIs
    <3>6. Meanings(s) = {Value(g)}
      BY <1>1, <2>5, <3>2, <3>3, <3>5, FullMeaning
    <3>7. p.val = Value(g)
      BY ONLY <3>4 DEF Ok
    <3> QED BY ONLY <3>6, <3>7
  <2> QED BY ONLY <2>4, <2>5
<1> QED BY ONLY <1>2, <1>3

\* A text with a meaning is accepted, or it is in brackets, ends in "::" and
\* has all other groups.
LEMMA MeaningAccepted ==
  ASSUME NEW t \in Seq(Char), NEW s, s = Unbracketed(t), Meanings(s) # {},
         NEW p, p = str_to_ipv6_addr(t)
  PROVE  \/ p.st = "ok"
         \/ /\ s # t /\ Ends(s, <<":", ":">>)
            /\ Len(Split(s, ":")) = Groups + 1
<1>0. Groups \in Nat /\ Groups > 1
  BY TextAssumption
<1>1. s \in Seq(Char)
  BY UnbracketedTyped
<1>2. CASE t \in AllZero
  <2>1. p = Ok(Zeros(Groups))
    BY <1>2, AllZeroMeans
  <2> QED BY <2>1 DEF Ok
<1>3. CASE t \notin AllZero /\ DoubleColons(s) # {}
  <2>1. PICK k : GoodAround(s, k)
    BY <1>1, <1>3, SidesMeaning
  <2>2. PICK l, r, n : /\ l = Before(s, k) /\ r = After(s, k)
                       /\ n = Len(Side(l)) + Len(Side(r))
    OBVIOUS
  <2>3. /\ s \in HexText /\ s # <<>> /\ NoTriple(s)
        /\ k \in DoubleColons(s)
        /\ GoodSegs(Side(l)) /\ GoodSegs(Side(r))
        /\ SoundSide(l) /\ SoundSide(r)
    BY ONLY <1>1, <2>1, <2>2, AroundPasses
  <2>4. p = PopulateSides(t, s)
    <3>1. p = Form(t, s)
      BY <1>3, <2>3, ParseOf
    <3> QED BY ONLY <1>3, <3>1 DEF Form
  <2>5. CASE ~TooManySegments(t, s)
    <3>1. PICK v : v = Filled(Value(Side(l)), n, Value(Side(r)))
      OBVIOUS
    <3>2. PopulateSides(t, s) = Ok(Filled(Value(Side(l)), n, Value(Side(r))))
      BY ONLY <1>1, <2>2, <2>3, <2>5, SidesParse
    <3> QED BY ONLY <2>4, <3>1, <3>2 DEF Ok
  <2>6. CASE TooManySegments(t, s)
    <3>1. /\ n \in Nat
          /\ s = t \/ r # <<>> => SegmentCount(t, s) = n
          /\ s # t /\ r = <<>> => SegmentCount(t, s) = n + 1
      BY <2>2, <2>3, CountedSegments
    <3>2. n < Groups
      BY ONLY <2>1, <2>2 DEF GoodAround
    <3>3. PICK c : c = SegmentCount(t, s)
      OBVIOUS
    <3>4. c > Groups - 1
      BY ONLY <2>6, <3>3 DEF TooManySegments
    <3>5. c # n
      BY ONLY <1>0, <3>1, <3>2, <3>4
    <3>6. s # t /\ r = <<>>
      BY ONLY <3>1, <3>3, <3>5
    <3>7. n + 1 = Groups
      <4>1. c = n + 1
        BY ONLY <3>1, <3>3, <3>6
      <4> QED BY ONLY <1>0, <3>1, <3>2, <3>4, <4>1
    <3>8. Ends(s, <<":", ":">>)
      BY ONLY <1>1, <2>2, <2>3, <3>6, EndsDouble
    <3>9. Len(Split(s, ":")) = Groups + 1
      <4>1. Len(Side(r)) = 0
        BY ONLY <3>6 DEF Side
      <4>2. /\ Len(Side(l)) \in Nat
            /\ Len(Split(s, ":")) = Len(Split(l, ":")) + 1 + Len(Split(r, ":"))
        BY ONLY <1>1, <2>2, <2>3, CountSides
      <4>3. Len(Side(l)) = Groups - 1
        BY ONLY <1>0, <2>2, <3>7, <4>1, <4>2
      <4>4. l # <<>>
        <5>1. l = <<>> => Len(Side(l)) = 0
          BY ONLY DEF Side
        <5> QED BY ONLY <1>0, <4>3, <5>1
      <4>5. Len(Split(l, ":")) = Groups - 1
        BY ONLY <4>3, <4>4 DEF Side
      <4>6. Len(Split(r, ":")) = 1
        <5>1. r \in Seq(Char)
          BY ONLY <3>6
        <5> QED BY ONLY <3>6, <5>1, LastSegment
      <4>7. PICK a, b, d : /\ a = Len(Split(l, ":")) /\ b = Len(Split(r, ":"))
                           /\ d = Len(Split(s, ":"))
        OBVIOUS
      <4>8. a = Groups - 1 /\ b = 1 /\ d = a + 1 + b
        BY ONLY <4>2, <4>5, <4>6, <4>7
      <4>9. d = Groups + 1
        BY ONLY <1>0, <4>8
      <4> QED BY ONLY <4>7, <4>9
    <3> QED BY ONLY <3>6, <3>8, <3>9
  <2> QED BY ONLY <2>5, <2>6
<1>4. CASE t \notin AllZero /\ DoubleColons(s) = {}
  <2>1. PICK g : g = Split(s, ":")
    OBVIOUS
  <2>2. Len(g) = Groups /\ GoodHex(g)
    BY <1>1, <1>4, <2>1, FullMeaning
  <2>3. /\ s \in HexText /\ s # <<>> /\ NoTriple(s)
        /\ GoodSegs(g) /\ g[Len(g)] # <<>>
    BY <1>1, <1>4, <2>1, <2>2, FullPasses
  <2>4. p = PopulateFull(s)
    <3>1. p = Form(t, s)
      BY <1>4, <2>3, ParseOf
    <3> QED BY ONLY <1>4, <3>1 DEF Form
  <2>5. p = Populate(g)
    BY ONLY <2>1, <2>2, <2>3, <2>4 DEF PopulateFull, Last
  <2>6. p = Ok(Value(g))
    BY ONLY <2>3, <2>5 DEF Populate, GoodSegs, Value
  <2> QED BY ONLY <2>6 DEF Ok
<1> QED BY ONLY <1>2, <1>3, <1>4

\* Of the text of an address that lacks only the digits of its last group,
\* and of that text with a digit more.
LEMMA AddDigit ==
  ASSUME NEW s \in Seq(Char), s # <<>>, DoubleColons(s) = {},
         NEW u, u = Append(s, Hex[1]), NEW g, g = Split(s, ":"),
         Len(g) = Groups, g[Len(g)] = <<>>
  PROVE  /\ u \in Seq(Char) /\ DoubleColons(u) = {}
         /\ Populate(Front(g)).st = "ok" /\ s \in HexText
              <=> Meanings(u) # {}
<1>0. Groups \in Nat /\ Groups > 1
  BY TextAssumption
<1>1. PICK q : q = Split(u, ":") /\ DigitLonger(s, u, g, q)
  BY ONLY OneMoreChar, s \in Seq(Char), u = Append(s, Hex[1]),
          g = Split(s, ":")
<1>2. /\ u \in Seq(Char) /\ Len(q) = Len(g)
      /\ q \in Seq(Seq(Char)) /\ g \in Seq(Seq(Char))
      /\ q[Len(g)] = Append(g[Len(g)], Hex[1])
      /\ \A i \in 1..Len(g) - 1 : q[i] = g[i]
      /\ DoubleColons(u) = {}
      /\ u \in HexText <=> s \in HexText
  BY ONLY <1>1, DoubleColons(s) = {} DEF DigitLonger
<1>3. Len(q) = Groups /\ q[Groups] = Append(<<>>, Hex[1])
  BY ONLY <1>2, Len(g) = Groups, g[Len(g)] = <<>>
<1>4. GoodGroup(q[Groups])
  <2>1. Append(<<>>, Hex[1]) = <<Hex[1]>>
    OBVIOUS
  <2>2. Len(Append(<<>>, Hex[1])) = 1
    BY ONLY <2>1
  <2> QED BY ONLY <1>3, <2>2 DEF GoodGroup
<1>5. PICK f : f = Front(g)
  OBVIOUS
<1>6. DOMAIN f = 1..Groups - 1 /\ \A i \in 1..Groups - 1 : f[i] = g[i]
  <2>1. f = SubSeq(g, 1, Groups - 1)
    BY ONLY <1>5, Len(g) = Groups DEF Front
  <2>2. PICK m : m = Groups - 1
    OBVIOUS
  <2>3. m \in 0..Len(g) /\ 1 \in 1..Len(g) + 1
    BY ONLY <1>0, <2>2, Len(g) = Groups
  <2>4. f = SubSeq(g, 1, m)
    BY ONLY <2>1, <2>2
  <2>5. DOMAIN f = 1..m /\ \A i \in 1..m : f[i] = g[i]
    BY ONLY <1>2, <2>3, <2>4, Len(g) = Groups
  <2> QED BY ONLY <2>2, <2>5
<1>7. \A i \in 1..Groups - 1 : q[i] = f[i]
  BY ONLY <1>2, <1>6, Len(g) = Groups
<1>8. GoodSegs(f) <=> GoodSegs(q)
  <2>1. DOMAIN q = 1..Groups
    BY ONLY <1>2, <1>3
  <2>2. 1..Groups - 1 \subseteq 1..Groups
    BY ONLY <1>0
  <2>3. \A i \in 1..Groups : i = Groups \/ i \in 1..Groups - 1
    BY ONLY <1>0
  <2>4. PICK m : m = 1..Groups - 1
    OBVIOUS
  <2>5. /\ DOMAIN f = m /\ m \subseteq 1..Groups
        /\ \A i \in m : q[i] = f[i]
        /\ \A i \in 1..Groups : i = Groups \/ i \in m
    BY ONLY <1>6, <1>7, <2>2, <2>3, <2>4
  <2> QED BY ONLY <1>4, <2>1, <2>5 DEF GoodSegs
<1>9. Populate(f).st = "ok" <=> GoodSegs(f)
  BY ONLY DEF Populate, GoodSegs, Ok, Error
<1>10. ASSUME GoodSegs(f), s \in HexText PROVE Meanings(u) # {}
  <2>1. u \in HexText
    BY ONLY <1>2, <1>10
  <2>2. (HexSet \cup {":"}) \ {":"} = HexSet
    BY HexDigits
  <2>3. q \in Seq(Seq(HexSet))
    BY ONLY <1>1, <2>1, <2>2, SplitTyped DEF HexText
  <2>4. GoodSegs(q)
    BY ONLY <1>8, <1>10
  <2>5. GoodHex(q)
    BY ONLY <2>3, <2>4, GoodHexIs
  <2>6. Meanings(u) = {Value(q)}
    BY ONLY <1>1, <1>2, <1>3, <2>5, FullMeaning, DoubleColons(s) = {}
  <2> QED BY ONLY <2>6
<1>11. ASSUME Meanings(u) # {} PROVE GoodSegs(f) /\ s \in HexText
  <2>1. GoodHex(q)
    BY ONLY <1>1, <1>2, <1>11, FullMeaning, DoubleColons(s) = {}
  <2>2. u \in HexText /\ GoodSegs(q)
    BY ONLY <1>1, <1>2, <1>3, <2>1, FullPasses, DoubleColons(s) = {}
  <2> QED BY ONLY <1>2, <1>8, <2>2
<1> QED BY ONLY <1>2, <1>5, <1>9, <1>10, <1>11, DoubleColons(s) = {}

\* The parser loops for a text that lacks only the digits of its last group,
\* and for no other.
LEMMA LoopsForColon ==
  ASSUME NEW t \in Seq(Char), NEW s, s = Unbracketed(t),
         NEW p, p = str_to_ipv6_addr(t)
  PROVE  p.st = "loops" <=> /\ Ends(s, <<":">>) /\ DoubleColons(s) = {}
                            /\ Meanings(Append(s, Hex[1])) # {}
<1>0. Groups \in Nat /\ Groups > 1
  BY TextAssumption
<1>1. s \in Seq(Char)
  BY UnbracketedTyped
<1>2. PICK g, u : g = Split(s, ":") /\ u = Append(s, Hex[1])
  OBVIOUS
<1>3. g[Len(g)] = <<>> <=> s = <<>> \/ s[Len(s)] = ":"
  BY ONLY <1>1, <1>2, LastSegment
<1>4. Ends(s, <<":">>) <=> s # <<>> /\ s[Len(s)] = ":"
  BY ONLY <1>1, EndsColon
<1>5. ASSUME p.st = "loops"
      PROVE  /\ Ends(s, <<":">>) /\ DoubleColons(s) = {}
             /\ Meanings(u) # {}
  <2>1. t \notin AllZero
    <3>1. t \in AllZero => p = Ok(Zeros(Groups))
      BY AllZeroMeans
    <3>2. PICK z : z = Zeros(Groups)
      OBVIOUS
    <3> QED BY ONLY <1>5, <3>1, <3>2 DEF Ok
  <2>2. s \in HexText /\ p = Form(t, s)
    BY <1>5, <2>1, ParseOnly
  <2>3. DoubleColons(s) = {}
    <3>1. PopulateSides(t, s).st # "loops"
      BY ONLY DEF PopulateSides, Error, Ok
    <3> QED BY ONLY <1>5, <2>2, <3>1 DEF Form
  <2>4. p = PopulateFull(s)
    BY ONLY <2>2, <2>3 DEF Form
  <2>5. Len(g) = Groups /\ Last(g) = <<>> /\ Populate(Front(g)).st = "ok"
    BY ONLY <1>2, <1>5, <2>4 DEF PopulateFull, Populate, Error, Ok
  <2>6. g[Len(g)] = <<>>
    BY ONLY <2>5 DEF Last
  <2>7. s # <<>>
    <3>1. s = <<>> => Len(g) = 1
      BY ONLY <1>1, <1>2, LastSegment
    <3> QED BY ONLY <1>0, <2>5, <3>1
  <2>8. Meanings(u) # {}
    BY ONLY <1>1, <1>2, <2>2, <2>3, <2>5, <2>6, <2>7, AddDigit
  <2> QED BY ONLY <1>3, <1>4, <2>3, <2>6, <2>7, <2>8
<1>6. ASSUME Ends(s, <<":">>), DoubleColons(s) = {}, Meanings(u) # {}
      PROVE  p.st = "loops"
  <2>1. s # <<>> /\ g[Len(g)] = <<>>
    BY ONLY <1>3, <1>4, <1>6
  <2>2. Len(g) = Groups
    <3>1. PICK q : q = Split(u, ":") /\ DigitLonger(s, u, g, q)
      BY ONLY <1>1, <1>2, OneMoreChar
    <3>2. u \in Seq(Char) /\ Len(q) = Len(g) /\ DoubleColons(u) = {}
      BY ONLY <1>6, <3>1 DEF DigitLonger
    <3>3. Len(q) = Groups
      BY ONLY <1>6, <3>1, <3>2, FullMeaning
    <3> QED BY ONLY <3>2, <3>3
  <2>3. Populate(Front(g)).st = "ok" /\ s \in HexText
    BY ONLY <1>1, <1>2, <1>6, <2>1, <2>2, AddDigit
  <2>4. t \notin AllZero
    BY <1>6, AllZeroMeans
  <2>5. NoTriple(s)
    BY ONLY <1>6 DEF NoTriple, DoubleColons
  <2>6. p = Form(t, s)
    BY <2>1, <2>3, <2>4, <2>5, ParseOf
  <2>7. p = PopulateFull(s)
    BY ONLY <1>6, <2>6 DEF Form
  <2>8. p = Loops
    BY ONLY <1>2, <2>1, <2>2, <2>3, <2>7 DEF PopulateFull, Last
  <2> QED BY ONLY <2>8 DEF Loops
<1> QED BY ONLY <1>2, <1>5, <1>6

\* The texts of TornInv are texts of characters.
LEMMA TextOfChars == TornInv => text \in Seq(Char)
BY DEF TornInv

\* str_to_ipv6_addr (http.cc:65-711) gives every text its meaning by the rules
\* for IPv6 addresses and refuses the rest, but for an address in brackets
\* that ends in "::" and has all other groups (line 157) and one that lacks
\* only the digits of its last group (line 542), whatever the number of groups
\* and the digits are.
THEOREM AddressMeaningHolds == Spec => []AddressMeaning
<1>1. Init => TornInv
  BY TornInit
<1>2. TornInv /\ [Next]_vars => TornInv'
  BY TornNext
<1>3. TornInv => AddressMeaning
  <2> SUFFICES ASSUME TornInv, NEW p, p = str_to_ipv6_addr(text),
                      NEW s, s = Unbracketed(text)
               PROVE  /\ p.st = "ok" => Meanings(s) = {p.val}
                      /\ Meanings(s) # {} =>
                           \/ p.st = "ok"
                           \/ /\ s # text /\ Ends(s, <<":", ":">>)
                              /\ Len(Split(s, ":")) = Groups + 1
                      /\ p.st = "loops" <=>
                           /\ Ends(s, <<":">>) /\ DoubleColons(s) = {}
                           /\ Meanings(Append(s, Hex[1])) # {}
    BY DEF AddressMeaning
  <2>1. text \in Seq(Char)
    BY TextOfChars
  <2>2. p.st = "ok" => Meanings(s) = {p.val}
    BY <2>1, AcceptedMeans
  <2>3. Meanings(s) # {} =>
          \/ p.st = "ok"
          \/ /\ s # text /\ Ends(s, <<":", ":">>)
             /\ Len(Split(s, ":")) = Groups + 1
    BY <2>1, MeaningAccepted
  <2>4. p.st = "loops" <=> /\ Ends(s, <<":">>) /\ DoubleColons(s) = {}
                           /\ Meanings(Append(s, Hex[1])) # {}
    BY <2>1, LoopsForColon
  <2> QED BY ONLY <2>2, <2>3, <2>4
<1> QED BY <1>1, <1>2, <1>3, PTL DEF Spec

\* An address that str_to_ipv6_addr or str_to_ipv4_addr accepts is printed so
\* that it reads back as the same address (http.cc:713-804 and 835-853), so
\* that no two clients share a name in the tables (main.cc:2037 and 2078).
THEOREM AddressReadsBackHolds == Spec => []AddressReadsBack
<1>1. Init => TornInv
  BY TornInit
<1>2. TornInv /\ [Next]_vars => TornInv'
  BY TornNext
<1>3. TornInv => AddressReadsBack
  <2> SUFFICES ASSUME TornInv PROVE AddressReadsBack
    OBVIOUS
  <2>1. text \in Seq(Char)
    BY TextOfChars
  <2>2. ASSUME NEW p, p = str_to_ipv6_addr(text), p.st = "ok"
        PROVE  str_to_ipv6_addr(ipv6_addr_to_str(p.val)) = p
    <3>1. p = Ok(p.val) /\ p.val \in Seq(GroupValues) /\ Len(p.val) = Groups
      BY ONLY <2>1, <2>2, Ipv6Value
    <3>2. str_to_ipv6_addr(ipv6_addr_to_str(p.val)) = Ok(p.val)
      BY ONLY <3>1, Ipv6ReadsBack
    <3> QED BY ONLY <3>1, <3>2
  <2>3. ASSUME NEW p, p = str_to_ipv4_addr(text), p.st = "ok"
        PROVE  str_to_ipv4_addr(ipv4_addr_to_str(p.val)) = p
    <3>1. p = Ok(p.val) /\ p.val \in Seq(Octets) /\ Len(p.val) = 4
      BY ONLY <2>1, <2>3, Ipv4Value
    <3>2. str_to_ipv4_addr(ipv4_addr_to_str(p.val)) = Ok(p.val)
      BY ONLY <3>1, Ipv4ReadsBack
    <3> QED BY ONLY <3>1, <3>2
  <2> QED BY <2>2, <2>3 DEF AddressReadsBack
<1> QED BY <1>1, <1>2, <1>3, PTL DEF Spec

=============================================================================
