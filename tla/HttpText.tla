------------------------------ MODULE HttpText ------------------------------
(***************************************************************************)
(* The texts that cxx_impl reads and writes (http.cc, with helpers.cc):    *)
(* addresses, the head of a request and the JSON of an answer.  A text is  *)
(* a sequence of characters; a request arrives a character at a time,      *)
(* because read() may stop anywhere and the handler parses what one read() *)
(* returned.                                                               *)
(*                                                                         *)
(* The code has 8 groups of 4 hexadecimal digits; the number of groups and *)
(* the digits are parameters.  An address has less than 256 characters:    *)
(* the digits of a group are counted in 8 bits.  The scope of an address   *)
(* ("%eth0") is resolved by the system and left out.                       *)
(***************************************************************************)
EXTENDS Integers, Sequences, FiniteSets, SequencesExt

CONSTANTS
  Groups,       \* groups of an IPv6 address
  Hex,          \* its digits, a sequence of characters
  Alphabet6,    \* characters of the addresses that are tried
  Alphabet4,
  MaxLen,       \* bound: characters of an address
  Keys, Values, \* names and values of query parameters and JSON members
  Urls, Heads, Bodies, Methods,   \* the parts of the requests
  MaxPairs      \* bound: parameters, members or headers of a request

CR == "\r"
LF == "\n"
SPACE == " "
QUOTE == "\""
SEMI == ";"
COMMA == ","
LBRACE == "{"
RBRACE == "}"
CRLF == <<CR, LF>>
Blank == {SPACE, "\t", CR, LF}
Dec == <<"0", "1", "2", "3", "4", "5", "6", "7", "8", "9">>

\* The words of a request or of an object are without the characters that end
\* them; a value may be empty.  A url begins with its only certain "/".
Words(S, ends) ==
  \A w \in S : w \in Seq(STRING) /\ ToSet(w) \cap ends = {}

ASSUME TextAssumption ==
  /\ Groups \in Nat /\ Groups > 1 /\ MaxLen \in 0..255 /\ MaxPairs \in Nat
  /\ Alphabet6 \subseteq STRING /\ Alphabet4 \subseteq STRING
ASSUME HexAssumption ==
  /\ Hex \in Seq(STRING) /\ Len(Hex) > 1
  /\ \A i, j \in DOMAIN Hex : Hex[i] = Hex[j] => i = j
  /\ ToSet(Hex) \cap {":", "[", "]"} = {}
ASSUME WordsAssumption ==
  /\ Words(Keys, {QUOTE, "=", SPACE, CR, LF}) /\ <<>> \notin Keys
  /\ Words(Values, {QUOTE, "&", SEMI, SPACE, CR, LF})
  /\ Words(Urls, {"?", SPACE, CR, LF})
  /\ \A u \in Urls : u # <<>> /\ u[1] = "/"
  /\ Words(Methods, Blank \cup {"/"}) /\ \A m \in Methods : Len(m) >= 3
  /\ \A h \in Heads : /\ h = <<h[1], h[2]>> /\ h[1] # <<>>
                      /\ Words({h[1]}, {":", SPACE, CR, LF})
                      /\ Words({h[2]}, {CR, LF})
  /\ Bodies \subseteq Seq(STRING)

VARIABLES
  kind,         \* which of the four texts
  msg,          \* the parts of the request or the members of the object
  text,         \* the characters that were read
  at            \* of a request or an object: the part that arrives, which one
                \* of its kind it is, and how many of its characters arrived

vars == <<kind, msg, text, at>>

Ok(v) == [st |-> "ok", val |-> v]
Error == [st |-> "error", val |-> <<>>]
Loops == [st |-> "loops", val |-> <<>>]

-----------------------------------------------------------------------------
(* The loops over the characters of a text: the state of each before the   *)
(* first character, and what a character does to it.                       *)

Digit(c, Chars) == (CHOOSE i \in DOMAIN Chars : Chars[i] = c) - 1

SplitChar(segs, c, sep) ==
  IF c = sep THEN Append(segs, <<>>)
  ELSE [segs EXCEPT ![Len(segs)] = Append(@, c)]

\* unordered_map::emplace: the first value of a key stays.
Emplace(map, key, val) ==
  [k \in DOMAIN map \cup {key} |-> IF k \in DOMAIN map THEN map[k] ELSE val]
NoPairs == [k \in {} |-> <<>>]

\* parse_simple_json.
JsonStart == [mode |-> "pre_key", key |-> <<>>, val |-> <<>>, map |-> NoPairs]

JsonChar(p, c) ==
  CASE p.mode = "error" -> p
    [] p.mode = "pre_key" ->
         IF c = QUOTE THEN [p EXCEPT !.mode = "key"] ELSE p
    [] p.mode = "key" ->
         IF c # QUOTE THEN [p EXCEPT !.key = Append(@, c)]
         ELSE [p EXCEPT !.mode = IF p.key = <<>> THEN "error" ELSE "middle"]
    [] p.mode = "middle" ->
         IF c = ":" THEN [p EXCEPT !.mode = "pre_value"] ELSE p
    [] p.mode = "pre_value" ->
         IF c = QUOTE THEN [p EXCEPT !.mode = "value"] ELSE p
    [] p.mode = "value" ->
         IF c # QUOTE THEN [p EXCEPT !.val = Append(@, c)]
         ELSE IF p.val = <<>> THEN [p EXCEPT !.mode = "error"]
         ELSE [JsonStart EXCEPT !.map = Emplace(p.map, p.key, p.val)]

\* handle_request_parse: the request line, from its fifth character.
LineStart == [mode |-> "start", loop |-> "runs", url |-> <<>>,
              key |-> <<>>, val |-> <<>>, map |-> NoPairs]
Leave(p) == [p EXCEPT !.loop = "left"]

\* An "&", ";" or " " ends a value unless key or value is empty.
HasPair(p) == p.key # <<>> /\ p.val # <<>>
TakePair(p, mode, loop) ==
  [mode |-> mode, loop |-> loop, url |-> p.url,
   key |-> <<>>, val |-> <<>>, map |-> Emplace(p.map, p.key, p.val)]

LineChar(p, c) ==
  CASE p.loop = "left" \/ (p.mode = "start" /\ c = SPACE) -> p
    [] p.loop = "runs" /\ c \in {CR, LF} -> Leave(p)
    [] p.loop = "runs" /\ p.mode = "start" /\ c = "/" ->
         [p EXCEPT !.mode = "url", !.url = <<"/">>]
    [] p.loop = "runs" /\ p.mode = "url" /\ c \notin {CR, LF} ->
         CASE c = "?" -> [p EXCEPT !.mode = "key"]
           [] c = SPACE -> Leave(p)
           [] OTHER -> [p EXCEPT !.url = Append(@, c)]
    [] p.loop = "runs" /\ p.mode = "key" /\ c \notin {CR, LF} ->
         CASE c = "=" -> [p EXCEPT !.mode = "value"]
           [] c = SPACE -> Leave(p)
           [] OTHER -> [p EXCEPT !.key = Append(@, c)]
    [] OTHER ->   \* a value, or the rest of a method of five letters or more
         CASE c \notin {"&", SEMI, SPACE} -> [p EXCEPT !.val = Append(@, c)]
           [] c = SPACE -> IF HasPair(p) THEN TakePair(p, p.mode, "left")
                           ELSE Leave(p)
           [] OTHER -> IF HasPair(p) THEN TakePair(p, "key", "runs") ELSE p

\* The same loop for full_url, which also gets what a method of five letters
\* or more has left at the beginning.
FullStart == [mode |-> "start", full |-> <<>>]
FullChar(p, c) ==
  CASE p.mode = "left" \/ (p.mode = "start" /\ c = SPACE) -> p
    [] p.mode # "left" /\ c \in {CR, LF} -> [p EXCEPT !.mode = "left"]
    [] p.mode = "url" /\ c = SPACE -> [p EXCEPT !.mode = "left"]
    [] OTHER -> [mode |-> IF c = "/" THEN "url" ELSE p.mode,
                 full |-> Append(p.full, c)]

\* handle_request_parse: the headers.
Upper == <<"A", "B", "C", "D", "E", "F", "G", "H", "I", "J", "K", "L", "M",
           "N", "O", "P", "Q", "R", "S", "T", "U", "V", "W", "X", "Y", "Z">>
Lower == <<"a", "b", "c", "d", "e", "f", "g", "h", "i", "j", "k", "l", "m",
           "n", "o", "p", "q", "r", "s", "t", "u", "v", "w", "x", "y", "z">>
LowerCase(s) ==
  [i \in DOMAIN s |-> IF s[i] \in ToSet(Upper)
                      THEN Lower[Digit(s[i], Upper) + 1] ELSE s[i]]

trim_whitespace(s) ==
  LET solid == {i \in DOMAIN s : s[i] \notin Blank}
  IN  IF solid = {} THEN <<>> ELSE SubSeq(s, Min(solid), Max(solid))

HeadStart == [mode |-> "key", key |-> <<>>, val |-> <<>>, map |-> {}]
TakeHeader(p) ==
  [HeadStart EXCEPT !.map = p.map \cup
     {<<LowerCase(p.key), trim_whitespace(p.val)>>}]

HeadChar(p, c) ==
  CASE p.mode = "error" -> p
    [] p.mode = "cr" /\ c = LF -> [p EXCEPT !.mode = "key"]
    [] p.mode = "key" \/ (p.mode = "cr" /\ c # LF) ->
         CASE c = ":" -> [p EXCEPT !.mode = "value"]
           [] c \in {CR, LF} -> [p EXCEPT !.mode = "error"]
           [] c = SPACE -> [p EXCEPT !.mode = "key"]
           [] OTHER -> [mode |-> "key", key |-> Append(p.key, c),
                        val |-> p.val, map |-> p.map]
    [] p.mode = "value" ->
         CASE c \notin {CR, LF} -> [p EXCEPT !.val = Append(@, c)]
           [] c \in {CR, LF} /\ p.val = <<>> -> [p EXCEPT !.mode = "error"]
           [] OTHER -> [TakeHeader(p) EXCEPT
                          !.mode = IF c = CR THEN "cr" ELSE "key"]

Start(loop) ==
  CASE loop[1] = "number" -> 0
    [] loop[1] = "split" -> <<(<<>>)>>
    [] loop[1] = "join" -> <<>>
    [] loop[1] = "json" -> JsonStart
    [] loop[1] = "line" -> LineStart
    [] loop[1] = "full" -> FullStart
    [] loop[1] = "head" -> HeadStart
Step(loop, p, c) ==
  CASE loop[1] = "number" -> p * Len(loop[2]) + Digit(c, loop[2])
    [] loop[1] = "split" -> SplitChar(p, c, loop[2])
    [] loop[1] = "join" -> IF p = <<>> THEN c ELSE p \o <<loop[2]>> \o c
    [] loop[1] = "json" -> JsonChar(p, c)
    [] loop[1] = "line" -> LineChar(p, c)
    [] loop[1] = "full" -> FullChar(p, c)
    [] loop[1] = "head" -> HeadChar(p, c)

\* The state of a loop after the whole text.
Scan(loop, s) ==
  LET after[n \in 0..Len(s)] ==
        IF n = 0 THEN Start(loop) ELSE Step(loop, after[n - 1], s[n])
  IN  after[Len(s)]

Number(s, Chars) == Scan(<<"number", Chars>>, s)
Split(s, sep) == Scan(<<"split", sep>>, s)
\* The segments are not empty.
JoinSeqs(segs, sep) == Scan(<<"join", sep>>, segs)

\* The shortest numeral of a v below b^3.
Numeral(v, Chars) ==
  LET b == Len(Chars)
      d(n) == Chars[(n % b) + 1]
  IN  IF v < b THEN <<d(v)>>
      ELSE IF v < b * b THEN <<d(v \div b), d(v)>>
      ELSE <<d(v \div (b * b)), d(v \div b), d(v)>>

Ends(s, t) ==
  Len(t) <= Len(s) /\ SubSeq(s, Len(s) - Len(t) + 1, Len(s)) = t

-----------------------------------------------------------------------------
(* str_to_ipv6_addr.  The address is the sequence of its groups.           *)

Colons(s) == {i \in DOMAIN s : s[i] = ":"}
DoubleColons(s) == {i \in Colons(s) : i + 1 \in Colons(s)}
Zeros(n) == [i \in 1..n |-> 0]

\* A group has one to four digits.
GoodGroup(g) == Len(g) \in 1..4
Populate(segs) ==
  IF \A i \in DOMAIN segs : GoodGroup(segs[i])
  THEN Ok([i \in DOMAIN segs |-> Number(segs[i], Hex)])
  ELSE Error

\* segment_count of an address with "::": addr is the whole text, s what is
\* between its brackets, and the test for a "::" at the end looks at addr.
SegmentCount(addr, s) ==
  1 + Cardinality({i \in Colons(s) : i > 1 /\ s[i - 1] # ":"})
    - (IF Ends(addr, <<":", ":">>) THEN 1 ELSE 0)

TooManySegmentsOneMore(addr, s) == SegmentCount(addr, s) > Groups
TooManySegments(addr, s) == SegmentCount(addr, s) > Groups - 1

\* The groups before the last "::" from the front, those after it from the
\* back; what is between stays zero.
PopulateSides(addr, s) ==
  LET dc == CHOOSE i \in DoubleColons(s) : \A j \in DoubleColons(s) : j <= i
      side(t) == IF t = <<>> THEN Ok(<<>>) ELSE Populate(Split(t, ":"))
      left == side(SubSeq(s, 1, dc - 1))
      right == side(SubSeq(s, dc + 2, Len(s)))
  IN  IF \/ TooManySegments(addr, s)
         \/ left.st # "ok" \/ right.st # "ok"
      THEN Error
      ELSE Ok(left.val \o Zeros(Groups - Len(left.val) - Len(right.val))
                       \o right.val)

\* Without "::" the loop only leaves after a group: it never ends when what
\* follows the last colon is empty.
PopulateFull(s) ==
  LET segs == Split(s, ":")
  IN  IF Len(segs) # Groups THEN Error
      ELSE IF Last(segs) = <<>> /\ Populate(Front(segs)).st = "ok" THEN Loops
      ELSE Populate(segs)

str_to_ipv6_addr(addr) ==
  LET open == addr # <<>> /\ Head(addr) = "["
      shut == addr # <<>> /\ Last(addr) = "]"
      s == IF open THEN SubSeq(addr, 2, Len(addr) - 1) ELSE addr
  IN  IF addr \in {<<":", ":">>, <<"[", ":", ":", "]">>} THEN Ok(Zeros(Groups))
      ELSE IF \/ addr = <<>> \/ open # shut
              \/ ~ToSet(s) \subseteq ToSet(Hex) \cup {":"}
              \/ \E i \in Colons(s) : {i + 1, i + 2} \subseteq Colons(s)
           THEN Error
      ELSE IF DoubleColons(s) # {} THEN PopulateSides(addr, s)
      ELSE PopulateFull(s)

(* ipv6_addr_to_str.  Of the two bytes of a group the high one is left out *)
(* if it is zero; the first run of zero groups becomes "::".               *)

PrintGroupNoPad(g) ==
  LET byte == Len(Hex) * Len(Hex)
      low == Numeral(g % byte, Hex)
  IN  IF g \div byte = 0 THEN low
      ELSE Numeral(g \div byte, Hex) \o low
PrintGroup(g) ==
  LET byte == Len(Hex) * Len(Hex)
      low == Numeral(g % byte, Hex)
  IN  IF g \div byte = 0 THEN low
      ELSE Numeral(g \div byte, Hex)
           \o (IF Len(low) = 1 THEN <<Hex[1]>> ELSE <<>>) \o low

ipv6_addr_to_str(ipv6) ==
  LET zero == {i \in DOMAIN ipv6 : ipv6[i] = 0}
      z0 == CHOOSE i \in zero : \A j \in zero : i <= j
      z1 == CHOOSE j \in zero : z0..j \subseteq zero /\ j + 1 \notin zero
                                /\ z0 <= j
      print(m, n) ==
        JoinSeqs([i \in 1..n - m + 1 |-> PrintGroup(ipv6[m + i - 1])], ":")
  IN  IF zero = {} THEN print(1, Groups)
      ELSE print(1, z0 - 1) \o <<":", ":">> \o print(z1 + 1, Groups)

(* str_to_ipv4_addr and ipv4_addr_to_str: segments that are missing or     *)
(* empty are zero.                                                         *)

str_to_ipv4_addr(addr) ==
  LET segs == Split(addr, ".")
  IN  IF \/ ~ToSet(addr) \subseteq ToSet(Dec) \cup {"."}
         \/ Len(segs) > 4
         \/ \E i \in DOMAIN segs : Number(segs[i], Dec) > 255
      THEN Error
      ELSE Ok([i \in 1..Len(segs) |-> Number(segs[i], Dec)]
              \o Zeros(4 - Len(segs)))

ipv4_addr_to_str(ipv4) ==
  JoinSeqs([i \in 1..4 |-> Numeral(ipv4[i], Dec)], ".")

-----------------------------------------------------------------------------
(* parse_simple_json.                                                      *)

JsonResult(p) == IF p.mode = "error" THEN Error ELSE Ok(p.map)

parse_simple_json(json) == JsonResult(Scan(<<"json">>, json))

-----------------------------------------------------------------------------
(* handle_request_parse: the request line from its fifth character, the    *)
(* headers, the body.                                                      *)

LineQuery(p) ==
  CASE p.mode = "value" /\ HasPair(p) -> Emplace(p.map, p.key, p.val)
    [] p.mode = "key" -> Emplace(p.map, p.key, <<>>)
    [] OTHER -> p.map

\* A url whose last part has no "." is given a "/" at its end.
CheckUrl(url) ==
  LET last == Last(Split(url, "/"))
  IN  IF last = <<>> \/ "." \in ToSet(last) THEN url ELSE Append(url, "/")

\* find: where t begins in s, 0 for npos.
Find(s, t) ==
  LET found == {i \in 1..Len(s) - Len(t) + 1 :
                  SubSeq(s, i, i + Len(t) - 1) = t}
  IN  IF found = {} THEN 0 ELSE Min(found)

\* Where the headers begin.  The test that follows the search for the blank
\* line looks at this place again, so a head without one is accepted.
HeaderPlaceAny(req) == Find(req, CRLF) + 2
HeaderPlace(req) == IF Find(req, CRLF) = 0 THEN 0 ELSE Find(req, CRLF) + 2

\* The characters before the first blank.
Method(req) ==
  SubSeq(req, 1, Min({i \in DOMAIN req : req[i] \in Blank}
                       \cup {Len(req) + 1}) - 1)

handle_request_parse(req) ==
  LET line == Scan(<<"line">>, SubSeq(req, 5, Len(req)))
      from == HeaderPlace(req)
      blank == Find(req, CRLF \o CRLF)
      to == IF blank = 0 THEN Len(req) ELSE blank - 1
      head == Scan(<<"head">>, SubSeq(req, from, to))
      \* npos + 4 is 3, the fourth character
      body == SubSeq(req, IF blank = 0 THEN 4 ELSE blank + 4, Len(req))
  IN  IF line.mode = "start" \/ from = 0 \/ head.mode = "error" THEN Error
      ELSE Ok([method |-> Method(req),
               queries |-> LineQuery(line), url |-> CheckUrl(line.url),
               full_url |-> Scan(<<"full">>, SubSeq(req, 5, Len(req))).full,
               headers |-> IF head.mode = "value" /\ HasPair(head)
                           THEN TakeHeader(head).map ELSE head.map,
               body |-> body])

-----------------------------------------------------------------------------
(* What arrives: any address; a request or an object, part by part and a   *)
(* character at a time.                                                    *)

Pairs == BoundedSeq(Keys \X Values, MaxPairs)
Requests == [method : Methods, url : Urls, pairs : Pairs,
             heads : BoundedSeq(Heads, MaxPairs), body : Bodies]

To(part, i) == [part |-> part, i |-> i, j |-> 0]

\* The characters of a part, and the part that follows it.
Piece(m, a) ==
  CASE a.part = "brace" -> <<LBRACE>>
    [] a.part \in {"open", "shut"} -> <<QUOTE>>
    [] a.part = "member" -> m[a.i][1]
    [] a.part = "is" -> <<QUOTE, ":", QUOTE>>
    [] a.part = "string" -> m[a.i][2]
    [] a.part = "comma" -> <<COMMA>>
    [] a.part = "end" -> <<RBRACE>>
    [] a.part = "method" -> Append(m.method, SPACE)
    [] a.part = "url" -> m.url
    [] a.part = "mark" -> IF a.i = 1 THEN <<"?">> ELSE <<"&">>
    [] a.part = "key" -> m.pairs[a.i][1]
    [] a.part = "equals" -> <<"=">>
    [] a.part = "value" -> m.pairs[a.i][2]
    [] a.part = "version" -> <<SPACE, "H", CR, LF>>
    [] a.part = "name" -> m.heads[a.i][1]
    [] a.part = "colon" -> <<":">>
    [] a.part = "field" -> m.heads[a.i][2]
    [] a.part \in {"crlf", "blank"} -> CRLF
    [] a.part = "body" -> m.body
    [] a.part = "done" -> <<>>

Following(m, a) ==
  CASE a.part = "brace" -> IF m = <<>> THEN To("end", 0) ELSE To("open", 1)
    [] a.part = "open" -> To("member", a.i)
    [] a.part = "member" -> To("is", a.i)
    [] a.part = "is" -> To("string", a.i)
    [] a.part = "string" -> To("shut", a.i)
    [] a.part = "shut" -> To(IF a.i < Len(m) THEN "comma" ELSE "end", a.i)
    [] a.part = "comma" -> To("open", a.i + 1)
    [] a.part = "method" -> To("url", 0)
    [] a.part = "url" ->
         IF m.pairs = <<>> THEN To("version", 0) ELSE To("mark", 1)
    [] a.part = "mark" -> To("key", a.i)
    [] a.part = "key" -> To("equals", a.i)
    [] a.part = "equals" -> To("value", a.i)
    [] a.part = "value" ->
         IF a.i < Len(m.pairs) THEN To("mark", a.i + 1)
         ELSE To("version", a.i)
    [] a.part = "version" ->
         IF m.heads = <<>> THEN To("blank", 0) ELSE To("name", 1)
    [] a.part = "name" -> To("colon", a.i)
    [] a.part = "colon" -> To("field", a.i)
    [] a.part = "field" -> To("crlf", a.i)
    [] a.part = "crlf" ->
         IF a.i < Len(m.heads) THEN To("name", a.i + 1) ELSE To("blank", a.i)
    [] a.part = "blank" -> To("body", 0)
    [] a.part \in {"end", "body"} -> To("done", 0)

Init ==
  /\ text = <<>>
  /\ \/ kind \in {"ipv6", "ipv4"} /\ msg = <<>> /\ at = To("done", 0)
     \/ kind = "json" /\ msg \in Pairs /\ at = To("brace", 0)
     \/ kind = "request" /\ msg \in Requests /\ at = To("method", 0)

Address(k, chars) ==
  /\ kind = k /\ Len(text) < MaxLen
  /\ \E c \in chars : text' = Append(text, c)
  /\ UNCHANGED at

Arrives ==
  /\ at.j < Len(Piece(msg, at))
  /\ text' = Append(text, Piece(msg, at)[at.j + 1])
  /\ at' = [at EXCEPT !.j = @ + 1]

Turn ==
  /\ at.j = Len(Piece(msg, at)) /\ at.part # "done"
  /\ at' = Following(msg, at)
  /\ UNCHANGED text

Next ==
  /\ \/ Address("ipv6", Alphabet6)
     \/ Address("ipv4", Alphabet4)
     \/ Arrives
     \/ Turn
  /\ UNCHANGED <<kind, msg>>

Spec == Init /\ [][Next]_vars

-----------------------------------------------------------------------------
(* The addresses a text means by the rules for IPv6 addresses: "::" stands *)
(* for one or more zero groups and occurs at most once.                    *)

Unbracketed(s) ==
  IF Len(s) > 1 /\ Head(s) = "[" /\ Last(s) = "]"
  THEN SubSeq(s, 2, Len(s) - 1) ELSE s

Side(t) == IF t = <<>> THEN <<>> ELSE Split(t, ":")
Expand(s, i, n) ==
  Side(SubSeq(s, 1, i - 1)) \o [j \in 1..n |-> <<Hex[1]>>]
    \o Side(SubSeq(s, i + 2, Len(s)))
Expansions(s) ==
  IF DoubleColons(s) = {} THEN {Split(s, ":")}
  ELSE {Expand(s, i, n) : i \in DoubleColons(s), n \in 1..Groups}

Meanings(s) ==
  {[i \in DOMAIN e |-> Number(e[i], Hex)] :
     e \in {f \in Expansions(s) :
             /\ Len(f) = Groups
             /\ \A i \in DOMAIN f : GoodGroup(f[i])
                                    /\ ToSet(f[i]) \subseteq ToSet(Hex)}}

\* str_to_ipv6_addr gives every text its meaning and refuses the rest
\* (http.cc:65-711), with two exceptions: an address in brackets that ends in
\* "::" and has all other groups is refused, because the correction of
\* segment_count looks at the end of the whole text (line 157); and for an
\* address that lacks only the digits of its last group the loop of the full
\* form never ends (line 542).
AddressMeaning ==
  kind = "ipv6" =>
    LET p == str_to_ipv6_addr(text)
        s == Unbracketed(text)
    IN  /\ p.st = "ok" => Meanings(s) = {p.val}
        /\ Meanings(s) # {} =>
             \/ p.st = "ok"
             \/ /\ s # text /\ Ends(s, <<":", ":">>)
                /\ Len(Split(s, ":")) = Groups + 1
        /\ p.st = "loops" <=> /\ Ends(s, <<":">>)
                              /\ DoubleColons(s) = {}
                              /\ Meanings(Append(s, Hex[1])) # {}

\* An address is printed so that it reads back as the same address: clients
\* with different addresses have different names in the tables and in the
\* cache (main.cc:2037 and 2078; http.cc:713-804 and 835-853).
AddressReadsBack ==
  /\ kind = "ipv6" =>
       LET p == str_to_ipv6_addr(text)
       IN  p.st = "ok" => str_to_ipv6_addr(ipv6_addr_to_str(p.val)) = p
  /\ kind = "ipv4" =>
       LET p == str_to_ipv4_addr(text)
       IN  p.st = "ok" => str_to_ipv4_addr(ipv4_addr_to_str(p.val)) = p

\* Of several values the first is the one that counts.
FirstWins(pairs) ==
  [k \in {pairs[i][1] : i \in DOMAIN pairs} |->
     pairs[Min({i \in DOMAIN pairs : pairs[i][1] = k})][2]]

\* The request line is read as it was written, parameters included.  Else the
\* parameters are wrong: one with an empty value gets the next one for a value
\* ("?a=&b=c" is read as a = "b=c", http.cc:1201-1206) or is left out, and the
\* first one gets the rest of a method of five letters or more (1151, 1192).
PlainLine(m) ==
  Len(m.method) <= 4 /\ \A i \in DOMAIN m.pairs : m.pairs[i][2] # <<>>

\* What has been read of the value of a header, and the headers of which
\* something of the value has been read, as they are kept.
ReadOf(i) ==
  IF at.part = "field" /\ at.i = i THEN SubSeq(msg.heads[i][2], 1, at.j)
  ELSE msg.heads[i][2]
HeadersRead ==
  LET n == CASE at.part \in {"name", "colon"} -> at.i - 1
             [] at.part \in {"field", "crlf"} -> at.i
             [] at.part = "version" -> 0
             [] OTHER -> Len(msg.heads)
  IN  {<<LowerCase(msg.heads[i][1]), trim_whitespace(ReadOf(i))>> :
         i \in {j \in 1..n : ReadOf(j) # <<>>}}

\* What is parsed from the beginning of a request or of an answer.
\* The members of an object that were read are members of the object, with
\* their whole values (parse_simple_json accepts a text that just ends); an
\* object is only refused for an empty value.
\* A request may be accepted once its first line was read (http.cc:1251 tests
\* the wrong variable).  It has its own method and url; its full_url is what
\* stands between method and version, behind what a method has beyond four
\* letters; its parameters are its own if the line is plain.  Its headers are
\* those of which something was read: before the blank line the value of the
\* last may be cut short, whatever it says (x-real-ip names the client,
\* main.cc:1384), and the body is the text itself from its fourth character.
\* Once the blank line was read, the body is the beginning of its own, and a
\* request is refused only for an empty value of a header that is not the last.
TornTextIsOwn ==
  /\ kind = "json" =>
       LET p == parse_simple_json(text)
           whole == FirstWins(msg)
       IN  /\ p.st = "ok" => /\ DOMAIN p.val \subseteq DOMAIN whole
                             /\ \A k \in DOMAIN p.val : p.val[k] = whole[k]
                             /\ at.part = "done" => p.val = whole
           /\ p.st # "ok" => \E i \in DOMAIN msg : msg[i][2] = <<>>
  /\ kind = "request" =>
       LET p == handle_request_parse(text)
           m == msg.method
           lineEnd == Find(text, CRLF)
           blank == Find(text, CRLF \o CRLF)
       IN  /\ p.st = "ok" =>
                /\ p.val.method = m /\ p.val.url = CheckUrl(msg.url)
                /\ p.val.full_url = SubSeq(m, 5, Len(m))
                     \o SubSeq(text, Len(m) + 2, lineEnd - 3)
                /\ PlainLine(msg) => p.val.queries = FirstWins(msg.pairs)
                /\ p.val.headers = HeadersRead
                /\ blank = 0 => p.val.body = SubSeq(text, 4, Len(text))
                /\ blank # 0 => IsPrefix(p.val.body, msg.body)
                /\ at.part = "done" => p.val.body = msg.body
           /\ blank # 0 =>
                (p.st = "ok" <=> \A i \in 1..Len(msg.heads) - 1 :
                                   msg.heads[i][2] # <<>>)

=============================================================================
