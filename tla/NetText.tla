------------------------------ MODULE NetText ------------------------------
(***************************************************************************)
(* The conversions of text that libuv writes itself: src/idna.c (the UTF-8 *)
(* and WTF-8 decoders, UTF-16 to WTF-8 and back, host names to Punycode)   *)
(* and src/inet.c (IPv4 and IPv6 addresses from and to text).              *)
(*                                                                         *)
(* A behaviour builds one input, unit by unit, over the alphabet of its    *)
(* kind; the properties compare what the code computes for it with a       *)
(* reference.  Bytes, characters and code units are numbers; -1 is the     *)
(* error a decoder returns.  The buffer of a result is a sequence with a   *)
(* bound, so that writing past it shows.                                   *)
(***************************************************************************)
EXTENDS Integers, SequencesExt

CONSTANTS
  Alphabet,   \* the units of each kind of input, a function of the kinds
  MaxLen,     \* bound: the length of an input, by kind
  Groups      \* the 16-bit groups of an IPv6 address (8)

VARIABLES
  kind,   \* "bytes", "label", "host", "utf16", "inet4", "inet6" or "address"
  s       \* the input so far

vars == <<kind, s>>

MinOf(S) == CHOOSE x \in S : \A y \in S : x <= y
Bit2(x) == (x \div 64) % 4     \* the two top bits of a byte
Xor(a, b) == ((a + b) % 2) + 2 * (((a \div 2) + (b \div 2)) % 2)
Continues(b) == Bit2(b) = 2

-----------------------------------------------------------------------------
(* Reference: the bytes of a code point.                                   *)

Utf8(c) ==
  LET tail(d) == 128 + ((c \div d) % 64)
  IN IF c < 128 THEN <<c>>
     ELSE IF c < 2048 THEN <<192 + c \div 64, tail(1)>>
     ELSE IF c < 65536 THEN <<224 + c \div 4096, tail(64), tail(1)>>
     ELSE <<240 + c \div 262144, tail(4096), tail(64), tail(1)>>

-----------------------------------------------------------------------------
(* uv__utf8_decode1 and its slow path: the character at the start of p and *)
(* the bytes that were read.  The three bytes b, c and d are checked       *)
(* together, by the exclusive or of their top bits.                        *)

Bad(n) == [c |-> -1, n |-> n]

SlowCheckNoMin(a, b, c, d, min, n) ==
  IF Xor(Bit2(b), Xor(Bit2(c), Bit2(d))) # 2 THEN Bad(n)
  ELSE LET v == a * 262144 + (b % 64) * 4096 + (c % 64) * 64 + (d % 64)
       IN IF v > 1114111 \/ v \in 55296..57343 THEN Bad(n) ELSE [c |-> v, n |-> n]
SlowCheck(a, b, c, d, min, n) ==
  IF Xor(Bit2(b), Xor(Bit2(c), Bit2(d))) # 2 THEN Bad(n)
  ELSE LET v == a * 262144 + (b % 64) * 4096 + (c % 64) * 64 + (d % 64)
       IN IF v < min \/ v > 1114111 \/ v \in 55296..57343
            THEN Bad(n) ELSE [c |-> v, n |-> n]

uv__utf8_decode1_slow(p, a) ==
  LET left == Len(p) - 1
  IN IF a > 247 THEN Bad(1)
     ELSE IF left >= 3 /\ a > 239
       THEN SlowCheck(a % 8, p[2], p[3], p[4], 65536, 4)
     ELSE IF left >= 2 /\ a > 223
       THEN SlowCheck(0, 128 + (a % 16), p[2], p[3], 2048, 3)
     ELSE IF left >= 1 /\ a > 191
       THEN SlowCheck(0, 128, 128 + (a % 32), p[2], 128, 2)
     ELSE Bad(1)

uv__utf8_decode1(p) ==
  IF p[1] < 128 THEN [c |-> p[1], n |-> 1] ELSE uv__utf8_decode1_slow(p, p[1])

\* uv__wtf8_decode1, which stops at the first byte that does not continue.
\* A byte past the end is the NUL that ends the string.
At(p, i) == IF i <= Len(p) THEN p[i] ELSE 0
uv__wtf8_decode1(p) ==
  LET b1 == p[1]
      cp2 == (b1 % 32) * 64 + (At(p, 2) % 64)
      cp3 == (b1 % 16) * 4096 + (At(p, 2) % 64) * 64 + (At(p, 3) % 64)
      cp4 == (b1 % 8) * 262144 + (At(p, 2) % 64) * 4096 + (At(p, 3) % 64) * 64 + (At(p, 4) % 64)
  IN CASE b1 <= 127 -> [c |-> b1, n |-> 1]
       [] b1 \in 128..193 -> Bad(1)
       [] b1 > 193 /\ ~Continues(At(p, 2)) -> Bad(2)
       [] b1 \in 194..223 /\ Continues(At(p, 2)) -> [c |-> cp2, n |-> 2]
       [] b1 > 223 /\ Continues(At(p, 2)) /\ ~Continues(At(p, 3)) -> Bad(3)
       [] b1 \in 224..239 /\ Continues(At(p, 2)) /\ Continues(At(p, 3)) ->
            [c |-> cp3, n |-> 3]
       [] OTHER ->
            IF Continues(At(p, 4)) /\ b1 <= 244 /\ cp4 <= 1114111
              THEN [c |-> cp4, n |-> 4] ELSE Bad(4)

-----------------------------------------------------------------------------
(* uv__idna_toascii_label.  A label is its code points; d is the output,   *)
(* which holds de characters.  (Its delta has 32 bits: it overflows, which *)
(* is UV_E2BIG, in labels of some thousand characters only, and that error *)
(* is left out.)                                                           *)

PutAlways(d, c, de) == Append(d, c)
Put(d, c, de) == IF Len(d) < de THEN Append(d, c) ELSE d

PutAll(d, cs, de) == FoldLeft(LAMBDA x, c : Put(x, c, de), d, cs)

Letter(t) == IF t < 26 THEN 97 + t ELSE 22 + t     \* alphabet[t]
Hyphen == 45
Dot == 46

\* The digits of delta, least significant first, with the thresholds of bias.
Limit(k, bias) == IF k <= bias THEN 1 ELSE IF k - bias > 26 THEN 26 ELSE k - bias
RECURSIVE Digits(_, _, _)
Digits(q, k, bias) ==
  LET t == Limit(k, bias)
  IN IF q < t THEN <<Letter(q)>>
     ELSE <<Letter(t + ((q - t) % (36 - t)))>>
          \o Digits((q - t) \div (36 - t), k + 36, bias)

\* The bias after a character; h characters have been written.
RECURSIVE Shrink(_, _)
Shrink(delta, bias) ==
  IF delta > 455 THEN Shrink(delta \div 35, bias + 36)
  ELSE bias + (36 * delta) \div (delta + 38)

AdaptFirst(delta, h, first) ==
  LET half == delta \div 2 IN Shrink(half + half \div h, 0)
Adapt(delta, h, first) ==
  LET half == IF first THEN (delta \div 2) \div 350 ELSE delta \div 2
  IN Shrink(half + half \div h, 0)

\* One pass over the label, for the characters that are equal to n.
RECURSIVE Pass(_, _, _, _)
Pass(cs, n, e, de) ==
  IF cs = <<>> THEN e
  ELSE LET c == Head(cs)
           more == IF c < n THEN [e EXCEPT !.delta = @ + 1] ELSE e
       IN Pass(Tail(cs), n,
               IF c # n THEN more
               ELSE [d |-> PutAll(e.d, Digits(e.delta, 36, e.bias), de),
                     h |-> e.h + 1, delta |-> 0, first |-> FALSE, todo |-> e.todo - 1,
                     bias |-> Adapt(e.delta, e.h + 1, e.first)],
               de)

RECURSIVE EncodeRounds(_, _, _, _)
EncodeRounds(cs, n, e, de) ==
  IF e.todo = 0 THEN e.d
  ELSE LET m == MinOf({c \in ToSet(cs) : c >= n})
           after == Pass(cs, m, [e EXCEPT !.delta = @ + (m - n) * (e.h + 1)], de)
       IN EncodeRounds(cs, m + 1, [after EXCEPT !.delta = @ + 1], de)

uv__idna_toascii_label(cs, d, de) ==
  LET ascii == SelectSeq(cs, LAMBDA c : c < 128)
      todo == Len(cs) - Len(ascii)
      plain == PutAll(IF todo > 0 THEN PutAll(d, <<120, 110, Hyphen, Hyphen>>, de) ELSE d,
                      ascii, de)
      sep == IF ascii # <<>> THEN Put(plain, Hyphen, de) ELSE plain
  IN IF todo = 0 THEN plain
     ELSE EncodeRounds(cs, 128, [d |-> sep, h |-> Len(ascii), delta |-> 0, first |-> TRUE,
                           todo |-> todo, bias |-> 72], de)

\* uv__idna_toascii: labels end at four kinds of dots.  The name is the
\* characters that the decoder finds, Undecodable where it finds none.
Undecodable == -1
Dots == {Dot, 12290, 65294, 65377}
RECURSIVE Labels(_, _, _, _)
Labels(cs, label, d, de) ==
  IF cs = <<>> THEN (IF label = <<>> THEN d ELSE uv__idna_toascii_label(label, d, de))
  ELSE IF Head(cs) \in Dots
    THEN Labels(Tail(cs), <<>>, Put(uv__idna_toascii_label(label, d, de), Dot, de), de)
    ELSE Labels(Tail(cs), Append(label, Head(cs)), d, de)

Failed == <<-1>>
uv__idna_toascii(cs, de) ==
  LET d == Labels(cs, <<>>, <<>>, de)
  IN IF cs = <<>> \/ Undecodable \in ToSet(cs) \/ Len(d) >= de THEN Failed
     ELSE Append(d, 0)

-----------------------------------------------------------------------------
(* Reference: the Punycode decoder of RFC 3492.                            *)

Digit(c) == IF c >= 97 THEN c - 97 ELSE c - 22
RECURSIVE Number(_, _, _, _)
\* The number at the start of cs and what follows it.
Number(cs, k, bias, w) ==
  LET v == Digit(Head(cs))
      t == Limit(k, bias)
  IN IF v < t THEN [v |-> v * w, rest |-> Tail(cs)]
     ELSE LET r == Number(Tail(cs), k + 36, bias, w * (36 - t))
          IN [r EXCEPT !.v = @ + v * w]

RefAdapt(delta, len, first) ==
  LET d0 == IF first THEN delta \div 700 ELSE delta \div 2
  IN Shrink(d0 + d0 \div len, 0)

RECURSIVE Decode(_, _, _, _, _)
Decode(cs, out, n, i, bias) ==
  IF cs = <<>> THEN out
  ELSE LET r == Number(cs, 36, bias, 1)
           len == Len(out) + 1
           at == i + r.v
           c == n + at \div len
       IN Decode(r.rest, InsertAt(out, (at % len) + 1, c), c, (at % len) + 1,
                 RefAdapt(r.v, len, n = 128 /\ i = 0 /\ \A k \in DOMAIN out : out[k] < 128))

\* The label that a string stands for.
Unpuny(d) ==
  IF Len(d) < 4 \/ SubSeq(d, 1, 4) # <<120, 110, Hyphen, Hyphen>> THEN d
  ELSE LET body == SubSeq(d, 5, Len(d))
           cuts == {i \in DOMAIN body : body[i] = Hyphen}
           cut == IF cuts = {} THEN 0 ELSE CHOOSE i \in cuts : \A j \in cuts : j <= i
       IN Decode(SubSeq(body, cut + 1, Len(body)), SubSeq(body, 1, cut - 1), 128, 0, 72)

-----------------------------------------------------------------------------
(* UTF-16 and WTF-8.                                                       *)

High(u) == u \in 55296..56319
Low(u) == u \in 56320..57343

uv__get_surrogate_value(u) ==
  IF High(u[1]) /\ Len(u) # 1 /\ Low(At(u, 2))
    THEN [c |-> 65536 + (u[1] - 55296) * 1024 + u[2] - 56320, n |-> 2]
    ELSE [c |-> u[1], n |-> 1]

RECURSIVE uv_utf16_length_as_wtf8(_)
uv_utf16_length_as_wtf8(u) ==
  IF u = <<>> THEN 0
  ELSE LET v == uv__get_surrogate_value(u)
           size == IF v.c < 128 THEN 1 ELSE IF v.c < 2048 THEN 2 ELSE IF v.c < 65536 THEN 3 ELSE 4
       IN size + uv_utf16_length_as_wtf8(SubSeq(u, v.n + 1, Len(u)))

\* The loop of uv_utf16_to_wtf8: out is what was written, len is target_len.
RECURSIVE Fill(_, _, _, _)
Fill(u, out, len, room) ==
  IF Len(out) = room \/ u = <<>> THEN [out |-> out, u |-> u, len |-> len]
  ELSE LET v == uv__get_surrogate_value(u)
           bytes == Utf8(v.c)
           fits == room - Len(out)
       IN IF Len(bytes) > fits
            THEN [out |-> out \o SubSeq(bytes, 1, fits), u |-> u, len |-> len]
            ELSE Fill(SubSeq(u, v.n + 1, Len(u)), out \o bytes, Len(out \o bytes), room)

\* With a buffer of room bytes; ok is FALSE for UV_ENOBUFS.
RestForgotten(r) == r.len
Rest(r) == r.len + uv_utf16_length_as_wtf8(r.u)
uv_utf16_to_wtf8(u, room) ==
  LET r == Fill(u, <<>>, room, room)
  IN [ok |-> r.u = <<>>, out |-> r.out,
      len |-> IF r.u = <<>> THEN Len(r.out) ELSE Rest(r)]

\* uv_wtf8_length_as_utf16 and uv_wtf8_to_utf16: they differ for U+10000.  The
\* unit of the NUL that ends the string, which both count, is left out.
RECURSIVE uv_wtf8_length_as_utf16(_)
uv_wtf8_length_as_utf16(p) ==
  IF p = <<>> THEN 0
  ELSE LET v == uv__wtf8_decode1(p)
           rest == uv_wtf8_length_as_utf16(SubSeq(p, v.n + 1, Len(p)))
       IN IF v.c < 0 \/ rest < 0 THEN -1 ELSE (IF v.c > 65535 THEN 2 ELSE 1) + rest

PairUnshifted(c) == <<55296 + c \div 1024, 56320 + (c % 1024)>>
Pair(c) == <<55296 + (c - 65536) \div 1024, 56320 + ((c - 65536) % 1024)>>
RECURSIVE uv_wtf8_to_utf16(_)
uv_wtf8_to_utf16(p) ==
  IF p = <<>> THEN <<>>
  ELSE LET v == uv__wtf8_decode1(p)
       IN (IF v.c > 65536 THEN Pair(v.c) ELSE <<v.c % 65536>>)
          \o uv_wtf8_to_utf16(SubSeq(p, v.n + 1, Len(p)))

-----------------------------------------------------------------------------
(* inet.c.  Characters of addresses: digits 0..15, Colon and Point.        *)

Colon == 16
Point == 17
NoAddress == <<-1>>

\* inet_pton4, one character at a time: tmp holds the octets.
Pton4Start == [tmp |-> <<0>>, saw |-> FALSE, octets |-> 0, ok |-> TRUE]
Pton4StepZeros(r, ch) ==
  IF ~r.ok THEN r
  ELSE IF ch < 10
    THEN LET last == r.tmp[Len(r.tmp)]
             nw == last * 10 + ch
             n == IF r.saw THEN r.octets ELSE r.octets + 1
         IN IF nw > 255 \/ n > 4 THEN [r EXCEPT !.ok = FALSE]
            ELSE [r EXCEPT !.tmp[Len(r.tmp)] = nw, !.saw = TRUE, !.octets = n]
  ELSE IF ch = Point /\ r.saw /\ r.octets < 4
    THEN [r EXCEPT !.tmp = Append(@, 0), !.saw = FALSE]
  ELSE [r EXCEPT !.ok = FALSE]
Pton4Step(r, ch) ==
  IF ~r.ok THEN r
  ELSE IF ch < 10
    THEN LET last == r.tmp[Len(r.tmp)]
             nw == last * 10 + ch
             n == IF r.saw THEN r.octets ELSE r.octets + 1
         IN IF (r.saw /\ last = 0) \/ nw > 255 \/ n > 4 THEN [r EXCEPT !.ok = FALSE]
            ELSE [r EXCEPT !.tmp[Len(r.tmp)] = nw, !.saw = TRUE, !.octets = n]
  ELSE IF ch = Point /\ r.saw /\ r.octets < 4
    THEN [r EXCEPT !.tmp = Append(@, 0), !.saw = FALSE]
  ELSE [r EXCEPT !.ok = FALSE]

RECURSIVE Pton4Loop(_, _)
Pton4Loop(text, r) ==
  IF text = <<>> THEN r ELSE Pton4Loop(Tail(text), Pton4Step(r, Head(text)))

inet_pton4(text) ==
  LET r == Pton4Loop(text, Pton4Start)
  IN IF ~r.ok \/ r.octets < 4 THEN NoAddress
     ELSE r.tmp

\* inet_pton6: tmp is the bytes so far, colonp how many of them came before ::.
RECURSIVE Pton6Loop(_, _)
Pton6Loop(text, r) ==
  IF text = <<>> THEN r
  ELSE
    LET ch == Head(text)
        rest == Tail(text)
        pair == <<(r.val \div 256) % 256, r.val % 256>>
        bad == [r EXCEPT !.ok = FALSE]
    IN IF ch < 16
         THEN IF r.seen = 4 THEN bad
              ELSE Pton6Loop(rest, [r EXCEPT !.val = @ * 16 + ch, !.seen = @ + 1])
       ELSE IF ch = Colon
         THEN IF r.seen = 0
                THEN IF r.colonp # -1 THEN bad
                     ELSE Pton6Loop(rest, [r EXCEPT !.colonp = Len(r.tmp), !.curtok = rest])
              ELSE IF rest = <<>> \/ Len(r.tmp) + 2 > 2 * Groups THEN bad
              ELSE Pton6Loop(rest, [r EXCEPT !.tmp = @ \o pair, !.seen = 0, !.val = 0,
                                             !.curtok = rest])
       ELSE LET v4 == inet_pton4(r.curtok)
            IN IF Len(r.tmp) + 4 <= 2 * Groups /\ v4 # NoAddress
                 THEN [r EXCEPT !.tmp = @ \o v4, !.seen = 0]
                 ELSE bad

\* What follows :: is moved to the end.
Shifted(r, tmp) ==
  LET n == Len(tmp) - r.colonp
  IN SubSeq(tmp, 1, r.colonp)
     \o [i \in 1..(2 * Groups - Len(tmp)) |-> 0]
     \o SubSeq(tmp, r.colonp + 1, r.colonp + n)

FullMayHaveColons(tmp) == FALSE
Full(tmp) == Len(tmp) = 2 * Groups

inet_pton6(text) ==
  IF text # <<>> /\ text[1] = Colon /\ At(text, 2) # Colon THEN NoAddress
  ELSE
    LET start == IF text # <<>> /\ text[1] = Colon THEN Tail(text) ELSE text
        r == Pton6Loop(start, [tmp |-> <<>>, colonp |-> -1, seen |-> 0, val |-> 0,
                               curtok |-> start, ok |-> TRUE])
        tmp == IF r.seen > 0 THEN r.tmp \o <<(r.val \div 256) % 256, r.val % 256>> ELSE r.tmp
    IN IF ~r.ok \/ Len(tmp) > 2 * Groups THEN NoAddress
       ELSE IF r.colonp # -1
         THEN IF Full(tmp) THEN NoAddress ELSE Shifted(r, tmp)
       ELSE IF Len(tmp) = 2 * Groups THEN tmp ELSE NoAddress

\* inet_ntop4 and "%x".
Decimal(n) ==
  IF n < 10 THEN <<n>>
  ELSE IF n < 100 THEN <<n \div 10, n % 10>> ELSE <<n \div 100, (n \div 10) % 10, n % 10>>
Hex(w) ==
  IF w < 16 THEN <<w>>
  ELSE IF w < 256 THEN <<w \div 16, w % 16>>
  ELSE IF w < 4096 THEN <<w \div 256, (w \div 16) % 16, w % 16>>
  ELSE <<w \div 4096, (w \div 256) % 16, (w \div 16) % 16, w % 16>>

inet_ntop4(a) ==
  Decimal(a[1]) \o <<Point>> \o Decimal(a[2]) \o <<Point>> \o Decimal(a[3])
    \o <<Point>> \o Decimal(a[4])

\* The first of the longest runs of zero groups, if it has two at least.
Runs(w) == {<<b, n>> \in (1..Groups) \X (2..Groups) :
              b + n - 1 <= Groups /\ \A i \in b..(b + n - 1) : w[i] = 0}
\* Zero groups from the first to the last, whatever is between them.
BestAny(w) ==
  IF Runs(w) = {} THEN <<Groups + 2, 0>>
  ELSE LET z == {i \in 1..Groups : w[i] = 0}
           lo == MinOf(z)
       IN <<lo, Groups + 1 - lo>>
Best(w) ==
  IF Runs(w) = {} THEN <<Groups + 2, 0>>
  ELSE CHOOSE r \in Runs(w) : \A q \in Runs(w) : r[2] > q[2] \/ (r[2] = q[2] /\ r[1] <= q[1])

\* The address ends in IPv4 form: ::a.b.c.d or ::ffff:a.b.c.d.
Mapped(w, best) ==
  best[1] = 1 /\ (best[2] = Groups - 2 \/ (best[2] = Groups - 3 /\ w[Groups - 2] = 65535))

RECURSIVE Ntop6From(_, _, _)
Ntop6From(w, best, i) ==
  LET inside == i >= best[1] /\ i < best[1] + best[2]
      colon == IF i # 1 THEN <<Colon>> ELSE <<>>
  IN IF i > Groups THEN <<>>
     ELSE IF inside
       THEN (IF i = best[1] THEN <<Colon>> ELSE <<>>) \o Ntop6From(w, best, i + 1)
     ELSE IF i = Groups - 1 /\ Mapped(w, best)
       THEN colon \o inet_ntop4(<<w[i] \div 256, w[i] % 256, w[i + 1] \div 256, w[i + 1] % 256>>)
     ELSE colon \o Hex(w[i]) \o Ntop6From(w, best, i + 1)

inet_ntop6(w) ==
  LET best == Best(w)
      text == Ntop6From(w, best, 1)
  IN IF best[1] + best[2] = Groups + 1 THEN Append(text, Colon) ELSE text

-----------------------------------------------------------------------------
Init ==
  /\ kind \in DOMAIN Alphabet
  /\ s = <<>>

Extend ==
  /\ Len(s) < MaxLen[kind]
  /\ \E c \in Alphabet[kind] : s' = Append(s, c)
  /\ UNCHANGED kind

Next == Extend

Spec == Init /\ [][Next]_vars

-----------------------------------------------------------------------------
(* Properties.                                                             *)

\* Bytes that the exclusive or lets through although they do not continue.
Slips(n) == \E i \in 2..n : ~Continues(s[i])
\* The end of the input cuts a character off: it is read as a shorter one.
CutOff(n) == n = Len(s) /\ n < (IF s[1] > 239 THEN 4 ELSE IF s[1] > 223 THEN 3 ELSE 0)

(***************************************************************************)
(* uv__utf8_decode1 accepts only the shortest form of a character that is  *)
(* no surrogate, and every such form (the joint check of three following   *)
(* bytes lets some wrong combinations through, and a character that the    *)
(* end of the input cuts off is read as a shorter one); it never reads     *)
(* past the end.                                                           *)
(***************************************************************************)
Utf8IsStrict ==
  kind = "bytes" /\ s # <<>> =>
    LET r == uv__utf8_decode1(s)
    IN /\ r.n <= Len(s)
       /\ r.c # -1 => Slips(r.n) \/ CutOff(r.n) \/ Utf8(r.c) = SubSeq(s, 1, r.n)
       /\ \A n \in 1..Len(s) : \A c \in {65, 128, 191, 255, 2047, 2048, 4095, 53247, 57344,
                                          65535, 65536, 262143, 262144, 1114111} :
            SubSeq(s, 1, n) = Utf8(c) => r.c = c

(***************************************************************************)
(* uv__idna_toascii: a decoder of RFC 3492 gets every label back.          *)
(***************************************************************************)
PunycodeReadsBack ==
  kind = "label" /\ s # <<>> => Unpuny(uv__idna_toascii_label(s, <<>>, 100)) = s

(***************************************************************************)
(* uv__idna_toascii: whatever the size of the buffer, nothing is written   *)
(* past its end, and a name that does not fit with its NUL is refused, not *)
(* cut off.                                                                *)
(***************************************************************************)
HostNameFits ==
  kind = "host" =>
    LET whole == uv__idna_toascii(s, 100)
    IN \A de \in 0..30 :
         LET d == uv__idna_toascii(s, de)
         IN /\ Len(Labels(s, <<>>, <<>>, de)) <= de
            /\ d = IF whole # Failed /\ Len(whole) <= de THEN whole ELSE Failed

(***************************************************************************)
(* uv_utf16_to_wtf8, uv_wtf8_to_utf16: any sequence of UTF-16 units, with  *)
(* surrogates that have no partner too, comes back, and the two length     *)
(* functions say what is written.  Of bytes that it does not refuse,       *)
(* uv_wtf8_length_as_utf16 never tells less than is written for them.      *)
(* (The code treats U+10000 as one unit and its assertions exclude         *)
(* U+10FFFF.)                                                              *)
(***************************************************************************)
Unpaired == \A i \in 1..(Len(s) - 1) : <<s[i], s[i + 1]>> # <<55296, 56320>>
Utf16ReadsBack ==
  /\ kind = "utf16" /\ Unpaired =>
       LET p == uv_utf16_to_wtf8(s, 100).out
       IN /\ uv_wtf8_to_utf16(p) = s
          /\ uv_wtf8_length_as_utf16(p) = Len(s)
          /\ uv_utf16_length_as_wtf8(s) = Len(p)
  /\ kind = "bytes" =>
       LET told == uv_wtf8_length_as_utf16(s)
       IN told # -1 => Len(uv_wtf8_to_utf16(s)) <= told

(***************************************************************************)
(* uv_utf16_to_wtf8 into a buffer of the caller: the buffer is not         *)
(* overrun, the call succeeds exactly when everything fits, and the length *)
(* it tells is the one that is needed (too long a one when not even the    *)
(* first character fits).                                                  *)
(***************************************************************************)
NeededLengthIsTold ==
  kind = "utf16" =>
    LET full == uv_utf16_to_wtf8(s, 100).out
    IN \A room \in 0..8 :
         LET r == uv_utf16_to_wtf8(s, room)
         IN /\ Len(r.out) <= room /\ IsPrefix(r.out, full)
            /\ r.ok <=> Len(full) <= room
            /\ r.len = Len(full)
               \/ (room > 0 /\ Len(Utf8(uv__get_surrogate_value(s).c)) > room /\ r.len > Len(full))

(***************************************************************************)
(* uv_inet_pton(AF_INET): what it accepts are four numbers up to 255       *)
(* without leading zeros, and it prints back as it was.                    *)
(***************************************************************************)
Inet4IsExact ==
  kind = "inet4" =>
    LET a == inet_pton4(s)
    IN /\ a # NoAddress => inet_ntop4(a) = s
       /\ a = NoAddress =>
            \/ Len(SelectSeq(s, LAMBDA c : c = Point)) # 3
            \/ ~\E i, j, k \in DOMAIN s :
                 /\ i < j /\ j < k /\ {s[i], s[j], s[k]} = {Point}
                 /\ \A part \in {SubSeq(s, 1, i - 1), SubSeq(s, i + 1, j - 1),
                                 SubSeq(s, j + 1, k - 1), SubSeq(s, k + 1, Len(s))} :
                      /\ part # <<>>
                      /\ \E n \in 0..255 : Decimal(n) = part

(***************************************************************************)
(* uv_inet_pton(AF_INET6): a text without dots is accepted exactly when it *)
(* has all its groups of one to four digits, or fewer and one "::".        *)
(***************************************************************************)
\* Sequences of digit groups with single colons between them.
IsGroups(t, n) ==
  /\ n = 0 => t = <<>>
  /\ n > 0 =>
       /\ t # <<>> /\ t[1] # Colon /\ t[Len(t)] # Colon
       /\ Len(SelectSeq(t, LAMBDA c : c = Colon)) = n - 1
       /\ \A i \in 1..(Len(t) - 1) : ~(t[i] = Colon /\ t[i + 1] = Colon)
       /\ \A i \in 1..(Len(t) - 4) : \E j \in i..(i + 4) : t[j] = Colon

Inet6IsExact ==
  kind = "inet6" /\ (\A i \in DOMAIN s : s[i] # Point) =>
    ((inet_pton6(s) # NoAddress) <=>
       \/ IsGroups(s, Groups)
       \/ \E i \in 1..(Len(s) - 1) :
            /\ s[i] = Colon /\ s[i + 1] = Colon
            /\ \E m, n \in 0..(Groups - 1) :
                 /\ m + n < Groups
                 /\ IsGroups(SubSeq(s, 1, i - 1), m)
                 /\ IsGroups(SubSeq(s, i + 2, Len(s)), n))

(***************************************************************************)
(* uv_inet_ntop, uv_inet_pton: every IPv6 address reads back from the text *)
(* that was printed, also with "::" and with an IPv4 tail.                 *)
(***************************************************************************)
AddressReadsBack ==
  kind = "address" /\ Len(s) = Groups =>
    inet_pton6(inet_ntop6(s)) =
      [i \in 1..(2 * Groups) |-> IF i % 2 = 1 THEN s[(i + 1) \div 2] \div 256
                                 ELSE s[i \div 2] % 256]
=============================================================================
