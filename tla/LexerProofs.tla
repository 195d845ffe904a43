---------------------------- MODULE LexerProofs ----------------------------
(***************************************************************************)
(* Theorems about the lexer (module Lexer): what it leaves of a text.      *)
(***************************************************************************)
EXTENDS Lexer, SequenceTheorems, WellFoundedInduction, TLAPS

(* A set of numbers has a least one.                                       *)
LEMMA LeastNatural ==
    ASSUME NEW T, T \subseteq Nat, T # {}
    PROVE  \E x \in T : \A y \in T : x <= y
<1> DEFINE R == OpToRel(<, Nat)
<1>1. IsWellFoundedOn(R, Nat)
  BY NatLessThanWellFounded
<1>2. \A x, y \in Nat : y < x => <<y, x>> \in R
  BY DEF OpToRel
<1> HIDE DEF R
<1>3. PICK x \in T : \A y \in T : ~ (<<y, x>> \in R)
  BY <1>1, WFMin
<1>4. ASSUME NEW y \in T PROVE ~ (y < x)
  BY <1>2, <1>3, ZenonT(30)
<1> QED BY <1>4

Texts == Seq(STRING)

(* A token starts somewhere in the text, or there is none.                 *)
LEMMA TokenStarts ==
    ASSUME NEW s \in Texts
    PROVE  /\ TokenStart(s) \in 1 .. Len(s) + 1
           /\ TokenStart(s) <= Len(s) => s[TokenStart(s)] \in Starters
<1> DEFINE commented(i) == \E j \in 1 .. i : s[j] = ";" /\ \A k \in j .. i : s[k] # "\n"
           starts(i) == i > Len(s) \/ (s[i] \in Starters /\ ~ commented(i))
           T == {i \in 1 .. Len(s) + 1 : starts(i)}
<1> HIDE DEF commented
<1>0. Len(s) \in Nat
  BY LenProperties DEF Texts
<1>1. T \subseteq Nat /\ Len(s) + 1 \in T
  BY <1>0
<1>2. PICK x \in T : \A y \in T : x <= y
  BY <1>1, LeastNatural
<1>3. \A j \in 1 .. x - 1 : ~ starts(j)
  <2> SUFFICES ASSUME NEW j \in 1 .. x - 1, starts(j) PROVE FALSE
    OBVIOUS
  <2>1. x \in 1 .. Len(s) + 1
    OBVIOUS
  <2>2. j \in T /\ j < x
    BY <1>0, <2>1
  <2> HIDE DEF T
  <2> QED BY <1>0, <1>2, <2>1, <2>2
<1> DEFINE first == CHOOSE i \in 1 .. Len(s) + 1 : starts(i) /\ \A j \in 1 .. i - 1 : ~ starts(j)
<1>4. first \in 1 .. Len(s) + 1 /\ starts(first)
  BY <1>2, <1>3
<1>5. TokenStart(s) = first
  BY DEF TokenStart, commented
<1> HIDE DEF first
<1> QED BY <1>0, <1>4, <1>5

(* Span counts characters that are there.                                  *)
LEMMA SpanBound ==
    ASSUME NEW s \in Texts, NEW set, NEW max \in Nat
    PROVE  Span(s, set, max) \in 0 .. Len(s) /\ Span(s, set, max) <= max
<1> DEFINE fits(k) == k <= max /\ \A i \in 1 .. k : s[i] \in set
           ends(k) == k < Len(s) => ~ fits(k + 1)
           T == {k \in 0 .. Len(s) : ends(k)}
<1>0. Len(s) \in Nat
  BY LenProperties DEF Texts
<1> HIDE DEF fits
<1>1. T \subseteq Nat /\ Len(s) \in T
  BY <1>0
<1>2. PICK x \in T : \A y \in T : x <= y
  BY <1>1, LeastNatural
<1>3. x \in 0 .. Len(s) /\ ends(x)
  BY <1>2
<1>4. fits(x)
  <2>1. CASE x = 0
    BY <2>1 DEF fits
  <2>2. CASE x # 0
    <3>1. x - 1 \in 0 .. Len(s) /\ x - 1 < Len(s) /\ (x - 1) + 1 = x
      BY <1>0, <1>3, <2>2
    <3>2. x - 1 \notin T
      <4> HIDE DEF T
      <4> QED BY <1>0, <1>2, <1>3, <3>1
    <3>3. fits((x - 1) + 1)
      BY <3>1, <3>2
    <3> QED BY <3>1, <3>3
  <2> QED BY <2>1, <2>2
<1> DEFINE n == CHOOSE k \in 0 .. Len(s) : fits(k) /\ (k < Len(s) => ~ fits(k + 1))
<1>5. n \in 0 .. Len(s) /\ fits(n)
  BY <1>3, <1>4
<1>6. Span(s, set, max) = n
  BY DEF Span, fits
<1> HIDE DEF n
<1> QED BY <1>5, <1>6 DEF fits

-----------------------------------------------------------------------------
(* Ends(r, s): r is what s ends with.                                      *)
Ends(r, s) ==
    /\ r \in Texts /\ s \in Texts /\ Len(r) <= Len(s)
    /\ \A i \in 1 .. Len(r) : r[i] = s[(Len(s) - Len(r)) + i]

(* Ends is IsSuffix of the library, with the place where the suffix        *)
(* starts.                                                                 *)
LEMMA EndsIsSuffix == ASSUME NEW r, NEW s, Ends(r, s) PROVE IsSuffix(r, s)
<1>1. Len(r) \in Nat /\ Len(s) \in Nat /\ Len(r) <= Len(s)
  BY LenProperties DEF Ends, Texts
<1> DEFINE rr == Reverse(r)
           ss == Reverse(s)
<1>2. /\ rr \in Texts /\ Len(rr) = Len(r) /\ ss \in Texts /\ Len(ss) = Len(s)
      /\ \A i \in 1 .. Len(r) : rr[i] = r[(Len(r) - i) + 1]
      /\ \A i \in 1 .. Len(s) : ss[i] = s[(Len(s) - i) + 1]
  <2>1. ASSUME NEW t \in Texts
        PROVE  /\ Reverse(t) \in Texts /\ Len(Reverse(t)) = Len(t)
               /\ \A i \in 1 .. Len(t) : Reverse(t)[i] = t[(Len(t) - i) + 1]
    <3>1. Len(t) \in Nat /\ \A i \in 1 .. Len(t) : t[i] \in STRING
      BY LenProperties, ElementOfSeq DEF Texts
    <3>2. \A i \in 1 .. Len(t) : (Len(t) - i) + 1 \in 1 .. Len(t)
      BY <3>1
    <3>3. Reverse(t) = [i \in 1 .. Len(t) |-> t[(Len(t) - i) + 1]]
      BY DEF Reverse
    <3>4. Reverse(t) \in Seq(STRING)
      BY <3>1, <3>2, <3>3, IsASeq
    <3>5. DOMAIN Reverse(t) = 1 .. Len(t)
      BY <3>3
    <3>6. Len(Reverse(t)) = Len(t)
      BY <3>1, <3>4, <3>5, LenProperties
    <3> QED BY <3>3, <3>4, <3>6 DEF Texts
  <2> QED BY <2>1 DEF Ends
<1> HIDE DEF rr, ss
<1>3. \A i \in 1 .. Len(r) : rr[i] = ss[i]
  <2> SUFFICES ASSUME NEW i \in 1 .. Len(r) PROVE rr[i] = ss[i]
    OBVIOUS
  <2> DEFINE k == (Len(r) - i) + 1
  <2>1. k \in 1 .. Len(r) /\ (Len(s) - Len(r)) + k = (Len(s) - i) + 1 /\ i \in 1 .. Len(s)
    BY <1>1
  <2>2. r[k] = s[(Len(s) - Len(r)) + k]
    BY <2>1 DEF Ends
  <2> QED BY <1>2, <2>1, <2>2
<1>4. SubSeq(rr, 1, Len(r)) = SubSeq(ss, 1, Len(r))
  BY <1>1, <1>3
<1> QED BY <1>1, <1>2, <1>4 DEF IsSuffix, IsPrefix, rr, ss

(* A text ends with itself,                                                *)
LEMMA EndsItself == ASSUME NEW s \in Texts PROVE Ends(s, s)
BY LenProperties DEF Ends, Texts

(* With the ends of its ends,                                              *)
LEMMA EndsOfEnds == ASSUME NEW q, NEW r, NEW s, Ends(q, r), Ends(r, s) PROVE Ends(q, s)
<1>1. Len(q) \in Nat /\ Len(r) \in Nat /\ Len(s) \in Nat /\ Len(q) <= Len(r) /\ Len(r) <= Len(s)
  BY LenProperties DEF Ends, Texts
<1>2. ASSUME NEW i \in 1 .. Len(q) PROVE q[i] = s[(Len(s) - Len(q)) + i]
  <2> DEFINE k == (Len(r) - Len(q)) + i
  <2>1. k \in 1 .. Len(r) /\ (Len(s) - Len(r)) + k = (Len(s) - Len(q)) + i
    BY <1>1
  <2>2. q[i] = r[k] /\ r[k] = s[(Len(s) - Len(r)) + k]
    BY <2>1 DEF Ends
  <2> QED BY <2>1, <2>2
<1> QED BY <1>1, <1>2 DEF Ends

(* What is left of a text from some place on is what the text ends with.   *)
LEMMA FromEnds == ASSUME NEW s \in Texts, NEW i \in Nat, i >= 1 PROVE Ends(From(s, i), s)
<1>1. Len(s) \in Nat /\ \A k \in 1 .. Len(s) : s[k] \in STRING
  BY LenProperties, ElementOfSeq DEF Texts
<1>2. /\ From(s, i) \in Seq(STRING)
      /\ Len(From(s, i)) = IF i <= Len(s) THEN Len(s) - i + 1 ELSE 0
      /\ \A k \in 1 .. Len(s) - i + 1 : From(s, i)[k] = s[i + k - 1]
  <2>1. \A k \in i .. Len(s) : s[k] \in STRING
    BY <1>1
  <2> QED BY <1>1, <2>1, SubSeqProperties DEF From
<1> DEFINE r == From(s, i)
<1> HIDE DEF r
<1>3. ASSUME NEW k \in 1 .. Len(r) PROVE r[k] = s[(Len(s) - Len(r)) + k]
  <2>1. i <= Len(s) /\ Len(r) = Len(s) - i + 1
    BY <1>1, <1>2 DEF r
  <2>2. (Len(s) - Len(r)) + k = i + k - 1 /\ k \in 1 .. Len(s) - i + 1
    BY <1>1, <2>1
  <2> QED BY <1>2, <2>2 DEF r
<1>4. r \in Texts /\ Len(r) <= Len(s)
  BY <1>1, <1>2 DEF r, Texts
<1> QED BY <1>3, <1>4 DEF Ends, r

(* And with its tail.                                                      *)
LEMMA TailEnds == ASSUME NEW s \in Texts, s # <<>> PROVE Ends(Tail(s), s)
<1>1. Tail(s) = From(s, 2)
  BY TailIsSubSeq DEF From, Texts
<1>2. Ends(From(s, 2), s)
  BY FromEnds
<1> QED BY <1>1, <1>2

-----------------------------------------------------------------------------
(* A character of a text is a character of the texts that end with it.     *)
Holds(s, c) == \E i \in 1 .. Len(s) : s[i] = c

(* What an end holds, the text holds.                                      *)
LEMMA EndsHolds == ASSUME NEW r, NEW s, Ends(r, s), NEW c, Holds(r, c) PROVE Holds(s, c)
<1>1. PICK i \in 1 .. Len(r) : r[i] = c
  BY DEF Holds
<1>2. Len(r) \in Nat /\ Len(s) \in Nat /\ Len(r) <= Len(s)
  BY LenProperties DEF Ends, Texts
<1>3. (Len(s) - Len(r)) + i \in 1 .. Len(s) /\ s[(Len(s) - Len(r)) + i] = c
  BY <1>1, <1>2 DEF Ends
<1> QED BY <1>3 DEF Holds

(* A token is taken off the front of the text; only a # that starts nothing*)
(* is put back, in front of what follows the character after it.           *)
PutBack(r, s) == Holds(s, "#") /\ \E q : Ends(q, s) /\ r = <<"#">> \o q

(* A token is taken from the front of a text, whatever the text is; only   *)
(* of a bad # something is put back (lex.c:34-90).                         *)
LEMMA NextToken ==
    ASSUME NEW s \in Texts
    PROVE  \/ Ends(read_next_token(s).rest, s)
           \/ read_next_token(s).token = OCTOTHORPE /\ PutBack(read_next_token(s).rest, s)
<1> DEFINE u == From(s, TokenStart(s))
           ch == Head(u)
           t == read_next_token(s)
<1>1. TokenStart(s) \in Nat /\ TokenStart(s) >= 1
  BY TokenStarts, LenProperties DEF Texts
<1>2. Ends(u, s)
  BY <1>1, FromEnds
<1>3. u \in Texts
  BY <1>2 DEF Ends
<1>4. t = IF u = <<>> THEN Token(EOF_VAL, u)
          ELSE IF ch = "(" THEN Token(LEFT_PAREN, Tail(u))
          ELSE IF ch = ")" THEN Token(RIGHT_PAREN, Tail(u))
          ELSE IF ch = "'" THEN Token(APOSTROPHE, Tail(u))
          ELSE IF ch = "#" THEN read_octothorpe(u)
          ELSE IF ch \in DIGITS THEN read_number(u)
          ELSE read_symbol(u)
  BY DEF read_next_token
<1> HIDE DEF u, ch, t
<1>5. \A tok, r : Token(tok, r).rest = r /\ Token(tok, r).token = tok
  BY DEF Token
<1>6. CASE u = <<>>
  <2>1. t.rest = u
    BY <1>4, <1>5, <1>6
  <2> QED BY <1>2, <2>1 DEF t
<1>7. CASE u # <<>> /\ ch \in {"(", ")", "'"}
  <2>1. t.rest = Tail(u)
    BY <1>4, <1>5, <1>7
  <2> QED BY <1>2, <1>3, <1>7, <2>1, TailEnds, EndsOfEnds DEF t
<1>8. CASE t = read_number(u)
  <2> DEFINE n == Span(u, DIGITS, Len(u))
  <2>1. t.rest = From(u, n + 1)
    BY <1>5, <1>8 DEF read_number
  <2>2. n \in Nat
    BY <1>3, SpanBound, LenProperties DEF Texts
  <2> HIDE DEF n
  <2>3. Ends(From(u, n + 1), u)
    BY <1>3, <2>2, FromEnds
  <2> QED BY <1>2, <2>1, <2>3, EndsOfEnds DEF t
<1>9. CASE t = read_symbol(u)
  <2> DEFINE n == Span(u, ALPHABET \cup DIGITS \cup SYMBOLS, BufSize - 1)
  <2>1. t.rest = From(u, n + 1)
    BY <1>5, <1>9 DEF read_symbol
  <2>2. n \in Nat
    <3>1. BufSize - 1 \in Nat
      BY BufSizeAssumption
    <3> QED BY <1>3, <3>1, SpanBound, LenProperties DEF Texts
  <2> HIDE DEF n
  <2>3. Ends(From(u, n + 1), u)
    BY <1>3, <2>2, FromEnds
  <2> QED BY <1>2, <2>1, <2>3, EndsOfEnds DEF t
<1>10. CASE u # <<>> /\ ch = "#" /\ t = read_octothorpe(u)
  <2>1. \/ t.rest = From(u, 3) \/ t.rest = From(u, 4)
        \/ t.token = OCTOTHORPE /\ t.rest = <<"#">> \o From(u, 3)
    <3>1. CASE Len(u) > 1 /\ u[2] \in {"t", "f"}
      <4>1. t = Token(tag_boolean(u[2] = "t"), From(u, 3))
        BY <1>10, <3>1, Zenon DEF read_octothorpe
      <4> QED BY <1>5, <4>1, Zenon
    <3>2. CASE ~ (Len(u) > 1 /\ u[2] \in {"t", "f"}) /\ Len(u) > 1 /\ u[2] = "\\"
      <4>1. t = Token(tag_character(IF Len(u) > 2 THEN u[3] ELSE "eof"), From(u, 4))
        BY <1>10, <3>2, Zenon DEF read_octothorpe
      <4> QED BY <1>5, <4>1, Zenon
    <3>3. CASE ~ (Len(u) > 1 /\ u[2] \in {"t", "f"}) /\ ~ (Len(u) > 1 /\ u[2] = "\\")
      <4>1. t = Token(OCTOTHORPE, <<"#">> \o From(u, 3))
        BY <1>10, <3>3, Zenon DEF read_octothorpe
      <4> QED BY <1>5, <4>1, Zenon
    <3> QED BY <3>1, <3>2, <3>3, Zenon
  <2>2. Ends(From(u, 3), s) /\ Ends(From(u, 4), s)
    BY <1>2, <1>3, FromEnds, EndsOfEnds
  <2>3. Holds(s, "#")
    <3>1. u[1] = "#" /\ 1 \in 1 .. Len(u)
      BY <1>3, <1>10, LenProperties DEF ch, Texts
    <3> QED BY <1>2, <3>1, EndsHolds DEF Holds
  <2> QED BY <2>1, <2>2, <2>3 DEF t, PutBack
<1> QED BY <1>4, <1>6, <1>7, <1>8, <1>9, <1>10 DEF t

(* Any other token leaves a text that the text ended with.                 *)
THEOREM TokensAreConsumed ==
    ASSUME NEW s \in Seq(STRING), read_next_token(s).token # OCTOTHORPE
    PROVE  IsSuffix(read_next_token(s).rest, s)
BY NextToken, EndsIsSuffix DEF Texts

(* A name is cut before it fills the buffer: its terminating zero fits     *)
(* (lex.c:118-121).                                                        *)
THEOREM NamesFitTheBuffer ==
    ASSUME NEW s \in Seq(STRING)
    PROVE  Len(read_symbol(s).token.sym) < BufSize
<1> DEFINE n == Span(s, ALPHABET \cup DIGITS \cup SYMBOLS, BufSize - 1)
<1>1. BufSize - 1 \in Nat /\ BufSize \in Nat /\ Len(s) \in Nat
  BY BufSizeAssumption, LenProperties
<1>2. n \in 0 .. Len(s) /\ n <= BufSize - 1
  BY <1>1, SpanBound DEF Texts
<1>3. read_symbol(s).token.sym = SubSeq(s, 1, n)
  BY DEF read_symbol, Token, tag_symbol
<1> HIDE DEF n
<1>4. \A i \in 1 .. n : s[i] \in STRING
  BY <1>1, <1>2, ElementOfSeq
<1>5. Len(SubSeq(s, 1, n)) = IF 1 <= n THEN n - 1 + 1 ELSE 0
  BY <1>2, <1>4, SubSeqProperties
<1> QED BY <1>1, <1>2, <1>3, <1>5
=============================================================================
