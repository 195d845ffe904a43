-------------------------------- MODULE Lexer --------------------------------
(***************************************************************************)
(* The lexer (lex.c): one token off the front of a text.                   *)
(*                                                                         *)
(* A text is the sequence of the characters a FILE still holds, so fgetc   *)
(* takes the head and ungetc puts one back in front.  A name is the        *)
(* sequence of its characters; vertical tabs count as blanks and the line  *)
(* and column numbers, used in messages only, are left out.                *)
(***************************************************************************)
EXTENDS Values, SequencesExt

CONSTANT BufSize   \* the buffer of read_symbol: 32 in the build

ASSUME BufSizeAssumption == BufSize \in Nat /\ BufSize > 1

WHITESPACE == {" ", "\t", "\n"}
DIGITS     == {"0", "1", "2", "3", "4", "5", "6", "7", "8", "9"}
ALPHABET   == {"a", "b", "c", "d", "e", "f", "g", "h", "i", "j", "k", "l", "m",
               "n", "o", "p", "q", "r", "s", "t", "u", "v", "w", "x", "y", "z",
               "A", "B", "C", "D", "E", "F", "G", "H", "I", "J", "K", "L", "M",
               "N", "O", "P", "Q", "R", "S", "T", "U", "V", "W", "X", "Y", "Z"}
SYMBOLS    == {"<", ">", "+", "-", "*", "/", ":", "?", "^", "%", "&", "@", "!",
               "_", "=", "|", "."}

LEFT_PAREN  == tag_parse_val("left_paren")
RIGHT_PAREN == tag_parse_val("right_paren")
APOSTROPHE  == tag_parse_val("apostrophe")
OCTOTHORPE  == tag_parse_val("octothorpe")
NONE        == tag_parse_val("none")

(* The number of characters at the front of s that are in set, up to max.  *)
Span(s, set, max) ==
    LET fits(k) == k <= max /\ \A i \in 1 .. k : s[i] \in set
    IN  CHOOSE k \in 0 .. Len(s) : fits(k) /\ (k < Len(s) => ~ fits(k + 1))

From(s, i) == SubSeq(s, i, Len(s))

(* Where the next token starts: blanks, comments and characters the lexer  *)
(* does not know (it prints "error!") are passed over.  Up to there every  *)
(* ; starts a comment that ends with the line, or stands in one.           *)
Starters == {"(", ")", "'", "#"} \cup DIGITS \cup ALPHABET \cup SYMBOLS

TokenStart(s) ==
    LET commented(i) == \E j \in 1 .. i : s[j] = ";" /\ \A k \in j .. i : s[k] # "\n"
        starts(i) == i > Len(s) \/ (s[i] \in Starters /\ ~ commented(i))
    IN  CHOOSE i \in 1 .. Len(s) + 1 : starts(i) /\ \A j \in 1 .. i - 1 : ~ starts(j)

Token(token, rest) == [token |-> token, rest |-> rest]

DigitValue == [d \in DIGITS |->
    CASE d = "0" -> 0 [] d = "1" -> 1 [] d = "2" -> 2 [] d = "3" -> 3 [] d = "4" -> 4
      [] d = "5" -> 5 [] d = "6" -> 6 [] d = "7" -> 7 [] d = "8" -> 8 [] d = "9" -> 9]

(* Mutant of read_number: the character after the digits is not put back.  *)
read_number_on(s) ==
    LET n == Span(s, DIGITS, Len(s))
        value[i \in 0 .. n] ==
            IF i = 0 THEN 0 ELSE (10 * value[i - 1] + DigitValue[s[i]]) % IntMod
    IN  Token(tag_integer(value[n]), From(s, n + 2))

(* The digits at the front of s.  The sum is kept in a long and            *)
(* tag_integer drops its upper bits: together, a remainder.                *)
read_number(s) ==
    LET n == Span(s, DIGITS, Len(s))
        value[i \in 0 .. n] ==
            IF i = 0 THEN 0 ELSE (10 * value[i - 1] + DigitValue[s[i]]) % IntMod
    IN  Token(tag_integer(value[n]), From(s, n + 1))

(* A name, cut where the buffer is full; what is left of it stays in s.    *)
read_symbol(s) ==
    LET n == Span(s, ALPHABET \cup DIGITS \cup SYMBOLS, BufSize - 1)
    IN  Token(tag_symbol(SubSeq(s, 1, n)), From(s, n + 1))

(* After #: a boolean, a character, or else the character after it is lost *)
(* and the # goes back.                                                    *)
read_octothorpe(s) ==
    IF Len(s) > 1 /\ s[2] \in {"t", "f"} THEN Token(tag_boolean(s[2] = "t"), From(s, 3))
    ELSE IF Len(s) > 1 /\ s[2] = "\\"
      THEN Token(tag_character(IF Len(s) > 2 THEN s[3] ELSE "eof"), From(s, 4))
    ELSE Token(OCTOTHORPE, <<"#">> \o From(s, 3))

read_next_token(text) ==
    LET s == From(text, TokenStart(text))
        c == Head(s)
    IN  IF s = <<>> THEN Token(EOF_VAL, s)
        ELSE IF c = "(" THEN Token(LEFT_PAREN, Tail(s))
        ELSE IF c = ")" THEN Token(RIGHT_PAREN, Tail(s))
        ELSE IF c = "'" THEN Token(APOSTROPHE, Tail(s))
        ELSE IF c = "#" THEN read_octothorpe(s)
        ELSE IF c \in DIGITS THEN read_number(s)
        ELSE read_symbol(s)
=============================================================================
